--------------------------- MODULE StagingEvidence ---------------------------
(***************************************************************************)
(* The evidence of a staging deployment: the persistence bootstrap, the    *)
(* rollout and the authenticated smoke, and what the recovery rehearsal    *)
(* accepts of them.  The operator moves the checkout and ATOMS_IMAGE_TAG,  *)
(* rolls out when he likes, and repeats a script that failed halfway; a    *)
(* new evidence file has a new name.                                       *)
(***************************************************************************)
EXTENDS Naturals, Sequences

CONSTANTS
    Revisions,    \* revisions of the repository
    Tickets,      \* change tickets
    RoleSeq,      \* PERSISTENT_VOLUME_ROLES
    AttemptBound, \* bound: scripts started
    None

(* What the constants satisfy; the modules that instantiate this one assume it. *)
StagingEvidenceAssumption ==
    /\ AttemptBound \in Nat /\ Len(RoleSeq) \in Nat \ {0}
    /\ Tickets # {} /\ None \notin Revisions

VARIABLES
    tag,       \* ATOMS_IMAGE_TAG and the clean checkout
    images,    \* the revision the application containers run
    volume,    \* the persistence volumes by ownership
    bucket,    \* the attachment bucket exists
    up,        \* the persistent services run
    migrated,  \* revisions whose migrations the database has
    boot,      \* the bootstrap script
    smoke,     \* the smoke script
    bootFiles, smokeFiles, \* evidence written so far
    recovery,  \* how the last start of a recovery rehearsal was answered
    attempts

host == <<tag, images, volume, bucket, up, migrated>>
vars == <<host, boot, smoke, bootFiles, smokeFiles, recovery, attempts>>

Roles == {RoleSeq[i] : i \in 1 .. Len(RoleSeq)}

BootGates == {"secret_safe_preflight", "clean_revision_pin", "external_volume_ownership",
              "persistent_service_health", "private_attachment_bucket",
              "prisma_migrate_deploy", "prisma_migrate_status"}
RequiredBootstrapGates == BootGates

(* The checks the smoke pushes, and those the rehearsal requires. *)
SmokeChecks == {"web_https_and_csp", "control_api_health", "cors_and_auth_boundary",
                "entra_control_api_identity", "two_identity_workspace_isolation",
                "attachment_upload_scan_download", "sse_reconnect_and_scoped_approvals",
                "project_capability_routing", "signed_preview_security", "run_completed"}
RequiredSmokeChecks == {"web_https_and_csp", "control_api_health", "cors_and_auth_boundary",
                        "two_identity_workspace_isolation", "attachment_upload_scan_download",
                        "sse_reconnect_and_scoped_approvals", "seven_agent_artifacts",
                        "signed_preview_security", "run_completed"}

BootSteps == {"idle", "volume", "up", "bucket", "migrate", "status", "services", "evidence"}
Idle == [pc |-> "idle", ticket |-> CHOOSE t \in Tickets : TRUE, revision |-> None, done |-> 0]
BootEvidence == [revision : Revisions, ticket : Tickets, gates : {BootGates}]
(* `tested' is history: the revisions that served the smoke. *)
SmokeEvidence == [revision : Revisions, ticket : Tickets, checks : {SmokeChecks}, tested : SUBSET Revisions]

TypeOK ==
    /\ tag \in Revisions /\ images \in Revisions \union {None}
    /\ volume \in [Roles -> {"absent", "owned", "foreign"}] /\ bucket \in BOOLEAN /\ up \in BOOLEAN
    /\ migrated \subseteq Revisions
    /\ boot \in [pc : BootSteps, ticket : Tickets, revision : Revisions \union {None}, done : 0 .. Len(RoleSeq)]
    /\ smoke \in [pc : {"idle", "run"}, ticket : Tickets, revision : Revisions \union {None}, tested : SUBSET Revisions]
    /\ bootFiles \subseteq BootEvidence /\ smokeFiles \subseteq SmokeEvidence
    /\ recovery \in {"none", "accepted", "refused"} /\ attempts \in 0 .. AttemptBound

Init ==
    /\ tag \in Revisions /\ images = None
    /\ volume \in [Roles -> {"absent", "foreign"}]
    /\ bucket = FALSE /\ up = FALSE /\ migrated = {}
    /\ boot = Idle
    /\ smoke = [pc |-> "idle", ticket |-> CHOOSE t \in Tickets : TRUE, revision |-> None, tested |-> {}]
    /\ bootFiles = {} /\ smokeFiles = {} /\ recovery = "none" /\ attempts = 0

-----------------------------------------------------------------------------
(* The operator *)

Attempt == attempts < AttemptBound /\ attempts' = attempts + 1

(* Another checkout with its image tag.  The smoke reads both when it starts; the *)
(* bootstrap hands the environment file to every command, so it is not edited then. *)
Checkout(r) ==
    /\ r # tag /\ boot.pc = "idle" /\ tag' = r
    /\ UNCHANGED <<images, volume, bucket, up, migrated, boot, smoke, bootFiles, smokeFiles, recovery, attempts>>

(* compose up of the applications on the tag: the migrations are done. *)
Rollout ==
    /\ up /\ tag \in migrated /\ images # tag
    /\ images' = tag
    /\ smoke' = [smoke EXCEPT !.tested = IF smoke.pc = "run" THEN @ \union {tag} ELSE @]
    /\ UNCHANGED <<tag, volume, bucket, up, migrated, boot, bootFiles, smokeFiles, recovery, attempts>>

(* The operator removes a volume of another project that holds the name. *)
RemoveForeignVolume(role) ==
    /\ volume[role] = "foreign" /\ boot.pc = "idle"
    /\ volume' = [volume EXCEPT ![role] = "absent"]
    /\ UNCHANGED <<tag, images, bucket, up, migrated, boot, smoke, bootFiles, smokeFiles, recovery, attempts>>

(* A persistent service is down until a bootstrap starts it again. *)
ServiceGoesDown ==
    /\ up /\ up' = FALSE
    /\ UNCHANGED <<tag, images, volume, bucket, migrated, boot, smoke, bootFiles, smokeFiles, recovery, attempts>>

-----------------------------------------------------------------------------
(* bootstrapStagingPersistence *)

(* runProcess: a command that fails stops the script where it is. *)
Exit(ok, next) == IF ok THEN [boot EXCEPT !.pc = next] ELSE Idle

(* Preflight, revision pin, docker, images; the evidence file does not exist. *)
StartBootstrap(t) ==
    /\ boot.pc = "idle" /\ Attempt
    /\ boot' = [pc |-> "volume", ticket |-> t, revision |-> tag, done |-> 0]
    /\ UNCHANGED <<host, smoke, bootFiles, smokeFiles, recovery>>

(* A volume that is absent is created with the labels of the project. *)
Ensured(state) == IF state = "absent" THEN "owned" ELSE state

(* The labels of the volume, created or reused, are those of the project. *)
MismatchFree(state) == state = "owned"

EnsureVolume ==
    LET role == RoleSeq[boot.done + 1]
        state == Ensured(volume[role])
    IN
    /\ boot.pc = "volume"
    /\ volume' = [volume EXCEPT ![role] = state]
    /\ boot' = IF ~MismatchFree(state) THEN Idle
               ELSE IF boot.done + 1 = Len(RoleSeq) THEN [boot EXCEPT !.pc = "up"]
               ELSE [boot EXCEPT !.done = @ + 1]
    /\ UNCHANGED <<tag, images, bucket, up, migrated, smoke, bootFiles, smokeFiles, recovery, attempts>>

StartServices ==
    /\ boot.pc = "up" /\ up' = TRUE /\ boot' = [boot EXCEPT !.pc = "bucket"]
    /\ UNCHANGED <<tag, images, volume, bucket, migrated, smoke, bootFiles, smokeFiles, recovery, attempts>>

InitializeBucket ==
    /\ boot.pc = "bucket" /\ up /\ bucket' = TRUE /\ boot' = [boot EXCEPT !.pc = "migrate"]
    /\ UNCHANGED <<tag, images, volume, up, migrated, smoke, bootFiles, smokeFiles, recovery, attempts>>

(* migrate deploy applies the migrations of the image, or fails with some left. *)
Migrate ==
    /\ boot.pc = "migrate" /\ up
    /\ \E done \in BOOLEAN :
          /\ migrated' = migrated \union (IF done THEN {boot.revision} ELSE {})
          /\ boot' = Exit(done, "status")
    /\ UNCHANGED <<tag, images, volume, bucket, up, smoke, bootFiles, smokeFiles, recovery, attempts>>

(* migrate status: no migration of the image is pending. *)
Complete == boot.revision \in migrated

(* migrate status, then the services are listed again. *)
ConfirmMigrations ==
    /\ boot.pc = "status" /\ up
    /\ boot' = Exit(Complete, "services")
    /\ UNCHANGED <<host, smoke, bootFiles, smokeFiles, recovery, attempts>>

ConfirmServices ==
    /\ boot.pc = "services"
    /\ boot' = Exit(up, "evidence")
    /\ UNCHANGED <<host, smoke, bootFiles, smokeFiles, recovery, attempts>>

WriteBootstrapEvidence ==
    /\ boot.pc = "evidence" /\ boot' = Idle
    /\ bootFiles' = bootFiles \union {[revision |-> boot.revision, ticket |-> boot.ticket, gates |-> BootGates]}
    /\ UNCHANGED <<host, smoke, smokeFiles, recovery, attempts>>

(* Any other command fails: nothing is undone. *)
BootstrapFails ==
    /\ boot.pc # "idle" /\ boot' = Idle
    /\ UNCHANGED <<host, smoke, bootFiles, smokeFiles, recovery, attempts>>

BootstrapStep ==
    \/ EnsureVolume \/ StartServices \/ InitializeBucket \/ Migrate \/ ConfirmMigrations
    \/ ConfirmServices \/ WriteBootstrapEvidence \/ BootstrapFails

-----------------------------------------------------------------------------
(* executeAuthenticatedStagingSmoke and the start of rehearseStagingRecovery *)

(* The revision is the tag of the environment file, checked against the checkout. *)
StartSmoke(t) ==
    /\ smoke.pc = "idle" /\ Attempt
    /\ images # None /\ up
    /\ smoke' = [pc |-> "run", ticket |-> t, revision |-> tag, tested |-> {images}]
    /\ UNCHANGED <<host, boot, bootFiles, smokeFiles, recovery>>

SmokePasses ==
    /\ smoke.pc = "run"
    /\ smoke' = [smoke EXCEPT !.pc = "idle"]
    /\ smokeFiles' = smokeFiles \union {[revision |-> smoke.revision, ticket |-> smoke.ticket,
                                         checks |-> SmokeChecks, tested |-> smoke.tested]}
    /\ UNCHANGED <<host, boot, bootFiles, recovery, attempts>>

SmokeFails ==
    /\ smoke.pc = "run" /\ smoke' = [smoke EXCEPT !.pc = "idle"]
    /\ UNCHANGED <<host, boot, bootFiles, smokeFiles, recovery, attempts>>

(* readPrerequisiteEvidence of two evidence files. *)
Accepts(b, s, revision, t) ==
    /\ b.revision = revision /\ b.ticket = t /\ RequiredBootstrapGates \subseteq b.gates
    /\ s.revision = revision /\ s.ticket = t /\ RequiredSmokeChecks \subseteq s.checks

StartRecovery(b, s, t) ==
    /\ Attempt
    /\ recovery' = IF Accepts(b, s, tag, t) THEN "accepted" ELSE "refused"
    /\ UNCHANGED <<host, boot, smoke, bootFiles, smokeFiles>>

-----------------------------------------------------------------------------

Next ==
    \/ \E r \in Revisions : Checkout(r)
    \/ Rollout \/ ServiceGoesDown
    \/ \E role \in Roles : RemoveForeignVolume(role)
    \/ \E t \in Tickets :
          \/ StartBootstrap(t) \/ StartSmoke(t)
          \/ \E b \in bootFiles, s \in smokeFiles : StartRecovery(b, s, t)
    \/ BootstrapStep \/ SmokePasses \/ SmokeFails

Spec == Init /\ [][Next]_vars

-----------------------------------------------------------------------------
(* Properties *)

(* Bootstrap evidence is earned across attempts that failed halfway: every      *)
(* volume is the project's own, the bucket exists and the database has the      *)
(* migrations of the revision it names.                                         *)
BootstrapIsEarned ==
    \A b \in bootFiles :
        (\A role \in Roles : volume[role] = "owned") /\ bucket /\ b.revision \in migrated

(* The persistent services are never started on a volume that another project   *)
(* owns, although the script reuses what it finds.                              *)
StartsOnOwnVolumes == up => \A role \in Roles : volume[role] = "owned"

(* The script never takes over or replaces a volume that exists.                *)
VolumesAreKept ==
    boot.pc # "idle" => \A role \in Roles : volume[role] # "absent" => volume'[role] = volume[role]

(* Smoke evidence of a revision and ticket, with bootstrap evidence of the same, *)
(* is accepted by the recovery rehearsal.                                        *)
SmokeEvidenceIsAccepted ==
    \A b \in bootFiles, s \in smokeFiles :
        b.revision = s.revision /\ b.ticket = s.ticket => Accepts(b, s, s.revision, s.ticket)

(* The revision of smoke evidence is the one that was deployed and tested. *)
SmokeNamesWhatItTested == \A s \in smokeFiles : s.tested = {s.revision}

=============================================================================
