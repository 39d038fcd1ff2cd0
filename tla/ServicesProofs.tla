---------------------------- MODULE ServicesProofs ----------------------------
(***************************************************************************)
(* The parts that MCServices composes, with what is proved of each of them *)
(* carried over to the composition: while a part runs, its variables take  *)
(* steps of that part alone, so the part's own theorem holds of them.      *)
(***************************************************************************)
EXTENDS MCServices, TLAPS

Plays(name) == part = name

\* Beside the runs, with assessments of a run's workers that may fail and validations
\* that are tried again ...
Office == INSTANCE OperationsProofs WITH
    status <- s1, version <- s2, externalId <- s3, exists <- s4, created <- s5, exec <- s6,
    lease <- s7, sweep <- s8, orphan <- s9, missing <- s10, seenBy <- s11,
    Workers <- {One}, SweepBound <- 4, MaxResources <- 1, VersionBound <- 2,
    AbandonedSurvives <- FALSE, CleanupEnabled <- TRUE,
    slug <- s1, database <- s2, password <- s3, projects <- s4, operation <- s5, connection <- s6,
    leases <- s7, sandboxes <- s8, execution <- s9, excused <- s10, projectId <- s11,
    MaxExecutions <- 3, Duplicates <- FALSE, Store <- "memory", Faults <- TRUE,
    Slugs <- {<<"x", "x">>, <<"x", "x", "-", "x">>, <<>>}, SlugBound <- 3,
    prospect <- s1, deal <- s2, tx <- s3, handoff <- s4, handing <- s5, faults <- s6, won <- s7,
    Scopes <- {One, Other}, Clients <- First, Boxes <- {Only}, DealIds <- {"d1", "d2"},
    Sweepers <- Second, FaultBound <- 1,
    scope <- s1, sequence <- s2, outcome <- s3, suppressed <- s4, request <- s5, scores <- s6,
    cached <- s7, seen <- s8,
    Names <- {Only}, Steps <- {0}, Reasons <- {"UNSUBSCRIBED", "BOUNCED"},
    Members <- {"OWNER", "MEMBER", "none"}, TimeBound <- 2,
    runStatus <- s1, runVersion <- s2, files <- s3, criteria <- s4, session <- s5, work <- s6,
    assessment <- s7, evidence <- s8, announced <- s9, failures <- s10, delivered <- s11,
    manual <- s12, lost <- s13,
    Replicas <- First, Baseline <- {"TEST"}, RequiredChecks <- {"TEST"}, Attempts <- {1, 2},
    FileBound <- 1, DeliveryBound <- 2, ManualBound <- 0,
    env <- s1, dated <- s2, skew <- s3, beat <- s4, redis <- s5, reported <- s6, enabled <- s7,
    kept <- s8, replied <- s9, lastFull <- s10,
    Gates <- {"G5"}, Egress <- "G5", HeartbeatMs <- 1, MaxAgeMs <- 2, CacheMs <- 1, Skews <- {0, 1},
    NoReport <- Nothing,
    run <- s1, job <- s2, reopen <- s3, validation <- s4, sandbox <- s5, expired <- s6, recorded <- s7,
    command <- s8, preview <- s9, store <- s10, asked <- s11, answered <- s12, crashes <- s13,
    unheard <- s14, contested <- s15,
    Validators <- First, Sandboxes <- Second, MaxAttempts <- 2, MaxRepairs <- 1, MaxVersion <- 2,
    ReopenBound <- 1, CrashBound <- 0, CleanupFails <- FALSE, DbFails <- TRUE,
    NoSession <- Nothing,
    scanStatus <- s1, scanVersion <- s2, cleanKey <- s3, uploadExpired <- s4, quarantine <- s5,
    clean <- s6, completing <- s7, scanJob <- s8, scanning <- s9, snapshot <- s10, loaded <- s11,
    Contents <- {One, Other, Invalid}, Acceptable <- {One}, Mismatched <- {Other},
    Completions <- First, Executors <- Second, StallBound <- 1, DuplicateScans <- TRUE,
    LateUploads <- TRUE, ApiCrashes <- TRUE, ScanDbFails <- TRUE, NoBytes <- Nothing,
    mainStep <- s1, toClose <- s2, taking <- s3, working <- s4, openStores <- s5, timers <- s6,
    handlers <- s7, signals <- s8, Phase3 <- TRUE, SignalBound <- 1

\* ... and with one worker and a member who assesses by hand, and validations of a run
\* that is resumed beside its old execution.
Desk == INSTANCE OperationsProofs WITH
    status <- s1, version <- s2, externalId <- s3, exists <- s4, created <- s5, exec <- s6,
    lease <- s7, sweep <- s8, orphan <- s9, missing <- s10, seenBy <- s11,
    Workers <- {One}, SweepBound <- 4, MaxResources <- 1, VersionBound <- 2,
    AbandonedSurvives <- FALSE, CleanupEnabled <- TRUE,
    slug <- s1, database <- s2, password <- s3, projects <- s4, operation <- s5, connection <- s6,
    leases <- s7, sandboxes <- s8, execution <- s9, excused <- s10, projectId <- s11,
    MaxExecutions <- 3, Duplicates <- FALSE, Store <- "memory", Faults <- TRUE,
    Slugs <- {<<"x", "x">>, <<"x", "x", "-", "x">>, <<>>}, SlugBound <- 3,
    prospect <- s1, deal <- s2, tx <- s3, handoff <- s4, handing <- s5, faults <- s6, won <- s7,
    Scopes <- {One, Other}, Clients <- First, Boxes <- {Only}, DealIds <- {"d1", "d2"},
    Sweepers <- Second, FaultBound <- 0,
    scope <- s1, sequence <- s2, outcome <- s3, suppressed <- s4, request <- s5, scores <- s6,
    cached <- s7, seen <- s8,
    Names <- {Only}, Steps <- {0}, Reasons <- {"UNSUBSCRIBED", "BOUNCED"},
    Members <- {"OWNER", "MEMBER", "none"}, TimeBound <- 2,
    runStatus <- s1, runVersion <- s2, files <- s3, criteria <- s4, session <- s5, work <- s6,
    assessment <- s7, evidence <- s8, announced <- s9, failures <- s10, delivered <- s11,
    manual <- s12, lost <- s13,
    Replicas <- {One}, Baseline <- {"TEST"}, RequiredChecks <- {"TEST"}, Attempts <- {1, 2},
    FileBound <- 2, DeliveryBound <- 2, ManualBound <- 1,
    env <- s1, dated <- s2, skew <- s3, beat <- s4, redis <- s5, reported <- s6, enabled <- s7,
    kept <- s8, replied <- s9, lastFull <- s10,
    Gates <- {"G5"}, Egress <- "G5", HeartbeatMs <- 1, MaxAgeMs <- 2, CacheMs <- 1, Skews <- {0, 1},
    NoReport <- Nothing,
    run <- s1, job <- s2, reopen <- s3, validation <- s4, sandbox <- s5, expired <- s6, recorded <- s7,
    command <- s8, preview <- s9, store <- s10, asked <- s11, answered <- s12, crashes <- s13,
    unheard <- s14, contested <- s15,
    Validators <- First, Sandboxes <- Second, MaxAttempts <- 1, MaxRepairs <- 1, MaxVersion <- 3,
    ReopenBound <- 1, CrashBound <- 0, CleanupFails <- FALSE, DbFails <- TRUE,
    NoSession <- Nothing,
    scanStatus <- s1, scanVersion <- s2, cleanKey <- s3, uploadExpired <- s4, quarantine <- s5,
    clean <- s6, completing <- s7, scanJob <- s8, scanning <- s9, snapshot <- s10, loaded <- s11,
    Contents <- {One, Other, Invalid}, Acceptable <- {One}, Mismatched <- {Other},
    Completions <- First, Executors <- Second, StallBound <- 1, DuplicateScans <- TRUE,
    LateUploads <- TRUE, ApiCrashes <- TRUE, ScanDbFails <- TRUE, NoBytes <- Nothing,
    mainStep <- s1, toClose <- s2, taking <- s3, working <- s4, openStores <- s5, timers <- s6,
    handlers <- s7, signals <- s8, Phase3 <- TRUE, SignalBound <- 1

\* The pages, with two files and two meeting pages ...
Web == INSTANCE PageProofs WITH
    run <- s1, counter <- s2, log <- s3, txn <- s4, conn <- s5, client <- s6, shown <- s7,
    asked <- s8, reloads <- s9,
    Writers <- First, PageSize <- 2, MaxEvents <- 3, StreamVersions <- 1, ReloadBound <- 1,
    MayRetry <- TRUE, MayLeave <- TRUE, LateAnswers <- TRUE, NetworkErrors <- TRUE,
    file <- s1, listed <- s2, selected <- s3, editor <- s4, previous <- s5, opening <- s6,
    saving <- s7, Paths <- First, EditorVersions <- 2, NotRead <- NotRead, Conflict <- Refused,
    meeting <- s1, page <- s2, briefForm <- s3, load <- s4, save <- s5,
    Workspaces <- {Only}, Pages <- First, Briefs <- {One, Other}, Invalid <- Invalid, MountBound <- 2,
    attachment <- s1, runs <- s2, launchForm <- s3, launch <- s4, intent <- s5, records <- s6,
    request <- s7, pointer <- s8, shownRun <- s9, restoring <- s10,
    Prompts <- {One, Other}, Files <- First, MaxAttachments <- 2, MaxSubmissions <- 3, MaxRuns <- 2,
    Lossy <- {"intent", "upload", "complete", "create", "restore"}, MayExpire <- TRUE,
    None <- Nothing, Pending <- Pending

\* ... and with one file of many versions and one meeting page.
Narrow == INSTANCE PageProofs WITH
    run <- s1, counter <- s2, log <- s3, txn <- s4, conn <- s5, client <- s6, shown <- s7,
    asked <- s8, reloads <- s9,
    Writers <- First, PageSize <- 2, MaxEvents <- 3, StreamVersions <- 1, ReloadBound <- 1,
    MayRetry <- TRUE, MayLeave <- TRUE, LateAnswers <- TRUE, NetworkErrors <- TRUE,
    file <- s1, listed <- s2, selected <- s3, editor <- s4, previous <- s5, opening <- s6,
    saving <- s7, Paths <- {One}, EditorVersions <- 4, NotRead <- NotRead, Conflict <- Refused,
    meeting <- s1, page <- s2, briefForm <- s3, load <- s4, save <- s5,
    Workspaces <- First, Pages <- {Only}, Briefs <- {One}, Invalid <- Invalid, MountBound <- 3,
    attachment <- s1, runs <- s2, launchForm <- s3, launch <- s4, intent <- s5, records <- s6,
    request <- s7, pointer <- s8, shownRun <- s9, restoring <- s10,
    Prompts <- {One, Other}, Files <- First, MaxAttachments <- 2, MaxSubmissions <- 3, MaxRuns <- 2,
    Lossy <- {"intent", "upload", "complete", "create", "restore"}, MayExpire <- TRUE,
    None <- Nothing, Pending <- Pending

-----------------------------------------------------------------------------
(* What a part is here is what it is in the module of its proofs *)

LEMMA PartStays == [Next]_vars => part' = part
<1>1. ASSUME vars' = vars PROVE part' = part
  BY <1>1 DEF vars
<1>2. ASSUME Next PROVE part' = part
  <2>1. /\ <<part, s12, s13, s14, s15>>' = <<part, s12, s13, s14, s15>> => part' = part
        /\ <<part>>' = <<part>> => part' = part
        /\ <<part, s14, s15>>' = <<part, s14, s15>> => part' = part
        /\ <<part, s11, s12, s13, s14, s15>>' = <<part, s11, s12, s13, s14, s15>> => part' = part
        /\ <<part, s10, s11, s12, s13, s14, s15>>' = <<part, s10, s11, s12, s13, s14, s15>> => part' = part
        /\ <<part, s8, s9, s10, s11, s12, s13, s14, s15>>' = <<part, s8, s9, s10, s11, s12, s13, s14, s15>> => part' = part
        /\ <<part, s9, s10, s11, s12, s13, s14, s15>>' = <<part, s9, s10, s11, s12, s13, s14, s15>> => part' = part
        /\ <<part, s6, s7, s8, s9, s10, s11, s12, s13, s14, s15>>' = <<part, s6, s7, s8, s9, s10, s11, s12, s13, s14, s15>> => part' = part
    OBVIOUS
  <2>2. QED
    BY <1>2, <2>1, Zenon DEF Next
<1>3. QED
  BY <1>1, <1>2

LEMMA ScanSame ==
    /\ Attachments!AttachmentScanAssumption => Office!Attachment!AttachmentScanAssumption
    /\ Attachments!Init => Office!Attachment!Init
    /\ Attachments!Next => Office!Attachment!Next
    /\ Office!Attachment!TypeOK => Attachments!TypeOK
    /\ Office!Attachment!RunReadsScannedBytes => Attachments!RunReadsScannedBytes
    /\ Office!Attachment!VerdictIsFinal => Attachments!VerdictIsFinal
BY DEF Attachments!AttachmentScanAssumption, Office!Attachment!AttachmentScanAssumption,
       Attachments!row, Office!Attachment!row, Attachments!storage,
       Office!Attachment!storage, Attachments!run, Office!Attachment!run,
       Attachments!Statuses, Office!Attachment!Statuses, Attachments!Object,
       Office!Attachment!Object, Attachments!NoJob, Office!Attachment!NoJob,
       Attachments!RequestPcs, Office!Attachment!RequestPcs, Attachments!ExecPcs,
       Office!Attachment!ExecPcs, Attachments!IdleExec, Office!Attachment!IdleExec,
       Attachments!TypeOK, Office!Attachment!TypeOK, Attachments!IdleRequest,
       Office!Attachment!IdleRequest, Attachments!Init, Office!Attachment!Init,
       Attachments!Upload, Office!Attachment!Upload, Attachments!UploadExpires,
       Office!Attachment!UploadExpires, Attachments!GotoR, Office!Attachment!GotoR,
       Attachments!Awaiting, Office!Attachment!Awaiting, Attachments!BeginComplete,
       Office!Attachment!BeginComplete, Attachments!HeadObject,
       Office!Attachment!HeadObject, Attachments!CompleteUpload,
       Office!Attachment!CompleteUpload, Attachments!NewJob, Office!Attachment!NewJob,
       Attachments!Enqueue, Office!Attachment!Enqueue, Attachments!FailAttachment,
       Office!Attachment!FailAttachment, Attachments!DeleteUpload,
       Office!Attachment!DeleteUpload, Attachments!ApiDies, Office!Attachment!ApiDies,
       Attachments!Goto, Office!Attachment!Goto, Attachments!HasLock,
       Office!Attachment!HasLock, Attachments!Return, Office!Attachment!Return,
       Attachments!Deliver, Office!Attachment!Deliver, Attachments!Claimable,
       Office!Attachment!Claimable, Attachments!Claims, Office!Attachment!Claims,
       Attachments!ClaimRow, Office!Attachment!ClaimRow, Attachments!Retried,
       Office!Attachment!Retried, Attachments!Abandon, Office!Attachment!Abandon,
       Attachments!Claim, Office!Attachment!Claim, Attachments!Throw,
       Office!Attachment!Throw, Attachments!GetObject, Office!Attachment!GetObject,
       Attachments!Inspect, Office!Attachment!Inspect, Attachments!Owns,
       Office!Attachment!Owns, Attachments!Reject, Office!Attachment!Reject,
       Attachments!CopyObject, Office!Attachment!CopyObject, Attachments!CommitClean,
       Office!Attachment!CommitClean, Attachments!CompleteClean,
       Office!Attachment!CompleteClean, Attachments!DeleteSource,
       Office!Attachment!DeleteSource, Attachments!DeleteClean,
       Office!Attachment!DeleteClean, Attachments!FailScan, Office!Attachment!FailScan,
       Attachments!ExecutorDies, Office!Attachment!ExecutorDies, Attachments!Stall,
       Office!Attachment!Stall, Attachments!CreateRun, Office!Attachment!CreateRun,
       Attachments!Accepts, Office!Attachment!Accepts, Attachments!LoadAttachment,
       Office!Attachment!LoadAttachment, Attachments!RequestNext,
       Office!Attachment!RequestNext, Attachments!ExecutorNext,
       Office!Attachment!ExecutorNext, Attachments!Next, Office!Attachment!Next,
       Attachments!RunReadsScannedBytes, Office!Attachment!RunReadsScannedBytes,
       Attachments!VerdictIsFinal, Office!Attachment!VerdictIsFinal

LEMMA ScanRuns ==
    /\ Office!Attachment!AttachmentScanAssumption
    /\ Init /\ Plays("attachments") => Office!Attachment!Init
    /\ Plays("attachments") /\ [Next]_vars => Plays("attachments")' /\ [Office!Attachment!Next]_(Office!Attachment!vars)
    /\ ~ Plays("attachments") /\ [Next]_vars => ~ Plays("attachments")'
<1>1. Office!Attachment!AttachmentScanAssumption
  BY ScanSame, ServicesAssumption
<1>2. Init /\ Plays("attachments") => Office!Attachment!Init
  BY ScanSame DEF Init, Plays
<1>3. Plays("attachments") /\ [Next]_vars => Plays("attachments")' /\ [Office!Attachment!Next]_(Office!Attachment!vars)
  BY ScanSame DEF Next, vars, Plays, Office!Attachment!vars, Office!Attachment!row,
     Office!Attachment!storage, Office!Attachment!run
<1>4. ~ Plays("attachments") /\ [Next]_vars => ~ Plays("attachments")'
  BY PartStays DEF Plays
<1>5. QED
  BY <1>1, <1>2, <1>3, <1>4

LEMMA PreviewingSame ==
    /\ Previews!PreviewSessionAssumption => Desk!Preview!PreviewSessionAssumption
    /\ Previews!Init => Desk!Preview!Init
    /\ Previews!Next => Desk!Preview!Next
    /\ Desk!Preview!TypeOK => Previews!TypeOK
    /\ Desk!Preview!NoSandboxIsForgotten => Previews!NoSandboxIsForgotten
    /\ Desk!Preview!PublishedIsValidated => Previews!PublishedIsValidated
    /\ Desk!Preview!PublishedPreviewIsServed => Previews!PublishedPreviewIsServed
<1>1. Previews!PreviewSessionAssumption => Desk!Preview!PreviewSessionAssumption
  BY DEF Previews!PreviewSessionAssumption, Desk!Preview!PreviewSessionAssumption
<1>2. Previews!Init => Desk!Preview!Init
  BY DEF Previews!Stride, Desk!Preview!Stride, Previews!FirstReopen,
         Desk!Preview!FirstReopen, Previews!RunSessions, Desk!Preview!RunSessions,
         Previews!ReopenSessions, Desk!Preview!ReopenSessions, Previews!Sessions,
         Desk!Preview!Sessions, Previews!Checks, Desk!Preview!Checks, Previews!Gating,
         Desk!Preview!Gating, Previews!Idle, Desk!Preview!Idle, Previews!Init,
         Desk!Preview!Init
<1>3. Previews!Next => Desk!Preview!Next
  <2>1. Previews!Stop => Desk!Preview!Stop
    BY DEF Previews!rows, Desk!Preview!rows, Previews!history, Desk!Preview!history,
           Previews!Stop, Desk!Preview!Stop
  <2>2. Previews!Resume => Desk!Preview!Resume
    BY DEF Previews!rows, Desk!Preview!rows, Previews!history, Desk!Preview!history,
           Previews!Resume, Desk!Preview!Resume
  <2>3. Previews!RequestReopen => Desk!Preview!RequestReopen
    BY DEF Previews!rows, Desk!Preview!rows, Previews!history, Desk!Preview!history,
           Previews!Stride, Desk!Preview!Stride, Previews!FirstReopen,
           Desk!Preview!FirstReopen, Previews!RunSessions, Desk!Preview!RunSessions,
           Previews!ReopenSessions, Desk!Preview!ReopenSessions, Previews!Sessions,
           Desk!Preview!Sessions, Previews!Live, Desk!Preview!Live, Previews!RequestReopen,
           Desk!Preview!RequestReopen
  <2>4. \A b \in Second : Previews!Expire(b) => Desk!Preview!Expire(b)
    BY DEF Previews!rows, Desk!Preview!rows, Previews!history, Desk!Preview!history,
           Previews!Stride, Desk!Preview!Stride, Previews!FirstReopen,
           Desk!Preview!FirstReopen, Previews!RunSessions, Desk!Preview!RunSessions,
           Previews!ReopenSessions, Desk!Preview!ReopenSessions, Previews!Sessions,
           Desk!Preview!Sessions, Previews!Expire, Desk!Preview!Expire
  <2>5. \A w \in First : Previews!Deliver(w) => Desk!Preview!Deliver(w)
    BY DEF Previews!rows, Desk!Preview!rows, Previews!history, Desk!Preview!history,
           Previews!Idle, Desk!Preview!Idle, Previews!Deliver, Desk!Preview!Deliver
  <2>6. \A w \in First : Previews!DeliverReopen(w) => Desk!Preview!DeliverReopen(w)
    BY DEF Previews!rows, Desk!Preview!rows, Previews!history, Desk!Preview!history,
           Previews!Idle, Desk!Preview!Idle, Previews!DeliverReopen,
           Desk!Preview!DeliverReopen
  <2>7. \A w \in First : Previews!CreateSandbox(w) => Desk!Preview!CreateSandbox(w)
    BY DEF Previews!rows, Desk!Preview!rows, Previews!At, Desk!Preview!At, Previews!Fail,
           Desk!Preview!Fail, Previews!Throws, Desk!Preview!Throws, Previews!CreateSandbox,
           Desk!Preview!CreateSandbox
  <2>8. \A w \in First : Previews!CreateSandboxSession(w) => Desk!Preview!CreateSandboxSession(w)
    BY DEF Previews!Stride, Desk!Preview!Stride, Previews!At, Desk!Preview!At,
           Previews!Kind, Desk!Preview!Kind, Previews!Fail, Desk!Preview!Fail,
           Previews!Throws, Desk!Preview!Throws, Previews!Holds, Desk!Preview!Holds,
           Previews!AttemptOf, Desk!Preview!AttemptOf, Previews!InUse, Desk!Preview!InUse,
           Previews!Mark, Desk!Preview!Mark, Previews!CreateSandboxSession,
           Desk!Preview!CreateSandboxSession
  <2>9. \A w \in First : Previews!CreatePreviewReopenSession(w) => Desk!Preview!CreatePreviewReopenSession(w)
    BY DEF Previews!history, Desk!Preview!history, Previews!FirstReopen,
           Desk!Preview!FirstReopen, Previews!ReopenSessions, Desk!Preview!ReopenSessions,
           Previews!At, Desk!Preview!At, Previews!Kind, Desk!Preview!Kind, Previews!Fail,
           Desk!Preview!Fail, Previews!Throws, Desk!Preview!Throws, Previews!Answer,
           Desk!Preview!Answer, Previews!NextAttempt, Desk!Preview!NextAttempt,
           Previews!CreatePreviewReopenSession, Desk!Preview!CreatePreviewReopenSession
  <2>10. \A w \in First : Previews!RestoreFiles(w) => Desk!Preview!RestoreFiles(w)
    BY DEF Previews!history, Desk!Preview!history, Previews!At, Desk!Preview!At,
           Previews!Kind, Desk!Preview!Kind, Previews!Fail, Desk!Preview!Fail,
           Previews!Throws, Desk!Preview!Throws, Previews!Answer, Desk!Preview!Answer,
           Previews!Holds, Desk!Preview!Holds, Previews!RestoreFiles,
           Desk!Preview!RestoreFiles
  <2>11. \A w \in First : Previews!RunStep(w) => Desk!Preview!RunStep(w)
    BY DEF Previews!history, Desk!Preview!history, Previews!Checks, Desk!Preview!Checks,
           Previews!DatabaseSteps, Desk!Preview!DatabaseSteps, Previews!PreviewSteps,
           Desk!Preview!PreviewSteps, Previews!Pipeline, Desk!Preview!Pipeline,
           Previews!Gating, Desk!Preview!Gating, Previews!Repairable,
           Desk!Preview!Repairable, Previews!AssertSuccessful,
           Desk!Preview!AssertSuccessful, Previews!NextStep, Desk!Preview!NextStep,
           Previews!At, Desk!Preview!At, Previews!Fail, Desk!Preview!Fail, Previews!Throws,
           Desk!Preview!Throws, Previews!Answer, Desk!Preview!Answer, Previews!Holds,
           Desk!Preview!Holds, Previews!FailureCause, Desk!Preview!FailureCause,
           Previews!RunStep, Desk!Preview!RunStep
  <2>12. \A w \in First : Previews!Put(w) => Desk!Preview!Put(w)
    BY DEF Previews!rows, Desk!Preview!rows, Previews!history, Desk!Preview!history,
           Previews!At, Desk!Preview!At, Previews!Fail, Desk!Preview!Fail, Previews!Throws,
           Desk!Preview!Throws, Previews!Answer, Desk!Preview!Answer, Previews!MayIssue,
           Desk!Preview!MayIssue, Previews!Put, Desk!Preview!Put
  <2>13. \A w \in First : Previews!RecordPreviewReady(w) => Desk!Preview!RecordPreviewReady(w)
    BY DEF Previews!At, Desk!Preview!At, Previews!Kind, Desk!Preview!Kind, Previews!Goto,
           Desk!Preview!Goto, Previews!Fail, Desk!Preview!Fail, Previews!Throws,
           Desk!Preview!Throws, Previews!Holds, Desk!Preview!Holds, Previews!Publish,
           Desk!Preview!Publish, Previews!Heard, Desk!Preview!Heard, Previews!NotHeard,
           Desk!Preview!NotHeard, Previews!RecordPreviewReady,
           Desk!Preview!RecordPreviewReady
  <2>14. \A w \in First : Previews!RecordPreviewReopened(w) => Desk!Preview!RecordPreviewReopened(w)
    BY DEF Previews!Idle, Desk!Preview!Idle, Previews!At, Desk!Preview!At, Previews!Kind,
           Desk!Preview!Kind, Previews!Fail, Desk!Preview!Fail, Previews!End,
           Desk!Preview!End, Previews!Throws, Desk!Preview!Throws, Previews!Publish,
           Desk!Preview!Publish, Previews!Heard, Desk!Preview!Heard, Previews!NotHeard,
           Desk!Preview!NotHeard, Previews!RecordPreviewReopened,
           Desk!Preview!RecordPreviewReopened
  <2>15. \A w \in First : Previews!CallThrows(w) => Desk!Preview!CallThrows(w)
    BY DEF Previews!rows, Desk!Preview!rows, Previews!history, Desk!Preview!history,
           Previews!Fail, Desk!Preview!Fail, Previews!Throws, Desk!Preview!Throws,
           Previews!CallThrows, Desk!Preview!CallThrows
  <2>16. \A w \in First : Previews!Unwind(w) => Desk!Preview!Unwind(w)
    BY DEF Previews!history, Desk!Preview!history, Previews!At, Desk!Preview!At,
           Previews!Kind, Desk!Preview!Kind, Previews!Goto, Desk!Preview!Goto, Previews!Try,
           Desk!Preview!Try, Previews!Outcomes, Desk!Preview!Outcomes, Previews!Terminates,
           Desk!Preview!Terminates, Previews!Unwind, Desk!Preview!Unwind
  <2>17. \A w \in First : Previews!Repair(w) => Desk!Preview!Repair(w)
    BY DEF Previews!rows, Desk!Preview!rows, Previews!history, Desk!Preview!history,
           Previews!At, Desk!Preview!At, Previews!Kind, Desk!Preview!Kind, Previews!Repair,
           Desk!Preview!Repair
  <2>18. \A w \in First : Previews!Conclude(w) => Desk!Preview!Conclude(w)
    BY DEF Previews!rows, Desk!Preview!rows, Previews!history, Desk!Preview!history,
           Previews!Idle, Desk!Preview!Idle, Previews!At, Desk!Preview!At, Previews!Kind,
           Desk!Preview!Kind, Previews!End, Desk!Preview!End, Previews!Holds,
           Desk!Preview!Holds, Previews!Settle, Desk!Preview!Settle, Previews!Conclude,
           Desk!Preview!Conclude
  <2>19. \A w \in First : Previews!CompleteRun(w) => Desk!Preview!CompleteRun(w)
    BY DEF Previews!rows, Desk!Preview!rows, Previews!history, Desk!Preview!history,
           Previews!Idle, Desk!Preview!Idle, Previews!At, Desk!Preview!At, Previews!End,
           Desk!Preview!End, Previews!Holds, Desk!Preview!Holds, Previews!Settle,
           Desk!Preview!Settle, Previews!ToRevoke, Desk!Preview!ToRevoke,
           Previews!CompleteRun, Desk!Preview!CompleteRun
  <2>20. \A w \in First : Previews!Revoke(w) => Desk!Preview!Revoke(w)
    BY DEF Previews!history, Desk!Preview!history, Previews!At, Desk!Preview!At,
           Previews!Goto, Desk!Preview!Goto, Previews!Try, Desk!Preview!Try,
           Previews!Outcomes, Desk!Preview!Outcomes, Previews!Revoke, Desk!Preview!Revoke
  <2>21. \A w \in First : Previews!ReopenFailed(w) => Desk!Preview!ReopenFailed(w)
    BY DEF Previews!history, Desk!Preview!history, Previews!Idle, Desk!Preview!Idle,
           Previews!At, Desk!Preview!At, Previews!Kind, Desk!Preview!Kind, Previews!End,
           Desk!Preview!End, Previews!ReopenFailed, Desk!Preview!ReopenFailed
  <2>22. \A w \in First : Previews!Crash(w) => Desk!Preview!Crash(w)
    BY DEF Previews!rows, Desk!Preview!rows, Previews!history, Desk!Preview!history,
           Previews!Idle, Desk!Preview!Idle, Previews!Kind, Desk!Preview!Kind, Previews!End,
           Desk!Preview!End, Previews!Settle, Desk!Preview!Settle, Previews!Crash,
           Desk!Preview!Crash
  <2>23. QED
    BY <2>1, <2>2, <2>3, <2>4, <2>5, <2>6, <2>7, <2>8, <2>9, <2>10, <2>11, <2>12, <2>13,
       <2>14, <2>15, <2>16, <2>17, <2>18, <2>19, <2>20, <2>21, <2>22 DEF Previews!Next,
       Desk!Preview!Next, Previews!WorkerNext, Desk!Preview!WorkerNext
<1>4. Desk!Preview!TypeOK => Previews!TypeOK
  <2>1. \A k : Previews!Pipeline(k) = Desk!Preview!Pipeline(k)
    BY DEF Previews!Checks, Desk!Preview!Checks, Previews!DatabaseSteps,
           Desk!Preview!DatabaseSteps, Previews!PreviewSteps, Desk!Preview!PreviewSteps,
           Previews!Pipeline, Desk!Preview!Pipeline
  <2>2. Previews!Sessions = Desk!Preview!Sessions
    BY DEF Previews!Stride, Desk!Preview!Stride, Previews!FirstReopen,
           Desk!Preview!FirstReopen, Previews!RunSessions, Desk!Preview!RunSessions,
           Previews!ReopenSessions, Desk!Preview!ReopenSessions, Previews!Sessions,
           Desk!Preview!Sessions
  <2>3. Previews!Gating = Desk!Preview!Gating
    BY DEF Previews!Checks, Desk!Preview!Checks, Previews!Gating, Desk!Preview!Gating
  <2>4. Previews!Pcs = Desk!Preview!Pcs /\ Previews!Causes = Desk!Preview!Causes
    BY DEF Previews!Pcs, Desk!Preview!Pcs, Previews!Causes, Desk!Preview!Causes
  <2>5. QED
    BY <2>1, <2>2, <2>3, <2>4, Zenon DEF Previews!TypeOK, Desk!Preview!TypeOK
<1>5. Desk!Preview!NoSandboxIsForgotten => Previews!NoSandboxIsForgotten
  BY DEF Previews!Stride, Desk!Preview!Stride, Previews!FirstReopen,
         Desk!Preview!FirstReopen, Previews!RunSessions, Desk!Preview!RunSessions,
         Previews!ReopenSessions, Desk!Preview!ReopenSessions, Previews!Sessions,
         Desk!Preview!Sessions, Previews!Live, Desk!Preview!Live, Previews!HasOwner,
         Desk!Preview!HasOwner, Previews!NoSandboxIsForgotten,
         Desk!Preview!NoSandboxIsForgotten
<1>6. Desk!Preview!PublishedIsValidated => Previews!PublishedIsValidated
  BY DEF Previews!Stride, Desk!Preview!Stride, Previews!RunSessions,
         Desk!Preview!RunSessions, Previews!Checks, Desk!Preview!Checks, Previews!Gating,
         Desk!Preview!Gating, Previews!Live, Desk!Preview!Live, Previews!Trusted,
         Desk!Preview!Trusted, Previews!PublishedIsValidated,
         Desk!Preview!PublishedIsValidated
<1>7. Desk!Preview!PublishedPreviewIsServed => Previews!PublishedPreviewIsServed
  BY DEF Previews!Stride, Desk!Preview!Stride, Previews!FirstReopen,
         Desk!Preview!FirstReopen, Previews!RunSessions, Desk!Preview!RunSessions,
         Previews!ReopenSessions, Desk!Preview!ReopenSessions, Previews!Sessions,
         Desk!Preview!Sessions, Previews!Live, Desk!Preview!Live, Previews!VerifyHost,
         Desk!Preview!VerifyHost, Previews!GetTarget, Desk!Preview!GetTarget,
         Previews!ResolveTarget, Desk!Preview!ResolveTarget, Previews!Trusted,
         Desk!Preview!Trusted, Previews!Served, Desk!Preview!Served,
         Previews!PublishedPreviewIsServed, Desk!Preview!PublishedPreviewIsServed
<1>8. QED
  BY <1>1, <1>2, <1>3, <1>4, <1>5, <1>6, <1>7

LEMMA PreviewingRuns ==
    /\ Desk!Preview!PreviewSessionAssumption
    /\ Init /\ Plays("previews") => Desk!Preview!Init
    /\ Plays("previews") /\ [Next]_vars => Plays("previews")' /\ [Desk!Preview!Next]_(Desk!Preview!vars)
    /\ ~ Plays("previews") /\ [Next]_vars => ~ Plays("previews")'
<1>1. Desk!Preview!PreviewSessionAssumption
  BY PreviewingSame, ServicesAssumption
<1>2. Init /\ Plays("previews") => Desk!Preview!Init
  BY PreviewingSame DEF Init, Plays
<1>3. Plays("previews") /\ [Next]_vars => Plays("previews")' /\ [Desk!Preview!Next]_(Desk!Preview!vars)
  BY PreviewingSame DEF Next, vars, Plays, Desk!Preview!vars, Desk!Preview!rows, Desk!Preview!history
<1>4. ~ Plays("previews") /\ [Next]_vars => ~ Plays("previews")'
  BY PartStays DEF Plays
<1>5. QED
  BY <1>1, <1>2, <1>3, <1>4

LEMMA RetryingSame ==
    /\ Retries!PreviewSessionAssumption => Office!Preview!PreviewSessionAssumption
    /\ Retries!Init => Office!Preview!Init
    /\ Retries!Next => Office!Preview!Next
    /\ Office!Preview!TypeOK => Retries!TypeOK
    /\ Office!Preview!NoSandboxIsForgotten => Retries!NoSandboxIsForgotten
    /\ Office!Preview!PublishedIsValidated => Retries!PublishedIsValidated
    /\ Office!Preview!PublishedPreviewIsServed => Retries!PublishedPreviewIsServed
<1>1. Retries!PreviewSessionAssumption => Office!Preview!PreviewSessionAssumption
  BY DEF Retries!PreviewSessionAssumption, Office!Preview!PreviewSessionAssumption
<1>2. Retries!Init => Office!Preview!Init
  BY DEF Retries!Stride, Office!Preview!Stride, Retries!FirstReopen,
         Office!Preview!FirstReopen, Retries!RunSessions, Office!Preview!RunSessions,
         Retries!ReopenSessions, Office!Preview!ReopenSessions, Retries!Sessions,
         Office!Preview!Sessions, Retries!Checks, Office!Preview!Checks, Retries!Gating,
         Office!Preview!Gating, Retries!Idle, Office!Preview!Idle, Retries!Init,
         Office!Preview!Init
<1>3. Retries!Next => Office!Preview!Next
  <2>1. Retries!Stop => Office!Preview!Stop
    BY DEF Retries!rows, Office!Preview!rows, Retries!history, Office!Preview!history,
           Retries!Stop, Office!Preview!Stop
  <2>2. Retries!Resume => Office!Preview!Resume
    BY DEF Retries!rows, Office!Preview!rows, Retries!history, Office!Preview!history,
           Retries!Resume, Office!Preview!Resume
  <2>3. Retries!RequestReopen => Office!Preview!RequestReopen
    BY DEF Retries!rows, Office!Preview!rows, Retries!history, Office!Preview!history,
           Retries!Stride, Office!Preview!Stride, Retries!FirstReopen,
           Office!Preview!FirstReopen, Retries!RunSessions, Office!Preview!RunSessions,
           Retries!ReopenSessions, Office!Preview!ReopenSessions, Retries!Sessions,
           Office!Preview!Sessions, Retries!Live, Office!Preview!Live,
           Retries!RequestReopen, Office!Preview!RequestReopen
  <2>4. \A b \in Second : Retries!Expire(b) => Office!Preview!Expire(b)
    BY DEF Retries!rows, Office!Preview!rows, Retries!history, Office!Preview!history,
           Retries!Stride, Office!Preview!Stride, Retries!FirstReopen,
           Office!Preview!FirstReopen, Retries!RunSessions, Office!Preview!RunSessions,
           Retries!ReopenSessions, Office!Preview!ReopenSessions, Retries!Sessions,
           Office!Preview!Sessions, Retries!Expire, Office!Preview!Expire
  <2>5. \A w \in First : Retries!Deliver(w) => Office!Preview!Deliver(w)
    BY DEF Retries!rows, Office!Preview!rows, Retries!history, Office!Preview!history,
           Retries!Idle, Office!Preview!Idle, Retries!Deliver, Office!Preview!Deliver
  <2>6. \A w \in First : Retries!DeliverReopen(w) => Office!Preview!DeliverReopen(w)
    BY DEF Retries!rows, Office!Preview!rows, Retries!history, Office!Preview!history,
           Retries!Idle, Office!Preview!Idle, Retries!DeliverReopen,
           Office!Preview!DeliverReopen
  <2>7. \A w \in First : Retries!CreateSandbox(w) => Office!Preview!CreateSandbox(w)
    BY DEF Retries!rows, Office!Preview!rows, Retries!At, Office!Preview!At, Retries!Fail,
           Office!Preview!Fail, Retries!Throws, Office!Preview!Throws,
           Retries!CreateSandbox, Office!Preview!CreateSandbox
  <2>8. \A w \in First : Retries!CreateSandboxSession(w) => Office!Preview!CreateSandboxSession(w)
    BY DEF Retries!Stride, Office!Preview!Stride, Retries!At, Office!Preview!At,
           Retries!Kind, Office!Preview!Kind, Retries!Fail, Office!Preview!Fail,
           Retries!Throws, Office!Preview!Throws, Retries!Holds, Office!Preview!Holds,
           Retries!AttemptOf, Office!Preview!AttemptOf, Retries!InUse, Office!Preview!InUse,
           Retries!Mark, Office!Preview!Mark, Retries!CreateSandboxSession,
           Office!Preview!CreateSandboxSession
  <2>9. \A w \in First : Retries!CreatePreviewReopenSession(w) => Office!Preview!CreatePreviewReopenSession(w)
    BY DEF Retries!history, Office!Preview!history, Retries!FirstReopen,
           Office!Preview!FirstReopen, Retries!ReopenSessions,
           Office!Preview!ReopenSessions, Retries!At, Office!Preview!At, Retries!Kind,
           Office!Preview!Kind, Retries!Fail, Office!Preview!Fail, Retries!Throws,
           Office!Preview!Throws, Retries!Answer, Office!Preview!Answer,
           Retries!NextAttempt, Office!Preview!NextAttempt,
           Retries!CreatePreviewReopenSession, Office!Preview!CreatePreviewReopenSession
  <2>10. \A w \in First : Retries!RestoreFiles(w) => Office!Preview!RestoreFiles(w)
    BY DEF Retries!history, Office!Preview!history, Retries!At, Office!Preview!At,
           Retries!Kind, Office!Preview!Kind, Retries!Fail, Office!Preview!Fail,
           Retries!Throws, Office!Preview!Throws, Retries!Answer, Office!Preview!Answer,
           Retries!Holds, Office!Preview!Holds, Retries!RestoreFiles,
           Office!Preview!RestoreFiles
  <2>11. \A w \in First : Retries!RunStep(w) => Office!Preview!RunStep(w)
    BY DEF Retries!history, Office!Preview!history, Retries!Checks, Office!Preview!Checks,
           Retries!DatabaseSteps, Office!Preview!DatabaseSteps, Retries!PreviewSteps,
           Office!Preview!PreviewSteps, Retries!Pipeline, Office!Preview!Pipeline,
           Retries!Gating, Office!Preview!Gating, Retries!Repairable,
           Office!Preview!Repairable, Retries!AssertSuccessful,
           Office!Preview!AssertSuccessful, Retries!NextStep, Office!Preview!NextStep,
           Retries!At, Office!Preview!At, Retries!Fail, Office!Preview!Fail, Retries!Throws,
           Office!Preview!Throws, Retries!Answer, Office!Preview!Answer, Retries!Holds,
           Office!Preview!Holds, Retries!FailureCause, Office!Preview!FailureCause,
           Retries!RunStep, Office!Preview!RunStep
  <2>12. \A w \in First : Retries!Put(w) => Office!Preview!Put(w)
    BY DEF Retries!rows, Office!Preview!rows, Retries!history, Office!Preview!history,
           Retries!At, Office!Preview!At, Retries!Fail, Office!Preview!Fail, Retries!Throws,
           Office!Preview!Throws, Retries!Answer, Office!Preview!Answer, Retries!MayIssue,
           Office!Preview!MayIssue, Retries!Put, Office!Preview!Put
  <2>13. \A w \in First : Retries!RecordPreviewReady(w) => Office!Preview!RecordPreviewReady(w)
    BY DEF Retries!At, Office!Preview!At, Retries!Kind, Office!Preview!Kind, Retries!Goto,
           Office!Preview!Goto, Retries!Fail, Office!Preview!Fail, Retries!Throws,
           Office!Preview!Throws, Retries!Holds, Office!Preview!Holds, Retries!Publish,
           Office!Preview!Publish, Retries!Heard, Office!Preview!Heard, Retries!NotHeard,
           Office!Preview!NotHeard, Retries!RecordPreviewReady,
           Office!Preview!RecordPreviewReady
  <2>14. \A w \in First : Retries!RecordPreviewReopened(w) => Office!Preview!RecordPreviewReopened(w)
    BY DEF Retries!Idle, Office!Preview!Idle, Retries!At, Office!Preview!At, Retries!Kind,
           Office!Preview!Kind, Retries!Fail, Office!Preview!Fail, Retries!End,
           Office!Preview!End, Retries!Throws, Office!Preview!Throws, Retries!Publish,
           Office!Preview!Publish, Retries!Heard, Office!Preview!Heard, Retries!NotHeard,
           Office!Preview!NotHeard, Retries!RecordPreviewReopened,
           Office!Preview!RecordPreviewReopened
  <2>15. \A w \in First : Retries!CallThrows(w) => Office!Preview!CallThrows(w)
    BY DEF Retries!rows, Office!Preview!rows, Retries!history, Office!Preview!history,
           Retries!Fail, Office!Preview!Fail, Retries!Throws, Office!Preview!Throws,
           Retries!CallThrows, Office!Preview!CallThrows
  <2>16. \A w \in First : Retries!Unwind(w) => Office!Preview!Unwind(w)
    BY DEF Retries!history, Office!Preview!history, Retries!At, Office!Preview!At,
           Retries!Kind, Office!Preview!Kind, Retries!Goto, Office!Preview!Goto,
           Retries!Try, Office!Preview!Try, Retries!Outcomes, Office!Preview!Outcomes,
           Retries!Terminates, Office!Preview!Terminates, Retries!Unwind,
           Office!Preview!Unwind
  <2>17. \A w \in First : Retries!Repair(w) => Office!Preview!Repair(w)
    BY DEF Retries!rows, Office!Preview!rows, Retries!history, Office!Preview!history,
           Retries!At, Office!Preview!At, Retries!Kind, Office!Preview!Kind, Retries!Repair,
           Office!Preview!Repair
  <2>18. \A w \in First : Retries!Conclude(w) => Office!Preview!Conclude(w)
    BY DEF Retries!rows, Office!Preview!rows, Retries!history, Office!Preview!history,
           Retries!Idle, Office!Preview!Idle, Retries!At, Office!Preview!At, Retries!Kind,
           Office!Preview!Kind, Retries!End, Office!Preview!End, Retries!Holds,
           Office!Preview!Holds, Retries!Settle, Office!Preview!Settle, Retries!Conclude,
           Office!Preview!Conclude
  <2>19. \A w \in First : Retries!CompleteRun(w) => Office!Preview!CompleteRun(w)
    BY DEF Retries!rows, Office!Preview!rows, Retries!history, Office!Preview!history,
           Retries!Idle, Office!Preview!Idle, Retries!At, Office!Preview!At, Retries!End,
           Office!Preview!End, Retries!Holds, Office!Preview!Holds, Retries!Settle,
           Office!Preview!Settle, Retries!ToRevoke, Office!Preview!ToRevoke,
           Retries!CompleteRun, Office!Preview!CompleteRun
  <2>20. \A w \in First : Retries!Revoke(w) => Office!Preview!Revoke(w)
    BY DEF Retries!history, Office!Preview!history, Retries!At, Office!Preview!At,
           Retries!Goto, Office!Preview!Goto, Retries!Try, Office!Preview!Try,
           Retries!Outcomes, Office!Preview!Outcomes, Retries!Revoke, Office!Preview!Revoke
  <2>21. \A w \in First : Retries!ReopenFailed(w) => Office!Preview!ReopenFailed(w)
    BY DEF Retries!history, Office!Preview!history, Retries!Idle, Office!Preview!Idle,
           Retries!At, Office!Preview!At, Retries!Kind, Office!Preview!Kind, Retries!End,
           Office!Preview!End, Retries!ReopenFailed, Office!Preview!ReopenFailed
  <2>22. \A w \in First : Retries!Crash(w) => Office!Preview!Crash(w)
    BY DEF Retries!rows, Office!Preview!rows, Retries!history, Office!Preview!history,
           Retries!Idle, Office!Preview!Idle, Retries!Kind, Office!Preview!Kind,
           Retries!End, Office!Preview!End, Retries!Settle, Office!Preview!Settle,
           Retries!Crash, Office!Preview!Crash
  <2>23. QED
    BY <2>1, <2>2, <2>3, <2>4, <2>5, <2>6, <2>7, <2>8, <2>9, <2>10, <2>11, <2>12, <2>13,
       <2>14, <2>15, <2>16, <2>17, <2>18, <2>19, <2>20, <2>21, <2>22 DEF Retries!Next,
       Office!Preview!Next, Retries!WorkerNext, Office!Preview!WorkerNext
<1>4. Office!Preview!TypeOK => Retries!TypeOK
  <2>1. \A k : Retries!Pipeline(k) = Office!Preview!Pipeline(k)
    BY DEF Retries!Checks, Office!Preview!Checks, Retries!DatabaseSteps,
           Office!Preview!DatabaseSteps, Retries!PreviewSteps, Office!Preview!PreviewSteps,
           Retries!Pipeline, Office!Preview!Pipeline
  <2>2. Retries!Sessions = Office!Preview!Sessions
    BY DEF Retries!Stride, Office!Preview!Stride, Retries!FirstReopen,
           Office!Preview!FirstReopen, Retries!RunSessions, Office!Preview!RunSessions,
           Retries!ReopenSessions, Office!Preview!ReopenSessions, Retries!Sessions,
           Office!Preview!Sessions
  <2>3. Retries!Gating = Office!Preview!Gating
    BY DEF Retries!Checks, Office!Preview!Checks, Retries!Gating, Office!Preview!Gating
  <2>4. Retries!Pcs = Office!Preview!Pcs /\ Retries!Causes = Office!Preview!Causes
    BY DEF Retries!Pcs, Office!Preview!Pcs, Retries!Causes, Office!Preview!Causes
  <2>5. QED
    BY <2>1, <2>2, <2>3, <2>4, Zenon DEF Retries!TypeOK, Office!Preview!TypeOK
<1>5. Office!Preview!NoSandboxIsForgotten => Retries!NoSandboxIsForgotten
  BY DEF Retries!Stride, Office!Preview!Stride, Retries!FirstReopen,
         Office!Preview!FirstReopen, Retries!RunSessions, Office!Preview!RunSessions,
         Retries!ReopenSessions, Office!Preview!ReopenSessions, Retries!Sessions,
         Office!Preview!Sessions, Retries!Live, Office!Preview!Live, Retries!HasOwner,
         Office!Preview!HasOwner, Retries!NoSandboxIsForgotten,
         Office!Preview!NoSandboxIsForgotten
<1>6. Office!Preview!PublishedIsValidated => Retries!PublishedIsValidated
  BY DEF Retries!Stride, Office!Preview!Stride, Retries!RunSessions,
         Office!Preview!RunSessions, Retries!Checks, Office!Preview!Checks, Retries!Gating,
         Office!Preview!Gating, Retries!Live, Office!Preview!Live, Retries!Trusted,
         Office!Preview!Trusted, Retries!PublishedIsValidated,
         Office!Preview!PublishedIsValidated
<1>7. Office!Preview!PublishedPreviewIsServed => Retries!PublishedPreviewIsServed
  BY DEF Retries!Stride, Office!Preview!Stride, Retries!FirstReopen,
         Office!Preview!FirstReopen, Retries!RunSessions, Office!Preview!RunSessions,
         Retries!ReopenSessions, Office!Preview!ReopenSessions, Retries!Sessions,
         Office!Preview!Sessions, Retries!Live, Office!Preview!Live, Retries!VerifyHost,
         Office!Preview!VerifyHost, Retries!GetTarget, Office!Preview!GetTarget,
         Retries!ResolveTarget, Office!Preview!ResolveTarget, Retries!Trusted,
         Office!Preview!Trusted, Retries!Served, Office!Preview!Served,
         Retries!PublishedPreviewIsServed, Office!Preview!PublishedPreviewIsServed
<1>8. QED
  BY <1>1, <1>2, <1>3, <1>4, <1>5, <1>6, <1>7

LEMMA RetryingRuns ==
    /\ Office!Preview!PreviewSessionAssumption
    /\ Init /\ Plays("retries") => Office!Preview!Init
    /\ Plays("retries") /\ [Next]_vars => Plays("retries")' /\ [Office!Preview!Next]_(Office!Preview!vars)
    /\ ~ Plays("retries") /\ [Next]_vars => ~ Plays("retries")'
<1>1. Office!Preview!PreviewSessionAssumption
  BY RetryingSame, ServicesAssumption
<1>2. Init /\ Plays("retries") => Office!Preview!Init
  BY RetryingSame DEF Init, Plays
<1>3. Plays("retries") /\ [Next]_vars => Plays("retries")' /\ [Office!Preview!Next]_(Office!Preview!vars)
  BY RetryingSame DEF Next, vars, Plays, Office!Preview!vars, Office!Preview!rows, Office!Preview!history
<1>4. ~ Plays("retries") /\ [Next]_vars => ~ Plays("retries")'
  BY PartStays DEF Plays
<1>5. QED
  BY <1>1, <1>2, <1>3, <1>4

LEMMA CleanupSame ==
    /\ Orphans!OrphanCleanupAssumption => Office!Cleanup!OrphanCleanupAssumption
    /\ Orphans!Init => Office!Cleanup!Init
    /\ Orphans!Next => Office!Cleanup!Next
    /\ Office!Cleanup!TypeOK => Orphans!TypeOK
    /\ Office!Cleanup!CleanupIsEarned => Orphans!CleanupIsEarned
BY DEF Orphans!OrphanCleanupAssumption, Office!Cleanup!OrphanCleanupAssumption,
       Orphans!Resources, Office!Cleanup!Resources, Orphans!Sweeps, Office!Cleanup!Sweeps,
       Orphans!row, Office!Cleanup!row, Orphans!provider, Office!Cleanup!provider,
       Orphans!findings, Office!Cleanup!findings, Orphans!Statuses, Office!Cleanup!Statuses,
       Orphans!Idle, Office!Cleanup!Idle, Orphans!Exec, Office!Cleanup!Exec, Orphans!Leases,
       Office!Cleanup!Leases, Orphans!NoRow, Office!Cleanup!NoRow, Orphans!Tracked,
       Office!Cleanup!Tracked, Orphans!SweepPcs, Office!Cleanup!SweepPcs, Orphans!NewSweep,
       Office!Cleanup!NewSweep, Orphans!SweepState, Office!Cleanup!SweepState,
       Orphans!FindingStatuses, Office!Cleanup!FindingStatuses, Orphans!NoFinding,
       Office!Cleanup!NoFinding, Orphans!Finding, Office!Cleanup!Finding, Orphans!TypeOK,
       Office!Cleanup!TypeOK, Orphans!Init, Office!Cleanup!Init, Orphans!IsTracked,
       Office!Cleanup!IsTracked, Orphans!BeginProvision, Office!Cleanup!BeginProvision,
       Orphans!AdoptByName, Office!Cleanup!AdoptByName, Orphans!FindNone,
       Office!Cleanup!FindNone, Orphans!CreateProject, Office!Cleanup!CreateProject,
       Orphans!RecordProvisioned, Office!Cleanup!RecordProvisioned, Orphans!ExecutionFails,
       Office!Cleanup!ExecutionFails, Orphans!BeginDestroy, Office!Cleanup!BeginDestroy,
       Orphans!DestroyTracked, Office!Cleanup!DestroyTracked, Orphans!Read,
       Office!Cleanup!Read, Orphans!Goto, Office!Cleanup!Goto, Orphans!Released,
       Office!Cleanup!Released, Orphans!BeginSweep, Office!Cleanup!BeginSweep,
       Orphans!LeaseExpires, Office!Cleanup!LeaseExpires, Orphans!ListManaged,
       Office!Cleanup!ListManaged, Orphans!ListTracked, Office!Cleanup!ListTracked,
       Orphans!Observed, Office!Cleanup!Observed, Orphans!Resolved, Office!Cleanup!Resolved,
       Orphans!MissingThreshold, Office!Cleanup!MissingThreshold, Orphans!CompareTracked,
       Office!Cleanup!CompareTracked, Orphans!CompareResource,
       Office!Cleanup!CompareResource, Orphans!MayClean, Office!Cleanup!MayClean,
       Orphans!ClaimCleanup, Office!Cleanup!ClaimCleanup, Orphans!DestroyOrphan,
       Office!Cleanup!DestroyOrphan, Orphans!DestroyRejects, Office!Cleanup!DestroyRejects,
       Orphans!ResolveCleaned, Office!Cleanup!ResolveCleaned, Orphans!FinishSweep,
       Office!Cleanup!FinishSweep, Orphans!SweepFails, Office!Cleanup!SweepFails,
       Orphans!ApproveCleanup, Office!Cleanup!ApproveCleanup, Orphans!GracePasses,
       Office!Cleanup!GracePasses, Orphans!RemovedOutside, Office!Cleanup!RemovedOutside,
       Orphans!WorkerNext, Office!Cleanup!WorkerNext, Orphans!SweepNext,
       Office!Cleanup!SweepNext, Orphans!Next, Office!Cleanup!Next, Orphans!Earned,
       Office!Cleanup!Earned, Orphans!CleanupIsEarned, Office!Cleanup!CleanupIsEarned,
       Orphans!Cardinality, Office!Cleanup!Cardinality, Orphans!IsFiniteSet,
       Office!Cleanup!IsFiniteSet

LEMMA CleanupRuns ==
    /\ Office!Cleanup!OrphanCleanupAssumption
    /\ Init /\ Plays("orphans") => Office!Cleanup!Init
    /\ Plays("orphans") /\ [Next]_vars => Plays("orphans")' /\ [Office!Cleanup!Next]_(Office!Cleanup!vars)
    /\ ~ Plays("orphans") /\ [Next]_vars => ~ Plays("orphans")'
<1>1. Office!Cleanup!OrphanCleanupAssumption
  BY CleanupSame, ServicesAssumption
<1>2. Init /\ Plays("orphans") => Office!Cleanup!Init
  BY CleanupSame DEF Init, Plays
<1>3. Plays("orphans") /\ [Next]_vars => Plays("orphans")' /\ [Office!Cleanup!Next]_(Office!Cleanup!vars)
  BY CleanupSame DEF Next, vars, Plays, Office!Cleanup!vars, Office!Cleanup!row,
     Office!Cleanup!provider, Office!Cleanup!findings
<1>4. ~ Plays("orphans") /\ [Next]_vars => ~ Plays("orphans")'
  BY PartStays DEF Plays
<1>5. QED
  BY <1>1, <1>2, <1>3, <1>4

LEMMA ProvisioningSame ==
    /\ Provision!ProvisionSecretsAssumption => Office!Provision!ProvisionSecretsAssumption
    /\ Provision!Init => Office!Provision!Init
    /\ Provision!Next => Office!Provision!Next
    /\ Office!Provision!TypeOK => Provision!TypeOK
    /\ Office!Provision!StaysAdoptable => Provision!StaysAdoptable
    /\ Office!Provision!NothingIsLeftBehind => Provision!NothingIsLeftBehind
BY DEF Provision!ProvisionSecretsAssumption, Office!Provision!ProvisionSecretsAssumption,
       Provision!Executions, Office!Provision!Executions, Provision!Projects,
       Office!Provision!Projects, Provision!Passwords, Office!Provision!Passwords,
       Provision!provider, Office!Provision!provider, Provision!secrets,
       Office!Provision!secrets, Provision!row, Office!Provision!row, Provision!Pcs,
       Office!Provision!Pcs, Provision!Reasons, Office!Provision!Reasons,
       Provision!NotStarted, Office!Provision!NotStarted, Provision!Exec,
       Office!Provision!Exec, Provision!TypeOK, Office!Provision!TypeOK, Provision!Init,
       Office!Provision!Init, Provision!At, Office!Provision!At, Provision!Goto,
       Office!Provision!Goto, Provision!Live, Office!Provision!Live, Provision!Excuse,
       Office!Provision!Excuse, Provision!Unwound, Office!Provision!Unwound,
       Provision!Throws, Office!Provision!Throws, Provision!Answer, Office!Provision!Answer,
       Provision!AbsentIsKnown, Office!Provision!AbsentIsKnown, Provision!Start,
       Office!Provision!Start, Provision!StartProvision, Office!Provision!StartProvision,
       Provision!ListProjects, Office!Provision!ListProjects, Provision!ReadConnection,
       Office!Provision!ReadConnection, Provision!ReadOperation,
       Office!Provision!ReadOperation, Provision!EnsuredBy, Office!Provision!EnsuredBy,
       Provision!EnsureOperationSecret, Office!Provision!EnsureOperationSecret,
       Provision!PutOperation, Office!Provision!PutOperation, Provision!GetOperation,
       Office!Provision!GetOperation, Provision!CreateProject,
       Office!Provision!CreateProject, Provision!PutConnection,
       Office!Provision!PutConnection, Provision!RevokeOperation,
       Office!Provision!RevokeOperation, Provision!RecordProvisioned,
       Office!Provision!RecordProvisioned, Provision!CreateLease,
       Office!Provision!CreateLease, Provision!CreateSandbox,
       Office!Provision!CreateSandbox, Provision!RunCommands, Office!Provision!RunCommands,
       Provision!TerminateSandbox, Office!Provision!TerminateSandbox,
       Provision!CompleteMigration, Office!Provision!CompleteMigration,
       Provision!RevokeLease, Office!Provision!RevokeLease, Provision!StartDestroy,
       Office!Provision!StartDestroy, Provision!DestroyProject,
       Office!Provision!DestroyProject, Provision!RevokeConnection,
       Office!Provision!RevokeConnection, Provision!CompleteDestroy,
       Office!Provision!CompleteDestroy, Provision!CallFails, Office!Provision!CallFails,
       Provision!WorkerDies, Office!Provision!WorkerDies, Provision!SandboxTimesOut,
       Office!Provision!SandboxTimesOut, Provision!Step, Office!Provision!Step,
       Provision!Next, Office!Provision!Next, Provision!StaysAdoptable,
       Office!Provision!StaysAdoptable, Provision!Excused, Office!Provision!Excused,
       Provision!NothingIsLeftBehind, Office!Provision!NothingIsLeftBehind

LEMMA ProvisioningRuns ==
    /\ Office!Provision!ProvisionSecretsAssumption
    /\ Init /\ Plays("provision") => Office!Provision!Init
    /\ Plays("provision") /\ [Next]_vars => Plays("provision")' /\ [Office!Provision!Next]_(Office!Provision!vars)
    /\ ~ Plays("provision") /\ [Next]_vars => ~ Plays("provision")'
<1>1. Office!Provision!ProvisionSecretsAssumption
  BY ProvisioningSame, ServicesAssumption
<1>2. Init /\ Plays("provision") => Office!Provision!Init
  BY ProvisioningSame DEF Init, Plays
<1>3. Plays("provision") /\ [Next]_vars => Plays("provision")' /\ [Office!Provision!Next]_(Office!Provision!vars)
  BY ProvisioningSame DEF Next, vars, Plays, Office!Provision!vars, Office!Provision!row,
     Office!Provision!provider, Office!Provision!secrets
<1>4. ~ Plays("provision") /\ [Next]_vars => ~ Plays("provision")'
  BY PartStays DEF Plays
<1>5. QED
  BY <1>1, <1>2, <1>3, <1>4

LEMMA ReleasingSame ==
    /\ Release!ReleaseAssessmentAssumption => Office!Assess!ReleaseAssessmentAssumption
    /\ Release!Init => Office!Assess!Init
    /\ Release!Next => Office!Assess!Next
    /\ Office!Assess!TypeOK => Release!TypeOK
    /\ Office!Assess!ReadyKeepsItsEvidence => Release!ReadyKeepsItsEvidence
    /\ Office!Assess!AnnouncedIsStored => Release!AnnouncedIsStored
    /\ Office!Assess!CompletedIsAssessed => Release!CompletedIsAssessed
BY DEF Release!ReleaseAssessmentAssumption, Office!Assess!ReleaseAssessmentAssumption,
       Release!run, Office!Assess!run, Release!stored, Office!Assess!stored, Release!other,
       Office!Assess!other, Release!None, Office!Assess!None, Release!Steps,
       Office!Assess!Steps, Release!Criteria, Office!Assess!Criteria, Release!Keys,
       Office!Assess!Keys, Release!EvidenceIds, Office!Assess!EvidenceIds, Release!Command,
       Office!Assess!Command, Release!Codes, Office!Assess!Codes, Release!Pcs,
       Office!Assess!Pcs, Release!Item, Office!Assess!Item, Release!Status,
       Office!Assess!Status, Release!Init, Office!Assess!Init, Release!Items,
       Office!Assess!Items, Release!Evaluate, Office!Assess!Evaluate, Release!Assessed,
       Office!Assess!Assessed, Release!EvaluatorFailure, Office!Assess!EvaluatorFailure,
       Release!Key, Office!Assess!Key, Release!At, Office!Assess!At, Release!Current,
       Office!Assess!Current, Release!GoTo, Office!Assess!GoTo, Release!Stop,
       Office!Assess!Stop, Release!Fault, Office!Assess!Fault, Release!Deliver,
       Office!Assess!Deliver, Release!Recorded, Office!Assess!Recorded,
       Release!ValidationPasses, Office!Assess!ValidationPasses, Release!MayRepair,
       Office!Assess!MayRepair, Release!ValidationFails, Office!Assess!ValidationFails,
       Release!Superseded, Office!Assess!Superseded, Release!Scope, Office!Assess!Scope,
       Release!LoadEvidenceInputs, Office!Assess!LoadEvidenceInputs, Release!Store,
       Office!Assess!Store, Release!Conflicts, Office!Assess!Conflicts, Release!Rows,
       Office!Assess!Rows, Release!PersistAssessment, Office!Assess!PersistAssessment,
       Release!AssessmentFails, Office!Assess!AssessmentFails,
       Release!PersistEvaluatorFailure, Office!Assess!PersistEvaluatorFailure,
       Release!FailureIsSwallowed, Office!Assess!FailureIsSwallowed, Release!Catch,
       Office!Assess!Catch, Release!CompleteRun, Office!Assess!CompleteRun,
       Release!ManualScope, Office!Assess!ManualScope, Release!ManualKey,
       Office!Assess!ManualKey, Release!TriggerReleaseAssessment,
       Office!Assess!TriggerReleaseAssessment, Release!ChangeRun, Office!Assess!ChangeRun,
       Release!EditFile, Office!Assess!EditFile, Release!DayPasses, Office!Assess!DayPasses,
       Release!Step, Office!Assess!Step, Release!Next, Office!Assess!Next, Release!TypeOK,
       Office!Assess!TypeOK, Release!ReadyKeepsItsEvidence,
       Office!Assess!ReadyKeepsItsEvidence, Release!AnnouncedIsStored,
       Office!Assess!AnnouncedIsStored, Release!CompletedIsAssessed,
       Office!Assess!CompletedIsAssessed

LEMMA ReleasingRuns ==
    /\ Office!Assess!ReleaseAssessmentAssumption
    /\ Init /\ Plays("release") => Office!Assess!Init
    /\ Plays("release") /\ [Next]_vars => Plays("release")' /\ [Office!Assess!Next]_(Office!Assess!vars)
    /\ ~ Plays("release") /\ [Next]_vars => ~ Plays("release")'
<1>1. Office!Assess!ReleaseAssessmentAssumption
  BY ReleasingSame, ServicesAssumption
<1>2. Init /\ Plays("release") => Office!Assess!Init
  BY ReleasingSame DEF Init, Plays
<1>3. Plays("release") /\ [Next]_vars => Plays("release")' /\ [Office!Assess!Next]_(Office!Assess!vars)
  BY ReleasingSame DEF Next, vars, Plays, Office!Assess!vars, Office!Assess!run,
     Office!Assess!stored, Office!Assess!other
<1>4. ~ Plays("release") /\ [Next]_vars => ~ Plays("release")'
  BY PartStays DEF Plays
<1>5. QED
  BY <1>1, <1>2, <1>3, <1>4

LEMMA ByHandSame ==
    /\ Manual!ReleaseAssessmentAssumption => Desk!Assess!ReleaseAssessmentAssumption
    /\ Manual!Init => Desk!Assess!Init
    /\ Manual!Next => Desk!Assess!Next
    /\ Desk!Assess!TypeOK => Manual!TypeOK
    /\ Desk!Assess!WorkerRowIsKept => Manual!WorkerRowIsKept
BY DEF Manual!ReleaseAssessmentAssumption, Desk!Assess!ReleaseAssessmentAssumption,
       Manual!run, Desk!Assess!run, Manual!stored, Desk!Assess!stored, Manual!other,
       Desk!Assess!other, Manual!None, Desk!Assess!None, Manual!Steps, Desk!Assess!Steps,
       Manual!Criteria, Desk!Assess!Criteria, Manual!Keys, Desk!Assess!Keys,
       Manual!EvidenceIds, Desk!Assess!EvidenceIds, Manual!Command, Desk!Assess!Command,
       Manual!Codes, Desk!Assess!Codes, Manual!Pcs, Desk!Assess!Pcs, Manual!Item,
       Desk!Assess!Item, Manual!Status, Desk!Assess!Status, Manual!Init, Desk!Assess!Init,
       Manual!Items, Desk!Assess!Items, Manual!Evaluate, Desk!Assess!Evaluate,
       Manual!Assessed, Desk!Assess!Assessed, Manual!EvaluatorFailure,
       Desk!Assess!EvaluatorFailure, Manual!Key, Desk!Assess!Key, Manual!At, Desk!Assess!At,
       Manual!Current, Desk!Assess!Current, Manual!GoTo, Desk!Assess!GoTo, Manual!Stop,
       Desk!Assess!Stop, Manual!Fault, Desk!Assess!Fault, Manual!Deliver,
       Desk!Assess!Deliver, Manual!Recorded, Desk!Assess!Recorded, Manual!ValidationPasses,
       Desk!Assess!ValidationPasses, Manual!MayRepair, Desk!Assess!MayRepair,
       Manual!ValidationFails, Desk!Assess!ValidationFails, Manual!Superseded,
       Desk!Assess!Superseded, Manual!Scope, Desk!Assess!Scope, Manual!LoadEvidenceInputs,
       Desk!Assess!LoadEvidenceInputs, Manual!Store, Desk!Assess!Store, Manual!Conflicts,
       Desk!Assess!Conflicts, Manual!Rows, Desk!Assess!Rows, Manual!PersistAssessment,
       Desk!Assess!PersistAssessment, Manual!AssessmentFails, Desk!Assess!AssessmentFails,
       Manual!PersistEvaluatorFailure, Desk!Assess!PersistEvaluatorFailure,
       Manual!FailureIsSwallowed, Desk!Assess!FailureIsSwallowed, Manual!Catch,
       Desk!Assess!Catch, Manual!CompleteRun, Desk!Assess!CompleteRun, Manual!ManualScope,
       Desk!Assess!ManualScope, Manual!ManualKey, Desk!Assess!ManualKey,
       Manual!TriggerReleaseAssessment, Desk!Assess!TriggerReleaseAssessment,
       Manual!ChangeRun, Desk!Assess!ChangeRun, Manual!EditFile, Desk!Assess!EditFile,
       Manual!DayPasses, Desk!Assess!DayPasses, Manual!Step, Desk!Assess!Step, Manual!Next,
       Desk!Assess!Next, Manual!TypeOK, Desk!Assess!TypeOK, Manual!WorkerRowIsKept,
       Desk!Assess!WorkerRowIsKept

LEMMA ByHandRuns ==
    /\ Desk!Assess!ReleaseAssessmentAssumption
    /\ Init /\ Plays("manual") => Desk!Assess!Init
    /\ Plays("manual") /\ [Next]_vars => Plays("manual")' /\ [Desk!Assess!Next]_(Desk!Assess!vars)
    /\ ~ Plays("manual") /\ [Next]_vars => ~ Plays("manual")'
<1>1. Desk!Assess!ReleaseAssessmentAssumption
  BY ByHandSame, ServicesAssumption
<1>2. Init /\ Plays("manual") => Desk!Assess!Init
  BY ByHandSame DEF Init, Plays
<1>3. Plays("manual") /\ [Next]_vars => Plays("manual")' /\ [Desk!Assess!Next]_(Desk!Assess!vars)
  BY ByHandSame DEF Next, vars, Plays, Desk!Assess!vars, Desk!Assess!run, Desk!Assess!stored,
     Desk!Assess!other
<1>4. ~ Plays("manual") /\ [Next]_vars => ~ Plays("manual")'
  BY PartStays DEF Plays
<1>5. QED
  BY <1>1, <1>2, <1>3, <1>4

LEMMA ReportingSame ==
    /\ Readiness!ReadinessAssumption => Office!Ready!ReadinessAssumption
    /\ Readiness!Init => Office!Ready!Init
    /\ Readiness!Next => Office!Ready!Next
    /\ Office!Ready!TypeOK => Readiness!TypeOK
    /\ Office!Ready!ReadyIsBacked => Readiness!ReadyIsBacked
BY DEF Readiness!Ttl, Office!Ready!Ttl, Readiness!ReadinessAssumption,
       Office!Ready!ReadinessAssumption, Readiness!workers, Office!Ready!workers,
       Readiness!Running, Office!Ready!Running, Readiness!Never, Office!Ready!Never,
       Readiness!Older, Office!Ready!Older, Readiness!Verdicts, Office!Ready!Verdicts,
       Readiness!TypeOK, Office!Ready!TypeOK, Readiness!Init, Office!Ready!Init,
       Readiness!StartPublisher, Office!Ready!StartPublisher, Readiness!StopPublisher,
       Office!Ready!StopPublisher, Readiness!DateComes, Office!Ready!DateComes,
       Readiness!Met, Office!Ready!Met, Readiness!PublishOnce, Office!Ready!PublishOnce,
       Readiness!Abs, Office!Ready!Abs, Readiness!Reporting, Office!Ready!Reporting,
       Readiness!EvaluateExecutionReadiness, Office!Ready!EvaluateExecutionReadiness,
       Readiness!Current, Office!Ready!Current, Readiness!Accepts, Office!Ready!Accepts,
       Readiness!FlipFlag, Office!Ready!FlipFlag, Readiness!Expire, Office!Ready!Expire,
       Readiness!Tick, Office!Ready!Tick, Readiness!RedisChanges, Office!Ready!RedisChanges,
       Readiness!Next, Office!Ready!Next, Readiness!ExecutionReady,
       Office!Ready!ExecutionReady, Readiness!ReadyIsBacked, Office!Ready!ReadyIsBacked

LEMMA ReportingRuns ==
    /\ Office!Ready!ReadinessAssumption
    /\ Init /\ Plays("readiness") => Office!Ready!Init
    /\ Plays("readiness") /\ [Next]_vars => Plays("readiness")' /\ [Office!Ready!Next]_(Office!Ready!vars)
    /\ ~ Plays("readiness") /\ [Next]_vars => ~ Plays("readiness")'
<1>1. Office!Ready!ReadinessAssumption
  BY ReportingSame, ServicesAssumption
<1>2. Init /\ Plays("readiness") => Office!Ready!Init
  BY ReportingSame DEF Init, Plays
<1>3. Plays("readiness") /\ [Next]_vars => Plays("readiness")' /\ [Office!Ready!Next]_(Office!Ready!vars)
  BY ReportingSame DEF Next, vars, Plays, Office!Ready!vars
<1>4. ~ Plays("readiness") /\ [Next]_vars => ~ Plays("readiness")'
  BY PartStays DEF Plays
<1>5. QED
  BY <1>1, <1>2, <1>3, <1>4

LEMMA StreamSame ==
    /\ Stream!EventStreamAssumption => Web!Stream!EventStreamAssumption
    /\ Stream!Init => Web!Stream!Init
    /\ Stream!Next => Web!Stream!Next
    /\ Web!Stream!TypeOK => Stream!TypeOK
    /\ Web!Stream!GaplessReplay => Stream!GaplessReplay
BY DEF Stream!server, Web!Stream!server, Stream!page, Web!Stream!page, Stream!Terminal,
       Web!Stream!Terminal, Stream!Statuses, Web!Stream!Statuses, Stream!Sets,
       Web!Stream!Sets, Stream!MayAppend, Web!Stream!MayAppend, Stream!Types,
       Web!Stream!Types, Stream!Asking, Web!Stream!Asking, Stream!EventStreamAssumption,
       Web!Stream!EventStreamAssumption, Stream!Askers, Web!Stream!Askers, Stream!Init,
       Web!Stream!Init, Stream!LockFree, Web!Stream!LockFree, Stream!BeginAppend,
       Web!Stream!BeginAppend, Stream!Visible, Web!Stream!Visible, Stream!CommitAppend,
       Web!Stream!CommitAppend, Stream!RollbackAppend, Web!Stream!RollbackAppend,
       Stream!EventsAfter, Web!Stream!EventsAfter, Stream!PageLength, Web!Stream!PageLength,
       Stream!Nth, Web!Stream!Nth, Stream!ListRunEventsAfter, Web!Stream!ListRunEventsAfter,
       Stream!StreamPage, Web!Stream!StreamPage, Stream!StreamStatus,
       Web!Stream!StreamStatus, Stream!StreamExpires, Web!Stream!StreamExpires, Stream!Ask,
       Web!Stream!Ask, Stream!Connect, Web!Stream!Connect, Stream!OnEvent,
       Web!Stream!OnEvent, Stream!Receive, Web!Stream!Receive, Stream!StreamCloses,
       Web!Stream!StreamCloses, Stream!ReadRun, Web!Stream!ReadRun, Stream!LoopEnds,
       Web!Stream!LoopEnds, Stream!Deliver, Web!Stream!Deliver, Stream!StreamFails,
       Web!Stream!StreamFails, Stream!ControlElsewhere, Web!Stream!ControlElsewhere,
       Stream!Retry, Web!Stream!Retry, Stream!RestartStream, Web!Stream!RestartStream,
       Stream!Reload, Web!Stream!Reload, Stream!StartNewProject, Web!Stream!StartNewProject,
       Stream!StreamNext, Web!Stream!StreamNext, Stream!Next, Web!Stream!Next, Stream!Runs,
       Web!Stream!Runs, Stream!TypeOK, Web!Stream!TypeOK, Stream!GaplessReplay,
       Web!Stream!GaplessReplay, Stream!Cardinality, Web!Stream!Cardinality, Stream!Last,
       Web!Stream!Last, Stream!ToSet, Web!Stream!ToSet

LEMMA StreamRuns ==
    /\ Web!Stream!EventStreamAssumption
    /\ Init /\ Plays("stream") => Web!Stream!Init
    /\ Plays("stream") /\ [Next]_vars => Plays("stream")' /\ [Web!Stream!Next]_(Web!Stream!vars)
    /\ ~ Plays("stream") /\ [Next]_vars => ~ Plays("stream")'
<1>1. Web!Stream!EventStreamAssumption
  BY StreamSame, ServicesAssumption
<1>2. Init /\ Plays("stream") => Web!Stream!Init
  BY StreamSame DEF Init, Plays
<1>3. Plays("stream") /\ [Next]_vars => Plays("stream")' /\ [Web!Stream!Next]_(Web!Stream!vars)
  BY StreamSame DEF Next, vars, Plays, Web!Stream!vars, Web!Stream!server, Web!Stream!page
<1>4. ~ Plays("stream") /\ [Next]_vars => ~ Plays("stream")'
  BY PartStays DEF Plays
<1>5. QED
  BY <1>1, <1>2, <1>3, <1>4

LEMMA LaunchFormSame ==
    /\ Launch!WorkspaceLaunchAssumption => Web!Launch!WorkspaceLaunchAssumption
    /\ Launch!Init => Web!Launch!Init
    /\ Launch!Next => Web!Launch!Next
    /\ Web!Launch!TypeOK => Launch!TypeOK
    /\ Web!Launch!OneRunPerSubmission => Launch!OneRunPerSubmission
    /\ Web!Launch!RunHasItsFile => Launch!RunHasItsFile
    /\ Web!Launch!ShownRunStaysReachable => Launch!ShownRunStaysReachable
<1>1. Launch!WorkspaceLaunchAssumption => Web!Launch!WorkspaceLaunchAssumption
  BY DEF Launch!WorkspaceLaunchAssumption, Web!Launch!WorkspaceLaunchAssumption
<1>2. Launch!Init => Web!Launch!Init
  BY DEF Launch!FreshForm, Web!Launch!FreshForm, Launch!Idle, Web!Launch!Idle,
         Launch!NoRecords, Web!Launch!NoRecords, Launch!NoIntents, Web!Launch!NoIntents,
         Launch!Init, Web!Launch!Init
<1>c. \A x : Launch!Cardinality(x) = Web!Launch!Cardinality(x)
  BY DEF Launch!Cardinality, Web!Launch!Cardinality, Launch!IsFiniteSet, Web!Launch!IsFiniteSet
<1>3. Launch!Next => Web!Launch!Next
  <2>1. \A p \in {One, Other} : Launch!EditPrompt(p) => Web!Launch!EditPrompt(p)
    BY DEF Launch!Idle, Web!Launch!Idle, Launch!Left, Web!Launch!Left, Launch!Editable,
           Web!Launch!Editable, Launch!EditPrompt, Web!Launch!EditPrompt
  <2>2. \A f \in First \union {Nothing} : Launch!SelectAttachments(f) => Web!Launch!SelectAttachments(f)
    BY DEF Launch!Idle, Web!Launch!Idle, Launch!NoRecords, Web!Launch!NoRecords,
           Launch!NoIntents, Web!Launch!NoIntents, Launch!Left, Web!Launch!Left,
           Launch!Editable, Web!Launch!Editable, Launch!SelectAttachments,
           Web!Launch!SelectAttachments
  <2>3. Launch!Submit => Web!Launch!Submit
    BY DEF Launch!Usable, Web!Launch!Usable, Launch!Idle, Web!Launch!Idle,
           Launch!Fingerprint, Web!Launch!Fingerprint, Launch!KeyFor, Web!Launch!KeyFor,
           Launch!Send, Web!Launch!Send, Launch!Existing, Web!Launch!Existing,
           Launch!Submit, Web!Launch!Submit
  <2>4. Launch!CreateIntent => Web!Launch!CreateIntent
    BY <1>c DEF Launch!Attachments, Web!Launch!Attachments, Launch!Idle, Web!Launch!Idle,
           Launch!Throws, Web!Launch!Throws, Launch!OfProject, Web!Launch!OfProject,
           Launch!LimitReached, Web!Launch!LimitReached, Launch!CreateIntent,
           Web!Launch!CreateIntent
  <2>5. Launch!Upload => Web!Launch!Upload
    BY DEF Launch!Idle, Web!Launch!Idle, Launch!GoOn, Web!Launch!GoOn, Launch!Throws,
           Web!Launch!Throws, Launch!Upload, Web!Launch!Upload
  <2>6. Launch!Complete => Web!Launch!Complete
    BY DEF Launch!Idle, Web!Launch!Idle, Launch!GoOn, Web!Launch!GoOn, Launch!Throws,
           Web!Launch!Throws, Launch!Complete, Web!Launch!Complete
  <2>7. Launch!WaitForClean => Web!Launch!WaitForClean
    BY DEF Launch!Attachments, Web!Launch!Attachments, Launch!Failed, Web!Launch!Failed,
           Launch!Idle, Web!Launch!Idle, Launch!Throws, Web!Launch!Throws,
           Launch!Fingerprint, Web!Launch!Fingerprint, Launch!KeyFor, Web!Launch!KeyFor,
           Launch!Send, Web!Launch!Send, Launch!OfProject, Web!Launch!OfProject,
           Launch!WaitForClean, Web!Launch!WaitForClean
  <2>8. \A k : Launch!WithKey(k) = Web!Launch!WithKey(k)
    BY DEF Launch!WithKey, Web!Launch!WithKey, Launch!Min, Web!Launch!Min,
           Launch!SelectInSeq, Web!Launch!SelectInSeq
  <2>9. Launch!CreateRun => Web!Launch!CreateRun
    BY <2>8 DEF Launch!Idle, Web!Launch!Idle, Launch!Left, Web!Launch!Left, Launch!Throws,
           Web!Launch!Throws, Launch!CreateRun, Web!Launch!CreateRun
  <2>10. ASSUME NEW a, Launch!Scan(a) PROVE Web!Launch!Scan(a)
    <3>1. \/ s1' = [s1 EXCEPT ![a].status = "CLEAN"]
          \/ s1' = [s1 EXCEPT ![a].status = "REJECTED"]
      BY <2>10, Zenon DEF Launch!Scan
    <3>2. s1[a].status = "QUARANTINED" /\ UNCHANGED <<s2, Web!Launch!page, s8>>
      BY <2>10 DEF Launch!Scan, Launch!page, Web!Launch!page
    <3>3. QED
      BY <3>1, <3>2 DEF Web!Launch!Scan
  <2>11. \A a \in DOMAIN s1 : Launch!Expire(a) => Web!Launch!Expire(a)
    BY DEF Launch!page, Web!Launch!page, Launch!Expire, Web!Launch!Expire
  <2>12. Launch!Reload => Web!Launch!Reload
    BY DEF Launch!FreshForm, Web!Launch!FreshForm, Launch!Idle, Web!Launch!Idle,
           Launch!NoRecords, Web!Launch!NoRecords, Launch!NoIntents, Web!Launch!NoIntents,
           Launch!Reload, Web!Launch!Reload
  <2>13. Launch!StartNewProject => Web!Launch!StartNewProject
    BY DEF Launch!NoRecords, Web!Launch!NoRecords, Launch!StartNewProject,
           Web!Launch!StartNewProject
  <2>14. Launch!Restore => Web!Launch!Restore
    BY DEF Launch!Restore, Web!Launch!Restore
  <2>15. Launch!RestoreFails => Web!Launch!RestoreFails
    BY DEF Launch!AfterFailedRestore, Web!Launch!AfterFailedRestore, Launch!RestoreFails,
           Web!Launch!RestoreFails
  <2>16. Launch!RetryRestore => Web!Launch!RetryRestore
    BY DEF Launch!RetryRestore, Web!Launch!RetryRestore
  <2>17. QED
    BY <2>1, <2>2, <2>3, <2>4, <2>5, <2>6, <2>7, <2>9, <2>10, <2>11, <2>12, <2>13, <2>14,
       <2>15, <2>16 DEF Launch!Next, Web!Launch!Next, Launch!Launching,
       Web!Launch!Launching, Launch!Attachments, Web!Launch!Attachments
<1>4. Web!Launch!TypeOK => Launch!TypeOK
  BY <1>c DEF Launch!Attachments, Web!Launch!Attachments, Launch!OfProject,
         Web!Launch!OfProject, Launch!Runs, Web!Launch!Runs, Launch!TypeOK,
         Web!Launch!TypeOK
<1>5. Web!Launch!OneRunPerSubmission => Launch!OneRunPerSubmission
  BY DEF Launch!Runs, Web!Launch!Runs, Launch!OneRunPerSubmission,
         Web!Launch!OneRunPerSubmission
<1>6. Web!Launch!RunHasItsFile => Launch!RunHasItsFile
  BY DEF Launch!Runs, Web!Launch!Runs, Launch!RunHasItsFile, Web!Launch!RunHasItsFile
<1>7. Web!Launch!ShownRunStaysReachable => Launch!ShownRunStaysReachable
  BY DEF Launch!NoRecords, Web!Launch!NoRecords, Launch!StartNewProject,
         Web!Launch!StartNewProject, Launch!ShownRunStaysReachable,
         Web!Launch!ShownRunStaysReachable
<1>8. QED
  BY <1>1, <1>2, <1>3, <1>4, <1>5, <1>6, <1>7

LEMMA LaunchFormRuns ==
    /\ Web!Launch!WorkspaceLaunchAssumption
    /\ Init /\ Plays("launch") => Web!Launch!Init
    /\ Plays("launch") /\ [Next]_vars => Plays("launch")' /\ [Web!Launch!Next]_(Web!Launch!vars)
    /\ ~ Plays("launch") /\ [Next]_vars => ~ Plays("launch")'
<1>1. Web!Launch!WorkspaceLaunchAssumption
  BY LaunchFormSame, ServicesAssumption
<1>2. Init /\ Plays("launch") => Web!Launch!Init
  BY LaunchFormSame DEF Init, Plays
<1>3. Plays("launch") /\ [Next]_vars => Plays("launch")' /\ [Web!Launch!Next]_(Web!Launch!vars)
  BY LaunchFormSame DEF Next, vars, Plays, Web!Launch!vars, Web!Launch!page
<1>4. ~ Plays("launch") /\ [Next]_vars => ~ Plays("launch")'
  BY PartStays DEF Plays
<1>5. QED
  BY <1>1, <1>2, <1>3, <1>4

LEMMA EditorSame ==
    /\ Editor!WorkspaceEditorAssumption => Web!Editor!WorkspaceEditorAssumption
    /\ Editor!Init => Web!Editor!Init
    /\ Editor!Next => Web!Editor!Next
    /\ Web!Editor!TypeOK => Editor!TypeOK
    /\ Web!Editor!NoRevisionIsOverwritten => Editor!NoRevisionIsOverwritten
BY DEF Editor!WorkspaceEditorAssumption, Web!Editor!WorkspaceEditorAssumption,
       Editor!Content, Web!Editor!Content, Editor!Version, Web!Editor!Version, Editor!Init,
       Web!Editor!Init, Editor!AgentWrites, Web!Editor!AgentWrites, Editor!Accepts,
       Web!Editor!Accepts, Editor!Revision, Web!Editor!Revision, Editor!Latest,
       Web!Editor!Latest, Editor!Listing, Web!Editor!Listing, Editor!RefreshFiles,
       Web!Editor!RefreshFiles, Editor!OpenFile, Web!Editor!OpenFile, Editor!ReadLatest,
       Web!Editor!ReadLatest, Editor!ReadPrevious, Web!Editor!ReadPrevious, Editor!ShowFile,
       Web!Editor!ShowFile, Editor!OpenFails, Web!Editor!OpenFails, Editor!Type,
       Web!Editor!Type, Editor!ExpectedVersion, Web!Editor!ExpectedVersion, Editor!SaveFile,
       Web!Editor!SaveFile, Editor!PutProjectFile, Web!Editor!PutProjectFile,
       Editor!ShowSaved, Web!Editor!ShowSaved, Editor!SaveAnswered, Web!Editor!SaveAnswered,
       Editor!CloseFile, Web!Editor!CloseFile, Editor!Next, Web!Editor!Next,
       Editor!Contents, Web!Editor!Contents, Editor!TypeOK, Web!Editor!TypeOK,
       Editor!NoRevisionIsOverwritten, Web!Editor!NoRevisionIsOverwritten

LEMMA EditorRuns ==
    /\ Web!Editor!WorkspaceEditorAssumption
    /\ Init /\ Plays("editor") => Web!Editor!Init
    /\ Plays("editor") /\ [Next]_vars => Plays("editor")' /\ [Web!Editor!Next]_(Web!Editor!vars)
    /\ ~ Plays("editor") /\ [Next]_vars => ~ Plays("editor")'
<1>1. Web!Editor!WorkspaceEditorAssumption
  BY EditorSame, ServicesAssumption
<1>2. Init /\ Plays("editor") => Web!Editor!Init
  BY EditorSame DEF Init, Plays
<1>3. Plays("editor") /\ [Next]_vars => Plays("editor")' /\ [Web!Editor!Next]_(Web!Editor!vars)
  BY EditorSame DEF Next, vars, Plays, Web!Editor!vars
<1>4. ~ Plays("editor") /\ [Next]_vars => ~ Plays("editor")'
  BY PartStays DEF Plays
<1>5. QED
  BY <1>1, <1>2, <1>3, <1>4

LEMMA EditorPathSame ==
    /\ EditorPath!WorkspaceEditorAssumption => Narrow!Editor!WorkspaceEditorAssumption
    /\ EditorPath!Init => Narrow!Editor!Init
    /\ EditorPath!Next => Narrow!Editor!Next
    /\ Narrow!Editor!TypeOK => EditorPath!TypeOK
    /\ Narrow!Editor!NoRevisionIsOverwritten => EditorPath!NoRevisionIsOverwritten
BY DEF EditorPath!WorkspaceEditorAssumption, Narrow!Editor!WorkspaceEditorAssumption,
       EditorPath!Content, Narrow!Editor!Content, EditorPath!Version, Narrow!Editor!Version,
       EditorPath!Init, Narrow!Editor!Init, EditorPath!AgentWrites,
       Narrow!Editor!AgentWrites, EditorPath!Accepts, Narrow!Editor!Accepts,
       EditorPath!Revision, Narrow!Editor!Revision, EditorPath!Latest, Narrow!Editor!Latest,
       EditorPath!Listing, Narrow!Editor!Listing, EditorPath!RefreshFiles,
       Narrow!Editor!RefreshFiles, EditorPath!OpenFile, Narrow!Editor!OpenFile,
       EditorPath!ReadLatest, Narrow!Editor!ReadLatest, EditorPath!ReadPrevious,
       Narrow!Editor!ReadPrevious, EditorPath!ShowFile, Narrow!Editor!ShowFile,
       EditorPath!OpenFails, Narrow!Editor!OpenFails, EditorPath!Type, Narrow!Editor!Type,
       EditorPath!ExpectedVersion, Narrow!Editor!ExpectedVersion, EditorPath!SaveFile,
       Narrow!Editor!SaveFile, EditorPath!PutProjectFile, Narrow!Editor!PutProjectFile,
       EditorPath!ShowSaved, Narrow!Editor!ShowSaved, EditorPath!SaveAnswered,
       Narrow!Editor!SaveAnswered, EditorPath!CloseFile, Narrow!Editor!CloseFile,
       EditorPath!Next, Narrow!Editor!Next, EditorPath!Contents, Narrow!Editor!Contents,
       EditorPath!TypeOK, Narrow!Editor!TypeOK, EditorPath!NoRevisionIsOverwritten,
       Narrow!Editor!NoRevisionIsOverwritten

LEMMA EditorPathRuns ==
    /\ Narrow!Editor!WorkspaceEditorAssumption
    /\ Init /\ Plays("editor path") => Narrow!Editor!Init
    /\ Plays("editor path") /\ [Next]_vars => Plays("editor path")' /\ [Narrow!Editor!Next]_(Narrow!Editor!vars)
    /\ ~ Plays("editor path") /\ [Next]_vars => ~ Plays("editor path")'
<1>1. Narrow!Editor!WorkspaceEditorAssumption
  BY EditorPathSame, ServicesAssumption
<1>2. Init /\ Plays("editor path") => Narrow!Editor!Init
  BY EditorPathSame DEF Init, Plays
<1>3. Plays("editor path") /\ [Next]_vars => Plays("editor path")' /\ [Narrow!Editor!Next]_(Narrow!Editor!vars)
  BY EditorPathSame DEF Next, vars, Plays, Narrow!Editor!vars
<1>4. ~ Plays("editor path") /\ [Next]_vars => ~ Plays("editor path")'
  BY PartStays DEF Plays
<1>5. QED
  BY <1>1, <1>2, <1>3, <1>4

LEMMA SellingSame ==
    /\ Deals!GtmDealsAssumption => Office!Sales!GtmDealsAssumption
    /\ Deals!Init => Office!Sales!Init
    /\ Deals!Next => Office!Sales!Next
    /\ Office!Sales!TypeOK => Deals!TypeOK
    /\ Office!Sales!OneScope => Deals!OneScope
    /\ Office!Sales!ClosedHasTime => Deals!ClosedHasTime
    /\ Office!Sales!HandoffIsDurable => Deals!HandoffIsDurable
BY DEF Deals!GtmDealsAssumption, Office!Sales!GtmDealsAssumption, Deals!OpenStages,
       Office!Sales!OpenStages, Deals!ClosedStages, Office!Sales!ClosedStages, Deals!Stages,
       Office!Sales!Stages, Deals!Spellings, Office!Sales!Spellings, Deals!None,
       Office!Sales!None, Deals!Prospects, Office!Sales!Prospects, Deals!Deal,
       Office!Sales!Deal, Deals!Handoff, Office!Sales!Handoff, Deals!Listed,
       Office!Sales!Listed, Deals!Init, Office!Sales!Init, Deals!Normalize,
       Office!Sales!Normalize, Deals!CreateProspect, Office!Sales!CreateProspect,
       Deals!ProspectsOf, Office!Sales!ProspectsOf, Deals!StageOf, Office!Sales!StageOf,
       Deals!IsClosed, Office!Sales!IsClosed, Deals!CreateDeal, Office!Sales!CreateDeal,
       Deals!ReadDeal, Office!Sales!ReadDeal, Deals!ClosedAt, Office!Sales!ClosedAt,
       Deals!UpdateDeal, Office!Sales!UpdateDeal, Deals!Ready, Office!Sales!Ready,
       Deals!ListDealsReadyForHandoff, Office!Sales!ListDealsReadyForHandoff, Deals!Insert,
       Office!Sales!Insert, Deals!RecordHandoff, Office!Sales!RecordHandoff,
       Deals!SweepFails, Office!Sales!SweepFails, Deals!Record, Office!Sales!Record,
       Deals!ProspectRequest, Office!Sales!ProspectRequest, Deals!DealRequest,
       Office!Sales!DealRequest, Deals!StageRequest, Office!Sales!StageRequest, Deals!Next,
       Office!Sales!Next, Deals!TypeOK, Office!Sales!TypeOK, Deals!OneScope,
       Office!Sales!OneScope, Deals!ClosedHasTime, Office!Sales!ClosedHasTime,
       Deals!HandoffIsDurable, Office!Sales!HandoffIsDurable

LEMMA SellingRuns ==
    /\ Office!Sales!GtmDealsAssumption
    /\ Init /\ Plays("deals") => Office!Sales!Init
    /\ Plays("deals") /\ [Next]_vars => Plays("deals")' /\ [Office!Sales!Next]_(Office!Sales!vars)
    /\ ~ Plays("deals") /\ [Next]_vars => ~ Plays("deals")'
<1>1. Office!Sales!GtmDealsAssumption
  BY SellingSame, ServicesAssumption
<1>2. Init /\ Plays("deals") => Office!Sales!Init
  BY SellingSame DEF Init, Plays
<1>3. Plays("deals") /\ [Next]_vars => Plays("deals")' /\ [Office!Sales!Next]_(Office!Sales!vars)
  BY SellingSame DEF Next, vars, Plays, Office!Sales!vars
<1>4. ~ Plays("deals") /\ [Next]_vars => ~ Plays("deals")'
  BY PartStays DEF Plays
<1>5. QED
  BY <1>1, <1>2, <1>3, <1>4

LEMMA ReachingSame ==
    /\ Outreach!GtmOutreachAssumption => Office!Outreach!GtmOutreachAssumption
    /\ Outreach!Init => Office!Outreach!Init
    /\ Outreach!Next => Office!Outreach!Next
    /\ Office!Outreach!TypeOK => Outreach!TypeOK
    /\ Office!Outreach!ScopesDoNotMix => Outreach!ScopesDoNotMix
    /\ Office!Outreach!SuppressionIsStable => Outreach!SuppressionIsStable
BY DEF Outreach!GtmOutreachAssumption, Office!Outreach!GtmOutreachAssumption, Outreach!None,
       Office!Outreach!None, Outreach!Sequences, Office!Outreach!Sequences, Outreach!Times,
       Office!Outreach!Times, Outreach!Request, Office!Outreach!Request, Outreach!Init,
       Office!Outreach!Init, Outreach!Administrative, Office!Outreach!Administrative,
       Outreach!Access, Office!Outreach!Access, Outreach!CreateGtmScope,
       Office!Outreach!CreateGtmScope, Outreach!CreateOutreachSequence,
       Office!Outreach!CreateOutreachSequence, Outreach!Reachable,
       Office!Outreach!Reachable, Outreach!RecordOutreachEvent,
       Office!Outreach!RecordOutreachEvent, Outreach!Answer, Office!Outreach!Answer,
       Outreach!AskToSuppress, Office!Outreach!AskToSuppress, Outreach!FindEntry,
       Office!Outreach!FindEntry, Outreach!Taken, Office!Outreach!Taken,
       Outreach!CreateEntry, Office!Outreach!CreateEntry, Outreach!LosesRace,
       Office!Outreach!LosesRace, Outreach!Reread, Office!Outreach!Reread,
       Outreach!CreateLeadScore, Office!Outreach!CreateLeadScore, Outreach!Suppress,
       Office!Outreach!Suppress, Outreach!ScopeRequest, Office!Outreach!ScopeRequest,
       Outreach!SequenceRequest, Office!Outreach!SequenceRequest, Outreach!ScoreRequest,
       Office!Outreach!ScoreRequest, Outreach!SuppressionRequest,
       Office!Outreach!SuppressionRequest, Outreach!EventRequest,
       Office!Outreach!EventRequest, Outreach!Next, Office!Outreach!Next, Outreach!TypeOK,
       Office!Outreach!TypeOK, Outreach!ScopesDoNotMix, Office!Outreach!ScopesDoNotMix,
       Outreach!SuppressionIsStable, Office!Outreach!SuppressionIsStable

LEMMA ReachingRuns ==
    /\ Office!Outreach!GtmOutreachAssumption
    /\ Init /\ Plays("outreach") => Office!Outreach!Init
    /\ Plays("outreach") /\ [Next]_vars => Plays("outreach")' /\ [Office!Outreach!Next]_(Office!Outreach!vars)
    /\ ~ Plays("outreach") /\ [Next]_vars => ~ Plays("outreach")'
<1>1. Office!Outreach!GtmOutreachAssumption
  BY ReachingSame, ServicesAssumption
<1>2. Init /\ Plays("outreach") => Office!Outreach!Init
  BY ReachingSame DEF Init, Plays
<1>3. Plays("outreach") /\ [Next]_vars => Plays("outreach")' /\ [Office!Outreach!Next]_(Office!Outreach!vars)
  BY ReachingSame DEF Next, vars, Plays, Office!Outreach!vars
<1>4. ~ Plays("outreach") /\ [Next]_vars => ~ Plays("outreach")'
  BY PartStays DEF Plays
<1>5. QED
  BY <1>1, <1>2, <1>3, <1>4

LEMMA MeetingSame ==
    /\ Meeting!MeetingsAssumption => Web!Meeting!MeetingsAssumption
    /\ Meeting!Init => Web!Meeting!Init
    /\ Meeting!Next => Web!Meeting!Next
    /\ Web!Meeting!TypeOK => Meeting!TypeOK
    /\ Web!Meeting!UnlockedIsSaved => Meeting!UnlockedIsSaved
    /\ Web!Meeting!ConflictIsReal => Meeting!ConflictIsReal
    /\ Web!Meeting!BriefIsFinal => Meeting!BriefIsFinal
BY DEF Meeting!MeetingsAssumption, Web!Meeting!MeetingsAssumption, Meeting!Absent,
       Web!Meeting!Absent, Meeting!Meeting, Web!Meeting!Meeting, Meeting!Page,
       Web!Meeting!Page, Meeting!Statuses, Web!Meeting!Statuses, Meeting!Form,
       Web!Meeting!Form, Meeting!Runs, Web!Meeting!Runs, Meeting!Load, Web!Meeting!Load,
       Meeting!Save, Web!Meeting!Save, Meeting!NoLoad, Web!Meeting!NoLoad, Meeting!NoSave,
       Web!Meeting!NoSave, Meeting!NoForm, Web!Meeting!NoForm, Meeting!TypeOK,
       Web!Meeting!TypeOK, Meeting!Init, Web!Meeting!Init, Meeting!Renders,
       Web!Meeting!Renders, Meeting!Mounted, Web!Meeting!Mounted, Meeting!Rendered,
       Web!Meeting!Rendered, Meeting!SetPage, Web!Meeting!SetPage, Meeting!StartLoad,
       Web!Meeting!StartLoad, Meeting!Select, Web!Meeting!Select, Meeting!Retry,
       Web!Meeting!Retry, Meeting!Active, Web!Meeting!Active, Meeting!ListMeetings,
       Web!Meeting!ListMeetings, Meeting!Taken, Web!Meeting!Taken, Meeting!NewMeeting,
       Web!Meeting!NewMeeting, Meeting!CreateMeeting, Web!Meeting!CreateMeeting,
       Meeting!LoadAnswers, Web!Meeting!LoadAnswers, Meeting!LoadFails,
       Web!Meeting!LoadFails, Meeting!SetForm, Web!Meeting!SetForm, Meeting!CopyPrompt,
       Web!Meeting!CopyPrompt, Meeting!UpdateResponse, Web!Meeting!UpdateResponse,
       Meeting!Valid, Web!Meeting!Valid, Meeting!ValidateResponse,
       Web!Meeting!ValidateResponse, Meeting!ApplyResponse, Web!Meeting!ApplyResponse,
       Meeting!Caller, Web!Meeting!Caller, Meeting!SetSave, Web!Meeting!SetSave,
       Meeting!Same, Web!Meeting!Same, Meeting!Conflict, Web!Meeting!Conflict,
       Meeting!Finish, Web!Meeting!Finish, Meeting!ReadAccess, Web!Meeting!ReadAccess,
       Meeting!ReadCurrent, Web!Meeting!ReadCurrent, Meeting!Matches, Web!Meeting!Matches,
       Meeting!Swap, Web!Meeting!Swap, Meeting!SaveSucceeds, Web!Meeting!SaveSucceeds,
       Meeting!SaveFails, Web!Meeting!SaveFails, Meeting!LoadStep, Web!Meeting!LoadStep,
       Meeting!SaveStep, Web!Meeting!SaveStep, Meeting!Next, Web!Meeting!Next,
       Meeting!BriefIsFinal, Web!Meeting!BriefIsFinal, Meeting!UnlockedIsSaved,
       Web!Meeting!UnlockedIsSaved, Meeting!ConflictIsReal, Web!Meeting!ConflictIsReal

LEMMA MeetingRuns ==
    /\ Web!Meeting!MeetingsAssumption
    /\ Init /\ Plays("meeting") => Web!Meeting!Init
    /\ Plays("meeting") /\ [Next]_vars => Plays("meeting")' /\ [Web!Meeting!Next]_(Web!Meeting!vars)
    /\ ~ Plays("meeting") /\ [Next]_vars => ~ Plays("meeting")'
<1>1. Web!Meeting!MeetingsAssumption
  BY MeetingSame, ServicesAssumption
<1>2. Init /\ Plays("meeting") => Web!Meeting!Init
  BY MeetingSame DEF Init, Plays
<1>3. Plays("meeting") /\ [Next]_vars => Plays("meeting")' /\ [Web!Meeting!Next]_(Web!Meeting!vars)
  BY MeetingSame DEF Next, vars, Plays, Web!Meeting!vars
<1>4. ~ Plays("meeting") /\ [Next]_vars => ~ Plays("meeting")'
  BY PartStays DEF Plays
<1>5. QED
  BY <1>1, <1>2, <1>3, <1>4

LEMMA MeetingPagesSame ==
    /\ MeetingPages!MeetingsAssumption => Narrow!Meeting!MeetingsAssumption
    /\ MeetingPages!Init => Narrow!Meeting!Init
    /\ MeetingPages!Next => Narrow!Meeting!Next
    /\ Narrow!Meeting!TypeOK => MeetingPages!TypeOK
    /\ Narrow!Meeting!StaleLoadIsIgnored => MeetingPages!StaleLoadIsIgnored
BY DEF MeetingPages!MeetingsAssumption, Narrow!Meeting!MeetingsAssumption,
       MeetingPages!Absent, Narrow!Meeting!Absent, MeetingPages!Meeting,
       Narrow!Meeting!Meeting, MeetingPages!Page, Narrow!Meeting!Page,
       MeetingPages!Statuses, Narrow!Meeting!Statuses, MeetingPages!Form,
       Narrow!Meeting!Form, MeetingPages!Runs, Narrow!Meeting!Runs, MeetingPages!Load,
       Narrow!Meeting!Load, MeetingPages!Save, Narrow!Meeting!Save, MeetingPages!NoLoad,
       Narrow!Meeting!NoLoad, MeetingPages!NoSave, Narrow!Meeting!NoSave,
       MeetingPages!NoForm, Narrow!Meeting!NoForm, MeetingPages!TypeOK,
       Narrow!Meeting!TypeOK, MeetingPages!Init, Narrow!Meeting!Init, MeetingPages!Renders,
       Narrow!Meeting!Renders, MeetingPages!Mounted, Narrow!Meeting!Mounted,
       MeetingPages!Rendered, Narrow!Meeting!Rendered, MeetingPages!SetPage,
       Narrow!Meeting!SetPage, MeetingPages!StartLoad, Narrow!Meeting!StartLoad,
       MeetingPages!Select, Narrow!Meeting!Select, MeetingPages!Retry, Narrow!Meeting!Retry,
       MeetingPages!Active, Narrow!Meeting!Active, MeetingPages!ListMeetings,
       Narrow!Meeting!ListMeetings, MeetingPages!Taken, Narrow!Meeting!Taken,
       MeetingPages!NewMeeting, Narrow!Meeting!NewMeeting, MeetingPages!CreateMeeting,
       Narrow!Meeting!CreateMeeting, MeetingPages!LoadAnswers, Narrow!Meeting!LoadAnswers,
       MeetingPages!LoadFails, Narrow!Meeting!LoadFails, MeetingPages!SetForm,
       Narrow!Meeting!SetForm, MeetingPages!CopyPrompt, Narrow!Meeting!CopyPrompt,
       MeetingPages!UpdateResponse, Narrow!Meeting!UpdateResponse, MeetingPages!Valid,
       Narrow!Meeting!Valid, MeetingPages!ValidateResponse, Narrow!Meeting!ValidateResponse,
       MeetingPages!ApplyResponse, Narrow!Meeting!ApplyResponse, MeetingPages!Caller,
       Narrow!Meeting!Caller, MeetingPages!SetSave, Narrow!Meeting!SetSave,
       MeetingPages!Same, Narrow!Meeting!Same, MeetingPages!Conflict,
       Narrow!Meeting!Conflict, MeetingPages!Finish, Narrow!Meeting!Finish,
       MeetingPages!ReadAccess, Narrow!Meeting!ReadAccess, MeetingPages!ReadCurrent,
       Narrow!Meeting!ReadCurrent, MeetingPages!Matches, Narrow!Meeting!Matches,
       MeetingPages!Swap, Narrow!Meeting!Swap, MeetingPages!SaveSucceeds,
       Narrow!Meeting!SaveSucceeds, MeetingPages!SaveFails, Narrow!Meeting!SaveFails,
       MeetingPages!LoadStep, Narrow!Meeting!LoadStep, MeetingPages!SaveStep,
       Narrow!Meeting!SaveStep, MeetingPages!Next, Narrow!Meeting!Next,
       MeetingPages!StaleLoadIsIgnored, Narrow!Meeting!StaleLoadIsIgnored

LEMMA MeetingPagesRuns ==
    /\ Narrow!Meeting!MeetingsAssumption
    /\ Init /\ Plays("pages") => Narrow!Meeting!Init
    /\ Plays("pages") /\ [Next]_vars => Plays("pages")' /\ [Narrow!Meeting!Next]_(Narrow!Meeting!vars)
    /\ ~ Plays("pages") /\ [Next]_vars => ~ Plays("pages")'
<1>1. Narrow!Meeting!MeetingsAssumption
  BY MeetingPagesSame, ServicesAssumption
<1>2. Init /\ Plays("pages") => Narrow!Meeting!Init
  BY MeetingPagesSame DEF Init, Plays
<1>3. Plays("pages") /\ [Next]_vars => Plays("pages")' /\ [Narrow!Meeting!Next]_(Narrow!Meeting!vars)
  BY MeetingPagesSame DEF Next, vars, Plays, Narrow!Meeting!vars
<1>4. ~ Plays("pages") /\ [Next]_vars => ~ Plays("pages")'
  BY PartStays DEF Plays
<1>5. QED
  BY <1>1, <1>2, <1>3, <1>4

-----------------------------------------------------------------------------
(* The theorems of the parts, in the composition *)

\* LoadAttachment in the composed system: whatever is uploaded again, delivered
\* twice or left behind by a request that died, a run reads what was scanned.
THEOREM RunReadsScannedBytesHolds == Spec => []RunReadsScannedBytes
<1>1. Office!Attachment!Spec => []Office!Attachment!TypeOK
  BY ScanRuns, Office!ScanTypeCorrect
<1>2. Office!Attachment!Spec => []Office!Attachment!RunReadsScannedBytes
  BY ScanRuns, Office!RunReadsScannedBytesHolds
<1>3. (Plays("attachments") => Office!Attachment!TypeOK /\ Office!Attachment!RunReadsScannedBytes)
      => RunReadsScannedBytes
  BY ScanSame DEF RunReadsScannedBytes, Plays
<1>4. QED
  BY <1>1, <1>2, <1>3, ScanRuns, PTL DEF Spec, Office!Attachment!Spec

\* Phase2RunValidator and the preview reopen in the composed system, with a run that is
\* resumed beside its old execution and with validations that are tried again: a sandbox
\* is somebody's, and a live preview passed its checks and is served; unless its creation
\* or its publication was not heard of, or two executions had its session.
THEOREM PreviewsAreAccountedForHolds == Spec => []PreviewsAreAccountedFor
<1>1. Desk!Preview!Spec => []Desk!Preview!TypeOK
  BY PreviewingRuns, Desk!PreviewTypeCorrect DEF Desk!Careful
<1>2. Desk!Preview!Spec => []Desk!Preview!NoSandboxIsForgotten
  BY PreviewingRuns, Desk!NoSandboxIsForgottenHolds DEF Desk!Careful
<1>3. Desk!Preview!Spec => []Desk!Preview!PublishedIsValidated
  BY PreviewingRuns, Desk!PublishedIsValidatedHolds DEF Desk!Careful
<1>4. Desk!Preview!Spec => []Desk!Preview!PublishedPreviewIsServed
  BY PreviewingRuns, Desk!PublishedPreviewIsServedHolds DEF Desk!Careful
<1>5. Office!Preview!Spec => []Office!Preview!NoSandboxIsForgotten
  BY RetryingRuns, Office!NoSandboxIsForgottenHolds DEF Office!Careful
<1>6. Office!Preview!Spec => []Office!Preview!PublishedIsValidated
  BY RetryingRuns, Office!PublishedIsValidatedHolds DEF Office!Careful
<1>7. Office!Preview!Spec => []Office!Preview!PublishedPreviewIsServed
  BY RetryingRuns, Office!PublishedPreviewIsServedHolds DEF Office!Careful
<1>8. /\ (Plays("previews") => Desk!Preview!TypeOK /\ Desk!Preview!NoSandboxIsForgotten /\ Desk!Preview!PublishedIsValidated /\ Desk!Preview!PublishedPreviewIsServed)
      /\ (Plays("retries") => Office!Preview!NoSandboxIsForgotten /\ Office!Preview!PublishedIsValidated /\ Office!Preview!PublishedPreviewIsServed)
      => PreviewsAreAccountedFor
  BY PreviewingSame, RetryingSame DEF PreviewsAreAccountedFor, Plays
<1>9. QED
  BY <1>1, <1>2, <1>3, <1>4, <1>5, <1>6, <1>7, <1>8, PreviewingRuns, RetryingRuns,
     PTL DEF Spec, Desk!Preview!Spec, Office!Preview!Spec

\* claimOrphanCleanup in the composed system: what is destroyed was seen untracked by
\* two sweeps, had its grace period, and was approved since.
THEOREM CleanupIsEarnedHolds == Spec => []CleanupIsEarned
<1>1. Office!Cleanup!Spec => []Office!Cleanup!TypeOK
  BY CleanupRuns, Office!CleanupTypeCorrect
<1>2. Office!Cleanup!Spec => []Office!Cleanup!CleanupIsEarned
  BY CleanupRuns, Office!CleanupIsEarnedHolds
<1>3. (Plays("orphans") => Office!Cleanup!TypeOK /\ Office!Cleanup!CleanupIsEarned)
      => CleanupIsEarned
  BY CleanupSame DEF CleanupIsEarned, Plays
<1>4. QED
  BY <1>1, <1>2, <1>3, CleanupRuns, PTL DEF Spec, Office!Cleanup!Spec

\* listRunEventsAfter and the Last-Event-ID in the composed system: what
\* a page has is the beginning of the log of its run.
THEOREM GaplessReplayHolds == Spec => []GaplessReplay
<1>1. Web!Stream!Spec => []Web!Stream!TypeOK
  BY StreamRuns, Web!StreamTypeCorrect
<1>2. Web!Stream!Spec => []Web!Stream!GaplessReplay
  BY StreamRuns, Web!GaplessReplayHolds
<1>3. (Plays("stream") => Web!Stream!TypeOK /\ Web!Stream!GaplessReplay)
      => GaplessReplay
  BY StreamSame DEF GaplessReplay, Plays
<1>4. QED
  BY <1>1, <1>2, <1>3, StreamRuns, PTL DEF Spec, Web!Stream!Spec

\* putProjectFile in the composed system, for several files and for many versions
\* of one: a save is stored right above the revision it was typed over.
THEOREM NoRevisionIsOverwrittenHolds == Spec => []NoRevisionIsOverwritten
<1>1. Web!Editor!Spec => []Web!Editor!TypeOK
  BY EditorRuns, Web!EditorTypeCorrect
<1>2. Web!Editor!Spec => []Web!Editor!NoRevisionIsOverwritten
  BY EditorRuns, Web!NoRevisionIsOverwrittenHolds
<1>3. Narrow!Editor!Spec => []Narrow!Editor!TypeOK
  BY EditorPathRuns, Narrow!EditorTypeCorrect
<1>4. Narrow!Editor!Spec => []Narrow!Editor!NoRevisionIsOverwritten
  BY EditorPathRuns, Narrow!NoRevisionIsOverwrittenHolds
<1>5. /\ (Plays("editor") => Web!Editor!TypeOK /\ Web!Editor!NoRevisionIsOverwritten)
      /\ (Plays("editor path") => Narrow!Editor!TypeOK /\ Narrow!Editor!NoRevisionIsOverwritten)
      => NoRevisionIsOverwritten
  BY EditorSame, EditorPathSame DEF NoRevisionIsOverwritten, Plays
<1>6. QED
  BY <1>1, <1>2, <1>3, <1>4, <1>5, EditorRuns, EditorPathRuns, PTL DEF Spec, Web!Editor!Spec,
     Narrow!Editor!Spec

\* The meeting pages in the composed system: what unlocks building is on record,
\* who is refused has lost, and late loads are dropped.
THEOREM UnlockedIsSavedHolds == Spec => []UnlockedIsSaved
<1>1. Web!Meeting!Spec => []Web!Meeting!TypeOK
  BY MeetingRuns, Web!MeetingTypeCorrect
<1>2. Web!Meeting!Spec => []Web!Meeting!UnlockedIsSaved
  BY MeetingRuns, Web!UnlockedIsSavedHolds
<1>3. Web!Meeting!Spec => []Web!Meeting!ConflictIsReal
  BY MeetingRuns, Web!ConflictIsRealHolds
<1>4. Narrow!Meeting!Spec => []Narrow!Meeting!TypeOK
  BY MeetingPagesRuns, Narrow!MeetingTypeCorrect
<1>5. Narrow!Meeting!Spec => []Narrow!Meeting!StaleLoadIsIgnored
  BY MeetingPagesRuns, Narrow!StaleLoadIsIgnoredHolds
<1>6. /\ (Plays("meeting") => Web!Meeting!TypeOK /\ Web!Meeting!UnlockedIsSaved /\ Web!Meeting!ConflictIsReal)
      /\ (Plays("pages") => Narrow!Meeting!TypeOK /\ Narrow!Meeting!StaleLoadIsIgnored)
      => UnlockedIsSaved
  BY MeetingSame, MeetingPagesSame DEF UnlockedIsSaved, Plays
<1>7. QED
  BY <1>1, <1>2, <1>3, <1>4, <1>5, <1>6, MeetingRuns, MeetingPagesRuns, PTL DEF Spec,
     Web!Meeting!Spec, Narrow!Meeting!Spec

\* provision() and the migration in the composed system: whatever call fails, the
\* next execution can adopt the project, and neither lease nor sandbox is forgotten,
\* unless the call that creates or frees it was not heard of.
THEOREM ProvisionCanBeRepeatedHolds == Spec => []ProvisionCanBeRepeated
<1>1. Office!Provision!Spec => []Office!Provision!TypeOK
  BY ProvisioningRuns, Office!ProvisionTypeCorrect
<1>2. Office!Provision!Spec => []Office!Provision!StaysAdoptable
  BY ProvisioningRuns, Office!StaysAdoptableHolds
<1>3. Office!Provision!Spec => []Office!Provision!NothingIsLeftBehind
  BY ProvisioningRuns, Office!NothingIsLeftBehindHolds
<1>4. (Plays("provision") => Office!Provision!TypeOK /\ Office!Provision!StaysAdoptable /\ Office!Provision!NothingIsLeftBehind)
      => ProvisionCanBeRepeated
  BY ProvisioningSame DEF ProvisionCanBeRepeated, Plays
<1>5. QED
  BY <1>1, <1>2, <1>3, <1>4, ProvisioningRuns, PTL DEF Spec, Office!Provision!Spec

\* launchRun in the composed system: one submission creates one run, and one more only
\* when the project was left under the launch; with the file its form held, unless that
\* was chosen under an earlier launch.
THEOREM LaunchIsExactHolds == Spec => []LaunchIsExact
<1>1. Web!Launch!Spec => []Web!Launch!TypeOK
  BY LaunchFormRuns, Web!LaunchTypeCorrect
<1>2. Web!Launch!Spec => []Web!Launch!OneRunPerSubmission
  BY LaunchFormRuns, Web!OneRunPerSubmissionHolds
<1>3. Web!Launch!Spec => []Web!Launch!RunHasItsFile
  BY LaunchFormRuns, Web!RunHasItsFileHolds
<1>4. (Plays("launch") => Web!Launch!TypeOK /\ Web!Launch!OneRunPerSubmission /\ Web!Launch!RunHasItsFile)
      => LaunchIsExact
  BY LaunchFormSame DEF LaunchIsExact, Plays
<1>5. QED
  BY <1>1, <1>2, <1>3, <1>4, LaunchFormRuns, PTL DEF Spec, Web!Launch!Spec

\* The GTM repositories in the composed system: what is stored stays in its scope,
\* and a closed deal has its time.
THEOREM ScopesDoNotMixHolds == Spec => []ScopesDoNotMix
<1>1. Office!Sales!Spec => []Office!Sales!TypeOK
  BY SellingRuns, Office!DealTypeCorrect
<1>2. Office!Sales!Spec => []Office!Sales!OneScope
  BY SellingRuns, Office!OneScopeHolds
<1>3. Office!Sales!Spec => []Office!Sales!ClosedHasTime
  BY SellingRuns, Office!ClosedHasTimeHolds
<1>4. Office!Outreach!Spec => []Office!Outreach!TypeOK
  BY ReachingRuns, Office!OutreachTypeCorrect
<1>5. Office!Outreach!Spec => []Office!Outreach!ScopesDoNotMix
  BY ReachingRuns, Office!ScopesDoNotMixHolds
<1>6. /\ (Plays("deals") => Office!Sales!TypeOK /\ Office!Sales!OneScope /\ Office!Sales!ClosedHasTime)
      /\ (Plays("outreach") => Office!Outreach!TypeOK /\ Office!Outreach!ScopesDoNotMix)
      => ScopesDoNotMix
  BY SellingSame, ReachingSame DEF ScopesDoNotMix, Plays
<1>7. QED
  BY <1>1, <1>2, <1>3, <1>4, <1>5, <1>6, SellingRuns, ReachingRuns, PTL DEF Spec,
     Office!Sales!Spec, Office!Outreach!Spec

\* persistAssessment and ExecutionReadiness.current() in the composed system: a READY
\* release keeps its evidence, and /readyz rests on a recent report.
THEOREM VerdictsAreBackedHolds == Spec => []VerdictsAreBacked
<1>1. Office!Assess!Spec => []Office!Assess!TypeOK
  BY ReleasingRuns, Office!ReleaseTypeCorrect
<1>2. Office!Assess!Spec => []Office!Assess!ReadyKeepsItsEvidence
  BY ReleasingRuns, Office!ReadyKeepsItsEvidenceHolds
<1>3. Office!Assess!Spec => []Office!Assess!AnnouncedIsStored
  BY ReleasingRuns, Office!AnnouncedIsStoredHolds
<1>4. Office!Assess!Spec => []Office!Assess!CompletedIsAssessed
  BY ReleasingRuns, Office!CompletedIsAssessedHolds
<1>5. Desk!Assess!Spec => []Desk!Assess!TypeOK
  BY ByHandRuns, Desk!ReleaseTypeCorrect
<1>6. Office!Ready!Spec => []Office!Ready!TypeOK
  BY ReportingRuns, Office!ReadinessTypeCorrect
<1>7. Office!Ready!Spec => []Office!Ready!ReadyIsBacked
  BY ReportingRuns, Office!ReadyIsBackedHolds
<1>8. /\ (Plays("release") => Office!Assess!TypeOK /\ Office!Assess!ReadyKeepsItsEvidence /\ Office!Assess!AnnouncedIsStored /\ Office!Assess!CompletedIsAssessed)
      /\ (Plays("manual") => Desk!Assess!TypeOK)
      /\ (Plays("readiness") => Office!Ready!TypeOK /\ Office!Ready!ReadyIsBacked)
      => VerdictsAreBacked
  BY ReleasingSame, ByHandSame, ReportingSame DEF VerdictsAreBacked, Plays
<1>9. QED
  BY <1>1, <1>2, <1>3, <1>4, <1>5, <1>6, <1>7, <1>8, ReleasingRuns, ByHandRuns, ReportingRuns,
     PTL DEF Spec, Office!Assess!Spec, Desk!Assess!Spec, Office!Ready!Spec

\* What the parts settle, in the composed system: a step never takes back the verdict of
\* a scan, a handoff, a suppression, a completed brief, a worker's release row or the
\* pointer to a run.
THEOREM WhatIsSettledStaysHolds == Spec => WhatIsSettledStays
<1>1. Office!Attachment!Spec => [][Office!Attachment!VerdictIsFinal]_(Office!Attachment!vars)
  BY ScanRuns, Office!VerdictIsFinalHolds
<1>2. Office!Sales!Spec => [][Office!Sales!HandoffIsDurable]_(Office!Sales!vars)
  BY SellingRuns, Office!HandoffIsDurableHolds
<1>3. Office!Outreach!Spec => [][Office!Outreach!SuppressionIsStable]_(Office!Outreach!vars)
  BY ReachingRuns, Office!SuppressionIsStableHolds
<1>4. Web!Meeting!Spec => [][Web!Meeting!BriefIsFinal]_(Web!Meeting!vars)
  BY MeetingRuns, Web!BriefIsFinalHolds
<1>5. Desk!Assess!Spec => [][Desk!Assess!WorkerRowIsKept]_(Desk!Assess!vars)
  BY ByHandRuns, Desk!WorkerRowIsKeptHolds
<1>6. Web!Launch!Spec => [][Web!Launch!ShownRunStaysReachable]_(Web!Launch!vars)
  BY LaunchFormRuns, Web!ShownRunStaysReachableHolds
<1>7. Plays("attachments") /\ [Next]_vars /\ [Office!Attachment!VerdictIsFinal]_(Office!Attachment!vars)
      => vars' = vars \/ Attachments!VerdictIsFinal
  BY ScanSame, SMTT(40) DEF Next, vars, Plays, Office!Attachment!vars,
     Office!Attachment!row, Office!Attachment!storage, Office!Attachment!run
<1>8. Plays("deals") /\ [Next]_vars /\ [Office!Sales!HandoffIsDurable]_(Office!Sales!vars)
      => vars' = vars \/ Deals!HandoffIsDurable
  BY SellingSame, SMTT(40) DEF Next, vars, Plays, Office!Sales!vars
<1>9. Plays("outreach") /\ [Next]_vars /\ [Office!Outreach!SuppressionIsStable]_(Office!Outreach!vars)
      => vars' = vars \/ Outreach!SuppressionIsStable
  BY ReachingSame, SMTT(40) DEF Next, vars, Plays, Office!Outreach!vars
<1>10. Plays("meeting") /\ [Next]_vars /\ [Web!Meeting!BriefIsFinal]_(Web!Meeting!vars)
      => vars' = vars \/ Meeting!BriefIsFinal
  BY MeetingSame, SMTT(40) DEF Next, vars, Plays, Web!Meeting!vars
<1>11. Plays("manual") /\ [Next]_vars /\ [Desk!Assess!WorkerRowIsKept]_(Desk!Assess!vars)
      => vars' = vars \/ Manual!WorkerRowIsKept
  BY ByHandSame, SMTT(40) DEF Next, vars, Plays, Desk!Assess!vars, Desk!Assess!run,
     Desk!Assess!stored, Desk!Assess!other
<1>12. Plays("launch") /\ [Next]_vars /\ [Web!Launch!ShownRunStaysReachable]_(Web!Launch!vars)
      => vars' = vars \/ Launch!ShownRunStaysReachable
  BY LaunchFormSame, SMTT(40) DEF Next, vars, Plays, Web!Launch!vars, Web!Launch!page
<1>13. Spec => [][part = "attachments" => Attachments!VerdictIsFinal]_vars
  <2>1. [Next]_vars /\ (Plays("attachments") => [Office!Attachment!VerdictIsFinal]_(Office!Attachment!vars))
        => [part = "attachments" => Attachments!VerdictIsFinal]_vars
    BY <1>7, Zenon DEF Plays
  <2>2. QED
    BY <1>1, <2>1, ScanRuns, PTL DEF Spec, Office!Attachment!Spec
<1>14. Spec => [][part = "deals" => Deals!HandoffIsDurable]_vars
  <2>1. [Next]_vars /\ (Plays("deals") => [Office!Sales!HandoffIsDurable]_(Office!Sales!vars))
        => [part = "deals" => Deals!HandoffIsDurable]_vars
    BY <1>8, Zenon DEF Plays
  <2>2. QED
    BY <1>2, <2>1, SellingRuns, PTL DEF Spec, Office!Sales!Spec
<1>15. Spec => [][part = "outreach" => Outreach!SuppressionIsStable]_vars
  <2>1. [Next]_vars /\ (Plays("outreach") => [Office!Outreach!SuppressionIsStable]_(Office!Outreach!vars))
        => [part = "outreach" => Outreach!SuppressionIsStable]_vars
    BY <1>9, Zenon DEF Plays
  <2>2. QED
    BY <1>3, <2>1, ReachingRuns, PTL DEF Spec, Office!Outreach!Spec
<1>16. Spec => [][part = "meeting" => Meeting!BriefIsFinal]_vars
  <2>1. [Next]_vars /\ (Plays("meeting") => [Web!Meeting!BriefIsFinal]_(Web!Meeting!vars))
        => [part = "meeting" => Meeting!BriefIsFinal]_vars
    BY <1>10, Zenon DEF Plays
  <2>2. QED
    BY <1>4, <2>1, MeetingRuns, PTL DEF Spec, Web!Meeting!Spec
<1>17. Spec => [][part = "manual" => Manual!WorkerRowIsKept]_vars
  <2>1. [Next]_vars /\ (Plays("manual") => [Desk!Assess!WorkerRowIsKept]_(Desk!Assess!vars))
        => [part = "manual" => Manual!WorkerRowIsKept]_vars
    BY <1>11, Zenon DEF Plays
  <2>2. QED
    BY <1>5, <2>1, ByHandRuns, PTL DEF Spec, Desk!Assess!Spec
<1>18. Spec => [][part = "launch" => Launch!ShownRunStaysReachable]_vars
  <2>1. [Next]_vars /\ (Plays("launch") => [Web!Launch!ShownRunStaysReachable]_(Web!Launch!vars))
        => [part = "launch" => Launch!ShownRunStaysReachable]_vars
    BY <1>12, Zenon DEF Plays
  <2>2. QED
    BY <1>6, <2>1, LaunchFormRuns, PTL DEF Spec, Web!Launch!Spec
<1>19. QED
  BY <1>13, <1>14, <1>15, <1>16, <1>17, <1>18, PTL DEF WhatIsSettledStays

===============================================================================
