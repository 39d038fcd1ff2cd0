---------------------------- MODULE MCServices ----------------------------
(* The parts of the running system that share no row, job or object with each  *)
(* other, on one small instance each. What one of them may do does not depend  *)
(* on the others, so a behaviour in which they interleave is, for each part,   *)
(* one in which that part runs alone: `part` picks the part that runs, and the *)
(* variables s1, s2, ... are the variables of that part.                       *)
EXTENDS Naturals, FiniteSets, TLC

CONSTANTS
    First, Second,  \* the interchangeable actors or things of a part
    One, Other,     \* two values a part tells apart
    Only,           \* the member of a set of one
    Nothing, Pending, NotRead, Refused, Invalid, Unused

VARIABLES
    part,  \* the part that runs
    s1, s2, s3, s4, s5, s6, s7, s8, s9, s10, s11, s12, s13, s14, s15

Attachments == INSTANCE AttachmentScan WITH
    status <- s1, version <- s2, cleanKey <- s3, expired <- s4, quarantine <- s5, clean <- s6,
    request <- s7, job <- s8, exec <- s9, snapshot <- s10, loaded <- s11,
    Contents <- {One, Other, Invalid}, Acceptable <- {One}, Mismatched <- {Other},
    Requests <- First, Executors <- Second, MaxAttempts <- 2, StallBound <- 1,
    Duplicates <- TRUE, LateUploads <- TRUE, ApiCrashes <- TRUE, DbFails <- TRUE, None <- Nothing

Previews == INSTANCE PreviewSession WITH
    run <- s1, job <- s2, reopen <- s3, exec <- s4, sandbox <- s5, expired <- s6, session <- s7,
    command <- s8, preview <- s9, store <- s10, asked <- s11, answered <- s12, crashes <- s13,
    unheard <- s14, contested <- s15,
    Workers <- First, Sandboxes <- Second, MaxAttempts <- 1, MaxRepairs <- 1, MaxVersion <- 3,
    ReopenBound <- 1, CrashBound <- 0, CleanupFails <- FALSE, DbFails <- TRUE,
    None <- Nothing

Retries == INSTANCE PreviewSession WITH
    run <- s1, job <- s2, reopen <- s3, exec <- s4, sandbox <- s5, expired <- s6, session <- s7,
    command <- s8, preview <- s9, store <- s10, asked <- s11, answered <- s12, crashes <- s13,
    unheard <- s14, contested <- s15,
    Workers <- First, Sandboxes <- Second, MaxAttempts <- 2, MaxRepairs <- 1, MaxVersion <- 2,
    ReopenBound <- 1, CrashBound <- 0, CleanupFails <- FALSE, DbFails <- TRUE,
    None <- Nothing

Orphans == INSTANCE OrphanCleanup WITH
    status <- s1, version <- s2, externalId <- s3, exists <- s4, created <- s5, exec <- s6,
    lease <- s7, sweep <- s8, orphan <- s9, missing <- s10, seenBy <- s11,
    Workers <- {One}, SweepBound <- 4, MaxResources <- 1, VersionBound <- 2,
    AbandonedSurvives <- FALSE, CleanupEnabled <- TRUE

Provision == INSTANCE ProvisionSecrets WITH
    slug <- s1, status <- s2, password <- s3, created <- s4, operation <- s5, connection <- s6,
    leases <- s7, sandboxes <- s8, exec <- s9, excused <- s10, external <- s11,
    MaxExecutions <- 3, Duplicates <- FALSE, Store <- "memory", Faults <- TRUE,
    Slugs <- {<<"x", "x">>, <<"x", "x", "-", "x">>, <<>>}, SlugBound <- 3

Release == INSTANCE ReleaseAssessment WITH
    status <- s1, version <- s2, files <- s3, criteria <- s4, session <- s5, work <- s6, row <- s7,
    evidence <- s8, announced <- s9, faults <- s10, delivered <- s11, manual <- s12, lost <- s13,
    Workers <- First, Baseline <- {"TEST"}, RequiredChecks <- {"TEST"}, Attempts <- {1, 2},
    VersionBound <- 2, FileBound <- 1, FaultBound <- 1, DeliveryBound <- 2, ManualBound <- 0

Manual == INSTANCE ReleaseAssessment WITH
    status <- s1, version <- s2, files <- s3, criteria <- s4, session <- s5, work <- s6, row <- s7,
    evidence <- s8, announced <- s9, faults <- s10, delivered <- s11, manual <- s12, lost <- s13,
    Workers <- {One}, Baseline <- {"TEST"}, RequiredChecks <- {"TEST"}, Attempts <- {1, 2},
    VersionBound <- 2, FileBound <- 2, FaultBound <- 0, DeliveryBound <- 2, ManualBound <- 1

Readiness == INSTANCE ReadinessReport WITH
    env <- s1, dated <- s2, skew <- s3, beat <- s4, redis <- s5, key <- s6, enabled <- s7,
    cached <- s8, answer <- s9, lastFull <- s10,
    Workers <- First, Gates <- {"G5"}, Egress <- "G5", HeartbeatMs <- 1, MaxAgeMs <- 2,
    CacheMs <- 1, Skews <- {0, 1}, None <- Nothing

Stream == INSTANCE EventStream WITH
    run <- s1, counter <- s2, log <- s3, txn <- s4, conn <- s5, client <- s6, shown <- s7,
    asked <- s8, reloads <- s9,
    Writers <- First, Page <- 2, MaxEvents <- 3, MaxVersion <- 1, ReloadBound <- 1, MayRetry <- TRUE,
    MayLeave <- TRUE, LateAnswers <- TRUE, NetworkErrors <- TRUE, None <- Nothing, Pending <- Pending

Launch == INSTANCE WorkspaceLaunch WITH
    attachment <- s1, runs <- s2, form <- s3, launch <- s4, intent <- s5, records <- s6,
    request <- s7, pointer <- s8, shown <- s9, restoring <- s10,
    Prompts <- {One, Other}, Files <- First, MaxAttachments <- 2, MaxSubmissions <- 3, MaxRuns <- 2,
    Lossy <- {"intent", "upload", "complete", "create", "restore"}, MayExpire <- TRUE,
    None <- Nothing

Editor == INSTANCE WorkspaceEditor WITH
    file <- s1, listed <- s2, selected <- s3, editor <- s4, previous <- s5, opening <- s6,
    saving <- s7,
    Paths <- First, MaxVersion <- 2, None <- Nothing, NotRead <- NotRead, Conflict <- Refused

EditorPath == INSTANCE WorkspaceEditor WITH
    file <- s1, listed <- s2, selected <- s3, editor <- s4, previous <- s5, opening <- s6,
    saving <- s7,
    Paths <- {One}, MaxVersion <- 4, None <- Nothing, NotRead <- NotRead, Conflict <- Refused

Deals == INSTANCE GtmDeals WITH
    prospect <- s1, deal <- s2, tx <- s3, handoff <- s4, sweep <- s5, faults <- s6, won <- s7,
    Scopes <- {One, Other}, Boxes <- {Only}, Deals <- {"d1", "d2"}, Clients <- First,
    Sweepers <- Second, FaultBound <- 1

Outreach == INSTANCE GtmOutreach WITH
    scope <- s1, sequence <- s2, outcome <- s3, suppressed <- s4, request <- s5, scores <- s6,
    cached <- s7, seen <- s8,
    Scopes <- {One, Other}, Names <- {Only}, Steps <- {0}, Clients <- First,
    Reasons <- {"UNSUBSCRIBED", "BOUNCED"}, Members <- {"OWNER", "MEMBER", "none"}, TimeBound <- 2

Meeting == INSTANCE Meetings WITH
    meeting <- s1, page <- s2, form <- s3, load <- s4, save <- s5,
    Workspaces <- {Only}, Pages <- First, Briefs <- {One, Other}, Invalid <- Invalid,
    None <- Nothing, MountBound <- 2

MeetingPages == INSTANCE Meetings WITH
    meeting <- s1, page <- s2, form <- s3, load <- s4, save <- s5,
    Workspaces <- First, Pages <- {Only}, Briefs <- {One}, Invalid <- Invalid, None <- Nothing,
    MountBound <- 3

(* The constants of each part meet what its module assumes of them. *)
ASSUME ServicesAssumption ==
    /\ Attachments!AttachmentScanAssumption
    /\ Previews!PreviewSessionAssumption
    /\ Retries!PreviewSessionAssumption
    /\ Orphans!OrphanCleanupAssumption
    /\ Provision!ProvisionSecretsAssumption
    /\ Release!ReleaseAssessmentAssumption
    /\ Manual!ReleaseAssessmentAssumption
    /\ Readiness!ReadinessAssumption
    /\ Stream!EventStreamAssumption
    /\ Launch!WorkspaceLaunchAssumption
    /\ Editor!WorkspaceEditorAssumption
    /\ EditorPath!WorkspaceEditorAssumption
    /\ Deals!GtmDealsAssumption
    /\ Outreach!GtmOutreachAssumption
    /\ Meeting!MeetingsAssumption
    /\ MeetingPages!MeetingsAssumption

Init ==
    \/ part = "attachments" /\ Attachments!Init /\ s12 = Unused /\ s13 = Unused /\ s14 = Unused /\ s15 = Unused
    \/ part = "previews" /\ Previews!Init
    \/ part = "retries" /\ Retries!Init
    \/ part = "orphans" /\ Orphans!Init /\ s12 = Unused /\ s13 = Unused /\ s14 = Unused /\ s15 = Unused
    \/ part = "provision" /\ Provision!Init /\ s12 = Unused /\ s13 = Unused /\ s14 = Unused /\ s15 = Unused
    \/ part = "release" /\ Release!Init /\ s14 = Unused /\ s15 = Unused
    \/ part = "manual" /\ Manual!Init /\ s14 = Unused /\ s15 = Unused
    \/ part = "readiness" /\ Readiness!Init /\ s11 = Unused /\ s12 = Unused /\ s13 = Unused /\ s14 = Unused /\ s15 = Unused
    \/ part = "stream" /\ Stream!Init /\ s10 = Unused /\ s11 = Unused /\ s12 = Unused /\ s13 = Unused /\ s14 = Unused /\ s15 = Unused
    \/ part = "launch" /\ Launch!Init /\ s11 = Unused /\ s12 = Unused /\ s13 = Unused /\ s14 = Unused /\ s15 = Unused
    \/ part = "editor" /\ Editor!Init /\ s8 = Unused /\ s9 = Unused /\ s10 = Unused /\ s11 = Unused /\ s12 = Unused /\ s13 = Unused /\ s14 = Unused /\ s15 = Unused
    \/ part = "editor path" /\ EditorPath!Init /\ s8 = Unused /\ s9 = Unused /\ s10 = Unused /\ s11 = Unused /\ s12 = Unused /\ s13 = Unused /\ s14 = Unused /\ s15 = Unused
    \/ part = "deals" /\ Deals!Init /\ s8 = Unused /\ s9 = Unused /\ s10 = Unused /\ s11 = Unused /\ s12 = Unused /\ s13 = Unused /\ s14 = Unused /\ s15 = Unused
    \/ part = "outreach" /\ Outreach!Init /\ s9 = Unused /\ s10 = Unused /\ s11 = Unused /\ s12 = Unused /\ s13 = Unused /\ s14 = Unused /\ s15 = Unused
    \/ part = "meeting" /\ Meeting!Init /\ s6 = Unused /\ s7 = Unused /\ s8 = Unused /\ s9 = Unused /\ s10 = Unused /\ s11 = Unused /\ s12 = Unused /\ s13 = Unused /\ s14 = Unused /\ s15 = Unused
    \/ part = "pages" /\ MeetingPages!Init /\ s6 = Unused /\ s7 = Unused /\ s8 = Unused /\ s9 = Unused /\ s10 = Unused /\ s11 = Unused /\ s12 = Unused /\ s13 = Unused /\ s14 = Unused /\ s15 = Unused

Next ==
    \/ part = "attachments" /\ Attachments!Next /\ UNCHANGED <<part, s12, s13, s14, s15>>
    \/ part = "previews" /\ Previews!Next /\ UNCHANGED <<part>>
    \/ part = "retries" /\ Retries!Next /\ UNCHANGED <<part>>
    \/ part = "orphans" /\ Orphans!Next /\ UNCHANGED <<part, s12, s13, s14, s15>>
    \/ part = "provision" /\ Provision!Next /\ UNCHANGED <<part, s12, s13, s14, s15>>
    \/ part = "release" /\ Release!Next /\ UNCHANGED <<part, s14, s15>>
    \/ part = "manual" /\ Manual!Next /\ UNCHANGED <<part, s14, s15>>
    \/ part = "readiness" /\ Readiness!Next /\ UNCHANGED <<part, s11, s12, s13, s14, s15>>
    \/ part = "stream" /\ Stream!Next /\ UNCHANGED <<part, s10, s11, s12, s13, s14, s15>>
    \/ part = "launch" /\ Launch!Next /\ UNCHANGED <<part, s11, s12, s13, s14, s15>>
    \/ part = "editor" /\ Editor!Next /\ UNCHANGED <<part, s8, s9, s10, s11, s12, s13, s14, s15>>
    \/ part = "editor path" /\ EditorPath!Next /\ UNCHANGED <<part, s8, s9, s10, s11, s12, s13, s14, s15>>
    \/ part = "deals" /\ Deals!Next /\ UNCHANGED <<part, s8, s9, s10, s11, s12, s13, s14, s15>>
    \/ part = "outreach" /\ Outreach!Next /\ UNCHANGED <<part, s9, s10, s11, s12, s13, s14, s15>>
    \/ part = "meeting" /\ Meeting!Next /\ UNCHANGED <<part, s6, s7, s8, s9, s10, s11, s12, s13, s14, s15>>
    \/ part = "pages" /\ MeetingPages!Next /\ UNCHANGED <<part, s6, s7, s8, s9, s10, s11, s12, s13, s14, s15>>

vars == <<part, s1, s2, s3, s4, s5, s6, s7, s8, s9, s10, s11, s12, s13, s14, s15>>
Spec == Init /\ [][Next]_vars

(* Nothing tells the members of First, or those of Second, from each other. *)
Symmetry == Permutations(First) \union Permutations(Second)

-----------------------------------------------------------------------------
(* Invariants *)

(* Attachments: a run reads, for each attachment, bytes that were scanned and    *)
(* found clean, under duplicate scan jobs, late uploads and requests that die.   *)
RunReadsScannedBytes ==
    part = "attachments" => Attachments!TypeOK /\ Attachments!RunReadsScannedBytes

(* Previews: a sandbox that is paid for is an execution's or behind a live        *)
(* preview, unless its creation was not heard of or two executions had its        *)
(* session; what is published passed its checks, and what the gateway serves is   *)
(* the sandbox it was published for, with the same exceptions.  Whether a run is  *)
(* stopped and resumed beside its old execution, or tries a validation again.     *)
PreviewsAreAccountedFor ==
    /\ part = "previews" =>
        /\ Previews!TypeOK
        /\ Previews!NoSandboxIsForgotten
        /\ Previews!PublishedIsValidated /\ Previews!PublishedPreviewIsServed
    /\ part = "retries" =>
        /\ Retries!NoSandboxIsForgotten
        /\ Retries!PublishedIsValidated /\ Retries!PublishedPreviewIsServed

(* Orphan cleanup: a resource is claimed for destruction only after two sweeps   *)
(* missed its row, the grace period and an approval of the finding that is open. *)
CleanupIsEarned == part = "orphans" => Orphans!TypeOK /\ Orphans!CleanupIsEarned

(* Provisioning: whatever call fails, a project that exists can be adopted by    *)
(* the next execution, and the migration leaves no lease and no sandbox behind,  *)
(* unless a call that creates or frees one was not heard of.                     *)
ProvisionCanBeRepeated ==
    part = "provision" =>
        Provision!TypeOK /\ Provision!StaysAdoptable /\ Provision!NothingIsLeftBehind

(* Verdicts: a READY release keeps the evidence it rests on, what is announced   *)
(* is stored and no completed run is without an assessment; the platform reports *)
(* itself ready for execution only on a worker's recent word.                    *)
VerdictsAreBacked ==
    /\ part = "release" =>
        /\ Release!TypeOK
        /\ Release!ReadyKeepsItsEvidence
        /\ Release!AnnouncedIsStored /\ Release!CompletedIsAssessed
    /\ part = "manual" => Manual!TypeOK
    /\ part = "readiness" => Readiness!TypeOK /\ Readiness!ReadyIsBacked

(* Event stream: what a browser has received is a prefix of the run's log, with  *)
(* no gap, whatever reconnects and whatever commits while the server pages.      *)
GaplessReplay == part = "stream" => Stream!TypeOK /\ Stream!GaplessReplay

(* Launch form: one submission creates one run however often it is repeated,     *)
(* unless the project was left in between, and the run has the file the form     *)
(* showed, unless that was chosen while another launch ran.                      *)
LaunchIsExact ==
    part = "launch" =>
        Launch!TypeOK /\ Launch!OneRunPerSubmission /\ Launch!RunHasItsFile

(* File editor: a save never replaces a revision its author has not seen, whether *)
(* several files are opened or one gets many revisions.                          *)
NoRevisionIsOverwritten ==
    /\ part = "editor" => Editor!TypeOK /\ Editor!NoRevisionIsOverwritten
    /\ part = "editor path" => EditorPath!TypeOK /\ EditorPath!NoRevisionIsOverwritten

(* GTM: deals, prospects, sequences and suppressions of a scope stay in it, and  *)
(* a closed deal has its time.                                                   *)
ScopesDoNotMix ==
    /\ part = "deals" => Deals!TypeOK /\ Deals!OneScope /\ Deals!ClosedHasTime
    /\ part = "outreach" => Outreach!TypeOK /\ Outreach!ScopesDoNotMix

(* Meetings: a page that unlocks building shows a brief that is on record, a     *)
(* conflict is reported only to a brief that lost, and a load of a workspace     *)
(* the page has left is dropped.                                                 *)
UnlockedIsSaved ==
    /\ part = "meeting" =>
        Meeting!TypeOK /\ Meeting!UnlockedIsSaved /\ Meeting!ConflictIsReal
    /\ part = "pages" => MeetingPages!TypeOK /\ MeetingPages!StaleLoadIsIgnored

(* Action property *)

(* What is settled stays: the verdict of a scan, handoffs, suppressions, completed *)
(* briefs, the release rows of a worker's attempt, and the pointer by which a page *)
(* finds its run, which only a new project or a newer run replaces.                *)
WhatIsSettledStays ==
    [][ /\ part = "attachments" => Attachments!VerdictIsFinal
        /\ part = "deals" => Deals!HandoffIsDurable
        /\ part = "outreach" => Outreach!SuppressionIsStable
        /\ part = "meeting" => Meeting!BriefIsFinal
        /\ part = "manual" => Manual!WorkerRowIsKept
        /\ part = "launch" => Launch!ShownRunStaysReachable ]_vars
=============================================================================
