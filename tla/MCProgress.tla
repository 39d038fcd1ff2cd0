---------------------------- MODULE MCProgress ----------------------------
(* Liveness of the parts, one part running at a time as in MCServices, each under *)
(* the fairness its module states and with the faults bounded that the code does  *)
(* not survive.                                                                   *)
EXTENDS Integers, Sequences, FiniteSets

CONSTANTS
    First, Second,  \* actors or things of a part
    One, Other, Only, Nothing, Pending, Unused

VARIABLES
    part,  \* the part that runs
    s1, s2, s3, s4, s5, s6, s7, s8, s9, s10, s11, s12, s13, s14, s15

Attachments == INSTANCE AttachmentScan WITH
    status <- s1, version <- s2, cleanKey <- s3, expired <- s4, quarantine <- s5, clean <- s6,
    request <- s7, job <- s8, exec <- s9, snapshot <- s10, loaded <- s11,
    Contents <- {One, Other, Pending}, Acceptable <- {One}, Mismatched <- {Other},
    Requests <- {Other}, Executors <- Second, MaxAttempts <- 2, StallBound <- 1,
    Duplicates <- FALSE, LateUploads <- FALSE, ApiCrashes <- FALSE, DbFails <- FALSE, None <- Nothing

Previews == INSTANCE PreviewSession WITH
    run <- s1, job <- s2, reopen <- s3, exec <- s4, sandbox <- s5, expired <- s6, session <- s7,
    command <- s8, preview <- s9, store <- s10, asked <- s11, answered <- s12, crashes <- s13,
    unheard <- s14, contested <- s15,
    Workers <- {One}, Sandboxes <- First, MaxAttempts <- 1, MaxRepairs <- 0, MaxVersion <- 1,
    ReopenBound <- 1, CrashBound <- 1, CleanupFails <- FALSE, DbFails <- FALSE,
    None <- Nothing

Stream == INSTANCE EventStream WITH
    run <- s1, counter <- s2, log <- s3, txn <- s4, conn <- s5, client <- s6, shown <- s7,
    asked <- s8, reloads <- s9,
    Writers <- First, Page <- 2, MaxEvents <- 3, MaxVersion <- 2, ReloadBound <- 1, MayRetry <- FALSE,
    MayLeave <- FALSE, LateAnswers <- FALSE, NetworkErrors <- FALSE, None <- Nothing, Pending <- Pending

Deals == INSTANCE GtmDeals WITH
    prospect <- s1, deal <- s2, tx <- s3, handoff <- s4, sweep <- s5, faults <- s6, won <- s7,
    Scopes <- {One}, Boxes <- {Only}, Deals <- {"d1", "d2"}, Clients <- {Other},
    Sweepers <- First, FaultBound <- 1

Readiness == INSTANCE ReadinessReport WITH
    env <- s1, dated <- s2, skew <- s3, beat <- s4, redis <- s5, key <- s6, enabled <- s7,
    cached <- s8, answer <- s9, lastFull <- s10,
    Workers <- {One}, Gates <- {"G5"}, Egress <- "G5", HeartbeatMs <- 1, MaxAgeMs <- 3,
    CacheMs <- 2, Skews <- {-1, 2}, None <- Nothing

Process == INSTANCE WorkerProcess WITH
    pc <- s1, left <- s2, taking <- s3, busy <- s4, open <- s5, services <- s6, handlers <- s7,
    sent <- s8,
    Phase3 <- TRUE, SignalBound <- 2

Session == INSTANCE BrowserSession WITH
    page <- s1, at <- s2, client <- s3, account <- s4, error <- s5, signingOut <- s6, token <- s7,
    stored <- s8, live <- s9, errand <- s10, pointer <- s11, shownRun <- s12, faults <- s13,
    Pages <- {"workspace", "admin"}, FaultBound <- 2

Smoke == INSTANCE SmokeRun WITH
    run <- s1, log <- s2, attachment <- s3, artifacts <- s4, conn <- s5, obs <- s6, seen <- s7,
    acts <- s8,
    Agents <- {One, Other}, Route <- {One}, MaxEvents <- 5, MemberBound <- 1, PollBound <- 1

Recovery == INSTANCE RecoveryRehearsal WITH
    pc <- s1, store <- s2, failed <- s3, outcome <- s4, verified <- s5, svc <- s6, active <- s7,
    data <- s8, witness <- s9, before <- s10, backup <- s11, isolated <- s12, created <- s13,
    previous <- s14, interrupted <- s15,
    Applications <- {"web", "worker"}, Worker <- "worker", StoreSeq <- <<"postgres", "minio">>,
    DataBound <- 1

Oidc == INSTANCE OidcBootstrap WITH
    group <- s1, apps <- s2, principals <- s3, credential <- s4, roles <- s5, template <- s6,
    immutable <- s7, secrets <- s8, keys <- s9, op <- s10, failures <- s11,
    Operators <- {One}, AppIds <- First, Roles <- {"r1", "r2"},
    SecretSeq <- <<"AZURE_CLIENT_ID", "AZURE_STAGING_SSH_SOURCE_CIDR">>,
    ClientId <- "AZURE_CLIENT_ID", FailBound <- 2, None <- Nothing

ASSUME ProgressAssumption ==
    /\ Attachments!AttachmentScanAssumption
    /\ Previews!PreviewSessionAssumption
    /\ Stream!EventStreamAssumption
    /\ Deals!GtmDealsAssumption
    /\ Readiness!ReadinessAssumption
    /\ Process!WorkerAssumption
    /\ Session!SessionAssumption
    /\ Smoke!SmokeRunAssumption
    /\ Recovery!RehearsalAssumption
    /\ Oidc!OidcAssumption

Init ==
    \/ part = "attachments" /\ Attachments!Init /\ s12 = Unused /\ s13 = Unused /\ s14 = Unused /\ s15 = Unused
    \/ part = "previews" /\ Previews!Init
    \/ part = "stream" /\ Stream!Init /\ s10 = Unused /\ s11 = Unused /\ s12 = Unused /\ s13 = Unused /\ s14 = Unused /\ s15 = Unused
    \/ part = "deals" /\ Deals!Init /\ s8 = Unused /\ s9 = Unused /\ s10 = Unused /\ s11 = Unused /\ s12 = Unused /\ s13 = Unused /\ s14 = Unused /\ s15 = Unused
    \/ part = "readiness" /\ Readiness!Init /\ s11 = Unused /\ s12 = Unused /\ s13 = Unused /\ s14 = Unused /\ s15 = Unused
    \/ part = "process" /\ Process!Init /\ s9 = Unused /\ s10 = Unused /\ s11 = Unused /\ s12 = Unused /\ s13 = Unused /\ s14 = Unused /\ s15 = Unused
    \/ part = "session" /\ Session!Init /\ s14 = Unused /\ s15 = Unused
    \/ part = "smoke" /\ Smoke!Init /\ s9 = Unused /\ s10 = Unused /\ s11 = Unused /\ s12 = Unused /\ s13 = Unused /\ s14 = Unused /\ s15 = Unused
    \/ part = "recovery" /\ Recovery!Init
    \/ part = "oidc" /\ Oidc!Init /\ s12 = Unused /\ s13 = Unused /\ s14 = Unused /\ s15 = Unused

Next ==
    \/ part = "attachments" /\ Attachments!Next /\ UNCHANGED <<part, s12, s13, s14, s15>>
    \/ part = "previews" /\ Previews!Next /\ UNCHANGED <<part>>
    \/ part = "stream" /\ Stream!Next /\ UNCHANGED <<part, s10, s11, s12, s13, s14, s15>>
    \/ part = "deals" /\ Deals!Next /\ UNCHANGED <<part, s8, s9, s10, s11, s12, s13, s14, s15>>
    \/ part = "readiness" /\ Readiness!Next /\ UNCHANGED <<part, s11, s12, s13, s14, s15>>
    \/ part = "process" /\ Process!Next /\ UNCHANGED <<part, s9, s10, s11, s12, s13, s14, s15>>
    \/ part = "session" /\ Session!Next /\ UNCHANGED <<part, s14, s15>>
    \/ part = "smoke" /\ Smoke!Next /\ UNCHANGED <<part, s9, s10, s11, s12, s13, s14, s15>>
    \/ part = "recovery" /\ Recovery!Next /\ UNCHANGED <<part>>
    \/ part = "oidc" /\ Oidc!Next /\ UNCHANGED <<part, s12, s13, s14, s15>>

vars == <<part, s1, s2, s3, s4, s5, s6, s7, s8, s9, s10, s11, s12, s13, s14, s15>>

-----------------------------------------------------------------------------
(* Fairness: what each module asks of its own steps, while its part runs. *)

attachmentVars == Attachments!vars
AttachmentFairness ==
    /\ WF_attachmentVars(part = "attachments" /\ Attachments!RequestNext(Other))
    /\ \A w \in Second : WF_attachmentVars(part = "attachments" /\ Attachments!ExecutorNext(w))
    /\ WF_attachmentVars(part = "attachments" /\ \E w \in Second : Attachments!Deliver(w))
    /\ WF_attachmentVars(part = "attachments" /\ Attachments!Stall)

previewVars == Previews!vars
PreviewFairness ==
    /\ WF_previewVars(part = "previews" /\ Previews!WorkerNext(One))
    /\ WF_previewVars(part = "previews" /\ Previews!DeliverReopen(One))

streamVars == Stream!vars
StreamFairness ==
    /\ WF_streamVars(part = "stream" /\ (Stream!StreamPage \/ Stream!StreamStatus))
    /\ SF_streamVars(part = "stream" /\ Stream!StreamExpires)
    /\ WF_streamVars(part = "stream" /\ (Stream!Connect \/ Stream!Receive \/ Stream!StreamCloses))
    /\ \A who \in Stream!Askers : WF_streamVars(part = "stream" /\ Stream!ReadRun(who))
    /\ \A who \in Stream!Askers : WF_streamVars(part = "stream" /\ Stream!Deliver(who))
    /\ \A w \in First : WF_streamVars(part = "stream" /\ Stream!CommitAppend(w))

dealVars == Deals!vars
DealFairness ==
    /\ \A w \in First : WF_dealVars(part = "deals" /\ Deals!ListDealsReadyForHandoff(w))
    /\ \A w \in First : WF_dealVars(part = "deals" /\ Deals!Record(w))

readinessVars == Readiness!vars
ReadinessFairness ==
    /\ SF_readinessVars(part = "readiness" /\ Readiness!Tick)
    /\ WF_readinessVars(part = "readiness" /\ Readiness!Current)
    /\ WF_readinessVars(part = "readiness" /\ Readiness!PublishOnce(One))
    /\ WF_readinessVars(part = "readiness" /\ Readiness!DateComes(One))

processVars == Process!vars
ProcessFairness ==
    /\ WF_processVars(part = "process" /\ Process!Main)
    /\ WF_processVars(part = "process" /\ Process!Shutdown)
    /\ WF_processVars(part = "process" /\ Process!Exit)
    /\ \A c \in Process!Consumers : WF_processVars(part = "process" /\ Process!EndJob(c))

sessionVars == Session!vars
SessionFairness ==
    /\ WF_sessionVars(part = "session" /\ Session!Restores)
    /\ WF_sessionVars(part = "session" /\ Session!Answers)
    /\ WF_sessionVars(part = "session" /\ Session!LogoutRedirect)
    /\ WF_sessionVars(part = "session" /\ Session!ReturnFromMicrosoft)
    /\ WF_sessionVars(part = "session" /\ Session!SignIn)
    /\ WF_sessionVars(part = "session" /\ Session!AskToken)

smokeVars == Smoke!vars
recoveryVars == Recovery!vars
oidcVars == Oidc!vars
ScriptFairness ==
    /\ WF_smokeVars(part = "smoke" /\ Smoke!Script)
    /\ WF_smokeVars(part = "smoke" /\ Smoke!DeadlinePasses)
    /\ WF_recoveryVars(part = "recovery" /\ Recovery!Script)
    /\ WF_oidcVars(part = "oidc" /\ Oidc!Script(One))
    /\ SF_oidcVars(part = "oidc" /\ Oidc!Start(One, "apply"))

Spec ==
    /\ Init /\ [][Next]_vars
    /\ AttachmentFairness /\ PreviewFairness /\ StreamFairness /\ DealFairness /\ ReadinessFairness
    /\ ProcessFairness /\ SessionFairness /\ ScriptFairness

-----------------------------------------------------------------------------
(* Liveness. A statement about a part is asked of the behaviours in which it runs. *)

Of(p, P) == part = p /\ P
If(p, P) == part = p => P

(* Work that was accepted ends: a scan that was asked for settles, and a CLEAN   *)
(* attachment has its object; a reopen request is answered, a won deal is handed  *)
(* off, a worker that was asked to stop stops and closes nothing a job still uses,*)
(* and the scripts end with the services back, or saying that they are not.       *)
JobsSettle ==
    /\ Of("attachments", Attachments!ScanIsDue) ~> If("attachments", Attachments!ScanIsSettled)
    /\ [](If("attachments", Attachments!CleanObjectExists))
    /\ Of("previews", s11 > 0) ~> If("previews", s12)
    /\ \A d \in {"d1", "d2"} : Of("deals", Deals!Won(d)) ~> If("deals", Deals!HandedOff(d))
    /\ Of("process", Process!Closing) ~> If("process", Process!Ended)
    /\ [](If("process", Process!TypeOK /\ Process!NoUseAfterClose))
    /\ [][If("process", Process!OneSignalIsGraceful)]_vars
    /\ <>If("smoke", Smoke!Ended)
    /\ Of("recovery", Recovery!ServiceIsAway) ~> If("recovery", Recovery!ServiceIsBack)
    /\ <>If("oidc", Oidc!Settled(One))

(* Who watches catches up: the page comes to show the run as it is, the sign-in   *)
(* of a workspace recovers and a sign-out ends, and readiness that is met or lost *)
(* comes to be shown.                                                             *)
WatchersCatchUp ==
    /\ <>[]If("stream", Stream!ShownIsCurrent)
    /\ Of("session", Session!WorkspaceIsOpen) ~> If("session", Session!WorkspaceIsServed)
    /\ Of("session", s6) ~> If("session", Session!SignedOut)
    /\ <>[]Of("readiness", Readiness!Deployed) => []<>If("readiness", Readiness!ExecutionReady)
    /\ <>[]Of("readiness", Readiness!Lost) =>
        <>[]If("readiness", ~Readiness!ExecutionReady) /\ []<>If("readiness", Readiness!Inconsistent)
=============================================================================
