---------------------------- MODULE PreviewSession ----------------------------
(***************************************************************************)
(* The sandboxes and previews of one run: the worker that validates the    *)
(* run's files and publishes a preview (Phase2RunValidator and the runner  *)
(* behind it), the worker that reopens a preview of the finished run, and  *)
(* what the gateway then serves.  Sandboxes live at E2B and are killed at  *)
(* their timeout, targets live in Redis under the id of the sandbox        *)
(* session, and the rows in PostgreSQL.                                    *)
(***************************************************************************)
EXTENDS Naturals, Sequences, FiniteSets

CONSTANTS
    Workers,      \* executions that may be alive at once
    Sandboxes,    \* E2B sandboxes
    MaxAttempts,  \* bound: BullMQ attempts of a run job
    MaxRepairs,   \* maxRepairAttempts
    MaxVersion,   \* bound: control versions of the run
    ReopenBound,  \* bound: reopen requests
    CrashBound,   \* bound: worker processes that die
    CleanupFails, \* may the calls of a cleanup fail?
    DbFails,      \* may the reopen worker's database calls fail?
    None

(* What the constants satisfy; the modules that instantiate this one assume it. *)
PreviewSessionAssumption ==
    /\ MaxAttempts \in 1 .. 99 /\ MaxRepairs \in 0 .. 9
    /\ MaxVersion \in Nat \ {0} /\ ReopenBound \in Nat /\ CrashBound \in Nat
    /\ {CleanupFails, DbFails} \subseteq BOOLEAN
    /\ None \notin Sandboxes \union Nat /\ Sandboxes \intersect Nat = {}

VARIABLES
    run,      \* agent_runs: status and control version
    job,      \* the newest job of the run
    reopen,   \* the project's reopen job
    exec,     \* the executions
    sandbox,  \* E2B: the sandboxes
    expired,  \* the sandboxes whose timeout has passed
    session,  \* sandbox_sessions: status and external id
    command,  \* sandbox_commands: the latest result of a gating step in a session
    preview,  \* preview_sessions: status and the sandbox it was written for
    store,    \* Redis: the target of a session
    asked,    \* reopen requests made
    answered, \* preview.updated was appended since the last of them
    crashes,
    unheard,  \* history: the sandboxes that were created, and the sessions that were
              \* published, by a call whose answer was lost
    contested \* history: the sessions that another execution had when they were taken

rows == <<session, command, preview>>
history == <<unheard, contested>>
vars == <<run, job, reopen, exec, sandbox, expired, rows, store, asked, answered, crashes, history>>

Stride == 100
FirstReopen == 1001
RunSessions == {a + r * Stride : a \in 1 .. MaxAttempts, r \in 0 .. MaxRepairs}
ReopenSessions == FirstReopen .. FirstReopen + ReopenBound
Sessions == RunSessions \union ReopenSessions

-----------------------------------------------------------------------------
(* ProjectValidationRunner *)

Checks == <<"install", "prisma-validate", "lint", "typecheck", "test", "build">>
DatabaseSteps == <<"db-start", "db-migrate", "db-seed">>
PreviewSteps == <<"preview-start", "preview-health">>

\* A reopened preview is only installed and built again.
Pipeline(kind) ==
    IF kind = "reopen"
    THEN <<"install", "build">> \o DatabaseSteps \o PreviewSteps
    ELSE Checks \o DatabaseSteps \o PreviewSteps \o <<"acceptance">>

\* A failing step ends the validation, except the ones that only give evidence.
Gating == {Checks[i] : i \in DOMAIN Checks} \union {"preview-health"}

\* Steps the automatic repair takes on.
Repairable == {Checks[i] : i \in DOMAIN Checks}

AssertSuccessful(name, ok) == ok \/ name \notin Gating

\* Where the pipeline goes on: a database that does not start or migrate is
\* given up.
NextStep(kind, i, ok) ==
    LET name == Pipeline(kind)[i]
    IN  CASE name = "db-start" /\ ~ ok -> i + 3
          [] name = "db-migrate" /\ ~ ok -> i + 2
          [] OTHER -> i + 1

-----------------------------------------------------------------------------
Idle == [pc |-> "idle", kind |-> "run", version |-> 0, attempt |-> 0, repairs |-> 0,
         session |-> None, sandbox |-> None, step |-> 0, cause |-> "none"]
Pcs == {"idle", "create", "session", "restore", "steps", "put", "ready", "complete", "revoke",
        "unwind", "after"}
Causes == {"none", "stopped", "validation", "repairable", "retryable", "final"}

TypeOK ==
    /\ run \in [status : {"RUNNING", "STOPPED", "COMPLETED", "FAILED"}, version : 1 .. MaxVersion]
    /\ job \in [state : {"waiting", "active", "done"}, version : 1 .. MaxVersion,
                attempt : 1 .. MaxAttempts]
    /\ reopen \in {"none", "waiting", "active"}
    /\ exec \in [Workers -> [pc : Pcs, kind : {"run", "reopen"}, version : 0 .. MaxVersion,
                             attempt : 0 .. MaxAttempts, repairs : 0 .. MaxRepairs,
                             session : Sessions \union {None},
                             sandbox : Sandboxes \union {None},
                             step : 0 .. Len(Pipeline("run")) + 1, cause : Causes]]
    /\ sandbox \in [Sandboxes -> {"none", "alive", "dead"}]
    /\ expired \subseteq Sandboxes
    /\ session \in [Sessions -> [status : {"none", "PROVISIONING", "VALIDATING", "READY",
                                           "TERMINATED", "FAILED"},
                                 sandbox : Sandboxes \union {None}]]
    /\ command \in [Sessions -> [Gating -> {"none", "SUCCEEDED", "FAILED"}]]
    /\ preview \in [Sessions -> [status : {"none", "READY", "STOPPED"},
                                 sandbox : Sandboxes \union {None}]]
    /\ store \in [Sessions -> Sandboxes \union {None}]
    /\ asked \in 0 .. ReopenBound /\ answered \in BOOLEAN /\ crashes \in 0 .. CrashBound
    /\ unheard \subseteq Sandboxes \union Sessions /\ contested \subseteq Sessions

Init ==
    /\ run = [status |-> "RUNNING", version |-> 1]
    /\ job = [state |-> "waiting", version |-> 1, attempt |-> 1]
    /\ reopen = "none"
    /\ exec = [w \in Workers |-> Idle]
    /\ sandbox = [b \in Sandboxes |-> "none"]
    /\ expired = {}
    /\ session = [s \in Sessions |-> [status |-> "none", sandbox |-> None]]
    /\ command = [s \in Sessions |-> [n \in Gating |-> "none"]]
    /\ preview = [s \in Sessions |-> [status |-> "none", sandbox |-> None]]
    /\ store = [s \in Sessions |-> None]
    /\ asked = 0 /\ answered = TRUE /\ crashes = 0
    /\ unheard = {} /\ contested = {}

At(w, pc) == exec[w].pc = pc
Kind(w, k) == exec[w].kind = k
Goto(w, pc) == exec' = [exec EXCEPT ![w].pc = pc]
Fail(w, cause) == exec' = [exec EXCEPT ![w].pc = "unwind", ![w].cause = cause]
End(w) == exec' = [exec EXCEPT ![w] = Idle]

\* A call throws, retryably or not.  It may have taken effect all the same, when
\* only its answer was lost.
Throws(w) == \E cause \in {"retryable", "final"} : Fail(w, cause)
Answer(w, next) == exec' = [exec EXCEPT ![w] = next] \/ Throws(w)

\* touchActiveRun: the run is RUNNING under the version that was claimed.
Holds(w) == run.status = "RUNNING" /\ run.version = exec[w].version

-----------------------------------------------------------------------------
(* The run: its job, and the person who stops and resumes it *)

Deliver(w) ==
    /\ exec[w] = Idle
    /\ job.state = "waiting"
    /\ IF run.status = "RUNNING" /\ run.version = job.version
       THEN /\ job' = [job EXCEPT !.state = "active"]
            /\ exec' = [exec EXCEPT ![w] = [Idle EXCEPT !.pc = "create", !.version = job.version,
                                                        !.attempt = job.attempt]]
       ELSE job' = [job EXCEPT !.state = "done"] /\ UNCHANGED exec
    /\ UNCHANGED <<run, reopen, sandbox, expired, rows, store, asked, answered, crashes, history>>

Stop ==
    /\ run.status = "RUNNING"
    /\ run.version < MaxVersion
    /\ run' = [status |-> "STOPPED", version |-> run.version + 1]
    /\ UNCHANGED <<job, reopen, exec, sandbox, expired, rows, store, asked, answered, crashes, history>>

\* A resume is a new job, whose attempts count from 1 again.  It does not wait
\* for an execution of the old one.
Resume ==
    /\ run.status = "STOPPED"
    /\ run.version < MaxVersion
    /\ run' = [status |-> "RUNNING", version |-> run.version + 1]
    /\ job' = [state |-> "waiting", version |-> run.version + 1, attempt |-> 1]
    /\ UNCHANGED <<reopen, exec, sandbox, expired, rows, store, asked, answered, crashes, history>>

-----------------------------------------------------------------------------
(* validate, of a run and of a reopen *)

\* provider.create.  Of a sandbox whose id did not arrive nobody knows.
CreateSandbox(w) ==
    /\ At(w, "create")
    /\ \E b \in Sandboxes :
          /\ sandbox[b] = "none"
          /\ sandbox' = [sandbox EXCEPT ![b] = "alive"]
          /\ \/ /\ exec' = [exec EXCEPT ![w].pc = "session", ![w].sandbox = b]
                /\ UNCHANGED unheard
             \/ Throws(w) /\ unheard' = unheard \union {b}
    /\ UNCHANGED <<run, job, reopen, expired, rows, store, asked, answered, crashes, contested>>

\* createSandboxSession: an upsert under the run and the attempt, whoever else
\* is at work under that id.
AttemptOf(w) == exec[w].attempt + exec[w].repairs * Stride
InUse(s) == \E w \in Workers : exec[w].session = s
Mark(s) == IF InUse(s) THEN contested \union {s} ELSE contested \ {s}

CreateSandboxSession(w) ==
    /\ At(w, "session") /\ Kind(w, "run")
    /\ IF Holds(w)
       THEN /\ session' = [session EXCEPT ![AttemptOf(w)] =
                             [status |-> "PROVISIONING", sandbox |-> exec[w].sandbox]]
            /\ \/ /\ exec' = [exec EXCEPT ![w].pc = "restore", ![w].session = AttemptOf(w)]
                  /\ contested' = Mark(AttemptOf(w))
               \/ Throws(w) /\ UNCHANGED contested
       ELSE Fail(w, "stopped") /\ UNCHANGED <<session, contested>>
    /\ UNCHANGED <<run, job, reopen, sandbox, expired, command, preview, store, asked, answered,
                   crashes, unheard>>

\* createPreviewReopenSession: a new attempt above every other.
NextAttempt ==
    CHOOSE s \in ReopenSessions :
        /\ session[s].status = "none"
        /\ \A t \in ReopenSessions : t < s => session[t].status # "none"

CreatePreviewReopenSession(w) ==
    /\ At(w, "session") /\ Kind(w, "reopen")
    /\ IF run.status = "COMPLETED"
       THEN /\ session' = [session EXCEPT ![NextAttempt] =
                             [status |-> "PROVISIONING", sandbox |-> exec[w].sandbox]]
            /\ Answer(w, [exec[w] EXCEPT !.pc = "restore", !.session = NextAttempt])
       ELSE Fail(w, "stopped") /\ UNCHANGED session
    /\ UNCHANGED <<run, job, reopen, sandbox, expired, command, preview, store, asked, answered,
                   crashes, history>>

\* writeFiles and markSandboxFilesRestored; a reopen has no such hook.
RestoreFiles(w) ==
    /\ At(w, "restore")
    /\ \/ /\ Kind(w, "run") /\ Holds(w)
          /\ session' = [session EXCEPT ![exec[w].session].status = "VALIDATING"]
          /\ Answer(w, [exec[w] EXCEPT !.pc = "steps", !.step = 1])
       \/ Kind(w, "run") /\ ~ Holds(w) /\ Fail(w, "stopped") /\ UNCHANGED session
       \/ /\ Kind(w, "reopen")
          /\ exec' = [exec EXCEPT ![w].pc = "steps", ![w].step = 1]
          /\ UNCHANGED session
    /\ UNCHANGED <<run, job, reopen, sandbox, expired, command, preview, store, asked, answered,
                   crashes, history>>

\* #executeStep, recordSandboxCommand of a run, #assertSuccessful.
FailureCause(name) == IF name \in Repairable THEN "repairable" ELSE "validation"

RunStep(w) ==
    /\ At(w, "steps")
    /\ LET kind == exec[w].kind
           name == Pipeline(kind)[exec[w].step]
       IN  \E ok \in (IF name = "preview-start" THEN {TRUE} ELSE BOOLEAN) :
             IF kind = "run" /\ ~ Holds(w)
             THEN Fail(w, "stopped") /\ UNCHANGED command
             ELSE /\ command' = IF kind = "run" /\ name \in Gating
                                THEN [command EXCEPT ![exec[w].session][name] =
                                        IF ok THEN "SUCCEEDED" ELSE "FAILED"]
                                ELSE command
                  /\ LET next == NextStep(kind, exec[w].step, ok)
                     IN  IF ~ AssertSuccessful(name, ok)
                         THEN Fail(w, FailureCause(name)) \/ Throws(w)
                         ELSE Answer(w, [exec[w] EXCEPT !.step = next,
                                                        !.pc = IF next > Len(Pipeline(kind))
                                                               THEN "put" ELSE "steps"])
    /\ UNCHANGED <<run, job, reopen, sandbox, expired, session, preview, store, asked, answered,
                   crashes, history>>

\* issue and put refuse a target that has expired.
MayIssue(w) == exec[w].sandbox \notin expired

Put(w) ==
    /\ At(w, "put")
    /\ IF ~ MayIssue(w)
       THEN Fail(w, "final") /\ UNCHANGED store
       ELSE /\ store' = [store EXCEPT ![exec[w].session] = exec[w].sandbox]
            /\ Answer(w, [exec[w] EXCEPT !.pc = "ready"])
    /\ UNCHANGED <<run, job, reopen, sandbox, expired, rows, asked, answered, crashes, history>>

Publish(w) ==
    /\ session' = [session EXCEPT ![exec[w].session].status = "READY"]
    /\ preview' = [preview EXCEPT ![exec[w].session] =
                     [status |-> "READY", sandbox |-> exec[w].sandbox]]
    /\ answered' = TRUE

\* Whoever publishes and does not hear of it cleans up, and leaves the rows.
Heard(w) == unheard' = unheard \ {exec[w].session}
NotHeard(w) == Throws(w) /\ unheard' = unheard \union {exec[w].session}

RecordPreviewReady(w) ==
    /\ At(w, "ready") /\ Kind(w, "run")
    /\ IF Holds(w)
       THEN /\ Publish(w)
            /\ \/ Heard(w) /\ Goto(w, "complete")
               \/ NotHeard(w)
       ELSE Fail(w, "stopped") /\ UNCHANGED <<session, preview, answered, unheard>>
    /\ UNCHANGED <<run, job, reopen, sandbox, expired, command, store, asked, crashes, contested>>

RecordPreviewReopened(w) ==
    /\ At(w, "ready") /\ Kind(w, "reopen")
    /\ Publish(w)
    /\ \/ Heard(w) /\ End(w) /\ reopen' = "none"
       \/ NotHeard(w) /\ UNCHANGED reopen
    /\ UNCHANGED <<run, job, sandbox, expired, command, store, asked, crashes, contested>>

\* Any call may throw without any effect.
CallThrows(w) ==
    /\ exec[w].pc \in {"create", "session", "restore", "steps", "put", "ready"}
    /\ Throws(w)
    /\ UNCHANGED <<run, job, reopen, sandbox, expired, rows, store, asked, answered, crashes, history>>

-----------------------------------------------------------------------------
(* Cleanup.  Of the calls of one cleanup any may fail. *)

Try(ok, f, key, value) == IF ok THEN [f EXCEPT ![key] = value] ELSE f
Outcomes == IF CleanupFails THEN BOOLEAN ELSE {TRUE}

\* The catch of the runner and of validate: the sandbox, whether or not its
\* session was recorded, and the target and the session if it was.
Terminates_Recorded(w) == exec[w].session # None
Terminates(w) == exec[w].sandbox # None

Unwind(w) ==
    /\ At(w, "unwind")
    /\ \E killed, deleted, marked \in Outcomes :
          /\ sandbox' = Try(killed /\ Terminates(w), sandbox, exec[w].sandbox, "dead")
          /\ store' = Try(deleted /\ exec[w].session # None, store, exec[w].session, None)
          /\ session' = IF marked /\ exec[w].session # None /\ Kind(w, "run")
                        THEN [session EXCEPT ![exec[w].session].status = "FAILED"] ELSE session
    /\ Goto(w, "after")
    /\ UNCHANGED <<run, job, reopen, expired, command, preview, asked, answered, crashes, history>>

\* The job of this execution, if it still is the run's newest, is settled.
Settle(w, new) == job' = IF exec[w].version = job.version THEN new ELSE job

\* A validation that failed is repaired and tried again in a new sandbox.
Repair(w) ==
    /\ At(w, "after") /\ Kind(w, "run")
    /\ exec[w].cause = "repairable"
    /\ exec[w].repairs < MaxRepairs
    /\ exec' = [exec EXCEPT ![w] = [exec[w] EXCEPT !.pc = "create", !.repairs = @ + 1, !.session = None,
                                                   !.sandbox = None, !.step = 0, !.cause = "none"]]
    /\ UNCHANGED <<run, job, reopen, sandbox, expired, rows, store, asked, answered, crashes, history>>

\* The catch of RunProcessor.process.
Conclude(w) ==
    /\ At(w, "after") /\ Kind(w, "run")
    /\ End(w)
    /\ \/ exec[w].cause = "stopped" /\ Settle(w, [job EXCEPT !.state = "done"]) /\ UNCHANGED run
       \/ /\ exec[w].cause = "retryable" /\ exec[w].attempt < MaxAttempts
          /\ Settle(w, [job EXCEPT !.state = "waiting", !.attempt = exec[w].attempt + 1])
          /\ UNCHANGED run
       \/ /\ \/ exec[w].cause \in {"repairable", "validation", "final"}
             \/ exec[w].cause = "retryable" /\ exec[w].attempt = MaxAttempts
          /\ run' = IF Holds(w) THEN [run EXCEPT !.status = "FAILED"] ELSE run
          /\ Settle(w, [job EXCEPT !.state = "done"])
    /\ UNCHANGED <<reopen, sandbox, expired, rows, store, asked, answered, crashes, history>>

\* The assessment is over; completeRun, or the lease is revoked, also the one of
\* a run that was completed without an answer.
ToRevoke(w, causes) ==
    /\ \E cause \in causes : exec' = [exec EXCEPT ![w].pc = "revoke", ![w].cause = cause]
    /\ UNCHANGED job

CompleteRun(w) ==
    /\ At(w, "complete")
    /\ \/ /\ Holds(w) /\ run' = [run EXCEPT !.status = "COMPLETED"]
          /\ \/ Settle(w, [job EXCEPT !.state = "done"]) /\ End(w)
             \/ ToRevoke(w, {"retryable", "final"})
       \/ ~ Holds(w) /\ ToRevoke(w, {"stopped"}) /\ UNCHANGED run
       \/ ToRevoke(w, {"retryable", "final"}) /\ UNCHANGED run
    /\ UNCHANGED <<reopen, sandbox, expired, rows, store, asked, answered, crashes, history>>

\* revoke: the three calls go out together.
Revoke(w) ==
    /\ At(w, "revoke")
    /\ \E deleted, killed, stopped \in Outcomes :
          /\ store' = Try(deleted, store, exec[w].session, None)
          /\ sandbox' = Try(killed, sandbox, exec[w].sandbox, "dead")
          /\ IF stopped
             THEN /\ session' = [session EXCEPT ![exec[w].session].status = "TERMINATED"]
                  /\ preview' = [preview EXCEPT ![exec[w].session].status = "STOPPED"]
             ELSE UNCHANGED <<session, preview>>
    /\ Goto(w, "after")
    /\ UNCHANGED <<run, job, reopen, expired, command, asked, answered, crashes, history>>

-----------------------------------------------------------------------------
(* Reopening *)

\* findReopenTarget: a preview that is READY and not expired is still live.
Live(s) == preview[s].status = "READY" /\ preview[s].sandbox \notin expired

\* The job id is the project's: an add beside a waiting or active job is
\* ignored.
RequestReopen ==
    /\ run.status = "COMPLETED"
    /\ \A s \in Sessions : ~ Live(s)
    /\ asked < ReopenBound
    /\ asked' = asked + 1
    /\ answered' = FALSE
    /\ reopen' = IF reopen = "none" THEN "waiting" ELSE reopen
    /\ UNCHANGED <<run, job, exec, sandbox, expired, rows, store, crashes, history>>

\* listProjectFiles comes before the try: when it throws the job is gone.
DeliverReopen(w) ==
    /\ exec[w] = Idle
    /\ reopen = "waiting"
    /\ \/ /\ reopen' = "active" /\ UNCHANGED answered
          /\ exec' = [exec EXCEPT ![w] = [Idle EXCEPT !.pc = "create", !.kind = "reopen"]]
       \/ reopen' = "none" /\ answered' = TRUE /\ UNCHANGED exec   \* no saved files
       \/ DbFails /\ reopen' = "none" /\ UNCHANGED <<answered, exec>>
    /\ UNCHANGED <<run, job, sandbox, expired, rows, store, asked, crashes, history>>

\* recordPreviewReopenFailed, unless there was nothing to reopen; its own
\* failure is swallowed.
ReopenFailed(w) ==
    /\ At(w, "after") /\ Kind(w, "reopen")
    /\ \/ exec[w].cause # "stopped" /\ answered' = TRUE
          /\ session' = IF exec[w].session = None THEN session
                        ELSE [session EXCEPT ![exec[w].session].status = "FAILED"]
       \/ (exec[w].cause = "stopped" \/ DbFails)
          /\ UNCHANGED <<answered, session>>
    /\ End(w)
    /\ reopen' = "none"
    /\ UNCHANGED <<run, job, sandbox, expired, command, preview, store, asked, crashes, history>>

-----------------------------------------------------------------------------
(* Time and crashes *)

\* A timeout passes; E2B then kills the sandbox, and Redis drops the target.
Expire(b) ==
    /\ sandbox[b] # "none" /\ b \notin expired
    /\ expired' = expired \union {b}
    /\ sandbox' = [sandbox EXCEPT ![b] = "dead"]
    /\ store' = [s \in Sessions |-> IF store[s] = b THEN None ELSE store[s]]
    /\ UNCHANGED <<run, job, reopen, exec, rows, asked, answered, crashes, history>>

\* A process dies; BullMQ finds its job stalled and delivers it again under
\* the same attempt.
Crash(w) ==
    /\ exec[w] # Idle
    /\ crashes < CrashBound
    /\ crashes' = crashes + 1
    /\ End(w)
    /\ IF Kind(w, "run")
       THEN Settle(w, [job EXCEPT !.state = "waiting"]) /\ UNCHANGED reopen
       ELSE reopen' = "waiting" /\ UNCHANGED job
    /\ UNCHANGED <<run, sandbox, expired, rows, store, asked, answered, history>>

-----------------------------------------------------------------------------
\* resolveTarget: the ticket of the session has the expiry of its sandbox.
VerifyHost(s) == preview[s].sandbox \notin expired \union {None}
GetTarget(s) == IF store[s] \in expired THEN None ELSE store[s]
ResolveTarget(s) == IF VerifyHost(s) THEN GetTarget(s) ELSE None

WorkerNext(w) ==
    \/ CreateSandbox(w) \/ CreateSandboxSession(w) \/ CreatePreviewReopenSession(w)
    \/ RestoreFiles(w) \/ RunStep(w) \/ Put(w) \/ RecordPreviewReady(w)
    \/ RecordPreviewReopened(w) \/ CallThrows(w) \/ Unwind(w) \/ Repair(w) \/ Conclude(w)
    \/ CompleteRun(w) \/ Revoke(w) \/ ReopenFailed(w)

Next ==
    \/ Stop \/ Resume \/ RequestReopen
    \/ \E b \in Sandboxes : Expire(b)
    \/ \E w \in Workers : Deliver(w) \/ DeliverReopen(w) \/ WorkerNext(w) \/ Crash(w)

Spec == Init /\ [][Next]_vars

\* A worker that lives goes on, and the queue delivers.
FairSpec ==
    /\ Spec
    /\ \A w \in Workers : WF_vars(WorkerNext(w)) /\ WF_vars(DeliverReopen(w))

-----------------------------------------------------------------------------
(* Properties *)

\* A session whose preview row is what its execution knows of, under an id that
\* was its alone.
Trusted(s) == s \notin unheard \union contested

\* "Cleanup: validation failure, cancellation, stale control version, or
\* publication failure terminates E2B and deletes the Redis target"
\* (phase-2-validation-preview.md), and nothing else does: what the database
\* shows as a live preview, and what therefore forbids a reopen, is served by
\* the sandbox it was published for.  Except where the publishing execution did
\* not hear that it had published, or shared the session with another one.
Served(s) ==
    /\ ResolveTarget(s) = preview[s].sandbox
    /\ sandbox[preview[s].sandbox] = "alive"
PublishedPreviewIsServed == \A s \in Sessions : Live(s) /\ Trusted(s) => Served(s)

\* The same line: a sandbox that is still paid for is somebody's: an
\* execution's, or the one behind a live preview.  Except the sandbox whose id
\* its creator never learned, and the one whose session another execution has
\* taken down.
HasOwner(b) ==
    \/ \E w \in Workers : exec[w].sandbox = b
    \/ \E s \in Sessions : Live(s) /\ preview[s].sandbox = b
NoSandboxIsForgotten ==
    \A b \in Sandboxes :
        sandbox[b] = "alive" =>
            HasOwner(b) \/ b \in unheard \/ \E s \in contested : preview[s].sandbox = b

\* "Validation stops on the first non-zero exit": whichever attempt, repair or
\* redelivery published it, the evidence under a live preview of a run shows
\* every gating step passed; with the exceptions of PublishedPreviewIsServed,
\* whose evidence a later execution of the same attempt may replace.
PublishedIsValidated ==
    \A s \in RunSessions :
        Live(s) /\ Trusted(s) => \A n \in Gating : command[s][n] = "SUCCEEDED"

\* The line of the document as it stands, for every preview and every sandbox.
\* The code refutes both: a lost answer of recordPreviewReady takes the sandbox
\* from under a READY row, two executions of one attempt number take down each
\* other's target, and a lost answer of provider.create leaves a sandbox.
LivePreviewIsServed == \A s \in Sessions : Live(s) => Served(s)
EverySandboxHasOwner == \A b \in Sandboxes : sandbox[b] = "alive" => HasOwner(b)

\* "Tells the UI the re-open failed, so it stops waiting instead of polling for
\* ever" (recordPreviewReopenFailed): every request is answered by an event.
ReopenIsAnswered == asked > 0 ~> answered
=============================================================================
