------------------------------ MODULE SmokeRun ------------------------------
(***************************************************************************)
(* The authenticated staging smoke: one live run, driven over HTTP.  The   *)
(* script checks the boundary, uploads an attachment and waits for its     *)
(* scan, starts a run, follows its events over connections of which it     *)
(* cuts the first on purpose, answers the plan gate, and writes evidence   *)
(* when everything held.  Beside it the worker moves the run, the stream   *)
(* route serves the events, and a member of the workspace may act.         *)
(***************************************************************************)
EXTENDS Naturals, Sequences, SequencesExt

CONSTANTS
    Agents,      \* agents that may leave artifacts
    Route,       \* the agents that the project type requires
    MaxEvents,   \* bound: events of the run
    MemberBound, \* bound: actions of another member
    PollBound    \* bound: polls of the attachment and of the run

(* What the constants satisfy; the modules that instantiate this one assume it. *)
SmokeRunAssumption ==
    Route \subseteq Agents /\ {MaxEvents, MemberBound, PollBound} \subseteq Nat

VARIABLES
    run,        \* agent_runs: status, control version, and how far the plan gate is
    log,        \* run_events: the type of each sequence
    attachment, \* its status
    artifacts,  \* agents with artifacts
    conn,       \* the server side of the current event stream
    obs,        \* the script
    seen,       \* history: the sequences the script has processed
    acts        \* what the member has done

server == <<run, log, attachment, artifacts>>
vars == <<server, conn, obs, seen, acts>>

Terminal == {"COMPLETED", "FAILED", "CANCELLED"}
BoundaryChecks == <<"web_https_and_csp", "control_api_health", "cors_and_auth_boundary",
                    "entra_control_api_identity", "two_identity_workspace_isolation">>
ExpectedApprovals == <<"plan">>
Steps == {"boundary", "upload", "scan", "download", "create", "connect", "read", "gate", "approve",
          "poll", "artifacts", "preview", "final", "write", "passed", "failed"}
Reasons == {"none", "request", "timeout", "boundary", "scan", "no event", "approval", "run failed",
            "no preview", "routing", "preview", "not completed", "file exists"}
Types == {"run.status_changed", "approval.required", "preview.READY", "preview.STOPPED",
          "run.completed", "run.failed"}

TypeOK ==
    /\ run \in [status : {"NONE", "PENDING", "RUNNING", "PAUSED"} \union Terminal, version : Nat,
                gate : {"ahead", "asked", "passed"}]
    /\ log \in Seq(Types) /\ Len(log) <= MaxEvents
    /\ attachment \in {"NONE", "PENDING", "CLEAN", "REJECTED"}
    /\ artifacts \subseteq Agents
    /\ conn \in [pc : {"closed", "list", "status", "poll", "ended"}, cursor : 0 .. MaxEvents, pipe : Seq(1 .. MaxEvents)]
    /\ obs \in [pc : Steps, checks : 0 .. Len(BoundaryChecks), cursor : 0 .. MaxEvents, read : 0 .. MaxEvents,
                connection : {0, 1, 2}, pending : BOOLEAN, completed : BOOLEAN, ended : BOOLEAN,
                preview : 0 .. MaxEvents, version : Nat, approvals : Seq({"plan"}), polls : 0 .. PollBound,
                reason : Reasons]
    /\ seen \in Seq(1 .. MaxEvents) /\ acts \in 0 .. MemberBound

Init ==
    /\ run = [status |-> "NONE", version |-> 0, gate |-> "ahead"]
    /\ log = <<>> /\ attachment = "NONE" /\ artifacts = {}
    /\ conn = [pc |-> "closed", cursor |-> 0, pipe |-> <<>>]
    /\ obs = [pc |-> "boundary", checks |-> 0, cursor |-> 0, read |-> 0, connection |-> 0, pending |-> FALSE,
              completed |-> FALSE, ended |-> FALSE, preview |-> 0, version |-> 0, approvals |-> <<>>,
              polls |-> 0, reason |-> "none"]
    /\ seen = <<>> /\ acts = 0

-----------------------------------------------------------------------------
(* The worker and the member *)

Append1(type) == Len(log) < MaxEvents /\ log' = Append(log, type)
Move(status) == run' = [run EXCEPT !.status = status, !.version = @ + 1]
WorkerLeaves == UNCHANGED <<attachment, conn, obs, seen, acts>>

ClaimRun ==
    /\ run.status = "PENDING" /\ Move("RUNNING") /\ Append1("run.status_changed")
    /\ UNCHANGED artifacts /\ WorkerLeaves

(* The pause and its event are one transaction. *)
RequestApproval ==
    /\ run.status = "RUNNING" /\ run.gate = "ahead"
    /\ run' = [status |-> "PAUSED", version |-> run.version + 1, gate |-> "asked"]
    /\ Append1("approval.required")
    /\ UNCHANGED artifacts /\ WorkerLeaves

WorkAgent(a) ==
    /\ run.status = "RUNNING" /\ run.gate = "passed" /\ a \notin artifacts
    /\ artifacts' = artifacts \union {a}
    /\ UNCHANGED <<run, log>> /\ WorkerLeaves

PublishPreview ==
    /\ run.status = "RUNNING" /\ run.gate = "passed"
    /\ Append1("preview.READY")
    /\ UNCHANGED <<run, artifacts>> /\ WorkerLeaves

Previews == SelectSeq(log, LAMBDA t : t \in {"preview.READY", "preview.STOPPED"})

(* A preview that could not be kept is stopped, also of a run that is finished. *)
StopPreview ==
    /\ Previews # <<>> /\ Last(Previews) = "preview.READY"
    /\ Append1("preview.STOPPED")
    /\ UNCHANGED <<run, artifacts>> /\ WorkerLeaves

CompleteRun ==
    /\ run.status = "RUNNING" /\ run.gate = "passed"
    /\ Move("COMPLETED") /\ Append1("run.completed")
    /\ UNCHANGED artifacts /\ WorkerLeaves

FailRun ==
    /\ run.status = "RUNNING" /\ Move("FAILED") /\ Append1("run.failed")
    /\ UNCHANGED artifacts /\ WorkerLeaves

ScanAttachment(verdict) ==
    /\ attachment = "PENDING" /\ attachment' = verdict
    /\ UNCHANGED <<run, log, artifacts, conn, obs, seen, acts>>

(* approve: a pause becomes PENDING at the compared version. *)
Approved == [status |-> "PENDING", version |-> run.version + 1,
             gate |-> IF run.gate = "asked" THEN "passed" ELSE run.gate]

MemberActs ==
    /\ acts < MemberBound /\ acts' = acts + 1
    /\ \/ run.status = "PAUSED" /\ run.gate = "asked" /\ run' = Approved
       \/ run.status = "RUNNING" /\ Move("PAUSED")
       \/ run.status \in {"PENDING", "RUNNING", "PAUSED"} /\ Move("CANCELLED")
    /\ UNCHANGED <<log, attachment, artifacts, conn, obs, seen>>

-----------------------------------------------------------------------------
(* GET /v1/runs/:runId/events *)

ListEvents ==
    /\ conn.pc \in {"list", "poll"}
    /\ conn' = [conn EXCEPT !.pc = "status", !.cursor = Len(log),
                            !.pipe = @ \o [i \in 1 .. Len(log) - conn.cursor |-> conn.cursor + i]]
    /\ UNCHANGED <<server, obs, seen, acts>>

CheckStatus ==
    /\ conn.pc = "status"
    /\ conn' = [conn EXCEPT !.pc = IF run.status \in Terminal THEN "ended" ELSE "poll"]
    /\ UNCHANGED <<server, obs, seen, acts>>

(* sseMaxConnectionMs *)
StreamExpires ==
    /\ conn.pc = "poll" /\ conn' = [conn EXCEPT !.pc = "ended"]
    /\ UNCHANGED <<server, obs, seen, acts>>

-----------------------------------------------------------------------------
(* executeAuthenticatedStagingSmoke *)

Goto(pc) == obs' = [obs EXCEPT !.pc = pc]
Fail(reason) == obs' = [obs EXCEPT !.pc = "failed", !.reason = reason]
Running == obs.pc \notin {"passed", "failed"}

(* The checks before the first write, in their order. *)
CheckBoundary ==
    /\ obs.pc = "boundary"
    /\ \/ obs' = [obs EXCEPT !.checks = @ + 1,
                             !.pc = IF obs.checks + 1 = Len(BoundaryChecks) THEN "upload" ELSE @]
       \/ Fail("boundary")
    /\ UNCHANGED <<server, conn, seen, acts>>

(* Project, upload intent, signed upload, completion. *)
UploadAttachment ==
    /\ obs.pc = "upload" /\ attachment' = "PENDING" /\ Goto("scan")
    /\ UNCHANGED <<run, log, artifacts, conn, seen, acts>>

AcceptsScan == attachment = "CLEAN"

WaitForCleanAttachment ==
    /\ obs.pc = "scan"
    /\ \/ AcceptsScan /\ obs' = [obs EXCEPT !.pc = "download", !.polls = 0]
       \/ ~AcceptsScan /\ attachment = "REJECTED" /\ Fail("scan")
       \/ ~AcceptsScan /\ attachment = "PENDING" /\ obs.polls < PollBound
            /\ obs' = [obs EXCEPT !.polls = @ + 1]
    /\ UNCHANGED <<server, conn, seen, acts>>

(* The signed download has the bytes of the upload. *)
Download ==
    /\ obs.pc = "download" /\ Goto("create")
    /\ UNCHANGED <<server, conn, seen, acts>>

CreateRun ==
    /\ obs.pc = "create" /\ Goto("connect")
    /\ run' = [run EXCEPT !.status = "PENDING"]
    /\ UNCHANGED <<log, attachment, artifacts, conn, seen, acts>>

-----------------------------------------------------------------------------
(* observeRun and readSseConnection *)

(* Last-Event-ID is the last event the script processed. *)
ResumeAt == obs.cursor

Connect ==
    /\ obs.pc = "connect"
    /\ conn' = [pc |-> "list", cursor |-> ResumeAt, pipe |-> <<>>]
    /\ obs' = [obs EXCEPT !.pc = "read", !.read = 0, !.ended = FALSE]
    /\ UNCHANGED <<server, seen, acts>>

(* After a connection: the number is counted, a pending gate goes first. *)
AfterConnection(o, ended) ==
    [o EXCEPT !.connection = IF @ = 0 THEN 1 ELSE 2, !.ended = ended,
              !.pc = IF o.connection = 0 /\ o.read = 0 THEN "failed"
                     ELSE IF o.pending THEN "gate"
                     ELSE IF o.completed THEN "artifacts"
                     ELSE IF ended \/ o.read = 0 THEN "poll" ELSE "connect",
              !.reason = IF o.connection = 0 /\ o.read = 0 THEN "no event" ELSE @]

(* onEvent, and shouldStop once the event is taken. *)
OnEvent ==
    /\ obs.pc = "read" /\ conn.pipe # <<>>
    /\ LET s == Head(conn.pipe)
           type == log[s]
           o == [obs EXCEPT !.cursor = s, !.read = @ + 1,
                            !.pending = type = "approval.required",
                            !.preview = IF type = "preview.READY" THEN s ELSE @,
                            !.completed = type = "run.completed"]
           stop == obs.connection = 0 \/ o.pending \/ o.completed
       IN  /\ seen' = Append(seen, s)
           /\ CASE s <= obs.cursor -> Fail("no event") /\ conn' = [conn EXCEPT !.pc = "closed"]
                [] type = "approval.required" /\ obs.approvals # <<>> ->
                     Fail("approval") /\ conn' = [conn EXCEPT !.pc = "closed"]
                [] type = "run.failed" -> Fail("run failed") /\ conn' = [conn EXCEPT !.pc = "closed"]
                [] OTHER -> /\ obs' = IF stop THEN AfterConnection(o, FALSE) ELSE o
                            /\ conn' = IF stop THEN [conn EXCEPT !.pc = "closed", !.pipe = <<>>]
                                               ELSE [conn EXCEPT !.pipe = Tail(@)]
    /\ UNCHANGED <<server, acts>>

StreamEnds ==
    /\ obs.pc = "read" /\ conn.pc = "ended" /\ conn.pipe = <<>>
    /\ obs' = AfterConnection(obs, TRUE)
    /\ conn' = [conn EXCEPT !.pc = "closed"]
    /\ UNCHANGED <<server, seen, acts>>

(* The gate's event is older than this answer; its version is the one compared. *)
ReadGate ==
    /\ obs.pc = "gate"
    /\ IF run.status = "PAUSED"
       THEN obs' = [obs EXCEPT !.pc = "approve", !.version = run.version, !.pending = FALSE]
       ELSE Fail("approval")
    /\ UNCHANGED <<server, conn, seen, acts>>

ApproveGate ==
    /\ obs.pc = "approve"
    /\ IF run.status = "PAUSED" /\ run.version = obs.version
       THEN run' = Approved /\ obs' = [obs EXCEPT !.pc = "connect", !.approvals = Append(@, "plan")]
       ELSE Fail("approval") /\ UNCHANGED run
    /\ UNCHANGED <<log, attachment, artifacts, conn, seen, acts>>

Finished == run.status = "COMPLETED"

(* Run progress between two connections. *)
PollRun ==
    /\ obs.pc = "poll"
    /\ \/ Finished /\ Goto("artifacts")
       \/ ~Finished /\ run.status \in Terminal /\ Fail("run failed")
       \/ run.status \notin Terminal /\ obs.polls < PollBound
            /\ obs' = [obs EXCEPT !.pc = "connect", !.polls = @ + 1]
    /\ UNCHANGED <<server, conn, seen, acts>>

-----------------------------------------------------------------------------
(* After the run *)

(* The end of observeRun, then assertCapabilityRouting of the artifacts. *)
CheckRoute ==
    /\ obs.pc = "artifacts"
    /\ CASE obs.approvals # ExpectedApprovals -> Fail("approval")
         [] obs.preview = 0 -> Fail("no preview")
         [] artifacts # Route -> Fail("routing")
         [] OTHER -> Goto("preview")
    /\ UNCHANGED <<server, conn, seen, acts>>

(* A gateway serves the preview that was published last and not stopped. *)
Served == \E i \in 1 .. Len(log) : /\ i = obs.preview
                                   /\ \A j \in i + 1 .. Len(log) : log[j] \notin {"preview.READY", "preview.STOPPED"}

FetchPreview ==
    /\ obs.pc = "preview"
    /\ IF Served THEN Goto("final") ELSE Fail("preview")
    /\ UNCHANGED <<server, conn, seen, acts>>

CheckCompleted ==
    /\ obs.pc = "final"
    /\ IF run.status = "COMPLETED" THEN Goto("write") ELSE Fail("not completed")
    /\ UNCHANGED <<server, conn, seen, acts>>

WriteRedactedEvidence ==
    /\ obs.pc = "write" /\ (Goto("passed") \/ Fail("file exists"))
    /\ UNCHANGED <<server, conn, seen, acts>>

RequestFails ==
    /\ Running /\ obs.pc # "write" /\ Fail("request")
    /\ conn' = [conn EXCEPT !.pc = "closed"]
    /\ UNCHANGED <<server, seen, acts>>

(* Every request is aborted at the deadline, the open stream too. *)
Interrupts == obs.pc # "write"

DeadlinePasses ==
    /\ Running /\ Interrupts /\ Fail("timeout")
    /\ conn' = [conn EXCEPT !.pc = "closed"]
    /\ UNCHANGED <<server, seen, acts>>

-----------------------------------------------------------------------------

Script ==
    \/ CheckBoundary \/ UploadAttachment \/ WaitForCleanAttachment \/ Download \/ CreateRun
    \/ Connect \/ OnEvent \/ StreamEnds \/ ReadGate \/ ApproveGate \/ PollRun
    \/ CheckRoute \/ FetchPreview \/ CheckCompleted \/ WriteRedactedEvidence

Environment ==
    \/ ClaimRun \/ RequestApproval \/ PublishPreview \/ StopPreview \/ CompleteRun \/ FailRun \/ MemberActs
    \/ \E a \in Agents : WorkAgent(a)
    \/ \E verdict \in {"CLEAN", "REJECTED"} : ScanAttachment(verdict)
    \/ ListEvents \/ CheckStatus \/ StreamExpires

Next == Script \/ Environment \/ RequestFails \/ DeadlinePasses

(* The script goes on, and the clock does. *)
Fairness == WF_vars(Script) /\ WF_vars(DeadlinePasses)
Spec == Init /\ [][Next]_vars /\ Fairness

-----------------------------------------------------------------------------
(* Properties *)

(* Passing evidence: the run is completed, its plan gate was answered, the        *)
(* attachment is clean, artifacts and route agree, and the preview the script     *)
(* fetched is one of the run's, whatever members and the worker did in between.   *)
PassIsEarned ==
    obs.pc = "passed" =>
        /\ run.status = "COMPLETED" /\ run.gate = "passed" /\ obs.approvals = ExpectedApprovals
        /\ attachment = "CLEAN" /\ artifacts = Route
        /\ log[obs.preview] = "preview.READY"

(* The first connection is cut with events in its buffer, and others expire; over *)
(* all of them the script still processes the events of the log once, in order    *)
(* and without a gap, up to the one it stops at.                                  *)
ReplayHasNoGap == seen = [i \in 1 .. Len(seen) |-> i]

(* A script that passes has seen the run's events to their end. The code does not *)
(* see to it: a stream that ends on the run's status may have listed before the   *)
(* last events, and the script then polls COMPLETED and asks for no more.         *)
CompletionIsSeen ==
    obs.pc = "passed" => \E i \in 1 .. Len(seen) : log[seen[i]] = "run.completed"

(* Whatever the platform does, the script ends: no stream, gate or scan can hold  *)
(* it beyond its deadline.                                                        *)
Ended == obs.pc \in {"passed", "failed"}
SmokeEnds == <>Ended

(* "completed run did not emit a ready signed preview" is said of runs that did   *)
(* not emit one.                                                                  *)
PreviewVerdictIsTrue ==
    obs.reason = "no preview" => ~\E i \in 1 .. Len(log) : log[i] = "preview.READY"

=============================================================================
