------------------------------ MODULE RunControl ------------------------------
(***************************************************************************)
(* One agent run, seen through the row that everybody shares: requests of  *)
(* the Control API (create, pause, resume, approve, cancel, retry), the    *)
(* BullMQ run queue, the orchestrator workers that claim and execute jobs, *)
(* and the three sweepers (expiry, reminder, purge).  Nobody holds a lock  *)
(* across two steps.  Every actor reads the row in one database call,      *)
(* remembers what it read, and writes in a later call, so other actors can *)
(* move the row in between.                                                *)
(*                                                                         *)
(* What a job does between claim and end (agents, gates, validation) is    *)
(* one TaskStep action here and the subject of RunGraph.                   *)
(*                                                                         *)
(* An operator named X_Y is a faulty variant of the X after it, kept to    *)
(* show which property notices the fault.  No action uses it.              *)
(***************************************************************************)
EXTENDS Naturals, FiniteSets

CONSTANTS
    Clients,      \* requests of the Control API that may be in flight at once
    Workers,      \* worker slots (replicas times concurrency)
    Sweepers,     \* sweeper timers, over all worker replicas
    MaxAttempts,  \* `attempts` of the run queue
    MaxStalls,    \* stalls BullMQ forgives one job before it drops it
    StallBound,   \* bound: stalls one delivery can meet in the model
    VersionBound, \* bound: no request is read at or above this version
    ApiMayCrash,  \* may a Control API process die inside a request?
    DatabaseMayFail \* may a worker's own database call fail?

ASSUME RunControlAssumption ==
    /\ MaxAttempts \in Nat \ {0}
    /\ MaxStalls \in Nat
    /\ StallBound \in Nat
    /\ VersionBound \in Nat
    /\ ApiMayCrash \in BOOLEAN
    /\ DatabaseMayFail \in BOOLEAN

VARIABLES
    status,          \* agent_runs.status, "NONE" before the insert
    controlVersion,  \* agent_runs.control_version
    error,           \* agent_runs.error: "none", "enqueue", "worker", "expired"
    pausedAge,       \* age of paused_at: "unset", "fresh", "due" (reminder), "over" (TTL)
    reminded,        \* reminder_sent_at is set
    purged,          \* purged_at is set
    lastEvent,       \* type of the newest run_events row
    threadSaved,     \* the LangGraph checkpoint tables hold content of this run
    api,             \* Control API: what each request in flight has read so far
    waiting,         \* run queue: deliveries no worker holds
    worker,          \* workers: the delivery each one is executing
    sweep,           \* sweepers: the candidate each one has read
    pausedFor,       \* history: why the run entered its latest pause
    cancelledBy      \* history: who cancelled the run

row     == <<status, controlVersion, error, pausedAge, reminded, purged>>
log     == <<lastEvent, threadSaved>>
history == <<pausedFor, cancelledBy>>
vars    == <<row, log, api, waiting, worker, sweep, history>>

-----------------------------------------------------------------------------
(* Values *)

Statuses == {"NONE", "PENDING", "RUNNING", "PAUSED",
             "COMPLETED", "FAILED", "CANCELLED"}
Actions  == {"pause", "resume", "approve", "cancel", "retry"}
Commands == {"start", "resume", "approve", "retry"}
Errors   == {"none", "enqueue", "worker", "expired"}
Ages     == {"unset", "fresh", "due", "over"}
Events   == {"none", "status", "task", "approval", "reminder",
             "completed", "failed", "purged"}

Job      == [command : Commands, version : Nat]
Delivery == [job : Job, made : Nat, stalls : Nat]

IdleRequest == [pc |-> "idle"]
IdleWorker  == [pc |-> "idle"]
IdleSweep   == [pc |-> "idle"]

Request ==
    {IdleRequest}
    \union [pc : {"read"}, action : Actions, status : Statuses, version : Nat]
    \union [pc : {"enqueue", "markFailed"}, job : Job]

WorkerState ==
    {IdleWorker}
    \union [pc : {"claim", "work"}, delivery : Delivery, locked : BOOLEAN]

SweepState ==
    {IdleSweep} \union [pc : {"expire", "remind", "purge"}, version : Nat]

TypeOK ==
    /\ status \in Statuses
    /\ controlVersion \in Nat
    /\ error \in Errors
    /\ pausedAge \in Ages
    /\ reminded \in BOOLEAN
    /\ purged \in BOOLEAN
    /\ lastEvent \in Events
    /\ threadSaved \in BOOLEAN
    /\ api \in [Clients -> Request]
    /\ waiting \in SUBSET Delivery
    /\ worker \in [Workers -> WorkerState]
    /\ sweep \in [Sweepers -> SweepState]
    /\ pausedFor \in {"none", "manual", "approval"}
    /\ cancelledBy \in {"none", "user", "expiry"}

Init ==
    /\ status = "NONE"
    /\ controlVersion = 0
    /\ error = "none"
    /\ pausedAge = "unset"
    /\ reminded = FALSE
    /\ purged = FALSE
    /\ lastEvent = "none"
    /\ threadSaved = FALSE
    /\ api = [c \in Clients |-> IdleRequest]
    /\ waiting = {}
    /\ worker = [w \in Workers |-> IdleWorker]
    /\ sweep = [s \in Sweepers |-> IdleSweep]
    /\ pausedFor = "none"
    /\ cancelledBy = "none"

-----------------------------------------------------------------------------
(* The row's compare-and-swap: `where: { status, controlVersion }`.        *)

RowIs_StatusOnly(s, v) == status = s
RowIs(s, v) == status = s /\ controlVersion = v

MoveTo_SameVersion(s) == status' = s /\ UNCHANGED controlVersion
MoveTo(s) ==
    /\ status' = s
    /\ controlVersion' = controlVersion + 1

-----------------------------------------------------------------------------
(* Control API *)

\* The statuses resolveRunTransition accepts, per action.
ValidFrom(a) ==
    CASE a = "pause"  -> {"PENDING", "RUNNING"}
      [] a = "cancel" -> {"PENDING", "RUNNING", "PAUSED"}
      [] a = "retry"  -> {"FAILED"}
      [] OTHER        -> {"PAUSED"}

NewStatus(a) ==
    CASE a = "pause"  -> "PAUSED"
      [] a = "cancel" -> "CANCELLED"
      [] OTHER        -> "PENDING"

Enqueues(a) == NewStatus(a) = "PENDING"

\* Whose patch sets reminderSentAt to null.
ClearsReminder_ResumeOnly(a) == a = "resume"
ClearsReminder(a) == a \in {"resume", "approve"}

\* POST /v1/projects/:id/runs.  The insert commits before the enqueue; a
\* second POST with the same idempotency key reads the row and enqueues nothing.
CreateRun(c) ==
    /\ api[c] = IdleRequest
    /\ status = "NONE"
    /\ status' = "PENDING"
    /\ api' = [api EXCEPT ![c] =
                 [pc |-> "enqueue", job |-> [command |-> "start", version |-> controlVersion]]]
    /\ UNCHANGED <<controlVersion, error, pausedAge, reminded, purged,
                   log, waiting, worker, sweep, history>>

\* POST /v1/runs/:runId/actions, first half: getRun, the client's own
\* preconditions and resolveRunTransition all use this one read.
ReadForAction(c, a) ==
    /\ api[c] = IdleRequest
    /\ status \in ValidFrom(a)
    /\ controlVersion < VersionBound
    /\ api' = [api EXCEPT ![c] =
                 [pc |-> "read", action |-> a, status |-> status, version |-> controlVersion]]
    /\ UNCHANGED <<row, log, waiting, worker, sweep, history>>

\* Second half: transitionRun compares and swaps on what was read.
TransitionRun(c) ==
    /\ api[c].pc = "read"
    /\ LET a == api[c].action IN
       IF RowIs(api[c].status, api[c].version)
       THEN /\ MoveTo(NewStatus(a))
            /\ pausedAge' = CASE a = "pause"  -> "fresh"
                              [] a = "cancel" -> pausedAge
                              [] OTHER        -> "unset"
            /\ reminded' = IF ClearsReminder(a) THEN FALSE ELSE reminded
            /\ error' = IF a = "retry" THEN "none" ELSE error
            /\ api' = [api EXCEPT ![c] =
                         IF Enqueues(a)
                         THEN [pc |-> "enqueue",
                               job |-> [command |-> a, version |-> controlVersion + 1]]
                         ELSE IdleRequest]
            /\ pausedFor' = IF a = "pause" THEN "manual" ELSE pausedFor
            /\ cancelledBy' = IF a = "cancel" THEN "user" ELSE cancelledBy
            /\ UNCHANGED purged
       ELSE /\ api' = [api EXCEPT ![c] = IdleRequest]
            /\ UNCHANGED <<row, history>>
    /\ UNCHANGED <<log, waiting, worker, sweep>>

NewDelivery(j) == [job |-> j, made |-> 0, stalls |-> 0]

\* queue.add answers, or fails before Redis has the job, or fails after.
EnqueueOk(c) ==
    /\ api[c].pc = "enqueue"
    /\ waiting' = waiting \union {NewDelivery(api[c].job)}
    /\ api' = [api EXCEPT ![c] = IdleRequest]
    /\ UNCHANGED <<row, log, worker, sweep, history>>

EnqueueError(c) ==
    /\ api[c].pc = "enqueue"
    /\ waiting' \in {waiting, waiting \union {NewDelivery(api[c].job)}}
    /\ api' = [api EXCEPT ![c] = [pc |-> "markFailed", job |-> api[c].job]]
    /\ UNCHANGED <<row, log, worker, sweep, history>>

MarkRunFailed_Nothing(c) ==
    /\ api[c].pc = "markFailed"
    /\ api' = [api EXCEPT ![c] = IdleRequest]
    /\ UNCHANGED <<row, log, waiting, worker, sweep, history>>

\* markRunFailed: no version bump and no event; a run that a worker claimed
\* or a user moved in the meantime is left alone.
MarkRunFailed(c) ==
    /\ api[c].pc = "markFailed"
    /\ IF RowIs("PENDING", api[c].job.version)
       THEN status' = "FAILED" /\ error' = "enqueue"
       ELSE UNCHANGED <<status, error>>
    /\ api' = [api EXCEPT ![c] = IdleRequest]
    /\ UNCHANGED <<controlVersion, pausedAge, reminded, purged,
                   log, waiting, worker, sweep, history>>

CrashRequest(c) ==
    /\ ApiMayCrash
    /\ api[c] # IdleRequest
    /\ api' = [api EXCEPT ![c] = IdleRequest]
    /\ UNCHANGED <<row, log, waiting, worker, sweep, history>>

-----------------------------------------------------------------------------
(* Run queue and workers *)

Deliver(w, d) ==
    /\ worker[w] = IdleWorker
    /\ d \in waiting
    /\ waiting' = waiting \ {d}
    /\ worker' = [worker EXCEPT ![w] = [pc |-> "claim", delivery |-> d, locked |-> TRUE]]
    /\ UNCHANGED <<row, log, api, sweep, history>>

\* The control version a worker that executes this job works under.
Authority_OfJob(w) == worker[w].delivery.job.version
Authority(w) == worker[w].delivery.job.version + 1

Holds_AnyVersion(w) == status = "RUNNING"
Holds(w) == RowIs("RUNNING", Authority(w))

Done(w) == worker' = [worker EXCEPT ![w] = IdleWorker]

Redeliver(d) == waiting' = waiting \union {d}

\* claimRun: a redelivery of the job that moved the run to RUNNING is ready
\* again, a PENDING run of this job's version is moved, all else is stale.
ClaimRun(w) ==
    /\ worker[w].pc = "claim"
    /\ IF Holds(w)
       THEN /\ worker' = [worker EXCEPT ![w].pc = "work"]
            /\ UNCHANGED <<status, controlVersion, lastEvent>>
       ELSE IF RowIs("PENDING", worker[w].delivery.job.version)
       THEN /\ MoveTo("RUNNING")
            /\ lastEvent' = "status"
            /\ worker' = [worker EXCEPT ![w].pc = "work"]
       ELSE /\ Done(w)
            /\ UNCHANGED <<status, controlVersion, lastEvent>>
    /\ UNCHANGED <<error, pausedAge, reminded, purged, threadSaved,
                   api, waiting, sweep, history>>

\* Any task or sandbox call of the graph: touchActiveRun fences it, it appends
\* an event, and LangGraph saves the node's result under the run's thread.
TaskStep(w) ==
    /\ worker[w].pc = "work"
    /\ IF Holds(w)
       THEN /\ lastEvent' = "task"
            /\ threadSaved' = TRUE
            /\ UNCHANGED worker
       ELSE /\ Done(w)
            /\ UNCHANGED log
    /\ UNCHANGED <<row, api, waiting, sweep, history>>

RequestApproval(w) ==
    /\ worker[w].pc = "work"
    /\ IF Holds(w)
       THEN /\ MoveTo("PAUSED")
            /\ pausedAge' = "fresh"
            /\ pausedFor' = "approval"
            /\ lastEvent' = "approval"
       ELSE UNCHANGED <<status, controlVersion, pausedAge, pausedFor, lastEvent>>
    /\ Done(w)
    /\ UNCHANGED <<error, reminded, purged, threadSaved, api, waiting, sweep, cancelledBy>>

CompleteRun(w) ==
    /\ worker[w].pc = "work"
    /\ IF Holds(w)
       THEN MoveTo("COMPLETED") /\ lastEvent' = "completed"
       ELSE UNCHANGED <<status, controlVersion, lastEvent>>
    /\ Done(w)
    /\ UNCHANGED <<error, pausedAge, reminded, purged, threadSaved,
                   api, waiting, sweep, history>>

LastAttempt(w) == worker[w].delivery.made + 1 >= MaxAttempts

\* A failure that cannot be retried, or the last attempt's.
FailRun(w) ==
    /\ worker[w].pc = "work"
    /\ IF Holds(w)
       THEN MoveTo("FAILED") /\ error' = "worker" /\ lastEvent' = "failed"
       ELSE UNCHANGED <<status, controlVersion, error, lastEvent>>
    /\ Done(w)
    /\ UNCHANGED <<pausedAge, reminded, purged, threadSaved,
                   api, waiting, sweep, history>>

ReturnToQueue(w) ==
    /\ IF worker[w].locked /\ ~ LastAttempt(w)
       THEN Redeliver([worker[w].delivery EXCEPT !.made = @ + 1])
       ELSE UNCHANGED waiting
    /\ Done(w)
    /\ UNCHANGED <<row, log, api, sweep, history>>

\* A retryable failure is thrown to BullMQ, which redelivers the job unless
\* this worker has lost its lock.
ThrowRetryable(w) ==
    /\ worker[w].pc = "work"
    /\ ~ LastAttempt(w)
    /\ ReturnToQueue(w)

\* claimRun or failRun themselves fail: process() rejects whatever the attempt
\* is, so on the last one BullMQ drops the job and the row stays as it was.
DatabaseError(w) ==
    /\ DatabaseMayFail
    /\ worker[w].pc \in {"claim", "work"}
    /\ ReturnToQueue(w)

\* The job's lock expires: the queue gives the job to somebody else, or drops
\* it after MaxStalls, while this worker goes on (or is dead: survives = FALSE).
Stall(w, survives) ==
    /\ worker[w].pc \in {"claim", "work"}
    /\ worker[w].locked
    /\ LET d == worker[w].delivery IN
       /\ d.stalls < StallBound
       /\ IF d.stalls < MaxStalls
          THEN Redeliver([d EXCEPT !.stalls = @ + 1])
          ELSE UNCHANGED waiting
    /\ IF survives THEN worker' = [worker EXCEPT ![w].locked = FALSE] ELSE Done(w)
    /\ UNCHANGED <<row, log, api, sweep, history>>

-----------------------------------------------------------------------------
(* Sweepers.  Time is the age of paused_at; each sweeper reads candidates  *)
(* in one query and writes them one by one later.                          *)

Tick ==
    /\ status = "PAUSED"
    /\ \/ pausedAge = "fresh" /\ pausedAge' = "due"
       \/ pausedAge = "due"   /\ pausedAge' = "over"
    /\ UNCHANGED <<status, controlVersion, error, reminded, purged,
                   log, api, waiting, worker, sweep, history>>

\* The three candidate queries.
IsCandidate_AnyCancelled(kind) ==
    \/ kind = "expire" /\ status = "PAUSED" /\ pausedAge = "over"
    \/ kind = "remind" /\ status = "PAUSED" /\ pausedAge \in {"due", "over"} /\ ~ reminded
    \/ kind = "purge"  /\ status = "CANCELLED" /\ ~ purged
IsCandidate(kind) ==
    \/ kind = "expire" /\ status = "PAUSED" /\ pausedAge = "over"
    \/ kind = "remind" /\ status = "PAUSED" /\ pausedAge \in {"due", "over"} /\ ~ reminded
    \/ kind = "purge"  /\ status = "CANCELLED" /\ error = "expired" /\ ~ purged

ReadCandidate(s, kind) ==
    /\ sweep[s] = IdleSweep
    /\ IsCandidate(kind)
    /\ sweep' = [sweep EXCEPT ![s] = [pc |-> kind, version |-> controlVersion]]
    /\ UNCHANGED <<row, log, api, waiting, worker, history>>

EndSweep_KeepRead(s) == sweep' = [sweep EXCEPT ![s].pc = "idle"]
EndSweep(s) == sweep' = [sweep EXCEPT ![s] = IdleSweep]

\* expirePausedRuns: compare-and-swap on the version that was read; no event.
ExpireRun(s) ==
    /\ sweep[s].pc = "expire"
    /\ IF RowIs("PAUSED", sweep[s].version)
       THEN /\ MoveTo("CANCELLED")
            /\ error' = "expired"
            /\ cancelledBy' = "expiry"
       ELSE UNCHANGED <<status, controlVersion, error, cancelledBy>>
    /\ EndSweep(s)
    /\ UNCHANGED <<pausedAge, reminded, purged, log, api, waiting, worker, pausedFor>>

\* sendReminders: guarded by status and reminder_sent_at only.
SendReminder(s) ==
    /\ sweep[s].pc = "remind"
    /\ IF status = "PAUSED" /\ ~ reminded
       THEN reminded' = TRUE /\ lastEvent' = "reminder"
       ELSE UNCHANGED <<reminded, lastEvent>>
    /\ EndSweep(s)
    /\ UNCHANGED <<status, controlVersion, error, pausedAge, purged, threadSaved,
                   api, waiting, worker, history>>

\* purgeExpiredRunData redacts the row, its tasks and its attachment links.
\* The LangGraph tables are not among what it writes.
PurgeRunData(s) ==
    /\ sweep[s].pc = "purge"
    /\ IF status = "CANCELLED" /\ ~ purged
       THEN purged' = TRUE /\ lastEvent' = "purged"
       ELSE UNCHANGED <<purged, lastEvent>>
    /\ EndSweep(s)
    /\ UNCHANGED <<status, controlVersion, error, pausedAge, reminded, threadSaved,
                   api, waiting, worker, history>>

-----------------------------------------------------------------------------
ApiNext(c) ==
    \/ CreateRun(c)
    \/ \E a \in Actions : ReadForAction(c, a)
    \/ TransitionRun(c)
    \/ EnqueueOk(c) \/ EnqueueError(c) \/ MarkRunFailed(c)
    \/ CrashRequest(c)

WorkerNext(w) ==
    \/ \E d \in waiting : Deliver(w, d)
    \/ ClaimRun(w)
    \/ TaskStep(w)
    \/ RequestApproval(w) \/ CompleteRun(w) \/ FailRun(w)
    \/ ThrowRetryable(w) \/ DatabaseError(w)
    \/ \E survives \in BOOLEAN : Stall(w, survives)

SweepNext(s) ==
    \/ \E kind \in {"expire", "remind", "purge"} : ReadCandidate(s, kind)
    \/ ExpireRun(s) \/ SendReminder(s) \/ PurgeRunData(s)

Next ==
    \/ \E c \in Clients : ApiNext(c)
    \/ \E w \in Workers : WorkerNext(w)
    \/ \E s \in Sweepers : SweepNext(s)
    \/ Tick

Spec == Init /\ [][Next]_vars

\* BullMQ keeps delivering to idle workers, an execution ends (every provider
\* call in it has a timeout), and a request that has moved the row goes on.
Fairness ==
    /\ \A w \in Workers :
         /\ WF_vars(\E d \in waiting : Deliver(w, d))
         /\ WF_vars(ClaimRun(w))
         /\ WF_vars(RequestApproval(w) \/ CompleteRun(w) \/ FailRun(w) \/ ThrowRetryable(w))
    /\ \A c \in Clients : WF_vars(EnqueueOk(c) \/ EnqueueError(c) \/ MarkRunFailed(c))

FairSpec == Spec /\ Fairness

-----------------------------------------------------------------------------
(* Properties *)

\* Several workers may execute a run at once (a stalled job is redelivered
\* while its first executor lives), but those that can still write to the
\* run, through touchActiveRun or a final compare-and-swap, all execute the
\* same job: no approve, resume or retry job ever writes beside another job.
OneLiveJob ==
    \A w1, w2 \in Workers :
        /\ worker[w1].pc = "work" /\ Holds(w1)
        /\ worker[w2].pc = "work" /\ Holds(w2)
        => worker[w1].delivery.job = worker[w2].delivery.job

\* "only for a run the platform itself cancelled on expiry, never one a
\* person cancelled themselves": the error marker that the purge query reads
\* is never left on, or carried into, a run that a person cancelled.
PurgeOnlyExpired == purged => cancelledBy = "expiry"

\* The expiry sweeper and a person who approves, resumes and meets the next
\* gate cannot both win: a run is expired only in a pause that is itself over
\* the TTL, however old the sweeper's read is.
ExpireOnlyOverdue ==
    [][cancelledBy' = "expiry" /\ cancelledBy # "expiry"
       => status = "PAUSED" /\ pausedAge = "over"]_vars

\* A recorded reminder belongs to the pause it was recorded in: it never
\* survives into a run that went on, where it would suppress the reminder of
\* the next pause.
ReminderDiesWithPause == reminded => status \in {"PAUSED", "CANCELLED"}

\* The row obeys the abstract state machine whatever the actors interleave.
Machine == INSTANCE RunStateMachine WITH status <- status, controlVersion <- controlVersion
RefinesRunStateMachine == Machine!Spec

\* A PENDING run is never forgotten: its job is queued or about to be
\* claimed, or the request that moved it will still enqueue it or give it up.
NoStrandedRun ==
    status = "PENDING" =>
        \/ \E d \in waiting : d.job.version = controlVersion
        \/ \E w \in Workers : /\ worker[w].pc = "claim"
                              /\ worker[w].delivery.job.version = controlVersion
        \/ \E c \in Clients : /\ api[c].pc \in {"enqueue", "markFailed"}
                              /\ api[c].job.version = controlVersion

\* A run that was asked to execute comes to rest: it pauses or ends.
RunComesToRest ==
    status \in {"PENDING", "RUNNING"}
        ~> status \in {"PAUSED", "COMPLETED", "FAILED", "CANCELLED"}

\* What getRun shows as pendingApproval: the newest event names a gate.
PendingApproval == status = "PAUSED" /\ lastEvent = "approval"

\* "A PAUSED run is waiting on something specific to resume it.  Only an
\* approval.required event names what that is" (#loadPendingApproval): a run
\* that waits at a gate shows that gate.
ApprovalPauseShowsApproval ==
    status = "PAUSED" /\ pausedFor = "approval" => PendingApproval

\* "The run's prompt, attachments, outputs and LangGraph checkpoint stay in
\* place until the purge below runs" (production-execution-gate.md): after it
\* ran, they do not.
PurgeLeavesNoContent == purged => ~ threadSaved
=============================================================================
