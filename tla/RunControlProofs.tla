--------------------------- MODULE RunControlProofs ---------------------------
(***************************************************************************)
(* The safety properties of RunControl, for any number of requests,        *)
(* workers and sweepers.  None of them is inductive: each rests on what    *)
(* the actors remember from an earlier read, so IInv says of every job,    *)
(* request and sweeper candidate in flight how it relates to the row.      *)
(***************************************************************************)
EXTENDS RunControl, TLAPS

\* The jobs that are queued, executing or about to be queued.
Queued   == {d.job : d \in waiting}
Running  == {worker[w].delivery.job : w \in {x \in Workers : worker[x].pc # "idle"}}
Promised == {api[c].job : c \in {x \in Clients : api[x].pc \in {"enqueue", "markFailed"}}}
Jobs     == Queued \union Running \union Promised

\* No two jobs carry one version, and none is ahead of the row: the move that
\* makes a run PENDING takes a version no earlier job can have.
JobsOrdered ==
    /\ status = "NONE" => Jobs = {}
    /\ \A j \in Jobs : j.version \in Nat /\ j.version <= controlVersion
    /\ \A j, k \in Jobs : j.version = k.version => j = k

\* A request acts on a status from which its action is allowed.
RequestsValid ==
    \A c \in Clients : api[c].pc = "read" => api[c].status \in ValidFrom(api[c].action)

\* A candidate for expiry whose version still stands is in the pause that was
\* overdue when it was read; a candidate for purging was expired for good.
CandidatesValid ==
    \A s \in Sweepers :
        /\ sweep[s].pc = "expire" =>
             /\ sweep[s].version <= controlVersion
             /\ RowIs("PAUSED", sweep[s].version) => pausedAge = "over"
        /\ sweep[s].pc = "purge" => cancelledBy = "expiry"

ExpiryFinal ==
    /\ cancelledBy = "expiry" => status = "CANCELLED"
    /\ error = "expired" => cancelledBy = "expiry"

IInv ==
    /\ TypeOK
    /\ JobsOrdered
    /\ RequestsValid
    /\ CandidatesValid
    /\ ExpiryFinal
    /\ PurgeOnlyExpired
    /\ ReminderDiesWithPause

-----------------------------------------------------------------------------
(* Types *)

LEMMA InitType == Init => TypeOK
<1> SUFFICES ASSUME Init PROVE TypeOK
  OBVIOUS
<1>1. api \in [Clients -> Request]
  BY DEF Init, Request
<1>2. worker \in [Workers -> WorkerState]
  BY DEF Init, WorkerState
<1>3. sweep \in [Sweepers -> SweepState]
  BY DEF Init, SweepState
<1>4. QED
  BY <1>1, <1>2, <1>3 DEF Init, TypeOK, Statuses, Errors, Ages, Events

LEMMA ApiType ==
    ASSUME TypeOK, NEW c \in Clients, ApiNext(c)
    PROVE  TypeOK'
<1> USE DEF row, log, history
<1>1. CASE CreateRun(c)
  BY <1>1 DEF CreateRun, TypeOK, Statuses, Request, IdleRequest, Job, Commands
<1>2. CASE \E a \in Actions : ReadForAction(c, a)
  BY <1>2 DEF ReadForAction, TypeOK, Request, IdleRequest
<1>3. CASE TransitionRun(c)
  <2> DEFINE a == api[c].action
  <2>1. api[c] \in [pc : {"read"}, action : Actions, status : Statuses, version : Nat]
    BY <1>3 DEF TransitionRun, TypeOK, Request, IdleRequest
  <2>2. /\ NewStatus(a) \in Statuses
        /\ Enqueues(a) => a \in Commands
    BY <2>1 DEF NewStatus, Enqueues, Actions, Commands, Statuses
  <2>3. CASE RowIs(api[c].status, api[c].version)
    <3>1. api' \in [Clients -> Request]
      <4>1. CASE Enqueues(a)
        <5>1. [command |-> a, version |-> controlVersion + 1] \in Job
          BY <2>2, <4>1 DEF TypeOK, Job
        <5>2. api' = [api EXCEPT ![c] = [pc |-> "enqueue",
                        job |-> [command |-> a, version |-> controlVersion + 1]]]
          BY <1>3, <2>3, <4>1 DEF TransitionRun
        <5>3. [pc |-> "enqueue", job |-> [command |-> a, version |-> controlVersion + 1]]
                \in Request
          BY <5>1 DEF Request
        <5>4. QED
          BY <5>2, <5>3 DEF TypeOK
      <4>2. CASE ~ Enqueues(a)
        BY <1>3, <2>3, <4>2 DEF TransitionRun, TypeOK, Request
      <4>3. QED
        BY <4>1, <4>2
    <3>2. status' \in Statuses /\ controlVersion' \in Nat
      BY <1>3, <2>2, <2>3 DEF TransitionRun, TypeOK, MoveTo
    <3>3. pausedAge' \in Ages
      BY <1>3, <2>3 DEF TransitionRun, TypeOK, Ages
    <3>4. reminded' \in BOOLEAN /\ error' \in Errors /\ purged' \in BOOLEAN
      BY <1>3, <2>3 DEF TransitionRun, TypeOK, Errors
    <3>5. QED
      BY <1>3, <2>3, <3>1, <3>2, <3>3, <3>4 DEF TransitionRun, TypeOK
  <2>4. CASE ~ RowIs(api[c].status, api[c].version)
    BY <1>3, <2>4 DEF TransitionRun, TypeOK, Request
  <2>5. QED
    BY <2>3, <2>4
<1>4. CASE EnqueueOk(c)
  BY <1>4 DEF EnqueueOk, TypeOK, Request, IdleRequest, Delivery, NewDelivery
<1>5. CASE EnqueueError(c)
  BY <1>5 DEF EnqueueError, TypeOK, Request, IdleRequest, Delivery, NewDelivery
<1>6. CASE MarkRunFailed(c)
  BY <1>6 DEF MarkRunFailed, TypeOK, Request, IdleRequest, Statuses, Errors
<1>7. CASE CrashRequest(c)
  BY <1>7 DEF CrashRequest, TypeOK, Request, IdleRequest
<1>8. QED
  BY <1>1, <1>2, <1>3, <1>4, <1>5, <1>6, <1>7 DEF ApiNext

LEMMA WorkerType ==
    ASSUME TypeOK, NEW w \in Workers, WorkerNext(w)
    PROVE  TypeOK'
<1> USE DEF row, log, history, TypeOK, WorkerState, IdleWorker, Done
<1>1. CASE \E d \in waiting : Deliver(w, d)
  BY <1>1 DEF Deliver
<1>2. CASE ClaimRun(w)
  BY <1>2 DEF ClaimRun, MoveTo, Statuses, Events
<1>3. CASE TaskStep(w)
  BY <1>3 DEF TaskStep, Events
<1>4. CASE RequestApproval(w)
  BY <1>4 DEF RequestApproval, MoveTo, Statuses, Events, Ages
<1>5. CASE CompleteRun(w)
  BY <1>5 DEF CompleteRun, MoveTo, Statuses, Events
<1>6. CASE FailRun(w)
  BY <1>6 DEF FailRun, MoveTo, Statuses, Events, Errors
<1>7. CASE ThrowRetryable(w) \/ DatabaseError(w)
  BY <1>7 DEF ThrowRetryable, DatabaseError, ReturnToQueue, Redeliver, Delivery
<1>8. CASE \E survives \in BOOLEAN : Stall(w, survives)
  <2>1. PICK survives \in BOOLEAN : Stall(w, survives)
    BY <1>8
  <2>2. worker[w] \in [pc : {"claim", "work"}, delivery : Delivery, locked : BOOLEAN]
    BY <2>1 DEF Stall
  <2>3. waiting' \in SUBSET Delivery
    <3>1. [worker[w].delivery EXCEPT !.stalls = @ + 1] \in Delivery
      BY <2>2 DEF Delivery
    <3>2. QED
      BY <2>1, <3>1 DEF Stall, Redeliver
  <2>4. worker' \in [Workers -> WorkerState]
    <3>1. [worker[w] EXCEPT !.locked = FALSE] \in WorkerState
      BY <2>2
    <3>2. worker' = [worker EXCEPT ![w] = [worker[w] EXCEPT !.locked = FALSE]]
            \/ worker' = [worker EXCEPT ![w] = IdleWorker]
      BY <2>1 DEF Stall
    <3>3. QED
      BY <3>1, <3>2
  <2>5. QED
    BY <2>1, <2>3, <2>4 DEF Stall
<1>9. QED
  BY <1>1, <1>2, <1>3, <1>4, <1>5, <1>6, <1>7, <1>8 DEF WorkerNext

LEMMA SweepType ==
    ASSUME TypeOK, NEW s \in Sweepers, SweepNext(s)
    PROVE  TypeOK'
<1> USE DEF row, log, history, TypeOK, SweepState, EndSweep
<1>1. CASE \E kind \in {"expire", "remind", "purge"} : ReadCandidate(s, kind)
  BY <1>1 DEF ReadCandidate
<1>2. CASE ExpireRun(s)
  BY <1>2 DEF ExpireRun, MoveTo, Statuses, Errors
<1>3. CASE SendReminder(s) \/ PurgeRunData(s)
  BY <1>3, ZenonT(60) DEF SendReminder, PurgeRunData, Events
<1>4. QED
  BY <1>1, <1>2, <1>3 DEF SweepNext

LEMMA TickType == TypeOK /\ Tick => TypeOK'
BY DEF Tick, TypeOK, Ages, log, history

-----------------------------------------------------------------------------
(* Jobs: an action that brings in no job, or one job of a new version.     *)

LEMMA JobsKept ==
    ASSUME TypeOK, JobsOrdered, Jobs' \subseteq Jobs,
           controlVersion' \in {controlVersion, controlVersion + 1},
           status' = "NONE" => status = "NONE"
    PROVE  JobsOrdered'
BY DEF JobsOrdered, TypeOK

LEMMA JobAdded ==
    ASSUME TypeOK, JobsOrdered, NEW j,
           Jobs' \subseteq Jobs \union {j}, j.version \in Nat,
           status' # "NONE",
           j.version = controlVersion',
           \/ controlVersion' = controlVersion + 1
           \/ controlVersion' = controlVersion /\ Jobs = {}
    PROVE  JobsOrdered'
BY DEF JobsOrdered, TypeOK

LEMMA ApiJobs ==
    ASSUME IInv, NEW c \in Clients, ApiNext(c)
    PROVE  JobsOrdered'
<1> USE DEF IInv, row, log, history, Jobs, Queued, Running, Promised
<1>1. CASE CreateRun(c)
  <2> DEFINE j == [command |-> "start", version |-> controlVersion]
  <2>1. Jobs' \subseteq Jobs \union {j}
    BY <1>1 DEF CreateRun, TypeOK
  <2>2. Jobs = {}
    BY <1>1 DEF CreateRun, JobsOrdered
  <2>3. status' # "NONE" /\ controlVersion' = controlVersion /\ j.version = controlVersion
    BY <1>1 DEF CreateRun
  <2> HIDE DEF j, Jobs
  <2>4. QED
    BY <2>1, <2>2, <2>3, JobAdded DEF TypeOK
<1>2. CASE \E a \in Actions : ReadForAction(c, a)
  BY <1>2, JobsKept DEF ReadForAction, TypeOK, IdleRequest
<1>3. CASE TransitionRun(c)
  <2> DEFINE a == api[c].action
             j == [command |-> a, version |-> controlVersion + 1]
  <2>1. CASE RowIs(api[c].status, api[c].version) /\ Enqueues(a)
    <3>1. Jobs' \subseteq Jobs \union {j}
      BY <1>3, <2>1 DEF TransitionRun, TypeOK
    <3>2. /\ status' = "PENDING"
          /\ controlVersion' = controlVersion + 1
          /\ j.version = controlVersion + 1
      BY <1>3, <2>1 DEF TransitionRun, MoveTo, Enqueues
    <3> HIDE DEF j, Jobs
    <3>3. QED
      BY <3>1, <3>2, JobAdded DEF TypeOK
  <2>2. CASE RowIs(api[c].status, api[c].version) /\ ~ Enqueues(a)
    <3>1. Jobs' \subseteq Jobs
      BY <1>3, <2>2 DEF TransitionRun, TypeOK, IdleRequest
    <3>2. status' # "NONE" /\ controlVersion' = controlVersion + 1
      BY <1>3, <2>2 DEF TransitionRun, MoveTo, NewStatus
    <3>3. QED
      BY <3>1, <3>2, JobsKept
  <2>3. CASE ~ RowIs(api[c].status, api[c].version)
    <3>1. Jobs' \subseteq Jobs
      BY <1>3, <2>3 DEF TransitionRun, TypeOK, IdleRequest
    <3>2. status' = status /\ controlVersion' = controlVersion
      BY <1>3, <2>3 DEF TransitionRun
    <3>3. QED
      BY <3>1, <3>2, JobsKept
  <2>4. QED
    BY <2>1, <2>2, <2>3
<1>4. CASE EnqueueOk(c)
  <2>1. Jobs' \subseteq Jobs
    BY <1>4 DEF EnqueueOk, TypeOK, IdleRequest, NewDelivery
  <2>2. QED
    BY <1>4, <2>1, JobsKept DEF EnqueueOk
<1>5. CASE EnqueueError(c)
  <2>1. Jobs' \subseteq Jobs
    BY <1>5 DEF EnqueueError, TypeOK, NewDelivery
  <2>2. QED
    BY <1>5, <2>1, JobsKept DEF EnqueueError
<1>6. CASE MarkRunFailed(c)
  <2>1. Jobs' \subseteq Jobs
    BY <1>6 DEF MarkRunFailed, TypeOK, IdleRequest
  <2>2. QED
    BY <1>6, <2>1, JobsKept DEF MarkRunFailed
<1>7. CASE CrashRequest(c)
  <2>1. Jobs' \subseteq Jobs
    BY <1>7 DEF CrashRequest, TypeOK, IdleRequest
  <2>2. QED
    BY <1>7, <2>1, JobsKept DEF CrashRequest
<1>8. QED
  BY <1>1, <1>2, <1>3, <1>4, <1>5, <1>6, <1>7 DEF ApiNext

LEMMA WorkerJobs ==
    ASSUME IInv, NEW w \in Workers, WorkerNext(w)
    PROVE  JobsOrdered'
<1>1. Jobs' \subseteq Jobs
  <2> USE DEF IInv, TypeOK, row, log, history, Jobs, Queued, Running, Promised, IdleWorker, Done
  <2>1. CASE \E d \in waiting : Deliver(w, d)
    BY <2>1 DEF Deliver
  <2>2. CASE ClaimRun(w)
    <3>1. \A x \in Workers : worker'[x].pc # "idle" =>
             worker[x].pc # "idle" /\ worker'[x].delivery = worker[x].delivery
      BY <2>2 DEF ClaimRun, WorkerState
    <3>2. Queued' = Queued /\ Promised' = Promised
      BY <2>2 DEF ClaimRun
    <3>3. QED
      BY <3>1, <3>2
  <2>3. CASE TaskStep(w) \/ RequestApproval(w) \/ CompleteRun(w) \/ FailRun(w)
    BY <2>3 DEF TaskStep, RequestApproval, CompleteRun, FailRun
  <2>4. CASE ThrowRetryable(w) \/ DatabaseError(w)
    <3>1. worker[w].pc # "idle" /\ worker[w].delivery \in Delivery
      BY <2>4 DEF ThrowRetryable, DatabaseError, WorkerState
    <3>2. [worker[w].delivery EXCEPT !.made = @ + 1].job = worker[w].delivery.job
      BY <3>1 DEF Delivery
    <3>3. Queued' \subseteq Queued \union {worker[w].delivery.job}
      BY <2>4, <3>2 DEF ThrowRetryable, DatabaseError, ReturnToQueue, Redeliver
    <3>4. Running' \subseteq Running /\ Promised' = Promised
      BY <2>4 DEF ThrowRetryable, DatabaseError, ReturnToQueue
    <3>5. QED
      BY <3>1, <3>3, <3>4
  <2>5. CASE \E survives \in BOOLEAN : Stall(w, survives)
    <3>1. worker[w].pc # "idle" /\ worker[w].delivery \in Delivery
      BY <2>5 DEF Stall, WorkerState
    <3>2. [worker[w].delivery EXCEPT !.stalls = @ + 1].job = worker[w].delivery.job
      BY <3>1 DEF Delivery
    <3>3. Queued' \subseteq Queued \union {worker[w].delivery.job}
      BY <2>5, <3>2 DEF Stall, Redeliver
    <3>4. Running' \subseteq Running
      <4>1. \A x \in Workers : worker'[x].pc # "idle" =>
               worker[x].pc # "idle" /\ worker'[x].delivery = worker[x].delivery
        BY <2>5 DEF Stall, WorkerState
      <4>2. QED
        BY <4>1
    <3>5. Promised' = Promised
      BY <2>5 DEF Stall
    <3>6. QED
      BY <3>1, <3>3, <3>4, <3>5
  <2>6. QED
    BY <2>1, <2>2, <2>3, <2>4, <2>5 DEF WorkerNext
<1>2. /\ controlVersion' \in {controlVersion, controlVersion + 1}
      /\ status' = "NONE" => status = "NONE"
  BY DEF WorkerNext, Deliver, ClaimRun, TaskStep, RequestApproval, CompleteRun, FailRun,
         ThrowRetryable, DatabaseError, ReturnToQueue, Stall, MoveTo, row
<1>3. QED
  BY <1>1, <1>2, JobsKept DEF IInv

-----------------------------------------------------------------------------
(* The other parts, actor by actor.                                        *)

RowParts == RequestsValid /\ CandidatesValid /\ ExpiryFinal
                /\ PurgeOnlyExpired /\ ReminderDiesWithPause

\* A worker moves only PENDING and RUNNING rows, so an overdue pause and an
\* expired run are out of its reach.
LEMMA WorkerParts ==
    ASSUME IInv, NEW w \in Workers, WorkerNext(w)
    PROVE  RowParts'
<1> USE DEF IInv, row, log, history
<1>1. api' = api /\ sweep' = sweep /\ cancelledBy' = cancelledBy /\ purged' = purged
      /\ reminded' = reminded
  BY DEF WorkerNext, Deliver, ClaimRun, TaskStep, RequestApproval, CompleteRun, FailRun,
         ThrowRetryable, DatabaseError, ReturnToQueue, Stall
<1>2. \/ UNCHANGED <<status, controlVersion, pausedAge, error>>
      \/ /\ status \in {"PENDING", "RUNNING"}
         /\ controlVersion' = controlVersion + 1
         /\ status' # "NONE"
         /\ error' \in {error, "worker"}
  BY DEF WorkerNext, Deliver, ClaimRun, TaskStep, RequestApproval, CompleteRun, FailRun,
         ThrowRetryable, DatabaseError, ReturnToQueue, Stall, MoveTo, RowIs, Holds
<1>3. RequestsValid'
  BY <1>1 DEF RequestsValid, ValidFrom
<1>4. CandidatesValid'
  BY <1>1, <1>2 DEF CandidatesValid, RowIs, TypeOK, SweepState, IdleSweep
<1>5. ExpiryFinal' /\ PurgeOnlyExpired' /\ ReminderDiesWithPause'
  BY <1>1, <1>2 DEF ExpiryFinal, PurgeOnlyExpired, ReminderDiesWithPause
<1>6. QED
  BY <1>3, <1>4, <1>5 DEF RowParts

\* A request's move starts from a status its action allows: a run that a
\* person cancels or retries was not expired, and one that leaves a pause
\* forgets its reminder.
LEMMA ApiParts ==
    ASSUME IInv, NEW c \in Clients, ApiNext(c)
    PROVE  RowParts'
<1> USE DEF IInv, row, log, history
<1>1. sweep' = sweep /\ purged' = purged
  BY DEF ApiNext, CreateRun, ReadForAction, TransitionRun, EnqueueOk, EnqueueError,
         MarkRunFailed, CrashRequest
<1>2. RequestsValid'
  <2>1. CASE \E a \in Actions : ReadForAction(c, a)
    BY <2>1 DEF ReadForAction, RequestsValid, TypeOK
  <2>2. CASE CreateRun(c) \/ EnqueueOk(c) \/ EnqueueError(c) \/ MarkRunFailed(c) \/ CrashRequest(c)
    BY <2>2 DEF CreateRun, EnqueueOk, EnqueueError, MarkRunFailed, CrashRequest,
                RequestsValid, TypeOK, IdleRequest
  <2>3. CASE TransitionRun(c)
    <3> DEFINE v == IF RowIs(api[c].status, api[c].version) /\ Enqueues(api[c].action)
                    THEN [pc |-> "enqueue",
                          job |-> [command |-> api[c].action, version |-> controlVersion + 1]]
                    ELSE IdleRequest
    <3>0. api' = [api EXCEPT ![c] = v] /\ v.pc # "read"
      BY <2>3 DEF TransitionRun, IdleRequest
    <3>1. api'[c].pc # "read" /\ \A x \in Clients \ {c} : api'[x] = api[x]
      BY <3>0 DEF TypeOK
    <3>2. QED
      BY <3>1 DEF RequestsValid, ValidFrom
  <2>4. QED
    BY <2>1, <2>2, <2>3 DEF ApiNext
<1>3. CASE TransitionRun(c) /\ RowIs(api[c].status, api[c].version)
  <2>1. status \in ValidFrom(api[c].action)
    BY <1>3 DEF TransitionRun, RequestsValid, RowIs
  <2>2. controlVersion' = controlVersion + 1
    BY <1>3 DEF TransitionRun, MoveTo
  <2>3. status \notin {"CANCELLED", "NONE"}
    BY <2>1 DEF ValidFrom
  <2>4. CandidatesValid'
    BY <1>1, <1>3, <2>2, <2>3 DEF TransitionRun, CandidatesValid, ExpiryFinal, RowIs,
       TypeOK, SweepState, IdleSweep
  <2>5. ExpiryFinal' /\ PurgeOnlyExpired'
    BY <1>1, <1>3, <2>3 DEF TransitionRun, ExpiryFinal, PurgeOnlyExpired
  <2>6. ReminderDiesWithPause'
    <3>1. api[c].action \in Actions
      BY <1>3 DEF TransitionRun, TypeOK, Request, IdleRequest
    <3>2. CASE reminded
      <4>1. status = "PAUSED"
        BY <2>3, <3>2 DEF ReminderDiesWithPause
      <4>2. api[c].action \in {"cancel", "resume", "approve"}
        BY <2>1, <3>1, <4>1 DEF ValidFrom, Actions
      <4>3. QED
        BY <1>3, <4>2 DEF TransitionRun, ClearsReminder, ReminderDiesWithPause, NewStatus, MoveTo
    <3>3. CASE ~ reminded
      BY <1>3, <3>3 DEF TransitionRun, ClearsReminder, ReminderDiesWithPause, TypeOK
    <3>4. QED
      BY <3>2, <3>3
  <2>7. QED
    BY <1>2, <2>4, <2>5, <2>6 DEF RowParts
<1>4. CASE ~ (TransitionRun(c) /\ RowIs(api[c].status, api[c].version))
  <2>1. /\ UNCHANGED <<controlVersion, pausedAge, reminded, cancelledBy>>
        /\ \/ UNCHANGED <<status, error>>
           \/ status = "NONE" /\ status' = "PENDING" /\ error' = error
           \/ status = "PENDING" /\ status' = "FAILED" /\ error' = "enqueue"
    BY <1>4 DEF ApiNext, CreateRun, ReadForAction, TransitionRun, EnqueueOk, EnqueueError,
         MarkRunFailed, CrashRequest, RowIs
  <2>2. CandidatesValid'
    BY <1>1, <2>1 DEF CandidatesValid, RowIs
  <2>3. ExpiryFinal' /\ PurgeOnlyExpired' /\ ReminderDiesWithPause'
    BY <1>1, <2>1 DEF ExpiryFinal, PurgeOnlyExpired, ReminderDiesWithPause
  <2>4. QED
    BY <1>2, <2>2, <2>3 DEF RowParts
<1>5. QED
  BY <1>3, <1>4

LEMMA SweepParts ==
    ASSUME IInv, NEW s \in Sweepers, SweepNext(s)
    PROVE  RowParts'
<1> USE DEF IInv, row, log, history
<1>1. api' = api
  BY DEF SweepNext, ReadCandidate, ExpireRun, SendReminder, PurgeRunData
<1>2. RequestsValid'
  BY <1>1 DEF RequestsValid, ValidFrom
<1>3. CASE \E kind \in {"expire", "remind", "purge"} : ReadCandidate(s, kind)
  <2>1. CandidatesValid'
    BY <1>3 DEF ReadCandidate, IsCandidate, CandidatesValid, ExpiryFinal, RowIs, TypeOK
  <2>2. QED
    BY <1>2, <1>3, <2>1 DEF ReadCandidate, IsCandidate, RowParts, ExpiryFinal, PurgeOnlyExpired,
       ReminderDiesWithPause
<1>4. CASE ExpireRun(s)
  <2>1. CandidatesValid'
    BY <1>4 DEF ExpireRun, EndSweep, MoveTo, CandidatesValid, RowIs, TypeOK, SweepState,
       IdleSweep
  <2>2. ExpiryFinal' /\ PurgeOnlyExpired' /\ ReminderDiesWithPause'
    BY <1>4 DEF ExpireRun, MoveTo, RowIs, ExpiryFinal, PurgeOnlyExpired, ReminderDiesWithPause
  <2>3. QED
    BY <1>2, <2>1, <2>2 DEF RowParts
<1>5. CASE SendReminder(s) \/ PurgeRunData(s)
  <2>1. CandidatesValid'
    BY <1>5 DEF SendReminder, PurgeRunData, EndSweep, CandidatesValid, RowIs, TypeOK, IdleSweep
  <2>2. ExpiryFinal' /\ PurgeOnlyExpired' /\ ReminderDiesWithPause'
    BY <1>5 DEF SendReminder, PurgeRunData, CandidatesValid, ExpiryFinal, PurgeOnlyExpired,
       ReminderDiesWithPause
  <2>3. QED
    BY <1>2, <2>1, <2>2 DEF RowParts
<1>6. QED
  BY <1>3, <1>4, <1>5 DEF SweepNext

LEMMA TickParts == IInv /\ Tick => RowParts' /\ JobsOrdered'
BY DEF IInv, Tick, RowParts, RequestsValid, CandidatesValid, ExpiryFinal, PurgeOnlyExpired,
       ReminderDiesWithPause, JobsOrdered, Jobs, Queued, Running, Promised, RowIs, log,
       history, ValidFrom

LEMMA SweepJobs ==
    ASSUME IInv, NEW s \in Sweepers, SweepNext(s)
    PROVE  JobsOrdered'
<1>1. Jobs' = Jobs
  BY DEF SweepNext, ReadCandidate, ExpireRun, SendReminder, PurgeRunData,
         Jobs, Queued, Running, Promised
<1>2. /\ controlVersion' \in {controlVersion, controlVersion + 1}
      /\ status' = "NONE" => status = "NONE"
  BY DEF SweepNext, ReadCandidate, ExpireRun, SendReminder, PurgeRunData, MoveTo, row
<1>3. QED
  BY <1>1, <1>2, JobsKept DEF IInv

-----------------------------------------------------------------------------
(* The invariant *)

LEMMA InitIInv == Init => IInv
<1> SUFFICES ASSUME Init PROVE IInv
  OBVIOUS
<1>1. Jobs = {}
  BY DEF Init, Jobs, Queued, Running, Promised, IdleRequest, IdleWorker
<1>2. QED
  BY <1>1, InitType DEF Init, IInv, JobsOrdered, RequestsValid, CandidatesValid, ExpiryFinal,
     PurgeOnlyExpired, ReminderDiesWithPause, IdleRequest, IdleSweep

LEMMA StepIInv == IInv /\ [Next]_vars => IInv'
<1> SUFFICES ASSUME IInv, [Next]_vars PROVE IInv'
  OBVIOUS
<1>1. ASSUME NEW c \in Clients, ApiNext(c) PROVE IInv'
  BY <1>1, ApiType, ApiJobs, ApiParts DEF IInv, RowParts
<1>2. ASSUME NEW w \in Workers, WorkerNext(w) PROVE IInv'
  BY <1>2, WorkerType, WorkerJobs, WorkerParts DEF IInv, RowParts
<1>3. ASSUME NEW s \in Sweepers, SweepNext(s) PROVE IInv'
  BY <1>3, SweepType, SweepJobs, SweepParts DEF IInv, RowParts
<1>4. CASE Tick
  BY <1>4, TickType, TickParts DEF IInv, RowParts
<1>5. CASE UNCHANGED vars
  <2> USE <1>5 DEF vars, row, log, history, IInv
  <2>1. TypeOK'
    BY DEF TypeOK
  <2>2. Jobs' = Jobs
    BY DEF Jobs, Queued, Running, Promised
  <2>3. JobsOrdered'
    BY <2>2 DEF JobsOrdered
  <2>4. RequestsValid' /\ CandidatesValid'
    BY DEF RequestsValid, ValidFrom, CandidatesValid, RowIs
  <2>5. QED
    BY <2>1, <2>3, <2>4 DEF ExpiryFinal, PurgeOnlyExpired, ReminderDiesWithPause
<1>6. QED
  BY <1>1, <1>2, <1>3, <1>4, <1>5 DEF Next

LEMMA Invariance == Spec => []IInv
BY InitIInv, StepIInv, PTL DEF Spec

\* Every variable keeps its type: the rows, the queue and what the actors
\* remember stay within what the code can write there.
THEOREM TypeCorrect == Spec => []TypeOK
<1>1. IInv => TypeOK
  BY DEF IInv
<1>2. QED
  BY <1>1, Invariance, PTL

\* Two executors that can both still write to a run execute the same job,
\* however many requests, stalls and redeliveries came before.
THEOREM OneLiveJobHolds == Spec => []OneLiveJob
<1>1. IInv => OneLiveJob
  <2> SUFFICES ASSUME IInv, NEW w1 \in Workers, NEW w2 \in Workers,
                      worker[w1].pc = "work", Holds(w1),
                      worker[w2].pc = "work", Holds(w2)
               PROVE  worker[w1].delivery.job = worker[w2].delivery.job
    BY DEF OneLiveJob
  <2> DEFINE j1 == worker[w1].delivery.job
             j2 == worker[w2].delivery.job
  <2>1. j1 \in Jobs /\ j2 \in Jobs
    BY DEF Jobs, Running
  <2>2. j1.version \in Nat /\ j2.version \in Nat
    BY <2>1 DEF IInv, JobsOrdered
  <2>3. j1.version + 1 = j2.version + 1
    BY DEF Holds, RowIs, Authority
  <2>4. j1.version = j2.version
    BY <2>2, <2>3
  <2>5. QED
    BY <2>1, <2>4 DEF IInv, JobsOrdered
<1>2. QED
  BY <1>1, Invariance, PTL

\* Nothing but an expired run is ever redacted.
THEOREM PurgeOnlyExpiredHolds == Spec => []PurgeOnlyExpired
<1>1. IInv => PurgeOnlyExpired
  BY DEF IInv
<1>2. QED
  BY <1>1, Invariance, PTL

\* No run goes on with the reminder of an earlier pause.
THEOREM ReminderDiesWithPauseHolds == Spec => []ReminderDiesWithPause
<1>1. IInv => ReminderDiesWithPause
  BY DEF IInv
<1>2. QED
  BY <1>1, Invariance, PTL

\* The expiry sweeper cancels only in a pause that is over the TTL.
THEOREM ExpireOnlyOverdueHolds == Spec => ExpireOnlyOverdue
<1> DEFINE Expiring == cancelledBy' = "expiry" /\ cancelledBy # "expiry"
                       => status = "PAUSED" /\ pausedAge = "over"
<1>1. IInv /\ [Next]_vars => [Expiring]_vars
  <2> SUFFICES ASSUME IInv, Next, cancelledBy' = "expiry", cancelledBy # "expiry"
               PROVE  status = "PAUSED" /\ pausedAge = "over"
    OBVIOUS
  <2>1. PICK s \in Sweepers : ExpireRun(s) /\ RowIs("PAUSED", sweep[s].version)
    BY DEF Next, ApiNext, CreateRun, ReadForAction, TransitionRun, EnqueueOk, EnqueueError,
       MarkRunFailed, CrashRequest, WorkerNext, Deliver, ClaimRun, TaskStep,
       RequestApproval, CompleteRun, FailRun, ThrowRetryable, DatabaseError, ReturnToQueue,
       Stall, SweepNext, ReadCandidate, ExpireRun, SendReminder, PurgeRunData, Tick, history
  <2>2. QED
    BY <2>1 DEF ExpireRun, IInv, CandidatesValid, RowIs
<1>2. QED
  BY <1>1, Invariance, PTL DEF Spec, ExpireOnlyOverdue

\* A step of anybody is a step of the abstract machine, or leaves the row alone.
LEMMA StepRefines ==
    ASSUME IInv, [Next]_vars
    PROVE  [Machine!Next]_(Machine!vars)
<1> USE DEF row, Machine!Next, Machine!vars, Machine!Create, Machine!Move,
            Machine!GiveUpEnqueue, Machine!Edges
<1>1. ASSUME NEW c \in Clients, ApiNext(c) PROVE [Machine!Next]_(Machine!vars)
  <2>1. CASE TransitionRun(c)
    <3>1. api[c].action \in Actions
      BY <2>1 DEF TransitionRun, IInv, TypeOK, Request, IdleRequest
    <3>2. api[c].status \in ValidFrom(api[c].action)
      BY <2>1 DEF TransitionRun, IInv, RequestsValid
    <3>3. QED
      BY <2>1, <3>1, <3>2 DEF TransitionRun, RowIs, MoveTo, NewStatus, ValidFrom, Actions
  <2>2. CASE ~ TransitionRun(c)
    BY <1>1, <2>2 DEF ApiNext, CreateRun, ReadForAction, EnqueueOk, EnqueueError,
       MarkRunFailed, CrashRequest, RowIs
  <2>3. QED
    BY <2>1, <2>2
<1>2. ASSUME NEW w \in Workers, WorkerNext(w) PROVE [Machine!Next]_(Machine!vars)
  BY <1>2 DEF WorkerNext, Deliver, ClaimRun, TaskStep, RequestApproval, CompleteRun,
     FailRun, ThrowRetryable, DatabaseError, ReturnToQueue, Stall, MoveTo, RowIs, Holds
<1>3. ASSUME NEW s \in Sweepers, SweepNext(s) PROVE [Machine!Next]_(Machine!vars)
  BY <1>3 DEF SweepNext, ReadCandidate, ExpireRun, SendReminder, PurgeRunData, MoveTo, RowIs
<1>4. CASE Tick \/ UNCHANGED vars
  BY <1>4 DEF Tick, vars
<1>5. QED
  BY <1>1, <1>2, <1>3, <1>4 DEF Next

\* Whatever the actors interleave, the row takes only the abstract machine's
\* steps: terminal statuses stay, and every move but a given-up enqueue takes
\* a version.
THEOREM RefinementHolds == Spec => RefinesRunStateMachine
<1>1. Init => Machine!Init
  BY DEF Init, Machine!Init
<1>2. QED
  BY <1>1, StepRefines, Invariance, PTL DEF Spec, RefinesRunStateMachine, Machine!Spec

-----------------------------------------------------------------------------
(* A PENDING run is in somebody's hands.  This holds as long as nobody     *)
(* loses what is in his: no Control API process dies between the insert    *)
(* and the enqueue, the claim reaches the database, and no delivery stalls *)
(* more often than BullMQ forgives.  Each of the three strands a run.      *)

\* Whoever holds the job of version v and has not claimed the run yet.
InHand(v) ==
    \/ \E d \in waiting : d.job.version = v
    \/ \E w \in Workers : worker[w].pc = "claim" /\ worker[w].delivery.job.version = v
    \/ \E c \in Clients : api[c].pc \in {"enqueue", "markFailed"} /\ api[c].job.version = v

LEMMA ApiKeepsInHand ==
    ASSUME IInv, NoStrandedRun, ~ ApiMayCrash, NEW c \in Clients, ApiNext(c)
    PROVE  NoStrandedRun'
<1> USE DEF row
<1>0. TypeOK /\ api \in [Clients -> Request] /\ (status = "PENDING" => InHand(controlVersion))
  BY DEF IInv, TypeOK, NoStrandedRun, InHand
<1>1. CASE CreateRun(c)
  <2>1. api'[c].pc = "enqueue" /\ api'[c].job.version = controlVersion /\ controlVersion' = controlVersion
    BY <1>0, <1>1 DEF CreateRun
  <2>2. QED
    BY <2>1 DEF NoStrandedRun
<1>2. ASSUME NEW a \in Actions, ReadForAction(c, a)
      PROVE  NoStrandedRun'
  <2>1. /\ UNCHANGED <<status, controlVersion, waiting, worker>>
        /\ \A x \in Clients : api[x].pc \in {"enqueue", "markFailed"} => api'[x] = api[x]
    BY <1>0, <1>2 DEF ReadForAction, IdleRequest
  <2>2. QED
    BY <1>0, <2>1 DEF NoStrandedRun, InHand
<1>3. CASE TransitionRun(c)
  <2>1. CASE RowIs(api[c].status, api[c].version) /\ Enqueues(api[c].action)
    <3>1. api' = [api EXCEPT ![c] = [pc |-> "enqueue",
                    job |-> [command |-> api[c].action, version |-> controlVersion + 1]]]
      BY <1>3, <2>1 DEF TransitionRun
    <3>2. api'[c].pc = "enqueue" /\ api'[c].job.version = controlVersion + 1
      BY <1>0, <3>1
    <3>3. controlVersion' = controlVersion + 1
      BY <1>3, <2>1 DEF TransitionRun, MoveTo
    <3>4. QED
      BY <3>2, <3>3 DEF NoStrandedRun
  <2>2. CASE RowIs(api[c].status, api[c].version) /\ ~ Enqueues(api[c].action)
    <3>1. status' # "PENDING"
      BY <1>3, <2>2 DEF TransitionRun, MoveTo, Enqueues
    <3>2. QED
      BY <3>1 DEF NoStrandedRun
  <2>3. CASE ~ RowIs(api[c].status, api[c].version)
    <3>1. /\ UNCHANGED <<status, controlVersion, waiting, worker>>
          /\ \A x \in Clients : api[x].pc \in {"enqueue", "markFailed"} => api'[x] = api[x]
      BY <1>0, <1>3, <2>3 DEF TransitionRun, IdleRequest
    <3>2. QED
      BY <1>0, <3>1 DEF NoStrandedRun, InHand
  <2>4. QED
    BY <2>1, <2>2, <2>3
<1>4. CASE EnqueueOk(c)
  <2>1. /\ waiting' = waiting \union {NewDelivery(api[c].job)}
        /\ NewDelivery(api[c].job).job = api[c].job
        /\ \A x \in Clients \ {c} : api'[x] = api[x]
        /\ UNCHANGED <<status, controlVersion, worker>>
    BY <1>0, <1>4 DEF EnqueueOk, NewDelivery
  <2>2. QED
    BY <1>0, <2>1 DEF NoStrandedRun, InHand
<1>5. CASE EnqueueError(c)
  <2>1. /\ waiting \subseteq waiting'
        /\ api'[c].pc = "markFailed" /\ api'[c].job = api[c].job
        /\ \A x \in Clients \ {c} : api'[x] = api[x]
        /\ UNCHANGED <<status, controlVersion, worker>>
    BY <1>0, <1>5 DEF EnqueueError
  <2>2. QED
    BY <1>0, <2>1 DEF NoStrandedRun, InHand
<1>6. CASE MarkRunFailed(c)
  <2>1. CASE RowIs("PENDING", api[c].job.version)
    BY <1>6, <2>1 DEF MarkRunFailed, NoStrandedRun
  <2>2. CASE ~ RowIs("PENDING", api[c].job.version)
    <3>1. /\ UNCHANGED <<status, controlVersion, waiting, worker>>
          /\ \A x \in Clients \ {c} : api'[x] = api[x]
      BY <1>0, <1>6, <2>2 DEF MarkRunFailed
    <3>2. QED
      BY <1>0, <2>2, <3>1 DEF NoStrandedRun, InHand, RowIs
  <2>3. QED
    BY <2>1, <2>2
<1>7. QED
  BY <1>1, <1>2, <1>3, <1>4, <1>5, <1>6 DEF ApiNext, CrashRequest

LEMMA WorkerKeepsInHand ==
    ASSUME IInv, NoStrandedRun, ~ DatabaseMayFail, StallBound <= MaxStalls,
           NEW w \in Workers, WorkerNext(w)
    PROVE  NoStrandedRun'
<1> USE DEF row
<1>0. TypeOK /\ worker \in [Workers -> WorkerState] /\ (status = "PENDING" => InHand(controlVersion))
  BY DEF IInv, TypeOK, NoStrandedRun, InHand
<1>1. ASSUME NEW d \in waiting, Deliver(w, d)
      PROVE  NoStrandedRun'
  <2>1. /\ waiting' = waiting \ {d} /\ worker[w] = IdleWorker
        /\ worker'[w].pc = "claim" /\ worker'[w].delivery = d
        /\ \A x \in Workers \ {w} : worker'[x] = worker[x]
        /\ UNCHANGED <<status, controlVersion, api>>
    BY <1>0, <1>1 DEF Deliver
  <2>2. QED
    BY <1>0, <2>1 DEF NoStrandedRun, InHand, IdleWorker
<1>2. CASE ClaimRun(w)
  <2>1. CASE ~ Holds(w) /\ RowIs("PENDING", worker[w].delivery.job.version)
    BY <1>2, <2>1 DEF ClaimRun, MoveTo, NoStrandedRun
  <2>2. CASE Holds(w) \/ ~ RowIs("PENDING", worker[w].delivery.job.version)
    <3>1. /\ UNCHANGED <<status, controlVersion, waiting, api>>
          /\ \A x \in Workers \ {w} : worker'[x] = worker[x]
      BY <1>0, <1>2, <2>2 DEF ClaimRun, Done
    <3>2. status = "PENDING" => worker[w].delivery.job.version # controlVersion
      BY <2>2 DEF Holds, RowIs
    <3>3. QED
      BY <1>0, <3>1, <3>2 DEF NoStrandedRun, InHand
  <2>3. QED
    BY <2>1, <2>2
<1>3. CASE TaskStep(w) \/ RequestApproval(w) \/ CompleteRun(w) \/ FailRun(w) \/ ThrowRetryable(w)
  <2>1. /\ worker[w].pc = "work" /\ waiting \subseteq waiting' /\ api' = api
        /\ \A x \in Workers \ {w} : worker'[x] = worker[x]
    BY <1>0, <1>3 DEF TaskStep, RequestApproval, CompleteRun, FailRun, ThrowRetryable,
       ReturnToQueue, Redeliver, Done
  <2>2. status' # "PENDING" \/ UNCHANGED <<status, controlVersion>>
    BY <1>3 DEF TaskStep, RequestApproval, CompleteRun, FailRun, ThrowRetryable,
       ReturnToQueue, MoveTo
  <2>3. QED
    BY <1>0, <2>1, <2>2 DEF NoStrandedRun, InHand
<1>4. ASSUME NEW survives \in BOOLEAN, Stall(w, survives)
      PROVE  NoStrandedRun'
  <2>1. worker[w] \in [pc : {"claim", "work"}, delivery : Delivery, locked : BOOLEAN]
    BY <1>0, <1>4 DEF Stall, WorkerState, IdleWorker
  <2> DEFINE d == worker[w].delivery
             e == [d EXCEPT !.stalls = @ + 1]
  <2>2. d.stalls < MaxStalls
    BY <1>4, <2>1, RunControlAssumption DEF Stall, Delivery
  <2>3. e.job = d.job
    BY <2>1 DEF Delivery
  <2>4. waiting' = waiting \union {e} /\ UNCHANGED <<status, controlVersion, api>>
    BY <1>4, <2>2 DEF Stall, Redeliver
  <2>5. \A x \in Workers \ {w} : worker'[x] = worker[x]
    BY <1>0, <1>4 DEF Stall, Done
  <2> HIDE DEF e
  <2>6. QED
    BY <1>0, <2>3, <2>4, <2>5 DEF NoStrandedRun, InHand
<1>5. QED
  BY <1>1, <1>2, <1>3, <1>4 DEF WorkerNext, DatabaseError

LEMMA SweepKeepsInHand ==
    ASSUME NoStrandedRun, NEW s \in Sweepers, SweepNext(s)
    PROVE  NoStrandedRun'
<1>1. UNCHANGED <<waiting, worker, api>>
  BY DEF SweepNext, ReadCandidate, ExpireRun, SendReminder, PurgeRunData
<1>2. status' # "PENDING" \/ UNCHANGED <<status, controlVersion>>
  BY DEF SweepNext, ReadCandidate, ExpireRun, SendReminder, PurgeRunData, MoveTo, row
<1>3. QED
  BY <1>1, <1>2 DEF NoStrandedRun

\* A run that waits for a worker is never forgotten, whatever requests,
\* stalls and redeliveries interleave and wherever an enqueue fails.
THEOREM NoStrandedRunHolds ==
    ASSUME ~ ApiMayCrash, ~ DatabaseMayFail, StallBound <= MaxStalls
    PROVE  Spec => []NoStrandedRun
<1>1. Init => NoStrandedRun
  BY DEF Init, NoStrandedRun
<1>2. IInv /\ NoStrandedRun /\ [Next]_vars => NoStrandedRun'
  <2> SUFFICES ASSUME IInv, NoStrandedRun, [Next]_vars
               PROVE  NoStrandedRun'
    OBVIOUS
  <2>1. CASE Tick \/ UNCHANGED vars
    BY <2>1 DEF Tick, vars, row, NoStrandedRun
  <2>2. QED
    BY <2>1, ApiKeepsInHand, WorkerKeepsInHand, SweepKeepsInHand DEF Next
<1>3. QED
  BY <1>1, <1>2, Invariance, PTL DEF Spec

=================================================================================
