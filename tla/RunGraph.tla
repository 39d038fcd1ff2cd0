------------------------------- MODULE RunGraph -------------------------------
(***************************************************************************)
(* What a worker does with a run between claim and end: the LangGraph      *)
(* nodes of buildRunGraph over the durable agent_tasks rows, the LangGraph *)
(* checkpoint of the run's thread and the revisions of one project file    *)
(* that both the agents and a person write.  The run row is RunControl's;  *)
(* here an API request and its enqueue are one step, and so are a delivery *)
(* and its claim.                                                          *)
(*                                                                         *)
(* Every task call is one transaction fenced by touchActiveRun.  Between   *)
(* two calls the person, another worker or a crash may come.               *)
(*                                                                         *)
(* An operator named X_Y is a faulty variant of the X after it, kept to    *)
(* show which property notices the fault.  No action uses it.              *)
(***************************************************************************)
EXTENDS Naturals, Sequences, FiniteSets, Functions

CONSTANTS
    Nodes,        \* the graph's nodes in order (any subsequence of the real one)
    Required,     \* agents the project's type requires
    HasReferences,\* does the run carry attachments the user uploaded?
    Workers,      \* worker slots
    MaxAttempts,  \* `attempts` of the run queue
    MaxStalls,    \* stalls BullMQ forgives one job
    MaxRepairs,   \* maxRepairAttempts
    StallBound,   \* bound: stalls one delivery can meet in the model
    VersionBound, \* bound: no user action at or above this control version
    FileBound,    \* bound: no user revision at or above this file version
    StallSurvives,\* may a worker live on after its job stalled, or is it dead?
    PlanMayChange \* may the workspace's plan change while the run exists?

Gates   == {"approval", "content-approval"}
Premium == {"Sophia", "Sarah", "Adrian"}
Writers == {"Alex", "David"}
Agents  == Range(Nodes) \ Gates

Before(m, n) == \E i, j \in 1 .. Len(Nodes) : i < j /\ Nodes[i] = m /\ Nodes[j] = n

ASSUME RunGraphAssumption ==
    /\ Nodes \in Seq(Gates \union {"Sophia", "Mike", "Emma", "Bob", "Alex",
                                   "David", "Sarah", "Adrian"})
    /\ \A i, j \in 1 .. Len(Nodes) : Nodes[i] = Nodes[j] => i = j
    /\ Before("Mike", "approval") /\ Before("approval", "Alex")
    /\ "Adrian" \in Agents => Before("Adrian", "content-approval")
    /\ Required \subseteq Agents
    /\ {MaxAttempts, VersionBound} \subseteq Nat \ {0}
    /\ {MaxStalls, MaxRepairs, StallBound, FileBound} \subseteq Nat
    /\ {HasReferences, StallSurvives, PlanMayChange} \subseteq BOOLEAN

VARIABLES
    status,          \* agent_runs.status
    controlVersion,  \* agent_runs.control_version
    task,            \* agent_tasks: status and output per agent
    thread,          \* outputs in the newest LangGraph checkpoint of the run
    entitled,        \* the workspace's plan pays for premium agents
    files,           \* revisions of one path: who wrote it, and over which version
    editor,          \* version a person's open editor is based on
    queue,           \* deliveries no worker holds
    worker,          \* executions
    granted          \* history: scopes a person has approved

row  == <<status, controlVersion, granted>>
data == <<task, thread, files, editor>>
vars == <<row, data, entitled, queue, worker>>

-----------------------------------------------------------------------------
(* Values.  An agent's output is told apart only where a gate reads it:    *)
(* Mike's requiresApproval, and whether Adrian produced copy variants.     *)

Outputs  == {"plain", "gated"}
NoOutput == "none"
CanProduce(n) == IF n \in {"Mike", "Adrian"} THEN Outputs ELSE {"plain"}

TaskStatuses == {"NONE", "PENDING", "RUNNING", "COMPLETED", "FAILED", "SKIPPED"}
OutputMap    == [Agents -> Outputs \union {NoOutput}]

Job == [command : {"start", "resume", "retry", "plan", "content"}, version : Nat]
Delivery == [job : Job, made : Nat, stalls : Nat]

Idle == [pc |-> "idle"]

Execution ==
    [pc       : {"invoke", "enter", "start", "list", "work", "fail", "unheard", "raise",
                 "save", "validate", "repair"},
     delivery : Delivery,
     locked   : BOOLEAN,
     at       : 1 .. (Len(Nodes) + 1),  \* next node of the graph
     outputs  : OutputMap,              \* state.outputs
     used     : BOOLEAN,                \* state.approvalBypassConsumed
     seen     : Nat,                    \* file version the agent was shown
     retry    : BOOLEAN,                \* isRetryableError of what was thrown
     repairs  : Nat]

NoOutputs == [n \in Agents |-> NoOutput]

NewDelivery(command, version) ==
    [job |-> [command |-> command, version |-> version], made |-> 0, stalls |-> 0]

NewExecution(d) ==
    [pc |-> "invoke", delivery |-> d, locked |-> TRUE, at |-> 1, outputs |-> NoOutputs,
     used |-> FALSE, seen |-> 0, retry |-> FALSE, repairs |-> 0]

Revision == [by : {"person", "agent"}, base : Nat]

TypeOK ==
    /\ status \in {"PENDING", "RUNNING", "PAUSED", "COMPLETED", "FAILED", "CANCELLED"}
    /\ controlVersion \in Nat
    /\ task \in [Agents -> [status : TaskStatuses, output : Outputs \union {NoOutput}]]
    /\ thread \in OutputMap
    /\ entitled \in BOOLEAN
    /\ files \in Seq(Revision)
    /\ editor \in Nat
    /\ queue \in SUBSET Delivery
    /\ worker \in [Workers -> Execution \union {Idle}]
    /\ granted \in SUBSET {"plan", "content"}

\* A run as createRun leaves it: inserted and enqueued.
Init ==
    /\ status = "PENDING"
    /\ controlVersion = 0
    /\ task = [n \in Agents |-> [status |-> "NONE", output |-> NoOutput]]
    /\ thread = NoOutputs
    /\ entitled \in BOOLEAN
    /\ files = <<>>
    /\ editor = 0
    /\ queue = {NewDelivery("start", 0)}
    /\ worker = [w \in Workers |-> Idle]
    /\ granted = {}

-----------------------------------------------------------------------------
(* The person *)

MoveTo(s) ==
    /\ status' = s
    /\ controlVersion' = controlVersion + 1

\* Pause and cancel stop a run at once; the worker finds out at its next call.
Stop(s) ==
    /\ controlVersion < VersionBound
    /\ \/ s = "PAUSED"    /\ status \in {"PENDING", "RUNNING"}
       \/ s = "CANCELLED" /\ status \in {"PENDING", "RUNNING", "PAUSED"}
    /\ MoveTo(s)
    /\ UNCHANGED <<granted, data, entitled, queue, worker>>

\* Resume, retry, or approve one scope: a new job under the next version.
Continue(command) ==
    /\ controlVersion < VersionBound
    /\ IF command = "retry" THEN status = "FAILED" ELSE status = "PAUSED"
    /\ MoveTo("PENDING")
    /\ queue' = queue \union {NewDelivery(command, controlVersion + 1)}
    /\ granted' = granted \union ({command} \intersect {"plan", "content"})
    /\ UNCHANGED <<data, entitled, worker>>

ChangePlan ==
    /\ PlanMayChange
    /\ entitled' = ~ entitled
    /\ UNCHANGED <<row, data, queue, worker>>

OpenFile ==
    /\ Len(files) < FileBound
    /\ editor # Len(files)
    /\ editor' = Len(files)
    /\ UNCHANGED <<row, task, thread, files, entitled, queue, worker>>

\* The compare-and-swap of putProjectFile, completeTask and applyGeneratedFiles.
VersionIs_AtLeast(v) == Len(files) >= v
VersionIs(v) == Len(files) = v

AddRevision(who, base) == files' = Append(files, [by |-> who, base |-> base])

\* putProjectFile: a save over a newer version is refused.
PutProjectFile ==
    /\ Len(files) < FileBound
    /\ VersionIs(editor)
    /\ AddRevision("person", editor)
    /\ editor' = Len(files) + 1
    /\ UNCHANGED <<row, task, thread, entitled, queue, worker>>

-----------------------------------------------------------------------------
(* Execution: how one begins, moves on and ends *)

Authority(w) == worker[w].delivery.job.version + 1

\* touchActiveRun
Holds_LaterVersion(w) == controlVersion >= Authority(w)
Holds(w) == status = "RUNNING" /\ controlVersion = Authority(w)

Node(w) == Nodes[worker[w].at]
IsAt(w, nodes) ==
    /\ worker[w].pc = "enter"
    /\ worker[w].at <= Len(Nodes)
    /\ Node(w) \in nodes

Goto(w, pc) == worker' = [worker EXCEPT ![w].pc = pc]
End_KeepJob(w) == Goto(w, "idle")
End(w) == worker' = [worker EXCEPT ![w] = Idle]

\* An error on its way: to runAgent's catch ("fail", or "unheard" where the
\* result is stored all the same) or to process()'s ("raise").
Throw(w, pc, retryable) ==
    worker' = [worker EXCEPT ![w].pc = pc, ![w].retry = retryable, ![w].seen = 0]

\* The node returned: on to the next one, or out of the graph.
NextNode(x) ==
    [x EXCEPT !.at = @ + 1, !.pc = IF x.at = Len(Nodes) THEN "validate" ELSE "enter"]

\* The node's result joins state.outputs; the checkpoint is written after it.
Return_Plain(w, output) ==
    worker' = [worker EXCEPT ![w].outputs[Node(w)] = "plain", ![w].pc = "save",
                             ![w].seen = 0]
Return(w, output) ==
    worker' = [worker EXCEPT ![w].outputs[Node(w)] = output, ![w].pc = "save",
                             ![w].seen = 0]

Redeliver(d) == queue' = queue \union {d}

\* claimRun: a redelivery of the job that moved the run to RUNNING is ready
\* again, a PENDING run of this job's version is moved, all else is stale.
ClaimRun(w, d) ==
    /\ worker[w] = Idle
    /\ d \in queue
    /\ queue' = queue \ {d}
    /\ IF status = "RUNNING" /\ controlVersion = d.job.version + 1
       THEN /\ worker' = [worker EXCEPT ![w] = NewExecution(d)]
            /\ UNCHANGED row
       ELSE IF status = "PENDING" /\ controlVersion = d.job.version
       THEN /\ worker' = [worker EXCEPT ![w] = NewExecution(d)]
            /\ MoveTo("RUNNING")
            /\ UNCHANGED granted
       ELSE UNCHANGED <<row, worker>>
    /\ UNCHANGED <<data, entitled>>

\* graph.invoke on a known thread starts over from the first node, with the
\* checkpoint's outputs below the input and the approval not consumed.
Invoke(w) ==
    /\ worker[w].pc = "invoke"
    /\ worker' = [worker EXCEPT ![w].outputs = thread, ![w].used = FALSE, ![w].pc = "enter"]
    /\ UNCHANGED <<row, data, entitled, queue>>

SaveCheckpoint(w) ==
    /\ worker[w].pc = "save"
    /\ thread' = worker[w].outputs
    /\ worker' = [worker EXCEPT ![w] = NextNode(@)]
    /\ UNCHANGED <<row, task, files, editor, entitled, queue>>

\* The catch of process(): hand the job back, or fail the run.
Raise(w) ==
    /\ worker[w].pc = "raise"
    /\ LET d == worker[w].delivery IN
       IF worker[w].retry /\ d.made + 1 < MaxAttempts
       THEN /\ IF worker[w].locked
               THEN Redeliver([d EXCEPT !.made = @ + 1])
               ELSE UNCHANGED queue
            /\ UNCHANGED row
       ELSE /\ IF Holds(w) THEN MoveTo("FAILED") /\ UNCHANGED granted ELSE UNCHANGED row
            /\ UNCHANGED queue
    /\ End(w)
    /\ UNCHANGED <<data, entitled>>

\* A database or checkpoint call outside runAgent's try rejects.
DatabaseError(w) ==
    /\ worker[w].pc \in {"invoke", "enter", "start", "fail", "unheard", "save"}
    /\ Throw(w, "raise", TRUE)
    /\ UNCHANGED <<row, data, entitled, queue>>

\* The job's lock expires: the queue redelivers the job or, after MaxStalls,
\* drops it.  The worker is dead, or only slow and unaware.
Stall(w, survives) ==
    /\ worker[w] # Idle
    /\ worker[w].locked
    /\ LET d == worker[w].delivery IN
       /\ d.stalls < StallBound
       /\ IF d.stalls < MaxStalls
          THEN Redeliver([d EXCEPT !.stalls = @ + 1])
          ELSE UNCHANGED queue
    /\ survives => StallSurvives
    /\ IF survives THEN worker' = [worker EXCEPT ![w].locked = FALSE] ELSE End(w)
    /\ UNCHANGED <<row, data, entitled>>

-----------------------------------------------------------------------------
(* runAgent *)

Skips(n) == n \notin Required \/ (n \in Premium /\ ~ entitled)

\* skipTask: an existing task, whatever its status, is left as it is.
SkipTask(w) ==
    /\ IsAt(w, Agents)
    /\ Skips(Node(w))
    /\ IF ~ Holds(w)
       THEN End(w) /\ UNCHANGED task
       ELSE /\ task' = IF task[Node(w)].status = "NONE"
                       THEN [task EXCEPT ![Node(w)].status = "SKIPPED"]
                       ELSE task
            /\ worker' = [worker EXCEPT ![w] = NextNode(@)]
    /\ UNCHANGED <<row, thread, files, editor, entitled, queue>>

\* Is the stored result used instead of running the agent again?
Restores_Never(n) == FALSE
Restores_Ended(n) == task[n].status \in {"COMPLETED", "FAILED"}
Restores(n) == task[n].status = "COMPLETED"

\* prepareTask creates the row or finds it.
PrepareTask(w) ==
    /\ IsAt(w, Agents)
    /\ ~ Skips(Node(w))
    /\ IF ~ Holds(w)
       THEN End(w) /\ UNCHANGED task
       ELSE /\ task' = IF task[Node(w)].status = "NONE"
                       THEN [task EXCEPT ![Node(w)].status = "PENDING"]
                       ELSE task
            /\ IF Restores(Node(w)) THEN Return(w, task[Node(w)].output) ELSE Goto(w, "start")
    /\ UNCHANGED <<row, thread, files, editor, entitled, queue>>

StartTask(w) ==
    /\ worker[w].pc = "start"
    /\ IF ~ Holds(w)
       THEN End(w) /\ UNCHANGED task
       ELSE IF Restores(Node(w))
       THEN Return(w, task[Node(w)].output) /\ UNCHANGED task
       ELSE /\ task' = [task EXCEPT ![Node(w)].status = "RUNNING"]
            /\ Goto(w, IF Node(w) \in Writers THEN "list" ELSE "work")
    /\ UNCHANGED <<row, thread, files, editor, entitled, queue>>

\* listProjectFiles: the versions the agent will echo as expectedVersion.
ListFiles(w) ==
    /\ worker[w].pc = "list"
    /\ worker' = [worker EXCEPT ![w].seen = Len(files), ![w].pc = "work"]
    /\ UNCHANGED <<row, data, entitled, queue>>

\* The agent answers and completeTask applies it.  A second executor's result
\* for a task that is already COMPLETED is dropped, yet that executor goes on
\* with its own output.  Equal content makes no new revision.
CompleteTask(w, output, changes) ==
    /\ worker[w].pc = "work"
    /\ output \in CanProduce(Node(w))
    /\ LET n == Node(w) IN
       IF ~ Holds(w)
       THEN End(w) /\ UNCHANGED <<task, files>>
       ELSE IF task[n].status = "COMPLETED"
       THEN Return(w, output) /\ UNCHANGED <<task, files>>
       ELSE IF n \in Writers /\ ~ VersionIs(worker[w].seen)
       THEN Throw(w, "fail", FALSE) /\ UNCHANGED <<task, files>>
       ELSE /\ task' = [task EXCEPT ![n] = [status |-> "COMPLETED", output |-> output]]
            /\ IF n \in Writers /\ changes
               THEN AddRevision("agent", worker[w].seen)
               ELSE UNCHANGED files
            /\ Return(w, output)
    /\ UNCHANGED <<row, thread, editor, entitled, queue>>

\* The provider, the validation of its answer or completeTask itself fails.
AgentError(w, retryable) ==
    /\ worker[w].pc \in {"list", "work"}
    /\ Throw(w, "fail", retryable)
    /\ UNCHANGED <<row, data, entitled, queue>>

\* completeTask commits and its answer is lost: to the executor, an error
\* like any other.
AnswerLost(w, output, changes) ==
    /\ worker[w].pc = "work"
    /\ output \in CanProduce(Node(w))
    /\ Holds(w)
    /\ task[Node(w)].status # "COMPLETED"
    /\ Node(w) \in Writers => VersionIs(worker[w].seen)
    /\ task' = [task EXCEPT ![Node(w)] = [status |-> "COMPLETED", output |-> output]]
    /\ IF Node(w) \in Writers /\ changes
       THEN AddRevision("agent", worker[w].seen)
       ELSE UNCHANGED files
    /\ Throw(w, "unheard", TRUE)
    /\ UNCHANGED <<row, thread, editor, entitled, queue>>

\* failTask: only the run is checked, not the task's status.  A stored output
\* stays in the row.
FailTask(w) ==
    /\ worker[w].pc \in {"fail", "unheard"}
    /\ IF Holds(w)
       THEN task' = [task EXCEPT ![Node(w)].status = "FAILED"] /\ Goto(w, "raise")
       ELSE End(w) /\ UNCHANGED task
    /\ UNCHANGED <<row, thread, files, editor, entitled, queue>>

-----------------------------------------------------------------------------
(* The two approval gates.  A gate that lets the run pass calls nothing.   *)

Scope(gate) == IF gate = "approval" THEN "plan" ELSE "content"

\* Is there something to approve, given the outputs the executor carries?
Asks(gate, outputs) ==
    IF gate = "approval"
    THEN outputs["Alex"] = NoOutput /\ (outputs["Mike"] = "gated" \/ HasReferences)
    ELSE "Adrian" \in Agents /\ outputs["Adrian"] = "gated"

\* Does the job carry the approval of this gate, not spent yet?
Bypasses_AnyScope(x, gate) ==
    x.delivery.job.command \in {"plan", "content"} /\ ~ x.used
Bypasses(x, gate) == x.delivery.job.command = Scope(gate) /\ ~ x.used

PassGate(w) ==
    /\ IsAt(w, Gates)
    /\ LET asks == Asks(Node(w), worker[w].outputs) IN
       /\ asks => Bypasses(worker[w], Node(w))
       /\ worker' = [worker EXCEPT ![w] = [NextNode(worker[w]) EXCEPT !.used = @ \/ asks]]
    /\ UNCHANGED <<row, data, entitled, queue>>

RequestApproval(w) ==
    /\ IsAt(w, Gates)
    /\ Asks(Node(w), worker[w].outputs)
    /\ ~ Bypasses(worker[w], Node(w))
    /\ IF Holds(w) THEN MoveTo("PAUSED") /\ UNCHANGED granted ELSE UNCHANGED row
    /\ End(w)
    /\ UNCHANGED <<data, entitled, queue>>

-----------------------------------------------------------------------------
(* After the graph: route coverage and sandbox validation, each of which   *)
(* may ask for a repair of the code, and the end.                          *)

BeginRepair(w) ==
    /\ worker[w].pc = "validate"
    /\ worker[w].repairs < MaxRepairs
    /\ worker' = [worker EXCEPT ![w].seen = Len(files), ![w].repairs = @ + 1,
                                ![w].pc = "repair"]
    /\ UNCHANGED <<row, data, entitled, queue>>

\* applyGeneratedFiles
ApplyRepair(w, changes) ==
    /\ worker[w].pc = "repair"
    /\ Holds(w)
    /\ VersionIs(worker[w].seen)
    /\ IF changes THEN AddRevision("agent", worker[w].seen) ELSE UNCHANGED files
    /\ worker' = [worker EXCEPT ![w].pc = "validate", ![w].seen = 0]
    /\ UNCHANGED <<row, task, thread, editor, entitled, queue>>

\* A repair that fails, or meets a newer file, leaves the validation's own
\* error to be thrown; for route coverage it is as if it had not begun.  A
\* stopped run ends the execution.
RepairFails(w, retryable) ==
    /\ worker[w].pc = "repair"
    /\ \/ End(w) /\ ~ Holds(w)
       \/ Throw(w, "raise", retryable)
    /\ UNCHANGED <<row, data, entitled, queue>>

ValidationFails(w, retryable) ==
    /\ worker[w].pc = "validate"
    /\ Throw(w, "raise", retryable)
    /\ UNCHANGED <<row, data, entitled, queue>>

CompleteRun(w) ==
    /\ worker[w].pc = "validate"
    /\ IF Holds(w) THEN MoveTo("COMPLETED") /\ UNCHANGED granted ELSE UNCHANGED row
    /\ End(w)
    /\ UNCHANGED <<data, entitled, queue>>

-----------------------------------------------------------------------------
Person ==
    \/ \E s \in {"PAUSED", "CANCELLED"} : Stop(s)
    \/ \E command \in {"resume", "retry", "plan", "content"} : Continue(command)
    \/ ChangePlan
    \/ OpenFile \/ PutProjectFile

Execute(w) ==
    \/ \E d \in queue : ClaimRun(w, d)
    \/ Invoke(w) \/ SaveCheckpoint(w)
    \/ SkipTask(w) \/ PrepareTask(w) \/ StartTask(w) \/ ListFiles(w)
    \/ \E output \in Outputs, changes \in BOOLEAN :
          CompleteTask(w, output, changes) \/ AnswerLost(w, output, changes)
    \/ \E retryable \in BOOLEAN : AgentError(w, retryable)
    \/ FailTask(w)
    \/ PassGate(w) \/ RequestApproval(w)
    \/ BeginRepair(w)
    \/ \E changes \in BOOLEAN : ApplyRepair(w, changes)
    \/ \E retryable \in BOOLEAN : RepairFails(w, retryable) \/ ValidationFails(w, retryable)
    \/ CompleteRun(w)
    \/ Raise(w) \/ DatabaseError(w)
    \/ \E survives \in BOOLEAN : Stall(w, survives)

Next == Person \/ \E w \in Workers : Execute(w)

Spec == Init /\ [][Next]_vars
-----------------------------------------------------------------------------
(* Properties *)

\* "If Mike requires plan approval, the worker pauses after Bob.  Approvals
\* are explicit and scoped so one approval cannot silently bypass another
\* gate" (README): code is written under a plan that asks, or a run completes
\* with copy that asks, only after a person approved that very scope.
GatesAreAnswered ==
    /\ task["Mike"].output = "gated" /\ task["Alex"].status \notin {"NONE", "SKIPPED"}
         => "plan" \in granted
    /\ "Adrian" \in Agents /\ status = "COMPLETED" /\ task["Adrian"].output = "gated"
         => "content" \in granted

\* Completed tasks are "restored from their outputs instead of being billed
\* twice" (README).  Nothing that happens later, failures, crashes, retries and
\* redeliveries included, runs or rewrites a completed task, with one exception:
\* an executor that never heard of its own commit fails the task it has
\* completed (the catch of runAgent), until it ends or another one restores it.
Unheard(n) == \E w \in Workers : worker[w].pc = "unheard" /\ Node(w) = n /\ Holds(w)

CompletedTaskStays ==
    [][\A n \in Agents : task[n].status = "COMPLETED" =>
          \/ task'[n] = task[n]
          \/ Unheard(n) /\ task'[n] = [task[n] EXCEPT !.status = "FAILED"]]_vars

\* The README's words without the exception, which the code does not keep.
CompletedIsNotBilledTwice ==
    [][\A n \in Agents : task[n].status = "COMPLETED" => task'[n] = task[n]]_vars

\* A completed run did all of its work: each agent completed or was skipped.
CompletedRunIsWhole ==
    status = "COMPLETED" =>
        \A n \in Agents : task[n].status \in {"COMPLETED", "SKIPPED"}

\* The two stores a run is restored from agree: what LangGraph's checkpoint
\* remembers of an agent is the output of its completed task.
ThreadAgreesWithTasks ==
    \A n \in Agents : thread[n] # NoOutput =>
        task[n].status = "COMPLETED" /\ task[n].output = thread[n]

\* Once a person has stopped the run, nothing an execution still has in
\* flight reaches its tasks or the project's files, whoever executes.
StoppedRunIsFenced ==
    [][status # "RUNNING" =>
         /\ task' = task
         /\ Len(files') > Len(files) => files'[Len(files')].by = "person"]_vars

\* "A manual edit wins" (README): each revision was made by somebody who had
\* seen the one before it, so no revision is ever overwritten unseen.
NoLostRevision == \A v \in 1 .. Len(files) : files[v].base = v - 1
=============================================================================
