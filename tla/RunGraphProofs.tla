---------------------------- MODULE RunGraphProofs ----------------------------
(***************************************************************************)
(* RunGraph for any graph in the order of the code, any number of          *)
(* executors and any bounds.  Whoever executes: no revision of a project   *)
(* file is overwritten unseen, and a run that is not RUNNING is out of     *)
(* reach.  While a stalled executor is dead: completed tasks stay, both    *)
(* stores agree, a completed run is whole and gates are answered.          *)
(***************************************************************************)
EXTENDS RunGraph, TLAPS

FilesTyped == files \in Seq(Revision)
FilesInv   == FilesTyped /\ NoLostRevision

\* What a step may do to the file: nothing, or one revision over the newest.
FilesStep ==
    \/ UNCHANGED files
    \/ \E who \in {"person", "agent"} : AddRevision(who, Len(files))

-----------------------------------------------------------------------------
(* Files *)

\* A person's save meets the version the editor was opened on.
LEMMA PersonFiles ==
    ASSUME Person
    PROVE  FilesStep
<1> USE DEF FilesStep, data
<1>1. CASE \E s \in {"PAUSED", "CANCELLED"} : Stop(s)
  BY <1>1 DEF Stop
<1>2. CASE \E command \in {"resume", "retry", "plan", "content"} : Continue(command)
  BY <1>2 DEF Continue
<1>3. CASE ChangePlan
  BY <1>3 DEF ChangePlan
<1>4. CASE OpenFile
  BY <1>4 DEF OpenFile
<1>5. CASE PutProjectFile
  BY <1>5 DEF PutProjectFile, VersionIs
<1>6. QED
  BY <1>1, <1>2, <1>3, <1>4, <1>5 DEF Person

\* An executor writes in completeTask and applyGeneratedFiles only, each time
\* over the version it was shown.
LEMMA ExecutorFiles ==
    ASSUME NEW w \in Workers, Execute(w)
    PROVE  FilesStep
<1> USE DEF FilesStep, data
<1>1. CASE \E d \in queue : ClaimRun(w, d)
  BY <1>1 DEF ClaimRun
<1>2. CASE Invoke(w) \/ SaveCheckpoint(w)
  BY <1>2 DEF Invoke, SaveCheckpoint
<1>3. CASE SkipTask(w) \/ PrepareTask(w) \/ StartTask(w) \/ ListFiles(w)
  BY <1>3 DEF SkipTask, PrepareTask, StartTask, ListFiles
<1>4. CASE \E output \in Outputs, changes \in BOOLEAN :
            CompleteTask(w, output, changes) \/ AnswerLost(w, output, changes)
  BY <1>4 DEF CompleteTask, AnswerLost, VersionIs
<1>5. CASE \E retryable \in BOOLEAN : AgentError(w, retryable)
  BY <1>5 DEF AgentError
<1>6. CASE FailTask(w) \/ PassGate(w) \/ RequestApproval(w) \/ BeginRepair(w)
  BY <1>6 DEF FailTask, PassGate, RequestApproval, BeginRepair
<1>7. CASE \E changes \in BOOLEAN : ApplyRepair(w, changes)
  BY <1>7 DEF ApplyRepair, VersionIs
<1>8. CASE \E retryable \in BOOLEAN : RepairFails(w, retryable) \/ ValidationFails(w, retryable)
  BY <1>8 DEF RepairFails, ValidationFails
<1>9. CASE CompleteRun(w) \/ Raise(w) \/ DatabaseError(w)
  BY <1>9 DEF CompleteRun, Raise, DatabaseError
<1>10. CASE \E survives \in BOOLEAN : Stall(w, survives)
  BY <1>10 DEF Stall
<1>11. QED
  BY <1>1, <1>2, <1>3, <1>4, <1>5, <1>6, <1>7, <1>8, <1>9, <1>10 DEF Execute

\* One revision over the newest keeps the chain of revisions unbroken.
LEMMA FilesKept ==
    ASSUME FilesInv, FilesStep
    PROVE  FilesInv'
<1>1. CASE UNCHANGED files
  BY <1>1 DEF FilesInv, FilesTyped, NoLostRevision
<1>2. CASE \E who \in {"person", "agent"} : AddRevision(who, Len(files))
  <2>1. PICK who \in {"person", "agent"} : AddRevision(who, Len(files))
    BY <1>2
  <2> DEFINE r == [by |-> who, base |-> Len(files)]
  <2>2. files \in Seq(Revision) /\ Len(files) \in Nat
    BY DEF FilesInv, FilesTyped
  <2>3. r \in Revision
    BY <2>2 DEF Revision
  <2>4. files' = Append(files, r)
    BY <2>1 DEF AddRevision
  <2> HIDE DEF r
  <2>5. FilesTyped'
    BY <2>2, <2>3, <2>4 DEF FilesTyped
  <2>6. /\ Len(files') = Len(files) + 1
        /\ files'[Len(files) + 1] = r
        /\ \A v \in 1 .. Len(files) : files'[v] = files[v]
    BY <2>2, <2>3, <2>4
  <2>7. NoLostRevision'
    <3> SUFFICES ASSUME NEW v \in 1 .. Len(files')
                 PROVE  files'[v].base = v - 1
      BY DEF NoLostRevision
    <3>1. CASE v \in 1 .. Len(files)
      BY <2>6, <3>1 DEF FilesInv, NoLostRevision
    <3>2. CASE v = Len(files) + 1
      <4>1. r.base = Len(files)
        BY DEF r
      <4>2. QED
        BY <2>2, <2>6, <3>2, <4>1
    <3>3. QED
      BY <2>2, <2>6, <3>1, <3>2
  <2>8. QED
    BY <2>5, <2>7 DEF FilesInv
<1>3. QED
  BY <1>1, <1>2 DEF FilesStep

\* putProjectFile, completeTask and applyGeneratedFiles never lose an edit:
\* whoever adds a revision has seen the one before it.
THEOREM NoLostRevisionHolds == Spec => []NoLostRevision
<1>1. Init => FilesInv
  BY DEF Init, FilesInv, FilesTyped, NoLostRevision
<1>2. FilesInv /\ [Next]_vars => FilesInv'
  <2> SUFFICES ASSUME FilesInv, [Next]_vars
               PROVE  FilesInv'
    OBVIOUS
  <2>1. CASE Person
    BY <2>1, PersonFiles, FilesKept
  <2>2. CASE \E w \in Workers : Execute(w)
    BY <2>2, ExecutorFiles, FilesKept
  <2>3. CASE UNCHANGED vars
    BY <2>3, FilesKept DEF FilesStep, vars, data
  <2>4. QED
    BY <2>1, <2>2, <2>3 DEF Next
<1>3. FilesInv => NoLostRevision
  BY DEF FilesInv
<1>4. QED
  BY <1>1, <1>2, <1>3, PTL DEF Spec

-----------------------------------------------------------------------------
(* Fencing *)

FencedStep ==
    status # "RUNNING" =>
        /\ task' = task
        /\ Len(files') > Len(files) => files'[Len(files')].by = "person"

\* A person's revision is the person's; nothing else a person does writes here.
LEMMA PersonFenced ==
    ASSUME FilesTyped, Person
    PROVE  FencedStep
<1> USE DEF FencedStep, data
<1>1. CASE \E s \in {"PAUSED", "CANCELLED"} : Stop(s)
  BY <1>1 DEF Stop
<1>2. CASE \E command \in {"resume", "retry", "plan", "content"} : Continue(command)
  BY <1>2 DEF Continue
<1>3. CASE ChangePlan
  BY <1>3 DEF ChangePlan
<1>4. CASE OpenFile
  BY <1>4 DEF OpenFile
<1>5. CASE PutProjectFile
  <2>1. files' = Append(files, [by |-> "person", base |-> editor])
    BY <1>5 DEF PutProjectFile, AddRevision
  <2>2. Len(files) \in Nat /\ editor = Len(files)
    BY <1>5 DEF FilesTyped, PutProjectFile, VersionIs
  <2>3. [by |-> "person", base |-> editor] \in Revision
    BY <2>2 DEF Revision
  <2>4. Len(files') = Len(files) + 1
        /\ files'[Len(files) + 1] = [by |-> "person", base |-> editor]
    BY <2>1, <2>2, <2>3 DEF FilesTyped
  <2>5. task' = task
    BY <1>5 DEF PutProjectFile
  <2>6. QED
    BY <2>4, <2>5
<1>6. QED
  BY <1>1, <1>2, <1>3, <1>4, <1>5 DEF Person

\* An executor of a run that is not RUNNING fails touchActiveRun at each call.
LEMMA ExecutorFenced ==
    ASSUME FilesTyped, NEW w \in Workers, Execute(w), status # "RUNNING"
    PROVE  task' = task /\ files' = files
<1> USE DEF data
<1>h. ~ Holds(w)
  BY DEF Holds
<1>1. CASE \E d \in queue : ClaimRun(w, d)
  BY <1>1 DEF ClaimRun
<1>2. CASE Invoke(w) \/ SaveCheckpoint(w)
  BY <1>2 DEF Invoke, SaveCheckpoint
<1>3. CASE SkipTask(w) \/ PrepareTask(w) \/ StartTask(w) \/ ListFiles(w)
  BY <1>h, <1>3 DEF SkipTask, PrepareTask, StartTask, ListFiles
<1>4. CASE \E output \in Outputs, changes \in BOOLEAN :
            CompleteTask(w, output, changes) \/ AnswerLost(w, output, changes)
  BY <1>h, <1>4 DEF CompleteTask, AnswerLost
<1>5. CASE \E retryable \in BOOLEAN : AgentError(w, retryable)
  BY <1>5 DEF AgentError
<1>6. CASE FailTask(w) \/ PassGate(w) \/ RequestApproval(w) \/ BeginRepair(w)
  BY <1>h, <1>6 DEF FailTask, PassGate, RequestApproval, BeginRepair
<1>7. CASE \E changes \in BOOLEAN : ApplyRepair(w, changes)
  BY <1>h, <1>7 DEF ApplyRepair
<1>8. CASE \E retryable \in BOOLEAN : RepairFails(w, retryable) \/ ValidationFails(w, retryable)
  BY <1>8 DEF RepairFails, ValidationFails
<1>9. CASE CompleteRun(w) \/ Raise(w) \/ DatabaseError(w)
  BY <1>9 DEF CompleteRun, Raise, DatabaseError
<1>10. CASE \E survives \in BOOLEAN : Stall(w, survives)
  BY <1>10 DEF Stall
<1>11. QED
  BY <1>1, <1>2, <1>3, <1>4, <1>5, <1>6, <1>7, <1>8, <1>9, <1>10 DEF Execute

\* Pause and cancel take hold at once: with nobody holding a lock, every write
\* still in flight is refused, for any number of executors of any job.
THEOREM StoppedRunIsFencedHolds == Spec => StoppedRunIsFenced
<1>1. Init => FilesTyped
  BY DEF Init, FilesTyped
<1>2. FilesTyped /\ [Next]_vars => FilesTyped'
  <2> SUFFICES ASSUME FilesTyped, [Next]_vars
               PROVE  FilesTyped'
    OBVIOUS
  <2>1. FilesStep
    BY PersonFiles, ExecutorFiles DEF Next, FilesStep, vars, data
  <2>2. CASE UNCHANGED files
    BY <2>2 DEF FilesTyped
  <2>3. CASE \E who \in {"person", "agent"} : AddRevision(who, Len(files))
    BY <2>3 DEF FilesTyped, AddRevision, Revision
  <2>4. QED
    BY <2>1, <2>2, <2>3 DEF FilesStep
<1>3. FilesTyped /\ [Next]_vars => [FencedStep]_vars
  <2> SUFFICES ASSUME FilesTyped, Next
               PROVE  FencedStep
    OBVIOUS
  <2>1. CASE Person
    BY <2>1, PersonFenced
  <2>2. CASE \E w \in Workers : Execute(w)
    BY <2>2, ExecutorFenced DEF FencedStep, FilesTyped
  <2>3. QED
    BY <2>1, <2>2 DEF Next
<1>4. [FencedStep]_vars <=>
        [status # "RUNNING" =>
           /\ task' = task
           /\ Len(files') > Len(files) => files'[Len(files')].by = "person"]_vars
  BY DEF FencedStep
<1>5. QED
  BY <1>1, <1>2, <1>3, <1>4, PTL DEF Spec, StoppedRunIsFenced

-----------------------------------------------------------------------------
(* Executions and tasks.  What follows is about one executor of a job at a *)
(* time: a worker whose job stalls is dead, so the queue and the workers   *)
(* hold each job once.  Executors of earlier jobs may still be at work.    *)

Versions(w) == worker[w].delivery.job.version

\* Every job is held once, and none is ahead of the row.
JobsSingle ==
    /\ \A d \in queue : d.job.version <= controlVersion
    /\ \A w \in Workers : worker[w] # Idle => Versions(w) < controlVersion
    /\ \A d, e \in queue : d.job.version = e.job.version => d = e
    /\ \A d \in queue, w \in Workers : worker[w] # Idle => d.job.version # Versions(w)
    /\ \A v, w \in Workers :
         worker[v] # Idle /\ worker[w] # Idle /\ Versions(v) = Versions(w) => v = w

AtAgent == {"start", "list", "work", "fail", "unheard", "save"}

\* Where an execution can be at each of its program counters.
Placed(w) ==
    /\ worker[w].pc \in AtAgent => worker[w].at <= Len(Nodes) /\ Node(w) \in Agents
    /\ worker[w].pc \in {"validate", "repair"} => worker[w].at = Len(Nodes) + 1
    /\ worker[w].pc = "invoke" => worker[w].at = 1

PlacesInv == TypeOK /\ \A w \in Workers : worker[w] # Idle => Placed(w)

-----------------------------------------------------------------------------
(* Types *)

LEMMA GraphFacts ==
    /\ Nodes \in Seq(Gates \union {"Sophia", "Mike", "Emma", "Bob", "Alex", "David", "Sarah", "Adrian"})
    /\ Len(Nodes) \in Nat /\ Len(Nodes) > 1
    /\ Agents = {Nodes[i] : i \in 1 .. Len(Nodes)} \ Gates
    /\ {"Mike", "Alex"} \subseteq Agents
<1>1. /\ Nodes \in Seq(Gates \union {"Sophia", "Mike", "Emma", "Bob", "Alex", "David", "Sarah", "Adrian"})
      /\ Before("Mike", "approval") /\ Before("approval", "Alex")
  BY RunGraphAssumption
<1>2. Len(Nodes) \in Nat /\ DOMAIN Nodes = 1 .. Len(Nodes)
  BY <1>1
<1>3. Agents = {Nodes[i] : i \in 1 .. Len(Nodes)} \ Gates
  BY <1>2 DEF Agents, Range
<1>4. QED
  BY <1>1, <1>2, <1>3 DEF Before, Gates

LEMMA PersonPlaces ==
    ASSUME PlacesInv, Person
    PROVE  PlacesInv'
<1> USE DEF row, data, PlacesInv
<1>1. ASSUME NEW s \in {"PAUSED", "CANCELLED"}, Stop(s)
      PROVE  PlacesInv'
  BY <1>1 DEF Stop, MoveTo, TypeOK, Placed, Node
<1>2. ASSUME NEW command \in {"resume", "retry", "plan", "content"}, Continue(command)
      PROVE  PlacesInv'
  <2>1. NewDelivery(command, controlVersion + 1) \in Delivery
    BY DEF NewDelivery, Delivery, Job, TypeOK
  <2>2. {command} \intersect {"plan", "content"} \subseteq {"plan", "content"}
    OBVIOUS
  <2>3. TypeOK'
    BY <1>2, <2>1, <2>2 DEF Continue, MoveTo, TypeOK
  <2>4. worker' = worker
    BY <1>2 DEF Continue
  <2>5. QED
    BY <2>3, <2>4 DEF Placed, Node
<1>3. CASE ChangePlan \/ OpenFile
  <2>1. worker' = worker
    BY <1>3 DEF ChangePlan, OpenFile
  <2>2. TypeOK'
    <3>1. CASE ChangePlan
      BY <3>1 DEF ChangePlan, TypeOK
    <3>2. CASE OpenFile
      BY <3>2 DEF OpenFile, TypeOK
    <3>3. QED
      BY <1>3, <3>1, <3>2
  <2>3. QED
    BY <2>1, <2>2 DEF Placed, Node
<1>4. CASE PutProjectFile
  <2>1. worker' = worker
    BY <1>4 DEF PutProjectFile
  <2>2. [by |-> "person", base |-> editor] \in Revision /\ Len(files) \in Nat
    BY DEF TypeOK, Revision
  <2>3. files' \in Seq(Revision) /\ editor' \in Nat
    BY <1>4, <2>2 DEF PutProjectFile, AddRevision, TypeOK
  <2>4. TypeOK'
    BY <1>4, <2>3 DEF PutProjectFile, TypeOK
  <2>5. QED
    BY <2>1, <2>4 DEF Placed, Node
<1>5. QED
  BY <1>1, <1>2, <1>3, <1>4 DEF Person

\* An execution that is replaced by another of the right shape.
LEMMA WorkerPlaced ==
    ASSUME PlacesInv, NEW w \in Workers, NEW x \in Execution \union {Idle},
           worker' = [worker EXCEPT ![w] = x],
           x # Idle =>
             /\ x.pc \in AtAgent => x.at <= Len(Nodes) /\ Nodes[x.at] \in Agents
             /\ x.pc \in {"validate", "repair"} => x.at = Len(Nodes) + 1
             /\ x.pc = "invoke" => x.at = 1
    PROVE  /\ worker' \in [Workers -> Execution \union {Idle}]
           /\ \A v \in Workers : worker'[v] # Idle => Placed(v)'
<1>1. worker \in [Workers -> Execution \union {Idle}]
  BY DEF PlacesInv, TypeOK
<1>2. worker'[w] = x /\ \A v \in Workers \ {w} : worker'[v] = worker[v]
  BY <1>1
<1>3. \A v \in Workers : worker'[v] # Idle => Placed(v)'
  BY <1>2 DEF PlacesInv, Placed, Node, AtAgent
<1>4. QED
  BY <1>1, <1>3

\* The same for an update of an execution's own fields.
LEMMA BusyType ==
    ASSUME TypeOK, NEW w \in Workers, worker[w] # Idle
    PROVE  /\ worker[w] \in Execution
           /\ worker[w].delivery \in Delivery /\ worker[w].at \in 1 .. (Len(Nodes) + 1)
           /\ worker[w].outputs \in OutputMap /\ worker[w].repairs \in Nat
           /\ worker[w].delivery.job \in Job /\ Versions(w) \in Nat
           /\ worker[w].delivery.made \in Nat /\ worker[w].delivery.stalls \in Nat
BY DEF TypeOK, Execution, Delivery, Job, Versions

LEMMA NextNodeType ==
    ASSUME NEW x \in Execution, x.at <= Len(Nodes)
    PROVE  /\ NextNode(x) \in Execution
           /\ NextNode(x).at = x.at + 1
           /\ NextNode(x).pc = IF x.at = Len(Nodes) THEN "validate" ELSE "enter"
           /\ NextNode(x).delivery = x.delivery /\ NextNode(x).outputs = x.outputs
           /\ NextNode(x).used = x.used
           /\ [NextNode(x) EXCEPT !.used = @ \/ TRUE] \in Execution
<1>1. x.at + 1 \in 1 .. (Len(Nodes) + 1)
  BY GraphFacts DEF Execution
<1>2. QED
  BY <1>1 DEF NextNode, Execution

-----------------------------------------------------------------------------
(* What an executor's step does.  An execution ends, stays at its node,    *)
(* returns the node's result, or moves; tasks change at the node it is at. *)

\* The execution of w goes on as another one of the same delivery.
GoesOn(w) ==
    /\ worker[w] # Idle /\ worker'[w] \in Execution
    /\ worker' = [worker EXCEPT ![w] = worker'[w]]
    /\ worker'[w].delivery = worker[w].delivery
    /\ UNCHANGED row

Ends(w) ==
    /\ worker[w] # Idle
    /\ worker' = [worker EXCEPT ![w] = Idle]
    /\ UNCHANGED <<task, thread>>
    /\ \/ UNCHANGED <<queue, row>>
       \/ /\ UNCHANGED row
          /\ \E d \in Delivery : /\ d.job = worker[w].delivery.job
                                 /\ queue' = queue \union {d}
       \/ /\ UNCHANGED <<queue, granted>>
          /\ Holds(w) /\ MoveTo(status')
          /\ \/ status' \in {"PAUSED", "FAILED"}
             \/ status' = "COMPLETED" /\ worker[w].pc = "validate"

Stays(w) ==
    /\ GoesOn(w)
    /\ worker'[w].at = worker[w].at /\ worker'[w].outputs = worker[w].outputs
    /\ UNCHANGED <<thread, queue>>
    /\ \/ /\ worker'[w].pc \in {"list", "work", "fail"} /\ worker[w].pc \in {"list", "work"}
          /\ UNCHANGED task
       \/ /\ worker'[w].pc \in {"validate", "repair"} /\ worker[w].pc \in {"validate", "repair"}
          /\ UNCHANGED task
       \/ /\ worker'[w].pc = "raise"
          /\ UNCHANGED task
       \/ /\ worker'[w].pc = "raise" /\ worker[w].pc \in {"fail", "unheard"} /\ Holds(w)
          /\ task' = [task EXCEPT ![Node(w)].status = "FAILED"]
       \/ /\ worker'[w].pc = "unheard" /\ worker[w].pc = "work" /\ Holds(w)
          /\ ~ Restores(Node(w))
          /\ \E output \in Outputs :
                task' = [task EXCEPT ![Node(w)] = [status |-> "COMPLETED", output |-> output]]
       \/ /\ worker'[w].pc = "start" /\ IsAt(w, Agents) /\ ~ Skips(Node(w)) /\ Holds(w)
          /\ \/ task[Node(w)].status # "NONE" /\ UNCHANGED task
             \/ /\ task[Node(w)].status = "NONE"
                /\ task' = [task EXCEPT ![Node(w)].status = "PENDING"]
       \/ /\ worker'[w].pc \in {"list", "work"} /\ worker[w].pc = "start" /\ Holds(w)
          /\ ~ Restores(Node(w))
          /\ task' = [task EXCEPT ![Node(w)].status = "RUNNING"]

Returns(w) ==
    /\ GoesOn(w)
    /\ Holds(w)
    /\ worker'[w].at = worker[w].at /\ worker'[w].pc = "save"
    /\ UNCHANGED <<thread, queue>>
    /\ \/ IsAt(w, Agents) /\ ~ Skips(Node(w))
       \/ worker[w].pc \in {"start", "work"}
    /\ \E output : /\ worker'[w].outputs = [worker[w].outputs EXCEPT ![Node(w)] = output]
                   /\ \/ /\ Restores(Node(w)) /\ UNCHANGED task
                         /\ output = task[Node(w)].output \/ worker[w].pc = "work"
                      \/ /\ ~ Restores(Node(w)) /\ worker[w].pc = "work" /\ output \in Outputs
                         /\ task' = [task EXCEPT ![Node(w)] =
                                       [status |-> "COMPLETED", output |-> output]]

Skipped(w) ==
    /\ GoesOn(w)
    /\ Holds(w) /\ IsAt(w, Agents) /\ Skips(Node(w))
    /\ worker'[w] = NextNode(worker[w])
    /\ UNCHANGED <<thread, queue>>
    /\ \/ task[Node(w)].status # "NONE" /\ UNCHANGED task
       \/ /\ task[Node(w)].status = "NONE"
          /\ task' = [task EXCEPT ![Node(w)].status = "SKIPPED"]

Passed(w) ==
    /\ GoesOn(w)
    /\ IsAt(w, Gates)
    /\ Asks(Node(w), worker[w].outputs) => Bypasses(worker[w], Node(w))
    /\ worker'[w].at = worker[w].at + 1 /\ worker'[w].outputs = worker[w].outputs
    /\ worker'[w].pc = IF worker[w].at = Len(Nodes) THEN "validate" ELSE "enter"
    /\ UNCHANGED <<thread, queue, task>>

Saved(w) ==
    /\ GoesOn(w)
    /\ worker[w].pc = "save"
    /\ thread' = worker[w].outputs
    /\ worker'[w] = NextNode(worker[w])
    /\ UNCHANGED <<queue, task>>

Invoked(w) ==
    /\ GoesOn(w)
    /\ worker[w].pc = "invoke" /\ worker'[w].pc = "enter"
    /\ worker'[w].outputs = thread /\ worker'[w].at = worker[w].at
    /\ UNCHANGED <<thread, queue, task>>

Claimed(w) ==
    /\ worker[w] = Idle
    /\ UNCHANGED <<task, thread>>
    /\ \E d \in queue :
         /\ queue' = queue \ {d}
         /\ \/ UNCHANGED <<worker, row>>
            \/ /\ worker' = [worker EXCEPT ![w] = NewExecution(d)]
               /\ UNCHANGED row
               /\ status = "RUNNING" /\ controlVersion = d.job.version + 1
            \/ /\ worker' = [worker EXCEPT ![w] = NewExecution(d)]
               /\ MoveTo("RUNNING") /\ UNCHANGED granted
               /\ status = "PENDING" /\ controlVersion = d.job.version

\* A worker that outlives its stall goes on beside the redelivery.
Outlives(w) ==
    /\ StallSurvives
    /\ GoesOn(w)
    /\ worker'[w].at = worker[w].at /\ worker'[w].pc = worker[w].pc
    /\ worker'[w].outputs = worker[w].outputs
    /\ UNCHANGED <<thread, task>>
    /\ \/ UNCHANGED queue
       \/ \E d \in Delivery : queue' = queue \union {d}

Moves(w) ==
    \/ Claimed(w) \/ Ends(w) \/ Stays(w) \/ Returns(w) \/ Skipped(w) \/ Passed(w)
    \/ Saved(w) \/ Invoked(w) \/ Outlives(w)

\* Program counters, errors and file versions change within the type.
LEMMA PcType ==
    ASSUME NEW x \in Execution, NEW pc \in {"start", "list", "work", "raise"}
    PROVE  [x EXCEPT !.pc = pc] \in Execution
BY DEF Execution

LEMMA ErrorType ==
    ASSUME NEW x \in Execution, NEW pc \in {"fail", "unheard", "raise"}, NEW retryable \in BOOLEAN
    PROVE  [x EXCEPT !.pc = pc, !.retry = retryable, !.seen = 0] \in Execution
BY DEF Execution

LEMMA OutputsType ==
    ASSUME NEW x \in Execution, NEW outputs \in OutputMap
    PROVE  /\ [x EXCEPT !.outputs = outputs, !.used = FALSE, !.pc = "enter"] \in Execution
           /\ [x EXCEPT !.outputs = outputs, !.pc = "save", !.seen = 0] \in Execution
BY DEF Execution

LEMMA SeenType ==
    ASSUME NEW x \in Execution, NEW v \in Nat
    PROVE  /\ [x EXCEPT !.seen = v, !.pc = "work"] \in Execution
           /\ [x EXCEPT !.pc = "validate", !.seen = 0] \in Execution
           /\ [x EXCEPT !.seen = v, !.repairs = @ + 1, !.pc = "repair"] \in Execution
           /\ [x EXCEPT !.locked = FALSE] \in Execution
<1>1. x.repairs \in Nat /\ x.repairs + 1 \in Nat
  BY DEF Execution
<1>2. QED
  BY <1>1 DEF Execution

LEMMA RedeliveryType ==
    ASSUME NEW d \in Delivery
    PROVE  /\ [d EXCEPT !.made = @ + 1] \in Delivery /\ [d EXCEPT !.made = @ + 1].job = d.job
           /\ [d EXCEPT !.stalls = @ + 1] \in Delivery /\ [d EXCEPT !.stalls = @ + 1].job = d.job
BY DEF Delivery

LEMMA Update ==
    ASSUME TypeOK, NEW w \in Workers, NEW x, worker' = [worker EXCEPT ![w] = x]
    PROVE  worker'[w] = x /\ worker' = [worker EXCEPT ![w] = worker'[w]]
BY DEF TypeOK

\* An error on its way keeps the execution where it is.
LEMMA Throws ==
    ASSUME TypeOK, NEW w \in Workers, worker[w] # Idle, NEW pc \in {"fail", "unheard", "raise"},
           NEW retryable \in BOOLEAN, Throw(w, pc, retryable)
    PROVE  /\ worker'[w] \in Execution
           /\ worker' = [worker EXCEPT ![w] = worker'[w]]
           /\ worker'[w].pc = pc /\ worker'[w].delivery = worker[w].delivery
           /\ worker'[w].at = worker[w].at /\ worker'[w].outputs = worker[w].outputs
<1>1. worker[w] \in Execution
  BY BusyType
<1>2. worker' = [worker EXCEPT ![w] = [worker[w] EXCEPT !.pc = pc, !.retry = retryable, !.seen = 0]]
  BY DEF Throw
<1>3. worker'[w] = [worker[w] EXCEPT !.pc = pc, !.retry = retryable, !.seen = 0]
  BY <1>2, Update
<1>4. worker'[w] \in Execution
  BY <1>1, <1>3, ErrorType, ZenonT(60)
<1>5. /\ worker'[w].pc = pc /\ worker'[w].delivery = worker[w].delivery
      /\ worker'[w].at = worker[w].at /\ worker'[w].outputs = worker[w].outputs
  BY <1>1, <1>3 DEF Execution
<1>6. QED
  BY <1>2, <1>4, <1>5, Update

LEMMA Gotos ==
    ASSUME TypeOK, NEW w \in Workers, worker[w] # Idle,
           NEW pc \in {"start", "list", "work", "raise"}, Goto(w, pc)
    PROVE  /\ worker'[w] \in Execution
           /\ worker' = [worker EXCEPT ![w] = worker'[w]]
           /\ worker'[w].pc = pc /\ worker'[w].delivery = worker[w].delivery
           /\ worker'[w].at = worker[w].at /\ worker'[w].outputs = worker[w].outputs
<1>1. worker[w] \in Execution
  BY BusyType
<1>2. worker' = [worker EXCEPT ![w] = [worker[w] EXCEPT !.pc = pc]]
  BY DEF Goto
<1>3. worker'[w] = [worker[w] EXCEPT !.pc = pc]
  BY <1>2, Update
<1>4. worker'[w] \in Execution
  BY <1>1, <1>3, PcType
<1>5. /\ worker'[w].pc = pc /\ worker'[w].delivery = worker[w].delivery
      /\ worker'[w].at = worker[w].at /\ worker'[w].outputs = worker[w].outputs
  BY <1>1, <1>3 DEF Execution
<1>6. QED
  BY <1>2, <1>4, <1>5, Update

LEMMA ReturnType ==
    ASSUME TypeOK, NEW w \in Workers, worker[w] # Idle,
           NEW output \in Outputs \union {NoOutput}, Return(w, output)
    PROVE  /\ worker'[w] \in Execution
           /\ worker' = [worker EXCEPT ![w] = worker'[w]]
           /\ worker'[w].pc = "save" /\ worker'[w].delivery = worker[w].delivery
           /\ worker'[w].at = worker[w].at
           /\ worker'[w].outputs = [worker[w].outputs EXCEPT ![Node(w)] = output]
<1>1. worker[w] \in Execution /\ worker[w].outputs \in OutputMap
  BY BusyType
<1> DEFINE outputs == [worker[w].outputs EXCEPT ![Node(w)] = output]
<1>2. outputs \in OutputMap
  BY <1>1 DEF OutputMap
<1>3. worker' = [worker EXCEPT ![w] = [worker[w] EXCEPT !.outputs = outputs, !.pc = "save", !.seen = 0]]
  BY DEF Return
<1> HIDE DEF outputs
<1>4. worker'[w] = [worker[w] EXCEPT !.outputs = outputs, !.pc = "save", !.seen = 0]
  BY <1>3, Update
<1>5. worker'[w] \in Execution
  BY <1>1, <1>2, <1>4, OutputsType, ZenonT(60)
<1>6. /\ worker'[w].pc = "save" /\ worker'[w].delivery = worker[w].delivery
      /\ worker'[w].at = worker[w].at /\ worker'[w].outputs = outputs
  BY <1>1, <1>4 DEF Execution
<1>7. QED
  BY <1>3, <1>5, <1>6, Update DEF outputs

LEMMA ExecutionBegins ==
    ASSUME PlacesInv, NEW w \in Workers,
           \/ \E d \in queue : ClaimRun(w, d)
           \/ Invoke(w)
    PROVE  Moves(w)
<1> USE DEF data
<1>0. TypeOK
  BY DEF PlacesInv
<1>1. ASSUME NEW d \in queue, ClaimRun(w, d)
      PROVE  Claimed(w)
  BY <1>1 DEF ClaimRun, Claimed, row, MoveTo
<1>2. CASE Invoke(w)
  <2>1. worker[w].pc = "invoke" /\ worker[w] # Idle
    BY <1>2 DEF Invoke, Idle
  <2>2. worker[w] \in Execution /\ thread \in OutputMap
    BY <1>0, <2>1, BusyType DEF TypeOK
  <2> DEFINE x == [worker[w] EXCEPT !.outputs = thread, !.used = FALSE, !.pc = "enter"]
  <2>3. x \in Execution
    BY <2>2, OutputsType
  <2>4. /\ x.delivery = worker[w].delivery /\ x.at = worker[w].at
        /\ x.outputs = thread /\ x.pc = "enter"
    BY <2>2 DEF Execution
  <2>5. worker' = [worker EXCEPT ![w] = x]
    BY <1>2 DEF Invoke
  <2> HIDE DEF x
  <2>6. worker'[w] = x /\ worker' = [worker EXCEPT ![w] = worker'[w]]
    BY <1>0, <2>5, Update
  <2>7. UNCHANGED <<row, task, thread, queue>>
    BY <1>2 DEF Invoke
  <2>8. Invoked(w)
    BY <2>1, <2>3, <2>4, <2>6, <2>7 DEF Invoked, GoesOn
  <2>9. QED
    BY <2>8 DEF Moves
<1>3. QED
  BY <1>1, <1>2 DEF Moves

\* An execution that leaves its node goes to the next one.
LEMMA ExecutionMovesOn ==
    ASSUME PlacesInv, NEW w \in Workers, SaveCheckpoint(w) \/ SkipTask(w) \/ PassGate(w)
    PROVE  Moves(w)
<1> USE DEF data
<1>0. TypeOK
  BY DEF PlacesInv
<1>1. CASE SaveCheckpoint(w)
  <2>1. worker[w].pc = "save" /\ worker[w] # Idle
    BY <1>1 DEF SaveCheckpoint, Idle
  <2>2. worker[w] \in Execution /\ worker[w].at <= Len(Nodes)
    BY <1>0, <2>1, BusyType DEF PlacesInv, Placed, AtAgent
  <2>3. worker' = [worker EXCEPT ![w] = NextNode(worker[w])]
    BY <1>1 DEF SaveCheckpoint
  <2>4. worker'[w] = NextNode(worker[w]) /\ worker' = [worker EXCEPT ![w] = worker'[w]]
    BY <1>0, <2>3, Update
  <2>5. worker'[w] \in Execution /\ worker'[w].delivery = worker[w].delivery
    BY <2>2, <2>4, NextNodeType
  <2>6. UNCHANGED <<row, task, queue>> /\ thread' = worker[w].outputs
    BY <1>1 DEF SaveCheckpoint
  <2>7. Saved(w)
    BY <2>1, <2>4, <2>5, <2>6 DEF Saved, GoesOn
  <2>8. QED
    BY <2>7 DEF Moves
<1>2. CASE SkipTask(w)
  <2>1. worker[w].pc = "enter" /\ worker[w] # Idle /\ worker[w].at <= Len(Nodes)
    BY <1>2 DEF SkipTask, IsAt, Idle
  <2>2. worker[w] \in Execution
    BY <1>0, <2>1, BusyType
  <2>3. CASE ~ Holds(w)
    <3>1. Ends(w)
      BY <1>2, <2>1, <2>3 DEF SkipTask, Ends, End
    <3>2. QED
      BY <3>1 DEF Moves
  <2>4. CASE Holds(w)
    <3>1. worker' = [worker EXCEPT ![w] = NextNode(worker[w])]
      BY <1>2, <2>4 DEF SkipTask
    <3>2. worker'[w] = NextNode(worker[w]) /\ worker' = [worker EXCEPT ![w] = worker'[w]]
      BY <1>0, <3>1, Update
    <3>3. worker'[w] \in Execution /\ worker'[w].delivery = worker[w].delivery
      BY <2>1, <2>2, <3>2, NextNodeType
    <3>4. UNCHANGED <<row, thread, queue>> /\ IsAt(w, Agents) /\ Skips(Node(w))
      BY <1>2 DEF SkipTask
    <3>5. task' = IF task[Node(w)].status = "NONE"
                  THEN [task EXCEPT ![Node(w)].status = "SKIPPED"] ELSE task
      BY <1>2, <2>4 DEF SkipTask
    <3>6. Skipped(w)
      BY <2>1, <2>4, <3>2, <3>3, <3>4, <3>5 DEF Skipped, GoesOn
    <3>7. QED
      BY <3>6 DEF Moves
  <2>5. QED
    BY <2>3, <2>4
<1>3. CASE PassGate(w)
  <2>1. IsAt(w, Gates) /\ worker[w].pc = "enter" /\ worker[w] # Idle /\ worker[w].at <= Len(Nodes)
    BY <1>3 DEF PassGate, IsAt, Idle
  <2>2. worker[w] \in Execution
    BY <1>0, <2>1, BusyType
  <2> DEFINE asks == Asks(Node(w), worker[w].outputs)
             y == NextNode(worker[w])
             x == [y EXCEPT !.used = @ \/ asks]
  <2>a. worker' = [worker EXCEPT ![w] = x]
    BY <1>3 DEF PassGate
  <2>b. asks => Bypasses(worker[w], Node(w))
    BY <1>3 DEF PassGate
  <2>c. UNCHANGED <<row, data, queue>>
    BY <1>3 DEF PassGate
  <2>3. /\ worker' = [worker EXCEPT ![w] = x]
        /\ asks => Bypasses(worker[w], Node(w))
        /\ UNCHANGED <<row, data, queue>>
    BY <2>a, <2>b, <2>c
  <2>4. asks \in BOOLEAN
    BY DEF Asks
  <2> HIDE DEF asks
  <2>5. /\ y \in Execution /\ y.at = worker[w].at + 1 /\ y.delivery = worker[w].delivery
        /\ y.outputs = worker[w].outputs
        /\ y.pc = IF worker[w].at = Len(Nodes) THEN "validate" ELSE "enter"
    BY <2>1, <2>2, NextNodeType
  <2> HIDE DEF y
  <2>6. /\ x \in Execution /\ x.at = y.at /\ x.delivery = y.delivery
        /\ x.outputs = y.outputs /\ x.pc = y.pc
    BY <2>4, <2>5 DEF Execution
  <2> HIDE DEF x
  <2>7. worker'[w] = x /\ worker' = [worker EXCEPT ![w] = worker'[w]]
    BY <1>0, <2>3, Update
  <2>8. Passed(w)
    BY <2>1, <2>3, <2>5, <2>6, <2>7 DEF Passed, GoesOn, asks
  <2>9. QED
    BY <2>8 DEF Moves
<1>4. QED
  BY <1>1, <1>2, <1>3

LEMMA ExecutionWorks ==
    ASSUME PlacesInv, NEW w \in Workers,
           \/ PrepareTask(w) \/ StartTask(w) \/ ListFiles(w) \/ FailTask(w)
           \/ \E retryable \in BOOLEAN : AgentError(w, retryable)
    PROVE  Moves(w)
<1> USE DEF data
<1>0. TypeOK
  BY DEF PlacesInv
<1>1. CASE PrepareTask(w)
  <2>1. IsAt(w, Agents) /\ worker[w] # Idle /\ Node(w) \in Agents /\ ~ Skips(Node(w))
    BY <1>1 DEF PrepareTask, IsAt, Idle
  <2>2. CASE ~ Holds(w)
    BY <1>1, <2>1, <2>2 DEF PrepareTask, Ends, End, Moves
  <2>3. CASE Holds(w) /\ Restores(Node(w))
    <3>1. /\ Return(w, task[Node(w)].output) /\ task' = task
          /\ UNCHANGED <<row, thread, queue>>
      BY <1>1, <2>3 DEF PrepareTask, Restores
    <3>2. task[Node(w)].output \in Outputs \union {NoOutput}
      BY <1>0, <2>1 DEF TypeOK
    <3>3. Returns(w)
      BY <1>0, <2>1, <2>3, <3>1, <3>2, ReturnType DEF Returns, GoesOn
    <3>4. QED
      BY <3>3 DEF Moves
  <2>4. CASE Holds(w) /\ ~ Restores(Node(w))
    <3>1. /\ Goto(w, "start") /\ UNCHANGED <<row, thread, queue>>
          /\ task' = IF task[Node(w)].status = "NONE"
                     THEN [task EXCEPT ![Node(w)].status = "PENDING"] ELSE task
      BY <1>1, <2>4 DEF PrepareTask
    <3>2. Stays(w)
      BY <1>0, <2>1, <2>4, <3>1, Gotos DEF Stays, GoesOn
    <3>3. QED
      BY <3>2 DEF Moves
  <2>5. QED
    BY <2>2, <2>3, <2>4
<1>2. CASE StartTask(w)
  <2>1. worker[w].pc = "start" /\ worker[w] # Idle
    BY <1>2 DEF StartTask, Idle
  <2>2. Node(w) \in Agents
    BY <2>1 DEF PlacesInv, Placed, AtAgent
  <2>3. CASE ~ Holds(w)
    BY <1>2, <2>1, <2>3 DEF StartTask, Ends, End, Moves
  <2>4. CASE Holds(w) /\ Restores(Node(w))
    <3>1. /\ Return(w, task[Node(w)].output) /\ task' = task
          /\ UNCHANGED <<row, thread, queue>>
      BY <1>2, <2>4 DEF StartTask
    <3>2. task[Node(w)].output \in Outputs \union {NoOutput}
      BY <1>0, <2>2 DEF TypeOK
    <3>3. Returns(w)
      BY <1>0, <2>1, <2>4, <3>1, <3>2, ReturnType DEF Returns, GoesOn
    <3>4. QED
      BY <3>3 DEF Moves
  <2>5. CASE Holds(w) /\ ~ Restores(Node(w))
    <3>1. /\ \E pc \in {"list", "work"} : Goto(w, pc)
          /\ task' = [task EXCEPT ![Node(w)].status = "RUNNING"]
          /\ UNCHANGED <<row, thread, queue>>
      BY <1>2, <2>5 DEF StartTask
    <3>2. Stays(w)
      BY <1>0, <2>1, <2>5, <3>1, Gotos DEF Stays, GoesOn
    <3>3. QED
      BY <3>2 DEF Moves
  <2>6. QED
    BY <2>3, <2>4, <2>5
<1>3. CASE ListFiles(w)
  <2>1. worker[w].pc = "list" /\ worker[w] # Idle
    BY <1>3 DEF ListFiles, Idle
  <2>2. worker[w] \in Execution /\ Len(files) \in Nat
    BY <1>0, <2>1, BusyType DEF TypeOK
  <2> DEFINE x == [worker[w] EXCEPT !.seen = Len(files), !.pc = "work"]
  <2>3. worker' = [worker EXCEPT ![w] = x] /\ UNCHANGED <<row, task, thread, queue>>
    BY <1>3 DEF ListFiles
  <2>4. x \in Execution
    BY <2>2, SeenType
  <2>5. /\ x.pc = "work" /\ x.delivery = worker[w].delivery /\ x.at = worker[w].at
        /\ x.outputs = worker[w].outputs
    BY <2>2 DEF Execution
  <2> HIDE DEF x
  <2>6. worker'[w] = x /\ worker' = [worker EXCEPT ![w] = worker'[w]]
    BY <1>0, <2>3, Update
  <2>7. Stays(w)
    BY <2>1, <2>3, <2>4, <2>5, <2>6 DEF Stays, GoesOn
  <2>8. QED
    BY <2>7 DEF Moves
<1>4. CASE FailTask(w)
  <2>1. worker[w].pc \in {"fail", "unheard"} /\ worker[w] # Idle
    BY <1>4 DEF FailTask, Idle
  <2>2. CASE ~ Holds(w)
    BY <1>4, <2>1, <2>2 DEF FailTask, Ends, End, Moves
  <2>3. CASE Holds(w)
    <3>1. /\ Goto(w, "raise") /\ UNCHANGED <<row, thread, queue>>
          /\ task' = [task EXCEPT ![Node(w)].status = "FAILED"]
      BY <1>4, <2>3 DEF FailTask
    <3>2. Stays(w)
      BY <1>0, <2>1, <2>3, <3>1, Gotos DEF Stays, GoesOn
    <3>3. QED
      BY <3>2 DEF Moves
  <2>4. QED
    BY <2>2, <2>3
<1>5. ASSUME NEW retryable \in BOOLEAN, AgentError(w, retryable)
      PROVE  Moves(w)
  <2>1. worker[w].pc \in {"list", "work"} /\ worker[w] # Idle
    BY <1>5 DEF AgentError, Idle
  <2>2. Throw(w, "fail", retryable) /\ UNCHANGED <<row, task, thread, queue>>
    BY <1>5 DEF AgentError
  <2>3. Stays(w)
    BY <1>0, <2>1, <2>2, Throws DEF Stays, GoesOn
  <2>4. QED
    BY <2>3 DEF Moves
<1>6. QED
  BY <1>1, <1>2, <1>3, <1>4, <1>5

LEMMA ExecutionCompletes ==
    ASSUME PlacesInv, NEW w \in Workers, NEW output \in Outputs, NEW changes \in BOOLEAN,
           CompleteTask(w, output, changes)
    PROVE  Moves(w)
<1> USE DEF data
<1>0. TypeOK
  BY DEF PlacesInv
<1>1. worker[w].pc = "work" /\ worker[w] # Idle
  BY DEF CompleteTask, Idle
<1>2. UNCHANGED <<row, thread, queue>>
  BY DEF CompleteTask
<1>3. CASE ~ Holds(w)
  BY <1>1, <1>2, <1>3 DEF CompleteTask, Ends, End, Moves
<1>4. CASE Holds(w) /\ Restores(Node(w))
  <2>1. Return(w, output) /\ task' = task
    BY <1>4 DEF CompleteTask, Restores
  <2>2. Returns(w)
    BY <1>0, <1>1, <1>2, <1>4, <2>1, ReturnType DEF Returns, GoesOn
  <2>3. QED
    BY <2>2 DEF Moves
<1>5. CASE Holds(w) /\ ~ Restores(Node(w))
  <2>1. \/ Throw(w, "fail", FALSE) /\ task' = task
        \/ /\ Return(w, output)
           /\ task' = [task EXCEPT ![Node(w)] = [status |-> "COMPLETED", output |-> output]]
    BY <1>5 DEF CompleteTask, Restores
  <2>2. CASE Throw(w, "fail", FALSE) /\ task' = task
    <3>1. Stays(w)
      BY <1>0, <1>1, <1>2, <2>2, Throws DEF Stays, GoesOn
    <3>2. QED
      BY <3>1 DEF Moves
  <2>3. CASE /\ Return(w, output)
             /\ task' = [task EXCEPT ![Node(w)] = [status |-> "COMPLETED", output |-> output]]
    <3>1. Returns(w)
      BY <1>0, <1>1, <1>2, <1>5, <2>3, ReturnType DEF Returns, GoesOn
    <3>2. QED
      BY <3>1 DEF Moves
  <2>4. QED
    BY <2>1, <2>2, <2>3
<1>6. QED
  BY <1>3, <1>4, <1>5

\* A commit whose answer is lost leaves the executor at its node.
LEMMA ExecutionUnheard ==
    ASSUME PlacesInv, NEW w \in Workers, NEW output \in Outputs, NEW changes \in BOOLEAN,
           AnswerLost(w, output, changes)
    PROVE  Moves(w)
<1>1. worker[w].pc = "work" /\ worker[w] # Idle /\ TypeOK
  BY DEF AnswerLost, Idle, PlacesInv
<1>2. UNCHANGED <<row, thread, queue>> /\ Holds(w) /\ Throw(w, "unheard", TRUE)
  BY DEF AnswerLost
<1>3. /\ ~ Restores(Node(w))
      /\ task' = [task EXCEPT ![Node(w)] = [status |-> "COMPLETED", output |-> output]]
  BY DEF AnswerLost, Restores
<1>4. Stays(w)
  BY <1>1, <1>2, <1>3, Throws DEF Stays, GoesOn
<1>5. QED
  BY <1>4 DEF Moves

\* Repairs happen after the last node.
LEMMA ExecutionRepairs ==
    ASSUME PlacesInv, NEW w \in Workers,
           \/ BeginRepair(w)
           \/ \E changes \in BOOLEAN : ApplyRepair(w, changes)
           \/ \E retryable \in BOOLEAN : RepairFails(w, retryable) \/ ValidationFails(w, retryable)
    PROVE  Moves(w)
<1> USE DEF data
<1>0. TypeOK
  BY DEF PlacesInv
<1>1. worker[w].pc \in {"validate", "repair"} /\ worker[w] # Idle
  BY DEF BeginRepair, ApplyRepair, RepairFails, ValidationFails, Idle
<1>2. worker[w] \in Execution /\ Len(files) \in Nat
  BY <1>0, <1>1, BusyType DEF TypeOK
<1>3. UNCHANGED <<row, thread, queue, task>>
  BY DEF BeginRepair, ApplyRepair, RepairFails, ValidationFails
<1>4. CASE BeginRepair(w)
  <2> DEFINE x == [worker[w] EXCEPT !.seen = Len(files), !.repairs = @ + 1, !.pc = "repair"]
  <2>1. worker' = [worker EXCEPT ![w] = x]
    BY <1>4 DEF BeginRepair
  <2>2. x \in Execution
    BY <1>2, SeenType
  <2>3. /\ x.pc = "repair" /\ x.delivery = worker[w].delivery /\ x.at = worker[w].at
        /\ x.outputs = worker[w].outputs
    BY <1>2 DEF Execution
  <2> HIDE DEF x
  <2>4. worker'[w] = x /\ worker' = [worker EXCEPT ![w] = worker'[w]]
    BY <1>0, <2>1, Update
  <2>5. QED
    BY <1>1, <1>3, <2>2, <2>3, <2>4 DEF Moves, Stays, GoesOn
<1>5. ASSUME NEW changes \in BOOLEAN, ApplyRepair(w, changes)
      PROVE  Moves(w)
  <2> DEFINE x == [worker[w] EXCEPT !.pc = "validate", !.seen = 0]
  <2>1. worker' = [worker EXCEPT ![w] = x]
    BY <1>5 DEF ApplyRepair
  <2>2. x \in Execution
    BY <1>2, SeenType
  <2>3. /\ x.pc = "validate" /\ x.delivery = worker[w].delivery /\ x.at = worker[w].at
        /\ x.outputs = worker[w].outputs
    BY <1>2 DEF Execution
  <2> HIDE DEF x
  <2>4. worker'[w] = x /\ worker' = [worker EXCEPT ![w] = worker'[w]]
    BY <1>0, <2>1, Update
  <2>5. QED
    BY <1>1, <1>3, <2>2, <2>3, <2>4 DEF Moves, Stays, GoesOn
<1>6. ASSUME NEW retryable \in BOOLEAN, RepairFails(w, retryable) \/ ValidationFails(w, retryable)
      PROVE  Moves(w)
  <2>1. End(w) \/ Throw(w, "raise", retryable)
    BY <1>6 DEF RepairFails, ValidationFails
  <2>2. CASE End(w)
    BY <1>1, <1>3, <2>2 DEF Ends, End, Moves, row
  <2>3. CASE Throw(w, "raise", retryable)
    <3>1. Stays(w)
      BY <1>0, <1>1, <1>3, <2>3, Throws DEF Stays, GoesOn
    <3>2. QED
      BY <3>1 DEF Moves
  <2>4. QED
    BY <2>1, <2>2, <2>3
<1>7. QED
  BY <1>4, <1>5, <1>6

LEMMA ExecutionEnds ==
    ASSUME PlacesInv, NEW w \in Workers,
           \/ RequestApproval(w) \/ CompleteRun(w) \/ Raise(w) \/ DatabaseError(w)
           \/ \E survives \in BOOLEAN : Stall(w, survives)
    PROVE  Moves(w)
<1> USE DEF data
<1>0. TypeOK
  BY DEF PlacesInv
<1>1. CASE RequestApproval(w)
  <2>1. worker[w] # Idle
    BY <1>1 DEF RequestApproval, IsAt, Idle
  <2>2. Ends(w)
    BY <1>1, <2>1 DEF RequestApproval, Ends, End, MoveTo, row
  <2>3. QED
    BY <2>2 DEF Moves
<1>2. CASE CompleteRun(w)
  <2>1. worker[w] # Idle
    BY <1>2 DEF CompleteRun, Idle
  <2>2. Ends(w)
    BY <1>2, <2>1 DEF CompleteRun, Ends, End, MoveTo, row
  <2>3. QED
    BY <2>2 DEF Moves
<1>3. CASE Raise(w)
  <2>1. worker[w] # Idle
    BY <1>3 DEF Raise, Idle
  <2> DEFINE d == worker[w].delivery
  <2>2. [d EXCEPT !.made = @ + 1] \in Delivery /\ [d EXCEPT !.made = @ + 1].job = d.job
    BY <1>0, <2>1, BusyType, RedeliveryType
  <2>3. worker' = [worker EXCEPT ![w] = Idle] /\ UNCHANGED <<task, thread>>
    BY <1>3 DEF Raise, End
  <2>4. \/ UNCHANGED <<queue, row>>
        \/ UNCHANGED row /\ queue' = queue \union {[d EXCEPT !.made = @ + 1]}
        \/ UNCHANGED <<queue, granted>> /\ Holds(w) /\ MoveTo("FAILED")
    BY <1>3 DEF Raise, Redeliver, row
  <2> HIDE DEF d
  <2>5. Ends(w)
    BY <2>1, <2>2, <2>3, <2>4 DEF Ends, MoveTo, d
  <2>6. QED
    BY <2>5 DEF Moves
<1>4. CASE DatabaseError(w)
  <2>1. worker[w] # Idle
    <3>1. worker[w].pc \in {"invoke", "enter", "start", "fail", "unheard", "save"}
      BY <1>4 DEF DatabaseError
    <3>2. QED
      BY <3>1 DEF Idle
  <2>2. Throw(w, "raise", TRUE) /\ UNCHANGED <<row, task, thread, queue>>
    BY <1>4 DEF DatabaseError
  <2>3. Stays(w)
    BY <1>0, <2>1, <2>2, Throws DEF Stays, GoesOn
  <2>4. QED
    BY <2>3 DEF Moves
<1>5. ASSUME NEW survives \in BOOLEAN, Stall(w, survives)
      PROVE  Moves(w)
  <2>1. worker[w] # Idle
    BY <1>5 DEF Stall
  <2>2. worker[w] \in Execution
    BY <1>0, <2>1, BusyType
  <2> DEFINE d == worker[w].delivery
             x == [worker[w] EXCEPT !.locked = FALSE]
  <2>3. [d EXCEPT !.stalls = @ + 1] \in Delivery /\ [d EXCEPT !.stalls = @ + 1].job = d.job
    BY <1>0, <2>1, BusyType, RedeliveryType
  <2>4. /\ UNCHANGED <<row, task, thread>>
        /\ \/ UNCHANGED queue
           \/ queue' = queue \union {[d EXCEPT !.stalls = @ + 1]}
        /\ \/ worker' = [worker EXCEPT ![w] = Idle]
           \/ StallSurvives /\ worker' = [worker EXCEPT ![w] = x]
    BY <1>5 DEF Stall, Redeliver, End
  <2>5. /\ x \in Execution /\ x.delivery = d /\ x.at = worker[w].at /\ x.pc = worker[w].pc
        /\ x.outputs = worker[w].outputs
    BY <2>2, SeenType DEF Execution
  <2> HIDE DEF x
  <2>6. CASE worker' = [worker EXCEPT ![w] = Idle]
    <3>1. Ends(w)
      BY <2>1, <2>3, <2>4, <2>6 DEF Ends
    <3>2. QED
      BY <3>1 DEF Moves
  <2>7. CASE StallSurvives /\ worker' = [worker EXCEPT ![w] = x]
    <3>1. worker'[w] = x /\ worker' = [worker EXCEPT ![w] = worker'[w]]
      BY <1>0, <2>7, Update
    <3>2. Outlives(w)
      BY <2>1, <2>3, <2>4, <2>5, <2>7, <3>1 DEF Outlives, GoesOn
    <3>3. QED
      BY <3>2 DEF Moves
  <2>8. QED
    BY <2>4, <2>6, <2>7
<1>6. QED
  BY <1>1, <1>2, <1>3, <1>4, <1>5

LEMMA ExecuteMoves ==
    ASSUME PlacesInv, NEW w \in Workers, Execute(w)
    PROVE  Moves(w)
BY ExecutionBegins, ExecutionMovesOn, ExecutionWorks, ExecutionCompletes, ExecutionUnheard,
   ExecutionRepairs, ExecutionEnds DEF Execute

-----------------------------------------------------------------------------
(* Type correctness *)

LEMMA MoveToType ==
    ASSUME TypeOK, NEW s \in {"RUNNING", "PAUSED", "FAILED", "COMPLETED"}, MoveTo(s)
    PROVE  /\ controlVersion' \in Nat /\ controlVersion' = controlVersion + 1 /\ status' = s
           /\ status' \in {"PENDING", "RUNNING", "PAUSED", "COMPLETED", "FAILED", "CANCELLED"}
BY DEF TypeOK, MoveTo

\* One agent's task gets a status, or completes with an output.
LEMMA TaskType ==
    ASSUME TypeOK, NEW n \in Agents, NEW s \in TaskStatuses, NEW output \in Outputs
    PROVE  LET Tasks == [Agents -> [status : TaskStatuses, output : Outputs \union {NoOutput}]]
           IN  /\ [task EXCEPT ![n].status = s] \in Tasks
               /\ [task EXCEPT ![n] = [status |-> "COMPLETED", output |-> output]] \in Tasks
<1> DEFINE R == [status : TaskStatuses, output : Outputs \union {NoOutput}]
<1>1. task \in [Agents -> R] /\ task[n] \in R
  BY DEF TypeOK
<1>2. [task[n] EXCEPT !.status = s] \in R
  BY <1>1
<1>3. [status |-> "COMPLETED", output |-> output] \in R
  BY DEF TaskStatuses
<1>4. [task EXCEPT ![n].status = s] = [task EXCEPT ![n] = [task[n] EXCEPT !.status = s]]
  OBVIOUS
<1> HIDE DEF R
<1>5. \A r \in R : [task EXCEPT ![n] = r] \in [Agents -> R]
  BY <1>1
<1>6. QED
  BY <1>2, <1>3, <1>4, <1>5 DEF R

LEMMA NewExecutionType ==
    ASSUME TypeOK, NEW d \in Delivery
    PROVE  /\ NewExecution(d) \in Execution /\ NewExecution(d) # Idle
           /\ NewExecution(d).pc = "invoke" /\ NewExecution(d).at = 1
           /\ NewExecution(d).delivery = d /\ NewExecution(d).outputs = NoOutputs
<1>1. 1 \in 1 .. (Len(Nodes) + 1)
  BY GraphFacts
<1>2. NoOutputs \in OutputMap
  BY DEF NoOutputs, OutputMap
<1>3. QED
  BY <1>1, <1>2 DEF NewExecution, Execution, Idle

\* An agent's node stays an agent's node.
LEMMA AtNode ==
    ASSUME PlacesInv, NEW w \in Workers, worker[w] # Idle,
           worker[w].pc \in AtAgent \/ IsAt(w, Agents)
    PROVE  worker[w].at <= Len(Nodes) /\ Node(w) \in Agents
BY DEF PlacesInv, Placed, IsAt

LEMMA GoesOnPlaces ==
    ASSUME PlacesInv, NEW w \in Workers, GoesOn(w),
           /\ worker'[w].pc \in AtAgent => worker'[w].at <= Len(Nodes) /\ Nodes[worker'[w].at] \in Agents
           /\ worker'[w].pc \in {"validate", "repair"} => worker'[w].at = Len(Nodes) + 1
           /\ worker'[w].pc = "invoke" => worker'[w].at = 1
    PROVE  /\ worker' \in [Workers -> Execution \union {Idle}]
           /\ \A v \in Workers : worker'[v] # Idle => Placed(v)'
<1>1. PICK x \in Execution : x = worker'[w] /\ worker' = [worker EXCEPT ![w] = x]
  BY DEF GoesOn
<1>2. QED
  BY <1>1, WorkerPlaced

\* Where the executions are after a step.
LEMMA MovesPlaced ==
    ASSUME PlacesInv, NEW w \in Workers, Moves(w)
    PROVE  /\ worker' \in [Workers -> Execution \union {Idle}]
           /\ \A v \in Workers : worker'[v] # Idle => Placed(v)'
<1>0. TypeOK /\ worker \in [Workers -> Execution \union {Idle}]
  BY DEF PlacesInv, TypeOK
<1>1. CASE Claimed(w)
  <2>1. CASE UNCHANGED worker
    BY <1>0, <2>1 DEF PlacesInv, Placed, Node
  <2>2. ASSUME NEW d \in queue, worker' = [worker EXCEPT ![w] = NewExecution(d)]
        PROVE  /\ worker' \in [Workers -> Execution \union {Idle}]
               /\ \A v \in Workers : worker'[v] # Idle => Placed(v)'
    <3>1. d \in Delivery
      BY <1>0 DEF TypeOK
    <3> DEFINE x == NewExecution(d)
    <3>2. x \in Execution /\ x.pc = "invoke" /\ x.at = 1
      BY <1>0, <3>1, NewExecutionType
    <3>3. worker' = [worker EXCEPT ![w] = x]
      BY <2>2
    <3> HIDE DEF x
    <3>4. QED
      BY <3>2, <3>3, WorkerPlaced DEF AtAgent
  <2>3. QED
    BY <1>1, <2>1, <2>2 DEF Claimed
<1>2. CASE Ends(w)
  <2>1. worker' = [worker EXCEPT ![w] = Idle]
    BY <1>2 DEF Ends
  <2>2. QED
    BY <2>1, WorkerPlaced
<1>3. CASE Stays(w) \/ Outlives(w)
  <2>1. GoesOn(w) /\ worker[w] # Idle /\ worker'[w].at = worker[w].at
    BY <1>3 DEF Stays, Outlives, GoesOn
  <2>2. worker'[w].pc \in AtAgent => worker[w].pc \in AtAgent \/ IsAt(w, Agents)
    BY <1>3 DEF Stays, Outlives, AtAgent
  <2>3. worker'[w].pc \in {"validate", "repair"} => worker[w].pc \in {"validate", "repair"}
    BY <1>3 DEF Stays, Outlives
  <2>4. worker'[w].pc = "invoke" => worker[w].pc = "invoke"
    BY <1>3 DEF Stays, Outlives
  <2>5. worker'[w].pc \in AtAgent => worker[w].at <= Len(Nodes) /\ Nodes[worker[w].at] \in Agents
    BY <2>1, <2>2, AtNode DEF Node
  <2>6. /\ worker'[w].pc \in {"validate", "repair"} => worker[w].at = Len(Nodes) + 1
        /\ worker'[w].pc = "invoke" => worker[w].at = 1
    BY <2>1, <2>3, <2>4 DEF PlacesInv, Placed
  <2>7. QED
    BY <2>1, <2>5, <2>6, GoesOnPlaces
<1>4. CASE Returns(w)
  <2>1. GoesOn(w) /\ worker[w] # Idle /\ worker'[w].at = worker[w].at /\ worker'[w].pc = "save"
    BY <1>4 DEF Returns, GoesOn
  <2>2. worker[w].pc \in AtAgent \/ IsAt(w, Agents)
    BY <1>4 DEF Returns, AtAgent
  <2>3. worker[w].at <= Len(Nodes) /\ Nodes[worker[w].at] \in Agents
    BY <2>1, <2>2, AtNode DEF Node
  <2>4. QED
    BY <2>1, <2>3, GoesOnPlaces
<1>5. CASE Skipped(w) \/ Passed(w) \/ Saved(w)
  <2>1. GoesOn(w) /\ worker[w] # Idle /\ worker[w] \in Execution
    BY <1>0, <1>5, BusyType DEF Skipped, Passed, Saved, GoesOn
  <2>2. worker[w].at <= Len(Nodes)
    BY <1>5, <2>1, AtNode DEF Skipped, Passed, Saved, IsAt, AtAgent
  <2>3. /\ worker'[w].at = worker[w].at + 1
        /\ worker'[w].pc = IF worker[w].at = Len(Nodes) THEN "validate" ELSE "enter"
    BY <1>5, <2>1, <2>2, NextNodeType DEF Skipped, Passed, Saved
  <2>4. QED
    BY <2>1, <2>3, GoesOnPlaces DEF AtAgent
<1>6. CASE Invoked(w)
  <2>1. GoesOn(w) /\ worker'[w].pc = "enter"
    BY <1>6 DEF Invoked
  <2>2. QED
    BY <2>1, GoesOnPlaces DEF AtAgent
<1>7. QED
  BY <1>1, <1>2, <1>3, <1>4, <1>5, <1>6 DEF Moves

\* An execution never touches the plan or a person's editor.
LEMMA ExecutorRest ==
    ASSUME NEW w \in Workers, Execute(w)
    PROVE  UNCHANGED <<entitled, editor>>
<1> USE DEF data
<1>1. CASE \E d \in queue : ClaimRun(w, d)
  BY <1>1 DEF ClaimRun
<1>2. CASE Invoke(w) \/ SaveCheckpoint(w)
  BY <1>2 DEF Invoke, SaveCheckpoint
<1>3. CASE SkipTask(w) \/ PrepareTask(w) \/ StartTask(w) \/ ListFiles(w)
  BY <1>3 DEF SkipTask, PrepareTask, StartTask, ListFiles
<1>4. CASE \E output \in Outputs, changes \in BOOLEAN :
            CompleteTask(w, output, changes) \/ AnswerLost(w, output, changes)
  BY <1>4 DEF CompleteTask, AnswerLost
<1>5. CASE \E retryable \in BOOLEAN : AgentError(w, retryable)
  BY <1>5 DEF AgentError
<1>6. CASE FailTask(w) \/ PassGate(w) \/ RequestApproval(w) \/ BeginRepair(w)
  BY <1>6 DEF FailTask, PassGate, RequestApproval, BeginRepair
<1>7. CASE \E changes \in BOOLEAN : ApplyRepair(w, changes)
  BY <1>7 DEF ApplyRepair
<1>8. CASE \E retryable \in BOOLEAN : RepairFails(w, retryable) \/ ValidationFails(w, retryable)
  BY <1>8 DEF RepairFails, ValidationFails
<1>9. CASE CompleteRun(w) \/ Raise(w) \/ DatabaseError(w)
  BY <1>9 DEF CompleteRun, Raise, DatabaseError
<1>10. CASE \E survives \in BOOLEAN : Stall(w, survives)
  BY <1>10 DEF Stall
<1>11. QED
  BY <1>1, <1>2, <1>3, <1>4, <1>5, <1>6, <1>7, <1>8, <1>9, <1>10 DEF Execute

\* What a step leaves in the run row, the queue, the tasks and the checkpoint.
LEMMA MovesType ==
    ASSUME PlacesInv, NEW w \in Workers, Moves(w)
    PROVE  /\ status' \in {"PENDING", "RUNNING", "PAUSED", "COMPLETED", "FAILED", "CANCELLED"}
           /\ controlVersion' \in Nat /\ granted' \in SUBSET {"plan", "content"}
           /\ queue' \in SUBSET Delivery
           /\ thread' \in OutputMap
           /\ task' \in [Agents -> [status : TaskStatuses, output : Outputs \union {NoOutput}]]
<1> DEFINE Rows == /\ status' \in {"PENDING", "RUNNING", "PAUSED", "COMPLETED", "FAILED", "CANCELLED"}
                   /\ controlVersion' \in Nat /\ granted' \in SUBSET {"plan", "content"}
           Tasks == [Agents -> [status : TaskStatuses, output : Outputs \union {NoOutput}]]
           Others == queue' \in SUBSET Delivery /\ thread' \in OutputMap /\ task' \in Tasks
<1>0. /\ TypeOK /\ queue \in SUBSET Delivery /\ thread \in OutputMap /\ task \in Tasks
      /\ granted \in SUBSET {"plan", "content"} /\ controlVersion \in Nat
      /\ status \in {"PENDING", "RUNNING", "PAUSED", "COMPLETED", "FAILED", "CANCELLED"}
  BY DEF PlacesInv, TypeOK
<1>1. UNCHANGED row => Rows
  BY <1>0 DEF row
<1>2. \A s \in {"RUNNING", "PAUSED", "FAILED", "COMPLETED"} : MoveTo(s) /\ UNCHANGED granted => Rows
  BY <1>0, MoveToType
<1>3. \A d \in Delivery : queue' = queue \union {d} => queue' \in SUBSET Delivery
  BY <1>0
<1>4. ASSUME NEW n \in Agents
      PROVE  /\ \A s \in TaskStatuses : task' = [task EXCEPT ![n].status = s] => task' \in Tasks
             /\ \A output \in Outputs :
                  task' = [task EXCEPT ![n] = [status |-> "COMPLETED", output |-> output]]
                    => task' \in Tasks
  BY <1>0, TaskType DEF Outputs
<1> HIDE DEF Rows, Tasks
<1>5. CASE Claimed(w)
  <2>1. Rows
    BY <1>1, <1>2, <1>5 DEF Claimed
  <2>2. Others
    BY <1>0, <1>5 DEF Claimed
  <2>3. QED
    BY <2>1, <2>2 DEF Rows, Tasks
<1>6. CASE Ends(w)
  <2>1. Rows
    <3>1. CASE UNCHANGED row
      BY <1>1, <3>1
    <3>2. CASE UNCHANGED granted /\ MoveTo(status') /\ status' \in {"PAUSED", "FAILED", "COMPLETED"}
      BY <1>2, <3>2
    <3>3. QED
      BY <1>6, <3>1, <3>2 DEF Ends
  <2>2. Others
    BY <1>0, <1>3, <1>6 DEF Ends
  <2>3. QED
    BY <2>1, <2>2 DEF Rows, Tasks
<1>7. CASE Stays(w)
  <2>1. Rows
    BY <1>1, <1>7 DEF Stays, GoesOn
  <2>2. worker[w] # Idle
    BY <1>7 DEF Stays, GoesOn
  <2>3. task' \in Tasks
    <3>1. CASE UNCHANGED task
      BY <1>0, <3>1
    <3>2. CASE worker[w].pc \in AtAgent \/ IsAt(w, Agents)
      <4>1. Node(w) \in Agents
        BY <2>2, <3>2, AtNode
      <4>2. \/ UNCHANGED task
            \/ \E s \in {"FAILED", "PENDING", "RUNNING"} : task' = [task EXCEPT ![Node(w)].status = s]
            \/ \E output \in Outputs :
                  task' = [task EXCEPT ![Node(w)] = [status |-> "COMPLETED", output |-> output]]
        BY <1>7 DEF Stays
      <4>3. QED
        BY <1>0, <1>4, <4>1, <4>2 DEF TaskStatuses
    <3>3. QED
      BY <1>7, <3>1, <3>2 DEF Stays, AtAgent
  <2>4. Others
    BY <1>0, <1>7, <2>3 DEF Stays
  <2>5. QED
    BY <2>1, <2>4 DEF Rows, Tasks
<1>8. CASE Returns(w)
  <2>1. Rows
    BY <1>1, <1>8 DEF Returns, GoesOn
  <2>2. Node(w) \in Agents
    <3>1. worker[w] # Idle /\ (worker[w].pc \in AtAgent \/ IsAt(w, Agents))
      BY <1>8 DEF Returns, GoesOn, AtAgent
    <3>2. QED
      BY <3>1, AtNode
  <2>3. Others
    BY <1>0, <1>4, <1>8, <2>2 DEF Returns
  <2>4. QED
    BY <2>1, <2>3 DEF Rows, Tasks
<1>9. CASE Skipped(w)
  <2>1. Rows
    BY <1>1, <1>9 DEF Skipped, GoesOn
  <2>2. Node(w) \in Agents
    BY <1>9 DEF Skipped, IsAt
  <2>3. Others
    BY <1>0, <1>4, <1>9, <2>2 DEF Skipped, TaskStatuses
  <2>4. QED
    BY <2>1, <2>3 DEF Rows, Tasks
<1>10. CASE Passed(w) \/ Saved(w) \/ Invoked(w) \/ Outlives(w)
  <2>1. Rows
    BY <1>1, <1>10 DEF Passed, Saved, Invoked, Outlives, GoesOn
  <2>2. thread' \in OutputMap
    BY <1>0, <1>10, BusyType DEF Passed, Saved, Invoked, Outlives, GoesOn
  <2>3. Others
    BY <1>0, <1>3, <1>10, <2>2 DEF Passed, Saved, Invoked, Outlives
  <2>4. QED
    BY <2>1, <2>3 DEF Rows, Tasks
<1>11. QED
  BY <1>5, <1>6, <1>7, <1>8, <1>9, <1>10 DEF Moves

LEMMA FilesStepType ==
    ASSUME TypeOK, FilesStep
    PROVE  files' \in Seq(Revision)
<1>1. files \in Seq(Revision) /\ Len(files) \in Nat
  BY DEF TypeOK
<1>2. CASE UNCHANGED files
  BY <1>1, <1>2
<1>3. ASSUME NEW who \in {"person", "agent"}, AddRevision(who, Len(files))
      PROVE  files' \in Seq(Revision)
  <2> DEFINE r == [by |-> who, base |-> Len(files)]
  <2>1. r \in Revision
    BY <1>1 DEF Revision
  <2>2. files' = Append(files, r)
    BY <1>3 DEF AddRevision
  <2> HIDE DEF r
  <2>3. QED
    BY <1>1, <2>1, <2>2
<1>4. QED
  BY <1>2, <1>3 DEF FilesStep

LEMMA ExecutePlaces ==
    ASSUME PlacesInv, NEW w \in Workers, Execute(w)
    PROVE  PlacesInv'
<1>1. Moves(w)
  BY ExecuteMoves
<1>2. /\ worker' \in [Workers -> Execution \union {Idle}]
      /\ \A v \in Workers : worker'[v] # Idle => Placed(v)'
  BY <1>1, MovesPlaced
<1>3. files' \in Seq(Revision)
  BY ExecutorFiles, FilesStepType DEF PlacesInv
<1>4. entitled' \in BOOLEAN /\ editor' \in Nat
  BY ExecutorRest DEF PlacesInv, TypeOK
<1>5. TypeOK'
  BY <1>1, <1>2, <1>3, <1>4, MovesType DEF TypeOK
<1>6. QED
  BY <1>2, <1>5 DEF PlacesInv

LEMMA InitPlaces ==
    ASSUME Init
    PROVE  PlacesInv
<1>1. NewDelivery("start", 0) \in Delivery
  BY DEF NewDelivery, Delivery, Job
<1>2. [status |-> "NONE", output |-> NoOutput] \in [status : TaskStatuses, output : Outputs \union {NoOutput}]
  BY DEF TaskStatuses
<1>3. TypeOK
  BY <1>1, <1>2 DEF Init, TypeOK, NoOutputs, OutputMap
<1>4. QED
  BY <1>3 DEF Init, PlacesInv

LEMMA NextPlaces == PlacesInv /\ [Next]_vars => PlacesInv'
<1> SUFFICES ASSUME PlacesInv, [Next]_vars
             PROVE  PlacesInv'
  OBVIOUS
<1>1. CASE Person
  BY <1>1, PersonPlaces
<1>2. CASE \E w \in Workers : Execute(w)
  BY <1>2, ExecutePlaces
<1>3. CASE UNCHANGED vars
  <2>1. TypeOK'
    BY <1>3 DEF PlacesInv, TypeOK, vars, row, data
  <2>2. worker' = worker
    BY <1>3 DEF vars
  <2>3. QED
    BY <2>1, <2>2 DEF PlacesInv, Placed, Node
<1>4. QED
  BY <1>1, <1>2, <1>3 DEF Next

\* Every action keeps the stored run, its tasks, its checkpoint and every
\* execution in shape; and an execution works on a task at an agent's node only.
THEOREM TypeCorrect == Spec => []TypeOK
<1>1. Init => PlacesInv
  BY InitPlaces
<1>2. PlacesInv => TypeOK
  BY DEF PlacesInv
<1>3. QED
  BY <1>1, <1>2, NextPlaces, PTL DEF Spec

-----------------------------------------------------------------------------
(* One executor per job *)

LEMMA VersionTypes ==
    ASSUME TypeOK
    PROVE  /\ controlVersion \in Nat
           /\ \A d \in queue : d \in Delivery /\ d.job \in Job /\ d.job.version \in Nat
           /\ \A v \in Workers : worker[v] # Idle => Versions(v) \in Nat
<1>1. \A v \in Workers : worker[v] # Idle => Versions(v) \in Nat
  BY BusyType
<1>2. \A d \in Delivery : d.job \in Job /\ d.job.version \in Nat
  BY DEF Delivery, Job
<1>3. QED
  BY <1>1, <1>2 DEF TypeOK

\* A step of w is about w only.
LEMMA OthersStay ==
    ASSUME PlacesInv, NEW w \in Workers, Moves(w), NEW v \in Workers \ {w}
    PROVE  worker'[v] = worker[v]
<1>1. worker \in [Workers -> Execution \union {Idle}]
  BY DEF PlacesInv, TypeOK
<1>2. \/ worker' = worker
      \/ \E x : worker' = [worker EXCEPT ![w] = x]
  BY DEF Moves, Claimed, Ends, Stays, Returns, Skipped, Passed, Saved, Invoked, Outlives, GoesOn
<1>3. QED
  BY <1>1, <1>2

\* A step that moves the run row is of a claim or of an end: it writes no task.
LEMMA RowMoves ==
    ASSUME PlacesInv, NEW w \in Workers, Moves(w)
    PROVE  /\ granted' = granted
           /\ \/ UNCHANGED row
              \/ controlVersion' = controlVersion + 1 /\ UNCHANGED <<task, thread>>
BY DEF Moves, Claimed, Ends, Stays, Returns, Skipped, Passed, Saved, Invoked, Outlives, GoesOn,
       MoveTo, row

\* Two executors of one job never coexist unless a worker outlives its stall.
LEMMA MovesSingle ==
    ASSUME PlacesInv, JobsSingle, ~ StallSurvives, NEW w \in Workers, Moves(w)
    PROVE  JobsSingle'
<1>0. TypeOK
  BY DEF PlacesInv
<1>a. /\ controlVersion \in Nat
      /\ \A d \in queue : d \in Delivery /\ d.job.version \in Nat
      /\ \A v \in Workers : worker[v] # Idle => Versions(v) \in Nat
  BY <1>0, VersionTypes
<1>b. \A v \in Workers \ {w} : worker'[v] = worker[v]
  BY OthersStay
<1>c. controlVersion' = controlVersion \/ controlVersion' = controlVersion + 1
  BY RowMoves DEF row
<1>1. CASE Claimed(w)
  <2>1. PICK d \in queue :
          /\ queue' = queue \ {d}
          /\ \/ UNCHANGED <<worker, row>>
             \/ /\ worker' = [worker EXCEPT ![w] = NewExecution(d)]
                /\ UNCHANGED row
                /\ status = "RUNNING" /\ controlVersion = d.job.version + 1
             \/ /\ worker' = [worker EXCEPT ![w] = NewExecution(d)]
                /\ MoveTo("RUNNING") /\ UNCHANGED granted
                /\ status = "PENDING" /\ controlVersion = d.job.version
    BY <1>1 DEF Claimed
  <2>2. CASE UNCHANGED <<worker, row>>
    BY <2>1, <2>2 DEF JobsSingle, Versions, row
  <2>3. CASE /\ worker' = [worker EXCEPT ![w] = NewExecution(d)]
             /\ controlVersion' = d.job.version + 1
    <3>1. d \in Delivery
      BY <1>a
    <3>2. worker'[w] = NewExecution(d) /\ NewExecution(d).delivery = d
      BY <1>0, <2>3, <3>1, Update, NewExecutionType
    <3>3. Versions(w)' = d.job.version
      BY <3>2 DEF Versions
    <3>4. \A v \in Workers \ {w} : Versions(v)' = Versions(v)
      BY <1>b DEF Versions
    <3>5. QED
      BY <1>a, <1>b, <1>c, <2>1, <2>3, <3>3, <3>4 DEF JobsSingle
  <2>4. QED
    BY <2>1, <2>2, <2>3 DEF MoveTo, row
<1>2. CASE Ends(w)
  <2>1. worker[w] # Idle /\ worker'[w] = Idle
    BY <1>0, <1>2, Update DEF Ends
  <2>2. \A v \in Workers \ {w} : Versions(v)' = Versions(v)
    BY <1>b DEF Versions
  <2>3. \/ UNCHANGED queue
        \/ \E d \in Delivery : d.job = worker[w].delivery.job /\ queue' = queue \union {d}
    BY <1>2 DEF Ends
  <2>4. CASE UNCHANGED queue
    BY <1>a, <1>b, <1>c, <2>1, <2>2, <2>4 DEF JobsSingle
  <2>5. ASSUME NEW d \in Delivery, d.job = worker[w].delivery.job, queue' = queue \union {d}
        PROVE  JobsSingle'
    <3>1. d.job.version = Versions(w)
      BY <2>5 DEF Versions
    <3>2. QED
      BY <1>a, <1>b, <1>c, <2>1, <2>2, <2>5, <3>1 DEF JobsSingle
  <2>6. QED
    BY <2>3, <2>4, <2>5
<1>3. CASE Stays(w) \/ Returns(w) \/ Skipped(w) \/ Passed(w) \/ Saved(w) \/ Invoked(w)
  <2>1. GoesOn(w) /\ queue' = queue
    BY <1>3 DEF Stays, Returns, Skipped, Passed, Saved, Invoked
  <2>2. \A v \in Workers : Versions(v)' = Versions(v) /\ (worker'[v] # Idle => worker[v] # Idle)
    BY <1>b, <2>1 DEF Versions, GoesOn
  <2>3. QED
    BY <2>1, <2>2 DEF JobsSingle, GoesOn, row
<1>4. QED
  BY <1>1, <1>2, <1>3 DEF Moves, Outlives

LEMMA PersonSingle ==
    ASSUME PlacesInv, JobsSingle, Person
    PROVE  JobsSingle' /\ UNCHANGED <<worker, task, thread>>
<1> USE DEF data, row
<1>0. /\ controlVersion \in Nat
      /\ \A d \in queue : d \in Delivery /\ d.job.version \in Nat
      /\ \A v \in Workers : worker[v] # Idle => Versions(v) \in Nat
  BY VersionTypes DEF PlacesInv
<1>1. CASE \E s \in {"PAUSED", "CANCELLED"} : Stop(s)
  BY <1>0, <1>1 DEF Stop, MoveTo, JobsSingle, Versions
<1>2. ASSUME NEW command \in {"resume", "retry", "plan", "content"}, Continue(command)
      PROVE  JobsSingle' /\ UNCHANGED <<worker, task, thread>>
  <2> DEFINE e == NewDelivery(command, controlVersion + 1)
  <2>1. e.job.version = controlVersion + 1
    BY DEF NewDelivery
  <2>2. /\ queue' = queue \union {e} /\ controlVersion' = controlVersion + 1
        /\ UNCHANGED <<worker, task, thread>>
    BY <1>2 DEF Continue, MoveTo
  <2> HIDE DEF e
  <2>3. QED
    BY <1>0, <2>1, <2>2 DEF JobsSingle, Versions
<1>3. CASE ChangePlan \/ OpenFile \/ PutProjectFile
  BY <1>3 DEF ChangePlan, OpenFile, PutProjectFile, JobsSingle, Versions
<1>4. QED
  BY <1>1, <1>2, <1>3 DEF Person

-----------------------------------------------------------------------------
(* Tasks: what is done stays done, and every copy of a result is the       *)
(* result.                                                                 *)

TaskShape ==
    \A n \in Agents :
      /\ task[n].status = "COMPLETED" => task[n].output # NoOutput
      /\ task[n].status \in {"NONE", "SKIPPED"} => task[n].output = NoOutput

\* Nobody has a copy of n's result yet.
Uncopied(n) ==
    /\ thread[n] = NoOutput
    /\ \A v \in Workers : worker[v] # Idle => worker[v].outputs[n] = NoOutput

\* The one executor that can still write has its task RUNNING or, where it did
\* not hear of its commit, COMPLETED with a result nobody has taken yet.
Working(w) ==
    Holds(w) => /\ worker[w].pc \in {"list", "work", "fail"} => task[Node(w)].status = "RUNNING"
                /\ worker[w].pc = "unheard" => /\ task[Node(w)].status = "COMPLETED"
                                               /\ Uncopied(Node(w))

Saving(w) == worker[w].pc = "save" => worker[w].outputs[Node(w)] # NoOutput

Agrees(outputs) ==
    \A n \in Agents : outputs[n] # NoOutput =>
        task[n].status = "COMPLETED" /\ task[n].output = outputs[n]

Carries(w) == Working(w) /\ Saving(w) /\ Agrees(worker[w].outputs)

SingleInv ==
    /\ PlacesInv /\ JobsSingle
    /\ TaskShape /\ Agrees(thread)
    /\ \A w \in Workers : worker[w] # Idle => Carries(w)

CompletedStays ==
    \A n \in Agents : task[n].status = "COMPLETED" =>
        \/ task'[n] = task[n]
        \/ Unheard(n) /\ task'[n] = [task[n] EXCEPT !.status = "FAILED"]

LEMMA UnheardUncopied ==
    ASSUME SingleInv, NEW n \in Agents, Unheard(n)
    PROVE  Uncopied(n)
<1>1. PICK w \in Workers : worker[w].pc = "unheard" /\ Node(w) = n /\ Holds(w)
  BY DEF Unheard
<1>2. worker[w] # Idle
  BY <1>1 DEF Idle
<1>3. QED
  BY <1>1, <1>2 DEF SingleInv, Carries, Working

\* A step writes at most the task its executor is at, and a completed one only
\* where the executor that completed it never heard so.
LEMMA MovesTasks ==
    ASSUME SingleInv, NEW w \in Workers, Moves(w)
    PROVE  /\ CompletedStays /\ TaskShape'
           /\ \/ task' = task
              \/ /\ UNCHANGED row /\ Holds(w) /\ worker[w] # Idle
                 /\ \A n \in Agents \ {Node(w)} : task'[n] = task[n]
<1> DEFINE R == [status : TaskStatuses, output : Outputs \union {NoOutput}]
<1>0. TypeOK /\ PlacesInv /\ task \in [Agents -> R] /\ TaskShape
  BY DEF SingleInv, PlacesInv, TypeOK
<1>1. ASSUME NEW n \in Agents, NEW s \in TaskStatuses \ {"COMPLETED"},
             task[n].status = "COMPLETED" => Unheard(n) /\ s = "FAILED",
             s \in {"NONE", "SKIPPED"} => task[n].status = "NONE",
             task' = [task EXCEPT ![n].status = s]
      PROVE  /\ CompletedStays /\ TaskShape'
             /\ \A m \in Agents \ {n} : task'[m] = task[m]
  <2>1. task[n] \in R
    BY <1>0
  <2>2. /\ task'[n] = [task[n] EXCEPT !.status = s]
        /\ task'[n].status = s /\ task'[n].output = task[n].output
        /\ \A m \in Agents \ {n} : task'[m] = task[m]
    BY <1>0, <1>1, <2>1
  <2>3. CompletedStays
    BY <1>1, <2>2 DEF CompletedStays
  <2>4. TaskShape'
    BY <1>0, <1>1, <2>2 DEF TaskShape
  <2>5. QED
    BY <2>2, <2>3, <2>4
<1>2. ASSUME NEW n \in Agents, task[n].status # "COMPLETED", NEW output \in Outputs,
             task' = [task EXCEPT ![n] = [status |-> "COMPLETED", output |-> output]]
      PROVE  /\ CompletedStays /\ TaskShape'
             /\ \A m \in Agents \ {n} : task'[m] = task[m]
  <2>1. /\ task'[n] = [status |-> "COMPLETED", output |-> output]
        /\ \A m \in Agents \ {n} : task'[m] = task[m]
    BY <1>0, <1>2
  <2>2. output # NoOutput
    BY DEF Outputs, NoOutput
  <2>3. QED
    BY <1>0, <1>2, <2>1, <2>2 DEF CompletedStays, TaskShape
<1>3. task' = task => CompletedStays /\ TaskShape'
  BY <1>0 DEF CompletedStays, TaskShape
<1> HIDE DEF R
<1>4. CASE Stays(w)
  <2>1. worker[w] # Idle /\ UNCHANGED row
    BY <1>4 DEF Stays, GoesOn
  <2>2. CASE task' = task
    BY <1>3, <2>2
  <2>3. CASE /\ worker[w].pc \in {"fail", "unheard"} /\ Holds(w)
             /\ task' = [task EXCEPT ![Node(w)].status = "FAILED"]
    <3>1. Node(w) \in Agents
      BY <1>0, <2>1, <2>3, AtNode DEF AtAgent
    <3>2. worker[w].pc = "fail" => task[Node(w)].status = "RUNNING"
      BY <2>1, <2>3 DEF SingleInv, Carries, Working
    <3>3. worker[w].pc = "unheard" => Unheard(Node(w))
      BY <2>3 DEF Unheard
    <3>4. QED
      BY <1>1, <2>1, <2>3, <3>1, <3>2, <3>3 DEF TaskStatuses
  <2>4. CASE /\ IsAt(w, Agents) /\ Holds(w) /\ task[Node(w)].status = "NONE"
             /\ task' = [task EXCEPT ![Node(w)].status = "PENDING"]
    <3>1. Node(w) \in Agents
      BY <2>4 DEF IsAt
    <3>2. QED
      BY <1>1, <2>1, <2>4, <3>1 DEF TaskStatuses
  <2>5. CASE /\ worker[w].pc = "start" /\ Holds(w) /\ ~ Restores(Node(w))
             /\ task' = [task EXCEPT ![Node(w)].status = "RUNNING"]
    <3>1. Node(w) \in Agents
      BY <1>0, <2>1, <2>5, AtNode DEF AtAgent
    <3>2. task[Node(w)].status # "COMPLETED"
      BY <2>5 DEF Restores
    <3>3. QED
      BY <1>1, <2>1, <2>5, <3>1, <3>2 DEF TaskStatuses
  <2>6. ASSUME NEW output \in Outputs, worker[w].pc = "work", Holds(w), ~ Restores(Node(w)),
               task' = [task EXCEPT ![Node(w)] = [status |-> "COMPLETED", output |-> output]]
        PROVE  /\ CompletedStays /\ TaskShape'
               /\ \A n \in Agents \ {Node(w)} : task'[n] = task[n]
    <3>1. Node(w) \in Agents
      BY <1>0, <2>1, <2>6, AtNode DEF AtAgent
    <3>2. task[Node(w)].status # "COMPLETED"
      BY <2>6 DEF Restores
    <3>3. QED
      BY <1>2, <2>6, <3>1, <3>2
  <2>7. QED
    BY <1>4, <2>1, <2>2, <2>3, <2>4, <2>5, <2>6 DEF Stays
<1>5. CASE Returns(w)
  <2>1. worker[w] # Idle /\ UNCHANGED row /\ Holds(w)
    BY <1>5 DEF Returns, GoesOn
  <2>2. CASE task' = task
    BY <1>3, <2>2
  <2>3. ASSUME NEW output \in Outputs, worker[w].pc = "work", ~ Restores(Node(w)),
               task' = [task EXCEPT ![Node(w)] = [status |-> "COMPLETED", output |-> output]]
        PROVE  /\ CompletedStays /\ TaskShape'
               /\ \A n \in Agents \ {Node(w)} : task'[n] = task[n]
    <3>1. Node(w) \in Agents
      BY <1>0, <2>1, <2>3, AtNode DEF AtAgent
    <3>2. task[Node(w)].status # "COMPLETED"
      BY <2>3 DEF Restores
    <3>3. QED
      BY <1>2, <2>3, <3>1, <3>2
  <2>4. QED
    BY <1>5, <2>1, <2>2, <2>3 DEF Returns
<1>6. CASE Skipped(w)
  <2>1. worker[w] # Idle /\ UNCHANGED row /\ Holds(w) /\ Node(w) \in Agents
    BY <1>6 DEF Skipped, GoesOn, IsAt
  <2>2. CASE task' = task
    BY <1>3, <2>2
  <2>3. CASE task[Node(w)].status = "NONE" /\ task' = [task EXCEPT ![Node(w)].status = "SKIPPED"]
    BY <1>1, <2>1, <2>3 DEF TaskStatuses
  <2>4. QED
    BY <1>6, <2>2, <2>3 DEF Skipped
<1>7. CASE Claimed(w) \/ Ends(w) \/ Passed(w) \/ Saved(w) \/ Invoked(w) \/ Outlives(w)
  <2>1. task' = task
    BY <1>7 DEF Claimed, Ends, Passed, Saved, Invoked, Outlives
  <2>2. QED
    BY <1>3, <2>1
<1>8. QED
  BY <1>4, <1>5, <1>6, <1>7 DEF Moves

\* Copies of results that are done stay good.
LEMMA AgreesKept ==
    ASSUME SingleInv, CompletedStays, NEW outputs,
           outputs = thread \/ \E v \in Workers : worker[v] # Idle /\ outputs = worker[v].outputs
    PROVE  \A n \in Agents : outputs[n] # NoOutput =>
               task'[n].status = "COMPLETED" /\ task'[n].output = outputs[n]
<1> SUFFICES ASSUME NEW n \in Agents, outputs[n] # NoOutput
             PROVE  task'[n].status = "COMPLETED" /\ task'[n].output = outputs[n]
  OBVIOUS
<1>1. task[n].status = "COMPLETED" /\ task[n].output = outputs[n]
  BY DEF SingleInv, Carries, Agrees
<1>2. ~ Unheard(n)
  BY UnheardUncopied DEF Uncopied
<1>3. QED
  BY <1>1, <1>2 DEF CompletedStays

\* A result nobody has taken is taken by the executor that returns it.
LEMMA UncopiedKept ==
    ASSUME SingleInv, NEW w \in Workers, Moves(w), NEW n \in Agents, Uncopied(n),
           Returns(w) => Node(w) # n
    PROVE  Uncopied(n)'
<1>0. TypeOK /\ \A v \in Workers \ {w} : worker'[v] = worker[v]
  BY OthersStay DEF SingleInv, PlacesInv
<1>1. thread'[n] = NoOutput
  BY DEF Moves, Claimed, Ends, Stays, Returns, Skipped, Passed, Saved, Invoked, Outlives, GoesOn,
         Uncopied
<1>2. ASSUME worker'[w] # Idle
      PROVE  worker'[w].outputs[n] = NoOutput
  <2>1. CASE Claimed(w)
    <3>1. PICK d \in queue : worker' = worker \/ worker' = [worker EXCEPT ![w] = NewExecution(d)]
      BY <2>1 DEF Claimed
    <3>2. worker'[w] = NewExecution(d)
      BY <1>0, <1>2, <2>1, <3>1, Update DEF Claimed
    <3>3. worker'[w].outputs = NoOutputs
      BY <1>0, <3>2, NewExecutionType, VersionTypes
    <3>4. QED
      BY <3>3 DEF NoOutputs
  <2>2. CASE Ends(w)
    BY <1>0, <1>2, <2>2, Update DEF Ends
  <2>3. CASE Returns(w)
    <3>1. worker[w] # Idle /\ worker[w].outputs \in OutputMap /\ Node(w) # n
      BY <1>0, <2>3, BusyType DEF Returns, GoesOn
    <3>2. worker'[w].outputs[n] = worker[w].outputs[n]
      BY <2>3, <3>1 DEF Returns, OutputMap
    <3>3. QED
      BY <3>1, <3>2 DEF Uncopied
  <2>4. CASE Skipped(w) \/ Passed(w) \/ Saved(w) \/ Stays(w)
    <3>1. worker[w] # Idle /\ worker[w] \in Execution
      BY <1>0, <2>4, BusyType DEF Skipped, Passed, Saved, Stays, GoesOn
    <3>2. worker[w].at <= Len(Nodes) \/ Stays(w)
      BY <2>4, <3>1, AtNode DEF Skipped, Passed, Saved, IsAt, AtAgent, SingleInv
    <3>3. worker'[w].outputs = worker[w].outputs
      BY <2>4, <3>1, <3>2, NextNodeType DEF Skipped, Passed, Saved, Stays
    <3>4. QED
      BY <3>1, <3>3 DEF Uncopied
  <2>5. CASE Invoked(w)
    BY <2>5 DEF Invoked, Uncopied
  <2>6. CASE Outlives(w)
    BY <2>6 DEF Outlives, GoesOn, Uncopied
  <2>7. QED
    BY <2>1, <2>2, <2>3, <2>4, <2>5, <2>6 DEF Moves
<1>3. QED
  BY <1>0, <1>1, <1>2 DEF Uncopied

\* Two executors never hold the run together.
LEMMA OneHolder ==
    ASSUME SingleInv, NEW v \in Workers, NEW w \in Workers, worker[v] # Idle, worker[w] # Idle,
           Holds(v), Holds(w)
    PROVE  v = w
<1>1. Versions(w) \in Nat /\ Versions(v) \in Nat
  BY VersionTypes DEF SingleInv, PlacesInv
<1>2. Versions(w) + 1 = Versions(v) + 1
  BY DEF Holds, Authority, Versions
<1>3. Versions(w) = Versions(v)
  BY <1>1, <1>2
<1>4. QED
  BY <1>3 DEF SingleInv, JobsSingle

\* Whoever holds the run did so before the step, under the same version.
LEMMA HeldBefore ==
    ASSUME SingleInv, NEW w \in Workers, Moves(w), NEW v \in Workers,
           worker[v] # Idle, worker'[v].delivery = worker[v].delivery, Holds(v)'
    PROVE  UNCHANGED row /\ Holds(v)
<1>1. Versions(v) \in Nat /\ controlVersion \in Nat /\ Versions(v) < controlVersion
  BY VersionTypes DEF SingleInv, PlacesInv, JobsSingle
<1>2. controlVersion' = Versions(v) + 1 /\ status' = "RUNNING"
  BY DEF Holds, Authority, Versions
<1>3. UNCHANGED row
  BY <1>1, <1>2, RowMoves DEF SingleInv
<1>4. QED
  BY <1>2, <1>3 DEF Holds, Authority, Versions, row

\* An executor beside the one that takes a step.
LEMMA BystanderCarries ==
    ASSUME SingleInv, NEW w \in Workers, Moves(w), NEW v \in Workers \ {w}, worker[v] # Idle
    PROVE  Carries(v)'
<1>0. worker'[v] = worker[v] /\ Carries(v) /\ TypeOK
  BY OthersStay DEF SingleInv, PlacesInv
<1>1. CompletedStays
  BY MovesTasks
<1>2. Agrees(worker[v].outputs)'
  BY <1>0, <1>1, AgreesKept DEF Agrees
<1>3. Saving(v)'
  BY <1>0 DEF Carries, Saving, Node
<1>4. Working(v)'
  <2> SUFFICES ASSUME Holds(v)', worker[v].pc \in {"list", "work", "fail", "unheard"}
               PROVE  /\ task'[Node(v)] = task[Node(v)]
                      /\ worker[v].pc = "unheard" => Uncopied(Node(v))'
    <3>1. Holds(v)' => Holds(v)
      BY <1>0, HeldBefore
    <3>2. QED
      BY <1>0, <3>1 DEF Carries, Working, Node
  <2>1. UNCHANGED row /\ Holds(v)
    BY <1>0, HeldBefore
  <2>2. ~ (Holds(w) /\ worker[w] # Idle)
    BY <2>1, OneHolder
  <2>3. task' = task
    BY <2>2, MovesTasks
  <2>4. ~ Returns(w)
    BY <2>2 DEF Returns, GoesOn
  <2>5. Node(v) \in Agents
    BY AtNode DEF AtAgent, SingleInv
  <2>6. worker[v].pc = "unheard" => Uncopied(Node(v))
    BY <1>0, <2>1 DEF Carries, Working
  <2>7. \A n \in Agents : Uncopied(n) => Uncopied(n)'
    BY <2>4, UncopiedKept
  <2>8. Node(v)' = Node(v)
    BY <1>0 DEF Node
  <2>9. worker[v].pc = "unheard" => Uncopied(Node(v))'
    BY <2>5, <2>6, <2>7, <2>8 DEF Uncopied
  <2>10. QED
    BY <2>3, <2>9
<1>5. QED
  BY <1>0, <1>2, <1>3, <1>4 DEF Carries

\* A result that is restored or produced joins the executor's outputs.
LEMMA ReturnCarries ==
    ASSUME SingleInv, NEW w \in Workers, Returns(w)
    PROVE  Carries(w)'
<1>0. /\ TypeOK /\ worker[w] # Idle /\ worker'[w].pc = "save" /\ worker'[w].at = worker[w].at
      /\ Holds(w) /\ Carries(w) /\ worker[w].outputs \in OutputMap
  BY BusyType DEF Returns, GoesOn, SingleInv, PlacesInv
<1>1. Node(w) \in Agents
  <2>1. worker[w].pc \in AtAgent \/ IsAt(w, Agents)
    BY DEF Returns, AtAgent
  <2>2. QED
    BY <1>0, <2>1, AtNode DEF SingleInv
<1>2. PICK output :
        /\ worker'[w].outputs = [worker[w].outputs EXCEPT ![Node(w)] = output]
        /\ \/ /\ Restores(Node(w)) /\ UNCHANGED task
              /\ output = task[Node(w)].output \/ worker[w].pc = "work"
           \/ /\ ~ Restores(Node(w)) /\ worker[w].pc = "work" /\ output \in Outputs
              /\ task' = [task EXCEPT ![Node(w)] = [status |-> "COMPLETED", output |-> output]]
  BY DEF Returns
<1>3. output # NoOutput /\ task'[Node(w)].status = "COMPLETED" /\ task'[Node(w)].output = output
  <2>1. CASE Restores(Node(w)) /\ UNCHANGED task
    <3>1. task[Node(w)].status = "COMPLETED"
      BY <2>1 DEF Restores
    <3>2. worker[w].pc # "work"
      BY <1>0, <3>1 DEF Carries, Working
    <3>3. output = task[Node(w)].output
      BY <1>2, <2>1, <3>2
    <3>4. task[Node(w)].output # NoOutput
      BY <1>1, <3>1 DEF SingleInv, TaskShape
    <3>5. QED
      BY <2>1, <3>1, <3>3, <3>4
  <2>2. CASE /\ output \in Outputs
             /\ task' = [task EXCEPT ![Node(w)] = [status |-> "COMPLETED", output |-> output]]
    <3>1. task'[Node(w)] = [status |-> "COMPLETED", output |-> output]
      BY <1>0, <1>1, <2>2 DEF TypeOK
    <3>2. output # NoOutput
      BY <2>2 DEF Outputs, NoOutput
    <3>3. QED
      BY <3>1, <3>2
  <2>3. QED
    BY <1>2, <2>1, <2>2
<1>4. worker'[w].outputs[Node(w)] = output
      /\ \A n \in Agents \ {Node(w)} : worker'[w].outputs[n] = worker[w].outputs[n]
  BY <1>0, <1>1, <1>2 DEF OutputMap
<1>5. CompletedStays
  BY MovesTasks DEF Moves
<1>6. Agrees(worker[w].outputs)
  BY <1>0 DEF Carries
<1>7. Agrees(worker[w].outputs)' 
  <2> SUFFICES ASSUME NEW n \in Agents, worker'[w].outputs[n] # NoOutput
               PROVE  task'[n].status = "COMPLETED" /\ task'[n].output = worker'[w].outputs[n]
    BY DEF Agrees
  <2>1. CASE n = Node(w)
    BY <1>3, <1>4, <2>1
  <2>2. CASE n # Node(w)
    BY <1>0, <1>4, <1>5, <1>6, <2>2, AgreesKept
  <2>3. QED
    BY <2>1, <2>2
<1>8. Saving(w)'
  BY <1>0, <1>3, <1>4 DEF Saving, Node
<1>9. Working(w)'
  BY <1>0 DEF Working
<1>10. QED
  BY <1>7, <1>8, <1>9 DEF Carries

\* An execution at work keeps its task RUNNING, or COMPLETED if it did not hear
\* so: then what it has stored was nobody's before.
LEMMA StayCarries ==
    ASSUME SingleInv, NEW w \in Workers, Stays(w)
    PROVE  Carries(w)'
<1>0. /\ TypeOK /\ worker[w] # Idle /\ worker'[w].at = worker[w].at /\ Moves(w)
      /\ worker'[w].outputs = worker[w].outputs /\ Carries(w)
      /\ worker'[w].delivery = worker[w].delivery
  BY DEF Stays, GoesOn, SingleInv, PlacesInv, Moves
<1>1. Agrees(worker[w].outputs)'
  BY <1>0, MovesTasks, AgreesKept DEF Agrees
<1>2. Saving(w)'
  BY DEF Stays, Saving
<1>3. Working(w)'
  <2> SUFFICES ASSUME Holds(w)', worker'[w].pc \in {"list", "work", "fail", "unheard"}
               PROVE  /\ worker'[w].pc # "unheard" => task'[Node(w)].status = "RUNNING"
                      /\ worker'[w].pc = "unheard" => /\ task'[Node(w)].status = "COMPLETED"
                                                      /\ Uncopied(Node(w))'
    BY <1>0 DEF Working, Node
  <2>1. CASE worker'[w].pc # "unheard" /\ worker[w].pc \in {"list", "work"} /\ UNCHANGED task
    <3>1. Holds(w)
      BY <1>0, HeldBefore
    <3>2. QED
      BY <1>0, <2>1, <3>1 DEF Carries, Working
  <2>2. CASE /\ worker'[w].pc # "unheard" /\ worker[w].pc = "start"
             /\ task' = [task EXCEPT ![Node(w)].status = "RUNNING"]
    <3>1. Node(w) \in Agents
      BY <1>0, <2>2, AtNode DEF AtAgent, SingleInv
    <3>2. QED
      BY <1>0, <2>2, <3>1 DEF TypeOK
  <2>3. ASSUME worker[w].pc = "work", ~ Restores(Node(w)), NEW output \in Outputs,
               task' = [task EXCEPT ![Node(w)] = [status |-> "COMPLETED", output |-> output]]
        PROVE  task'[Node(w)].status = "COMPLETED" /\ Uncopied(Node(w))'
    <3>1. Node(w) \in Agents
      BY <1>0, <2>3, AtNode DEF AtAgent, SingleInv
    <3>2. Uncopied(Node(w))
      BY <2>3, <3>1 DEF SingleInv, Carries, Agrees, Uncopied, Restores
    <3>3. ~ Returns(w)
      BY DEF Stays, Returns
    <3>4. Uncopied(Node(w))'
      BY <1>0, <3>1, <3>2, <3>3, UncopiedKept DEF Node
    <3>5. QED
      BY <1>0, <2>3, <3>1, <3>4 DEF TypeOK
  <2>4. QED
    BY <2>1, <2>2, <2>3 DEF Stays
<1>4. QED
  BY <1>1, <1>2, <1>3 DEF Carries

LEMMA StepCarries ==
    ASSUME SingleInv, ~ StallSurvives, NEW w \in Workers, Moves(w), worker'[w] # Idle
    PROVE  Carries(w)'
<1>0. TypeOK /\ CompletedStays
  BY MovesTasks DEF SingleInv, PlacesInv
<1>1. CASE Claimed(w)
  <2>1. PICK d \in queue : worker' = worker \/ worker' = [worker EXCEPT ![w] = NewExecution(d)]
    BY <1>1 DEF Claimed
  <2>2. worker'[w] = NewExecution(d)
    BY <1>0, <1>1, <2>1, Update DEF Claimed
  <2>3. worker'[w].pc = "invoke" /\ worker'[w].outputs = NoOutputs
    BY <1>0, <2>2, NewExecutionType, VersionTypes
  <2>4. QED
    BY <2>3 DEF Carries, Working, Saving, Agrees, NoOutputs
<1>2. CASE Ends(w)
  BY <1>0, <1>2, Update DEF Ends
<1>3. CASE Stays(w)
  BY <1>3, StayCarries
<1>4. CASE Returns(w)
  BY <1>4, ReturnCarries
<1>5. CASE Skipped(w) \/ Passed(w) \/ Saved(w)
  <2>1. worker[w] # Idle /\ worker[w] \in Execution
    BY <1>0, <1>5, BusyType DEF Skipped, Passed, Saved, GoesOn
  <2>2. worker[w].at <= Len(Nodes)
    BY <1>5, <2>1, AtNode DEF Skipped, Passed, Saved, IsAt, AtAgent, SingleInv
  <2>3. worker'[w].pc \in {"enter", "validate"} /\ worker'[w].outputs = worker[w].outputs
    BY <1>5, <2>1, <2>2, NextNodeType DEF Skipped, Passed, Saved
  <2>4. Agrees(worker[w].outputs)'
    BY <1>0, <2>1, <2>3, AgreesKept DEF Agrees
  <2>5. QED
    BY <2>3, <2>4 DEF Carries, Working, Saving
<1>6. CASE Invoked(w)
  <2>1. worker'[w].pc = "enter" /\ worker'[w].outputs = thread
    BY <1>6 DEF Invoked
  <2>2. Agrees(worker[w].outputs)'
    BY <1>0, <2>1, AgreesKept DEF Agrees
  <2>3. QED
    BY <2>1, <2>2 DEF Carries, Working, Saving
<1>7. QED
  BY <1>1, <1>2, <1>3, <1>4, <1>5, <1>6 DEF Moves, Outlives

LEMMA ThreadKept ==
    ASSUME SingleInv, NEW w \in Workers, Moves(w)
    PROVE  Agrees(thread)'
<1>1. CompletedStays
  BY MovesTasks
<1>2. thread' = thread \/ (Saved(w) /\ thread' = worker[w].outputs)
  BY DEF Moves, Claimed, Ends, Stays, Returns, Skipped, Passed, Saved, Invoked, Outlives
<1>3. Saved(w) => worker[w] # Idle
  BY DEF Saved, GoesOn
<1>4. QED
  BY <1>1, <1>2, <1>3, AgreesKept DEF Agrees

LEMMA InitSingle ==
    ASSUME Init
    PROVE  SingleInv
<1>1. JobsSingle
  BY DEF Init, JobsSingle, NewDelivery
<1>2. TaskShape /\ Agrees(thread)
  BY DEF Init, TaskShape, Agrees, NoOutputs, NoOutput
<1>3. QED
  BY <1>1, <1>2, InitPlaces DEF Init, SingleInv

\* What every step under this invariant preserves.
LEMMA NextSingle ==
    ASSUME ~ StallSurvives, SingleInv, [Next]_vars
    PROVE  SingleInv' /\ CompletedStays
<1>1. CASE Person
  <2>1. JobsSingle' /\ UNCHANGED <<worker, task, thread>>
    BY <1>1, PersonSingle DEF SingleInv
  <2>2. ASSUME NEW v \in Workers, worker[v] # Idle, Holds(v)'
        PROVE  Holds(v)
    <3>1. Versions(v) \in Nat /\ controlVersion \in Nat /\ Versions(v) < controlVersion
      BY <2>2, VersionTypes DEF SingleInv, PlacesInv, JobsSingle
    <3>2. controlVersion' = Versions(v) + 1 /\ status' = "RUNNING"
      BY <2>1, <2>2 DEF Holds, Authority, Versions
    <3>3. UNCHANGED row
      BY <1>1, <3>1, <3>2
         DEF Person, Stop, Continue, MoveTo, ChangePlan, OpenFile, PutProjectFile, row
    <3>4. QED
      BY <3>2, <3>3 DEF Holds, Authority, Versions, row
  <2>3. \A v \in Workers : worker'[v] # Idle => Carries(v)'
    BY <2>1, <2>2 DEF SingleInv, Carries, Working, Uncopied, Saving, Agrees, Node
  <2>4. CompletedStays /\ TaskShape' /\ Agrees(thread)'
    BY <2>1 DEF SingleInv, CompletedStays, TaskShape, Agrees
  <2>5. QED
    BY <1>1, <2>1, <2>3, <2>4, PersonPlaces DEF SingleInv
<1>2. ASSUME NEW w \in Workers, Execute(w)
      PROVE  SingleInv' /\ CompletedStays
  <2>1. PlacesInv' /\ Moves(w)
    BY <1>2, ExecutePlaces, ExecuteMoves DEF SingleInv
  <2>2. JobsSingle'
    BY <2>1, MovesSingle DEF SingleInv
  <2>3. CompletedStays /\ TaskShape'
    BY <2>1, MovesTasks
  <2>4. Agrees(thread)'
    BY <2>1, ThreadKept
  <2>5. ASSUME NEW v \in Workers, worker'[v] # Idle
        PROVE  Carries(v)'
    <3>1. CASE v = w
      BY <2>1, <2>5, <3>1, StepCarries
    <3>2. CASE v # w
      BY <2>1, <2>5, <3>2, OthersStay, BystanderCarries DEF SingleInv
    <3>3. QED
      BY <3>1, <3>2
  <2>6. QED
    BY <2>1, <2>2, <2>3, <2>4, <2>5 DEF SingleInv
<1>3. CASE UNCHANGED vars
  <2>1. PlacesInv'
    BY <1>3, NextPlaces DEF SingleInv
  <2>2. UNCHANGED <<row, task, thread, queue, worker>>
    BY <1>3 DEF vars, data
  <2>3. QED
    BY <2>1, <2>2 DEF SingleInv, JobsSingle, Versions, TaskShape, Agrees, Carries, Working,
       Uncopied, Saving, Holds, Authority, Node, CompletedStays, row
<1>4. QED
  BY <1>1, <1>2, <1>3 DEF Next

\* A worker whose job stalls is dead: then whatever fails, crashes or is
\* delivered again, no executor runs or rewrites a completed task, but the one
\* that completed it and did not hear so, which marks it FAILED.
THEOREM CompletedTaskStaysHolds ==
    ASSUME ~ StallSurvives
    PROVE  Spec => CompletedTaskStays
<1>1. Init => SingleInv
  BY InitSingle
<1>2. SingleInv /\ [Next]_vars => SingleInv' /\ CompletedStays
  BY NextSingle
<1>3. SingleInv /\ [Next]_vars => [CompletedStays]_vars
  BY <1>2
<1>4. [CompletedStays]_vars <=>
        [\A n \in Agents : task[n].status = "COMPLETED" =>
            \/ task'[n] = task[n]
            \/ Unheard(n) /\ task'[n] = [task[n] EXCEPT !.status = "FAILED"]]_vars
  BY DEF CompletedStays
<1>5. QED
  BY <1>1, <1>2, <1>3, <1>4, PTL DEF Spec, CompletedTaskStays

\* And the checkpoint a run is restored from remembers completed tasks only,
\* each with the very output its row holds.
THEOREM ThreadAgreesWithTasksHolds ==
    ASSUME ~ StallSurvives
    PROVE  Spec => []ThreadAgreesWithTasks
<1>1. Init => SingleInv
  BY InitSingle
<1>2. SingleInv /\ [Next]_vars => SingleInv'
  BY NextSingle
<1>3. SingleInv => ThreadAgreesWithTasks
  BY DEF SingleInv, Agrees, ThreadAgreesWithTasks
<1>4. QED
  BY <1>1, <1>2, <1>3, PTL DEF Spec

-----------------------------------------------------------------------------
(* The order of the graph.  While the plan stays what it is, an execution  *)
(* leaves only finished tasks behind, and carries their results.           *)

Done(n) == task[n].status \in {"COMPLETED", "SKIPPED"}
Past(w) == {Nodes[k] : k \in 1 .. (worker[w].at - 1)}

Behind(w) ==
    /\ \A n \in Past(w) \intersect Agents :
         Done(n) /\ (Skips(n) \/ worker[w].outputs[n] # NoOutput)
    /\ worker[w].pc \in AtAgent => ~ Skips(Node(w))

SkippedShape ==
    \A n \in Agents : /\ task[n].status = "SKIPPED" => Skips(n)
                      /\ Skips(n) => task[n].status \in {"NONE", "SKIPPED"}

WholeInv ==
    /\ SingleInv /\ SkippedShape
    /\ \A w \in Workers : worker[w] # Idle => Behind(w)
    /\ CompletedRunIsWhole

\* What is done stays, but for a result its executor never heard of.
DoneStays ==
    \A n \in Agents : Done(n) => task'[n] = task[n] \/ (Unheard(n) /\ ~ Skips(n))

\* The task write of the executor that holds the run: its node's, unfinished
\* or not known to be finished.
Writes(w) ==
    /\ worker[w] # Idle /\ worker[w].at <= Len(Nodes) /\ Node(w) \in Agents /\ Holds(w)
    /\ ~ Done(Node(w)) \/ (Unheard(Node(w)) /\ ~ Skips(Node(w)))
    /\ IF Skips(Node(w)) THEN task'[Node(w)].status = "SKIPPED"
                         ELSE task'[Node(w)].status \notin {"NONE", "SKIPPED"}
    /\ \A n \in Agents \ {Node(w)} : task'[n] = task[n]

LEMMA NodesDiffer ==
    ASSUME NEW i \in 1 .. Len(Nodes), NEW j \in 1 .. Len(Nodes), Nodes[i] = Nodes[j]
    PROVE  i = j
BY RunGraphAssumption

\* A node before one that is behind, or is reached, is behind.
LEMMA PastBefore ==
    ASSUME TypeOK, NEW w \in Workers, worker[w] # Idle, NEW m, NEW n, Before(m, n),
           n \in Past(w) \/ (worker[w].at <= Len(Nodes) /\ n = Node(w))
    PROVE  m \in Past(w)
<1>1. PICK i, j \in 1 .. Len(Nodes) : i < j /\ Nodes[i] = m /\ Nodes[j] = n
  BY DEF Before
<1>2. worker[w].at \in 1 .. (Len(Nodes) + 1) /\ Len(Nodes) \in Nat
  BY BusyType, GraphFacts
<1>3. j <= worker[w].at
  <2>1. CASE n \in Past(w)
    <3>1. PICK k \in 1 .. (worker[w].at - 1) : n = Nodes[k]
      BY <2>1 DEF Past
    <3>2. k \in 1 .. Len(Nodes)
      BY <1>2, <3>1
    <3>3. QED
      BY <1>1, <1>2, <3>1, <3>2, NodesDiffer
  <2>2. CASE worker[w].at <= Len(Nodes) /\ n = Node(w)
    <3>1. worker[w].at \in 1 .. Len(Nodes)
      BY <1>2, <2>2
    <3>2. QED
      BY <1>1, <1>2, <2>2, <3>1, NodesDiffer DEF Node
  <2>3. QED
    BY <2>1, <2>2
<1>4. i \in 1 .. (worker[w].at - 1)
  BY <1>1, <1>2, <1>3
<1>5. QED
  BY <1>1, <1>4 DEF Past

LEMMA PastNotNode ==
    ASSUME TypeOK, NEW w \in Workers, worker[w] # Idle, worker[w].at <= Len(Nodes)
    PROVE  Node(w) \notin Past(w)
<1>1. worker[w].at \in 1 .. Len(Nodes) /\ Len(Nodes) \in Nat
  BY BusyType, GraphFacts
<1>2. SUFFICES ASSUME NEW k \in 1 .. (worker[w].at - 1), Nodes[worker[w].at] = Nodes[k]
               PROVE  FALSE
  BY DEF Past, Node
<1>3. k \in 1 .. Len(Nodes) /\ k # worker[w].at
  BY <1>1, <1>2
<1>4. QED
  BY <1>1, <1>2, <1>3, NodesDiffer

\* At the end everything is behind.
LEMMA AllPast ==
    ASSUME PlacesInv, NEW w \in Workers, worker[w].pc = "validate"
    PROVE  Past(w) = {Nodes[i] : i \in 1 .. Len(Nodes)} /\ Agents \subseteq Past(w)
<1>1. worker[w] # Idle
  BY DEF Idle
<1>2. worker[w].at = Len(Nodes) + 1 /\ Len(Nodes) \in Nat
  BY <1>1, GraphFacts DEF PlacesInv, Placed
<1>3. worker[w].at - 1 = Len(Nodes)
  BY <1>2
<1>4. Past(w) = {Nodes[i] : i \in 1 .. Len(Nodes)}
  BY <1>3 DEF Past
<1>5. QED
  BY <1>4, GraphFacts

LEMMA MovesWrites ==
    ASSUME WholeInv, NEW w \in Workers, Moves(w)
    PROVE  task' = task \/ Writes(w)
<1>0. SingleInv /\ PlacesInv /\ TypeOK /\ SkippedShape
  BY DEF WholeInv, SingleInv, PlacesInv
<1> DEFINE R == [status : TaskStatuses, output : Outputs \union {NoOutput}]
<1>1. task \in [Agents -> R]
  BY <1>0 DEF TypeOK
<1>2. ASSUME NEW n \in Agents, NEW s, task' = [task EXCEPT ![n].status = s]
      PROVE  task'[n].status = s /\ \A m \in Agents \ {n} : task'[m] = task[m]
  <2>1. task[n] \in R
    BY <1>1
  <2>2. QED
    BY <1>1, <1>2, <2>1
<1>c. ASSUME NEW output \in Outputs, worker[w] # Idle, worker[w].pc = "work", Holds(w),
             ~ Restores(Node(w)),
             task' = [task EXCEPT ![Node(w)] = [status |-> "COMPLETED", output |-> output]]
      PROVE  Writes(w)
  <2>1. worker[w].at <= Len(Nodes) /\ Node(w) \in Agents
    BY <1>0, <1>c, AtNode DEF AtAgent
  <2>2. ~ Skips(Node(w))
    BY <1>c DEF WholeInv, Behind, AtAgent
  <2>3. ~ Done(Node(w))
    BY <1>0, <1>c, <2>1, <2>2 DEF SkippedShape, Restores, Done
  <2>4. /\ task'[Node(w)].status = "COMPLETED"
        /\ \A m \in Agents \ {Node(w)} : task'[m] = task[m]
    BY <1>1, <1>c, <2>1
  <2>5. QED
    BY <1>c, <2>1, <2>2, <2>3, <2>4 DEF Writes
<1> HIDE DEF R
<1>3. CASE Stays(w)
  <2>1. worker[w] # Idle
    BY <1>3 DEF Stays, GoesOn
  <2>2. CASE /\ worker[w].pc \in {"fail", "unheard"} /\ Holds(w)
             /\ task' = [task EXCEPT ![Node(w)].status = "FAILED"]
    <3>1. worker[w].at <= Len(Nodes) /\ Node(w) \in Agents
      BY <1>0, <2>1, <2>2, AtNode DEF AtAgent
    <3>2. ~ Skips(Node(w))
      BY <2>1, <2>2 DEF WholeInv, Behind, AtAgent
    <3>3. ~ Done(Node(w)) \/ Unheard(Node(w))
      BY <1>0, <2>1, <2>2 DEF SingleInv, Carries, Working, Unheard, Done
    <3>4. QED
      BY <1>2, <2>1, <2>2, <3>1, <3>2, <3>3 DEF Writes
  <2>3. CASE /\ IsAt(w, Agents) /\ ~ Skips(Node(w)) /\ Holds(w) /\ task[Node(w)].status = "NONE"
             /\ task' = [task EXCEPT ![Node(w)].status = "PENDING"]
    <3>1. worker[w].at <= Len(Nodes) /\ Node(w) \in Agents
      BY <2>3 DEF IsAt
    <3>2. QED
      BY <1>2, <2>1, <2>3, <3>1 DEF Writes, Done
  <2>4. CASE /\ worker[w].pc = "start" /\ Holds(w) /\ ~ Restores(Node(w))
             /\ task' = [task EXCEPT ![Node(w)].status = "RUNNING"]
    <3>1. worker[w].at <= Len(Nodes) /\ Node(w) \in Agents
      BY <1>0, <2>1, <2>4, AtNode DEF AtAgent
    <3>2. ~ Skips(Node(w))
      BY <2>1, <2>4 DEF WholeInv, Behind, AtAgent
    <3>3. ~ Done(Node(w))
      BY <1>0, <2>4, <3>1, <3>2 DEF SkippedShape, Restores, Done
    <3>4. QED
      BY <1>2, <2>1, <2>4, <3>1, <3>2, <3>3 DEF Writes
  <2>5. QED
    BY <1>3, <1>c, <2>1, <2>2, <2>3, <2>4 DEF Stays
<1>4. CASE Returns(w)
  <2>1. worker[w] # Idle /\ Holds(w)
    BY <1>4 DEF Returns, GoesOn
  <2>2. QED
    BY <1>4, <1>c, <2>1 DEF Returns
<1>5. CASE Skipped(w)
  <2>1. /\ worker[w] # Idle /\ Holds(w) /\ Skips(Node(w))
        /\ worker[w].at <= Len(Nodes) /\ Node(w) \in Agents
    BY <1>5 DEF Skipped, GoesOn, IsAt
  <2>2. CASE task[Node(w)].status = "NONE" /\ task' = [task EXCEPT ![Node(w)].status = "SKIPPED"]
    BY <1>2, <2>1, <2>2 DEF Writes, Done
  <2>3. QED
    BY <1>5, <2>2 DEF Skipped
<1>6. CASE Claimed(w) \/ Ends(w) \/ Passed(w) \/ Saved(w) \/ Invoked(w) \/ Outlives(w)
  BY <1>6 DEF Claimed, Ends, Passed, Saved, Invoked, Outlives
<1>7. QED
  BY <1>3, <1>4, <1>5, <1>6 DEF Moves

LEMMA MovesDone ==
    ASSUME WholeInv, NEW w \in Workers, Moves(w), UNCHANGED entitled
    PROVE  DoneStays /\ SkippedShape'
<1>1. \A n \in Agents : Skips(n)' <=> Skips(n)
  BY DEF Skips
<1>2. CASE task' = task
  BY <1>1, <1>2 DEF DoneStays, SkippedShape, WholeInv
<1>3. CASE Writes(w)
  BY <1>1, <1>3 DEF DoneStays, SkippedShape, WholeInv, Writes
<1>4. QED
  BY <1>2, <1>3, MovesWrites

\* What an execution has behind it has been taken, so nobody is unheard of it.
LEMMA PastStays ==
    ASSUME WholeInv, NEW w \in Workers, Moves(w), UNCHANGED entitled,
           NEW v \in Workers, worker[v] # Idle, NEW n \in Past(v) \intersect Agents
    PROVE  Done(n) /\ task'[n] = task[n]
<1>1. Done(n) /\ (Skips(n) \/ worker[v].outputs[n] # NoOutput)
  BY DEF WholeInv, Behind
<1>2. Unheard(n) => Skips(n)
  BY <1>1, UnheardUncopied DEF WholeInv, Uncopied
<1>3. QED
  BY <1>1, <1>2, MovesDone DEF DoneStays

\* How far an execution comes in one step: it begins, stays at its node with
\* what it carries from before, or leaves the node with the node's result.
Begins(w) == worker'[w].at = 1 /\ worker'[w].pc \notin AtAgent

Remains(w) ==
    /\ worker[w] # Idle /\ worker'[w].at = worker[w].at
    /\ worker'[w].delivery = worker[w].delivery
    /\ \A n \in Past(w) \intersect Agents : worker'[w].outputs[n] = worker[w].outputs[n]
    /\ worker'[w].pc \in AtAgent => ~ Skips(Node(w))

Leaves(w) ==
    /\ worker[w] # Idle /\ worker[w].at <= Len(Nodes) /\ worker'[w].at = worker[w].at + 1
    /\ worker'[w].delivery = worker[w].delivery
    /\ worker'[w].outputs = worker[w].outputs /\ worker'[w].pc \notin AtAgent
    /\ Node(w) \in Agents =>
         /\ task'[Node(w)].status \in {"COMPLETED", "SKIPPED"}
         /\ Skips(Node(w)) \/ worker[w].outputs[Node(w)] # NoOutput
    /\ Node(w) \in Gates =>
         /\ task' = task
         /\ Asks(Node(w), worker[w].outputs) => Bypasses(worker[w], Node(w))

LEMMA StepAdvances ==
    ASSUME WholeInv, ~ StallSurvives, NEW w \in Workers, Moves(w), worker'[w] # Idle
    PROVE  Begins(w) \/ Remains(w) \/ Leaves(w)
<1>0. SingleInv /\ PlacesInv /\ TypeOK /\ SkippedShape
  BY DEF WholeInv, SingleInv, PlacesInv
<1>1. CASE Claimed(w)
  <2>1. PICK d \in queue : worker' = worker \/ worker' = [worker EXCEPT ![w] = NewExecution(d)]
    BY <1>1 DEF Claimed
  <2>2. worker'[w] = NewExecution(d)
    BY <1>0, <1>1, <2>1, Update DEF Claimed
  <2>3. worker'[w].pc = "invoke" /\ worker'[w].at = 1
    BY <1>0, <2>2, NewExecutionType, VersionTypes
  <2>4. QED
    BY <2>3 DEF Begins, AtAgent
<1>2. CASE Ends(w)
  BY <1>0, <1>2, Update DEF Ends
<1>3. CASE Stays(w)
  <2>1. /\ worker[w] # Idle /\ worker'[w].at = worker[w].at
        /\ worker'[w].outputs = worker[w].outputs
        /\ worker'[w].delivery = worker[w].delivery
    BY <1>3 DEF Stays, GoesOn
  <2>2. worker[w].pc \in AtAgent => ~ Skips(Node(w))
    BY <2>1 DEF WholeInv, Behind
  <2>3. worker'[w].pc \in AtAgent => ~ Skips(Node(w))
    BY <1>3, <2>2 DEF Stays, AtAgent
  <2>4. QED
    BY <2>1, <2>3 DEF Remains
<1>4. CASE Returns(w)
  <2>1. worker[w] # Idle /\ worker'[w].at = worker[w].at
        /\ worker'[w].delivery = worker[w].delivery
    BY <1>4 DEF Returns, GoesOn
  <2>2. worker[w].pc \in AtAgent \/ IsAt(w, Agents)
    BY <1>4 DEF Returns, AtAgent
  <2>3. worker[w].at <= Len(Nodes)
    BY <1>0, <2>1, <2>2, AtNode
  <2>4. ~ Skips(Node(w))
    BY <1>4, <2>1 DEF Returns, WholeInv, Behind, AtAgent
  <2>5. Node(w) \notin Past(w)
    BY <1>0, <2>1, <2>3, PastNotNode
  <2>6. worker[w].outputs \in OutputMap
    BY <1>0, <2>1, BusyType
  <2>7. \A n \in Past(w) \intersect Agents : worker'[w].outputs[n] = worker[w].outputs[n]
    BY <1>4, <2>5, <2>6 DEF Returns, OutputMap
  <2>8. QED
    BY <2>1, <2>4, <2>7 DEF Remains
<1>5. CASE Skipped(w) \/ Saved(w)
  <2>1. worker[w] # Idle /\ worker[w] \in Execution
    BY <1>0, <1>5, BusyType DEF Skipped, Saved, GoesOn
  <2>2. worker[w].at <= Len(Nodes) /\ Node(w) \in Agents
    BY <1>0, <1>5, <2>1, AtNode DEF Skipped, Saved, IsAt, AtAgent
  <2>3. /\ worker'[w].at = worker[w].at + 1 /\ worker'[w].delivery = worker[w].delivery
        /\ worker'[w].outputs = worker[w].outputs /\ worker'[w].pc \notin AtAgent
    BY <1>5, <2>1, <2>2, NextNodeType DEF Skipped, Saved, AtAgent
  <2>4. CASE Skipped(w)
    <3>1. Skips(Node(w))
      BY <2>4 DEF Skipped
    <3>2. task[Node(w)].status \in {"NONE", "SKIPPED"}
      BY <1>0, <2>2, <3>1 DEF SkippedShape
    <3>3. task'[Node(w)].status = "SKIPPED"
      BY <1>0, <2>2, <2>4, <3>2 DEF Skipped, TypeOK
    <3>4. QED
      BY <2>1, <2>2, <2>3, <3>1, <3>3 DEF Leaves, Agents
  <2>5. CASE Saved(w)
    <3>1. worker[w].outputs[Node(w)] # NoOutput
      BY <1>0, <2>1, <2>5 DEF Saved, SingleInv, Carries, Saving
    <3>2. task[Node(w)].status = "COMPLETED"
      BY <1>0, <2>1, <2>2, <3>1 DEF SingleInv, Carries, Agrees
    <3>3. task'[Node(w)].status = "COMPLETED"
      BY <2>5, <3>2 DEF Saved
    <3>4. QED
      BY <2>1, <2>2, <2>3, <3>1, <3>3 DEF Leaves, Agents
  <2>6. QED
    BY <1>5, <2>4, <2>5
<1>6. CASE Passed(w)
  <2>1. /\ worker[w] # Idle /\ worker[w].at <= Len(Nodes) /\ Node(w) \in Gates
        /\ worker'[w].at = worker[w].at + 1 /\ worker'[w].delivery = worker[w].delivery
        /\ worker'[w].outputs = worker[w].outputs /\ worker'[w].pc \notin AtAgent
    BY <1>6 DEF Passed, GoesOn, IsAt, AtAgent
  <2>2. Node(w) \notin Agents
    BY <2>1 DEF Agents
  <2>3. QED
    BY <1>6, <2>1, <2>2 DEF Passed, Leaves
<1>7. CASE Invoked(w)
  <2>1. worker'[w].pc = "enter" /\ worker'[w].at = 1
    BY <1>0, <1>7 DEF Invoked, GoesOn, PlacesInv, Placed
  <2>2. QED
    BY <2>1 DEF Begins, AtAgent
<1>8. QED
  BY <1>1, <1>2, <1>3, <1>4, <1>5, <1>6, <1>7 DEF Moves, Outlives

\* What a step does to the nodes behind an execution.
LEMMA PastGrows ==
    ASSUME TypeOK, NEW w \in Workers
    PROVE  /\ Begins(w) => Past(w)' = {}
           /\ Remains(w) => Past(w)' = Past(w)
           /\ Leaves(w) => Past(w)' = Past(w) \union {Node(w)}
<1>1. Begins(w) => Past(w)' = {}
  BY DEF Begins, Past
<1>2. Remains(w) => Past(w)' = Past(w)
  BY DEF Remains, Past
<1>3. ASSUME Leaves(w)
      PROVE  Past(w)' = Past(w) \union {Node(w)}
  <2>1. worker'[w].at = worker[w].at + 1 /\ worker[w].at \in Nat \ {0}
    BY <1>3, BusyType, GraphFacts DEF Leaves
  <2>2. 1 .. (worker'[w].at - 1) = 1 .. (worker[w].at - 1) \union {worker[w].at}
    BY <2>1
  <2>3. QED
    BY <2>2 DEF Past, Node
<1>4. QED
  BY <1>1, <1>2, <1>3

LEMMA MovesBehind ==
    ASSUME WholeInv, ~ StallSurvives, NEW w \in Workers, Moves(w), UNCHANGED entitled,
           NEW v \in Workers, worker'[v] # Idle
    PROVE  Behind(v)'
<1>0. TypeOK /\ PlacesInv
  BY DEF WholeInv, SingleInv, PlacesInv
<1>1. /\ \A n : Skips(n)' <=> Skips(n)
      /\ worker[v] # Idle => \A n \in Past(v) \intersect Agents : Done(n)'
  BY PastStays DEF Skips, Done
<1>2. CASE v # w
  <2>1. worker'[v] = worker[v]
    BY <1>0, <1>2, OthersStay
  <2>2. Behind(v)
    BY <2>1 DEF WholeInv
  <2>3. QED
    BY <1>1, <2>1, <2>2 DEF Behind, Past, Node
<1>3. CASE v = w /\ Begins(w)
  BY <1>0, <1>3, PastGrows DEF Behind, Begins
<1>4. CASE v = w /\ Remains(w)
  <2>1. Behind(w) /\ Past(w)' = Past(w)
    BY <1>0, <1>4, PastGrows DEF WholeInv, Remains
  <2>2. \A n \in Past(w)' \intersect Agents :
           Done(n)' /\ (Skips(n)' \/ worker'[w].outputs[n] # NoOutput)
    BY <1>1, <1>4, <2>1 DEF Behind, Remains
  <2>3. worker'[w].pc \in AtAgent => ~ Skips(Node(w))'
    BY <1>1, <1>4 DEF Remains, Node, Skips
  <2>4. QED
    BY <1>4, <2>2, <2>3 DEF Behind
<1>5. CASE v = w /\ Leaves(w)
  <2>1. Behind(w) /\ Past(w)' = Past(w) \union {Node(w)}
    BY <1>0, <1>5, PastGrows DEF WholeInv, Leaves
  <2>2. Node(w) \in Agents => task'[Node(w)].status \in {"COMPLETED", "SKIPPED"}
    BY <1>5 DEF Leaves
  <2>3. \A n \in Past(w)' \intersect Agents :
           task'[n].status \in {"COMPLETED", "SKIPPED"}
           /\ (Skips(n) \/ worker'[w].outputs[n] # NoOutput)
    BY <1>1, <1>5, <2>1, <2>2 DEF Behind, Leaves, Done
  <2>4. QED
    BY <1>1, <1>5, <2>3 DEF Behind, Leaves, Done
<1>6. QED
  BY <1>2, <1>3, <1>4, <1>5, StepAdvances

\* A run is completed by an execution that left all the nodes behind.
LEMMA MovesWhole ==
    ASSUME WholeInv, NEW w \in Workers, Moves(w), UNCHANGED entitled
    PROVE  CompletedRunIsWhole'
<1>0. PlacesInv
  BY DEF WholeInv, SingleInv
<1>1. status' = "COMPLETED" => task' = task
  <2>1. status = "COMPLETED" => task' = task
    BY MovesWrites DEF Writes, Holds
  <2>2. status' = "COMPLETED" => status = "COMPLETED" \/ task' = task
    BY DEF Moves, Claimed, Ends, Stays, Returns, Skipped, Passed, Saved, Invoked, Outlives, GoesOn,
           MoveTo, row
  <2>3. QED
    BY <2>1, <2>2
<1>2. SUFFICES ASSUME status' = "COMPLETED"
               PROVE  \A n \in Agents : Done(n)
  BY <1>1 DEF CompletedRunIsWhole, Done
<1>3. CASE status = "COMPLETED"
  BY <1>3 DEF WholeInv, CompletedRunIsWhole, Done
<1>4. CASE status # "COMPLETED"
  <2>1. Ends(w) /\ worker[w].pc = "validate"
    BY <1>2, <1>4 DEF Moves, Claimed, Ends, Stays, Returns, Skipped, Passed, Saved, Invoked,
       Outlives, GoesOn, MoveTo, row
  <2>2. worker[w] # Idle /\ Agents \subseteq Past(w)
    BY <1>0, <2>1, AllPast DEF Ends
  <2>3. QED
    BY <2>2 DEF WholeInv, Behind
<1>5. QED
  BY <1>3, <1>4

LEMMA InitWhole ==
    ASSUME Init
    PROVE  WholeInv
<1>1. SkippedShape /\ CompletedRunIsWhole
  BY DEF Init, SkippedShape, CompletedRunIsWhole
<1>2. \A w \in Workers : worker[w] = Idle
  BY DEF Init
<1>3. QED
  BY <1>1, <1>2, InitSingle DEF WholeInv

LEMMA NextWhole ==
    ASSUME ~ StallSurvives, ~ PlanMayChange, WholeInv, [Next]_vars
    PROVE  WholeInv' /\ UNCHANGED entitled
<1>1. SingleInv'
  BY NextSingle DEF WholeInv
<1>2. CASE \E w \in Workers : Execute(w)
  <2>1. PICK w \in Workers : Execute(w)
    BY <1>2
  <2>2. UNCHANGED entitled /\ Moves(w)
    BY <2>1, ExecutorRest, ExecuteMoves DEF WholeInv, SingleInv
  <2>3. QED
    BY <1>1, <2>2, MovesDone, MovesBehind, MovesWhole DEF WholeInv
<1>3. CASE Person \/ UNCHANGED vars
  <2>1. UNCHANGED <<worker, task, entitled>> /\ (status' = "COMPLETED" => status = "COMPLETED")
    BY <1>3 DEF Person, Stop, Continue, MoveTo, ChangePlan, OpenFile, PutProjectFile, vars, row, data
  <2>2. SkippedShape' /\ CompletedRunIsWhole'
    BY <2>1 DEF WholeInv, SkippedShape, CompletedRunIsWhole, Skips
  <2>3. \A w \in Workers : worker'[w] # Idle => Behind(w)'
    BY <2>1 DEF WholeInv, Behind, Past, Done, Skips, Node
  <2>4. QED
    BY <1>1, <2>1, <2>2, <2>3 DEF WholeInv
<1>4. QED
  BY <1>2, <1>3 DEF Next

\* A completed run did all of its work, however often it was stopped, failed,
\* crashed and was delivered again; each agent the project's type and plan
\* call for has completed.
THEOREM CompletedRunIsWholeHolds ==
    ASSUME ~ StallSurvives, ~ PlanMayChange
    PROVE  Spec => []CompletedRunIsWhole
<1>1. Init => WholeInv
  BY InitWhole
<1>2. WholeInv /\ [Next]_vars => WholeInv'
  BY NextWhole
<1>3. WholeInv => CompletedRunIsWhole
  BY DEF WholeInv
<1>4. QED
  BY <1>1, <1>2, <1>3, PTL DEF Spec

-----------------------------------------------------------------------------
(* The gates: an execution behind a gate carries what was asked there, and *)
(* a job that carries an approval was made by the person who gave it.      *)

Planned(j) == j.command \in {"plan", "content"} => j.command \in granted

Answered(w) ==
    /\ "approval" \in Past(w) /\ task["Mike"].output = "gated" => "plan" \in granted
    /\ "content-approval" \in Past(w) /\ "Adrian" \in Agents /\ task["Adrian"].output = "gated"
         => "content" \in granted

GatesInv ==
    /\ \A d \in queue : Planned(d.job)
    /\ \A w \in Workers : worker[w] # Idle => Planned(worker[w].delivery.job) /\ Answered(w)
    /\ task["Alex"].status \notin {"NONE", "SKIPPED"} => Done("Mike") /\ ~ Unheard("Mike")
    /\ GatesAreAnswered

\* An approval outlives the job that carries it.
LEMMA MovesPlanned ==
    ASSUME WholeInv, GatesInv, ~ StallSurvives, NEW w \in Workers, Moves(w)
    PROVE  /\ \A d \in queue' : Planned(d.job)'
           /\ \A v \in Workers : worker'[v] # Idle => Planned(worker[v].delivery.job)'
<1>0. TypeOK /\ PlacesInv
  BY DEF WholeInv, SingleInv, PlacesInv
<1>1. granted' = granted
  BY <1>0, RowMoves
<1>2. \A d \in queue' : Planned(d.job)
  <2>1. \/ queue' \subseteq queue
        \/ /\ worker[w] # Idle
           /\ \E d \in Delivery : d.job = worker[w].delivery.job /\ queue' = queue \union {d}
    BY DEF Moves, Claimed, Ends, Stays, Returns, Skipped, Passed, Saved, Invoked, Outlives
  <2>2. QED
    BY <2>1 DEF GatesInv
<1>3. ASSUME NEW v \in Workers, worker'[v] # Idle
      PROVE  Planned(worker'[v].delivery.job)
  <2>1. CASE v # w
    BY <1>0, <1>3, <2>1, OthersStay DEF GatesInv
  <2>2. CASE v = w /\ Claimed(w)
    <3>1. PICK d \in queue : worker' = worker \/ worker' = [worker EXCEPT ![w] = NewExecution(d)]
      BY <2>2 DEF Claimed
    <3>2. worker'[w] = NewExecution(d)
      BY <1>0, <1>3, <2>2, <3>1, Update DEF Claimed
    <3>3. worker'[w].delivery = d
      BY <1>0, <3>2, NewExecutionType, VersionTypes
    <3>4. QED
      BY <2>2, <3>3 DEF GatesInv
  <2>3. CASE v = w /\ Ends(w)
    BY <1>0, <1>3, <2>3, Update DEF Ends
  <2>4. CASE v = w /\ GoesOn(w)
    BY <2>4 DEF GoesOn, GatesInv
  <2>5. QED
    BY <2>1, <2>2, <2>3, <2>4 DEF Moves, Stays, Returns, Skipped, Passed, Saved, Invoked, Outlives
<1>4. QED
  BY <1>1, <1>2, <1>3 DEF Planned

\* The agents a gate asks about come before it.
LEMMA GateOrder ==
    /\ Before("Mike", "approval") /\ Before("approval", "Alex") /\ Before("Mike", "Alex")
    /\ "Adrian" \in Agents => Before("Adrian", "content-approval")
    /\ {"Mike", "Alex"} \subseteq Agents
<1>1. /\ Before("Mike", "approval") /\ Before("approval", "Alex")
      /\ "Adrian" \in Agents => Before("Adrian", "content-approval")
  BY RunGraphAssumption
<1>2. PICK i, j, k, l \in 1 .. Len(Nodes) :
        /\ i < j /\ Nodes[i] = "Mike" /\ Nodes[j] = "approval"
        /\ k < l /\ Nodes[k] = "approval" /\ Nodes[l] = "Alex"
  BY <1>1 DEF Before
<1>3. j = k
  BY <1>2, NodesDiffer
<1>4. i < l
  BY <1>2, <1>3, GraphFacts
<1>5. QED
  BY <1>1, <1>2, <1>4, GraphFacts DEF Before

\* What an executor carries of an agent behind it is that agent's result.
LEMMA CarriedResult ==
    ASSUME WholeInv, NEW w \in Workers, worker[w] # Idle,
           NEW n \in Past(w) \intersect Agents, task[n].output = "gated"
    PROVE  worker[w].outputs[n] = "gated"
<1>1. Done(n) /\ (Skips(n) \/ worker[w].outputs[n] # NoOutput)
  BY DEF WholeInv, Behind
<1>2. task[n].status = "COMPLETED"
  BY <1>1 DEF WholeInv, SingleInv, TaskShape, NoOutput, Done
<1>3. ~ Skips(n)
  BY <1>2 DEF WholeInv, SkippedShape
<1>4. QED
  BY <1>1, <1>3 DEF WholeInv, SingleInv, Carries, Agrees

\* Nobody gets behind a gate that asks without the approval of its scope.
LEMMA GatePassed ==
    ASSUME WholeInv, GatesInv, NEW w \in Workers, Leaves(w), Node(w) \in Gates
    PROVE  /\ Node(w) = "approval" /\ task["Mike"].output = "gated" => "plan" \in granted
           /\ Node(w) = "content-approval" /\ "Adrian" \in Agents /\ task["Adrian"].output = "gated"
                => "content" \in granted
<1>0. /\ TypeOK /\ worker[w] # Idle /\ worker[w].at <= Len(Nodes)
      /\ Asks(Node(w), worker[w].outputs) => Bypasses(worker[w], Node(w))
      /\ Planned(worker[w].delivery.job)
  BY DEF WholeInv, SingleInv, PlacesInv, Leaves, GatesInv
<1>1. ASSUME Node(w) = "approval", task["Mike"].output = "gated"
      PROVE  "plan" \in granted
  <2>1. "Mike" \in Past(w) \intersect Agents
    BY <1>0, <1>1, GateOrder, PastBefore
  <2>2. worker[w].outputs["Mike"] = "gated"
    BY <1>0, <1>1, <2>1, CarriedResult
  <2>3. CASE worker[w].outputs["Alex"] = NoOutput
    <3>1. worker[w].delivery.job.command = "plan"
      BY <1>0, <1>1, <2>2, <2>3 DEF Asks, Bypasses, Scope
    <3>2. QED
      BY <1>0, <3>1 DEF Planned
  <2>4. CASE worker[w].outputs["Alex"] # NoOutput
    <3>1. task["Alex"].status = "COMPLETED"
      BY <1>0, <2>4, GateOrder DEF WholeInv, SingleInv, Carries, Agrees
    <3>2. QED
      BY <1>1, <3>1 DEF GatesInv, GatesAreAnswered
  <2>5. QED
    BY <2>3, <2>4
<1>2. ASSUME Node(w) = "content-approval", "Adrian" \in Agents, task["Adrian"].output = "gated"
      PROVE  "content" \in granted
  <2>1. "Adrian" \in Past(w) \intersect Agents
    BY <1>0, <1>2, GateOrder, PastBefore
  <2>2. worker[w].outputs["Adrian"] = "gated"
    BY <1>0, <1>2, <2>1, CarriedResult
  <2>3. worker[w].delivery.job.command = "content"
    BY <1>0, <1>2, <2>2 DEF Asks, Bypasses, Scope
  <2>4. QED
    BY <1>0, <2>3 DEF Planned
<1>3. QED
  BY <1>1, <1>2

LEMMA MovesAnswered ==
    ASSUME WholeInv, GatesInv, ~ StallSurvives, UNCHANGED entitled, NEW w \in Workers, Moves(w),
           NEW v \in Workers, worker'[v] # Idle
    PROVE  Answered(v)'
<1>0. TypeOK /\ PlacesInv /\ granted' = granted
  BY RowMoves DEF WholeInv, SingleInv, PlacesInv
<1>2. ASSUME worker[v] # Idle
      PROVE  /\ "approval" \in Past(v) => task'["Mike"] = task["Mike"]
             /\ "Adrian" \in Agents /\ "content-approval" \in Past(v)
                  => task'["Adrian"] = task["Adrian"]
  <2>1. "approval" \in Past(v) => "Mike" \in Past(v) \intersect Agents
    BY <1>0, <1>2, GateOrder, PastBefore
  <2>2. "Adrian" \in Agents /\ "content-approval" \in Past(v)
          => "Adrian" \in Past(v) \intersect Agents
    BY <1>0, <1>2, GateOrder, PastBefore
  <2>3. QED
    BY <1>2, <2>1, <2>2, PastStays
<1>3. CASE worker[v] # Idle /\ Past(v)' = Past(v)
  BY <1>0, <1>2, <1>3 DEF GatesInv, Answered
<1>4. CASE v # w
  <2>1. worker'[v] = worker[v]
    BY <1>0, <1>4, OthersStay
  <2>2. Past(v)' = Past(v)
    BY <2>1 DEF Past
  <2>3. QED
    BY <1>3, <2>1, <2>2
<1>5. CASE v = w /\ Begins(w)
  BY <1>0, <1>5, PastGrows DEF Answered
<1>6. CASE v = w /\ Remains(w)
  BY <1>0, <1>3, <1>6, PastGrows DEF Remains
<1>7. CASE v = w /\ Leaves(w)
  <2>1. worker[w] # Idle /\ Past(w)' = Past(w) \union {Node(w)}
    BY <1>0, <1>7, PastGrows DEF Leaves
  <2>2. Node(w) \in Gates => task' = task
    BY <1>7 DEF Leaves
  <2>3. "approval" \in Past(w)' /\ task'["Mike"].output = "gated" => "plan" \in granted
    <3>1. CASE "approval" \in Past(w)
      BY <1>2, <1>7, <2>1, <3>1 DEF GatesInv, Answered
    <3>2. CASE Node(w) = "approval"
      BY <1>7, <2>2, <3>2, GatePassed DEF Gates
    <3>3. QED
      BY <2>1, <3>1, <3>2
  <2>4. "content-approval" \in Past(w)' /\ "Adrian" \in Agents /\ task'["Adrian"].output = "gated"
          => "content" \in granted
    <3>1. CASE "content-approval" \in Past(w)
      BY <1>2, <1>7, <2>1, <3>1 DEF GatesInv, Answered
    <3>2. CASE Node(w) = "content-approval"
      BY <1>7, <2>2, <3>2, GatePassed DEF Gates
    <3>3. QED
      BY <2>1, <3>1, <3>2
  <2>5. QED
    BY <1>0, <1>7, <2>3, <2>4 DEF Answered
<1>8. QED
  BY <1>4, <1>5, <1>6, <1>7, StepAdvances

\* Code is begun only behind the plan gate.
LEMMA AlexAfterMike ==
    ASSUME WholeInv, GatesInv, NEW w \in Workers, Writes(w), Node(w) = "Alex"
    PROVE  /\ Done("Mike") /\ ~ Unheard("Mike") /\ task'["Mike"] = task["Mike"]
           /\ task["Mike"].output = "gated" => "plan" \in granted
<1>1. TypeOK /\ worker[w] # Idle /\ worker[w].at <= Len(Nodes) /\ Holds(w)
  BY DEF WholeInv, SingleInv, PlacesInv, Writes
<1>2. "Mike" \in Past(w) \intersect Agents /\ "approval" \in Past(w)
  BY <1>1, GateOrder, PastBefore
<1>3. Done("Mike") /\ Answered(w)
  BY <1>1, <1>2 DEF WholeInv, Behind, GatesInv
<1>4. task'["Mike"] = task["Mike"]
  BY <1>2 DEF Writes
<1>5. ~ Unheard("Mike")
  <2>1. SUFFICES ASSUME NEW v \in Workers, worker[v].pc = "unheard", Node(v) = "Mike", Holds(v)
                 PROVE  FALSE
    BY DEF Unheard
  <2>2. v = w
    BY <1>1, <2>1, OneHolder DEF Idle, WholeInv
  <2>3. QED
    BY <2>1, <2>2
<1>6. QED
  BY <1>2, <1>3, <1>4, <1>5 DEF Answered

\* An executor comes to be unheard at a task that was not done.
LEMMA MovesUnheard ==
    ASSUME WholeInv, NEW w \in Workers, Moves(w), NEW n \in Agents, Unheard(n)'
    PROVE  Unheard(n) \/ (~ Done(n) /\ Writes(w) /\ Node(w) = n)
<1>0. SingleInv /\ PlacesInv /\ TypeOK /\ SkippedShape
  BY DEF WholeInv, SingleInv, PlacesInv
<1>1. PICK v \in Workers : worker'[v].pc = "unheard" /\ Nodes[worker'[v].at] = n /\ Holds(v)'
  BY DEF Unheard, Node
<1>2. CASE worker'[v] = worker[v]
  <2>1. worker[v] # Idle
    BY <1>1, <1>2 DEF Idle
  <2>2. Holds(v)
    BY <1>0, <1>1, <1>2, <2>1, HeldBefore
  <2>3. QED
    BY <1>1, <1>2, <2>2 DEF Unheard, Node
<1>3. CASE worker'[v] # worker[v]
  <2>1. v = w
    BY <1>0, <1>3, OthersStay
  <2>2. CASE Stays(w) /\ worker[w].pc = "work"
    <3>1. /\ worker[w] # Idle /\ Node(w) = n /\ Holds(w) /\ ~ Restores(n)
          /\ \E output \in Outputs :
                task' = [task EXCEPT ![n] = [status |-> "COMPLETED", output |-> output]]
      BY <1>1, <2>1, <2>2 DEF Stays, GoesOn, Node
    <3>2. ~ Skips(n)
      BY <2>2, <3>1 DEF WholeInv, Behind, AtAgent
    <3>3. ~ Done(n)
      BY <1>0, <3>1, <3>2 DEF SkippedShape, Restores, Done
    <3>4. task' # task
      BY <1>0, <3>1 DEF TypeOK, Restores
    <3>5. QED
      BY <3>1, <3>3, <3>4, MovesWrites
  <2>3. CASE Outlives(w)
    <3>1. worker[w].pc = "unheard" /\ Node(w) = n /\ worker[w] # Idle
      BY <1>1, <2>1, <2>3 DEF Outlives, GoesOn, Node
    <3>2. Holds(w)
      BY <1>0, <1>1, <2>1, <2>3, <3>1, HeldBefore DEF Outlives, GoesOn
    <3>3. QED
      BY <3>1, <3>2 DEF Unheard
  <2>4. CASE Claimed(w)
    <3>1. PICK d \in queue : worker' = worker \/ worker' = [worker EXCEPT ![w] = NewExecution(d)]
      BY <2>4 DEF Claimed
    <3>2. worker'[w] = NewExecution(d)
      BY <1>0, <1>3, <2>1, <3>1, Update
    <3>3. worker'[w].pc = "invoke"
      BY <1>0, <3>2, NewExecutionType, VersionTypes
    <3>4. QED
      BY <1>1, <2>1, <3>3
  <2>5. CASE Ends(w)
    <3>1. worker'[w] = Idle
      BY <1>0, <2>5, Update DEF Ends
    <3>2. QED
      BY <1>1, <2>1, <3>1 DEF Idle
  <2>6. CASE Skipped(w) \/ Saved(w)
    <3>1. worker[w] # Idle /\ worker[w] \in Execution
      BY <1>0, <2>6, BusyType DEF Skipped, Saved, GoesOn
    <3>2. worker[w].at <= Len(Nodes)
      BY <1>0, <2>6, <3>1, AtNode DEF Skipped, Saved, IsAt, AtAgent
    <3>3. worker'[w].pc \in {"validate", "enter"}
      BY <2>6, <3>1, <3>2, NextNodeType DEF Skipped, Saved
    <3>4. QED
      BY <1>1, <2>1, <3>3
  <2>7. CASE Returns(w) \/ Passed(w) \/ Invoked(w)
    BY <1>1, <2>1, <2>7 DEF Returns, Passed, Invoked
  <2>8. CASE Stays(w) /\ worker[w].pc # "work"
    BY <1>1, <2>1, <2>8 DEF Stays
  <2>9. QED
    BY <2>2, <2>3, <2>4, <2>5, <2>6, <2>7, <2>8 DEF Moves
<1>4. QED
  BY <1>2, <1>3

LEMMA MovesGates ==
    ASSUME WholeInv, GatesInv, ~ StallSurvives, UNCHANGED entitled, NEW w \in Workers, Moves(w)
    PROVE  GatesInv'
<1>0. PlacesInv /\ TypeOK /\ granted' = granted /\ {"Mike", "Alex"} \subseteq Agents
  BY RowMoves, GateOrder DEF WholeInv, SingleInv, PlacesInv
<1>1. \A n \in Agents : Done(n) /\ ~ Unheard(n) => task'[n] = task[n] /\ Done(n)'
  BY MovesDone DEF DoneStays, Done
<1>2. task'["Alex"].status \notin {"NONE", "SKIPPED"} =>
        /\ Done("Mike") /\ ~ Unheard("Mike") /\ task'["Mike"] = task["Mike"]
        /\ task["Mike"].output = "gated" => "plan" \in granted
  <2>1. CASE task'["Alex"] = task["Alex"]
    BY <1>0, <1>1, <2>1 DEF GatesInv, GatesAreAnswered
  <2>2. CASE Writes(w) /\ Node(w) = "Alex"
    BY <2>2, AlexAfterMike
  <2>3. task'["Alex"] = task["Alex"] \/ (Writes(w) /\ Node(w) = "Alex")
    BY <1>0, MovesWrites DEF Writes
  <2>4. QED
    BY <2>1, <2>2, <2>3
<1>3. ASSUME "Adrian" \in Agents, status' = "COMPLETED", task'["Adrian"].output = "gated"
      PROVE  "content" \in granted
  <2>1. CASE status = "COMPLETED"
    <3>1. ~ Writes(w)
      BY <2>1 DEF Writes, Holds
    <3>2. QED
      BY <1>3, <2>1, <3>1, MovesWrites DEF GatesInv, GatesAreAnswered
  <2>2. CASE status # "COMPLETED"
    <3>1. Ends(w) /\ worker[w].pc = "validate"
      BY <1>3, <2>2 DEF Moves, Claimed, Ends, Stays, Returns, Skipped, Passed, Saved, Invoked,
         Outlives, GoesOn, MoveTo, row
    <3>2. worker[w] # Idle /\ task' = task
      BY <3>1 DEF Ends
    <3>3. "content-approval" \in Past(w)
      BY <1>0, <1>3, <3>1, AllPast, GateOrder DEF Before
    <3>4. QED
      BY <1>3, <3>2, <3>3 DEF GatesInv, Answered
  <2>3. QED
    BY <2>1, <2>2
<1>4. GatesAreAnswered'
  BY <1>0, <1>2, <1>3 DEF GatesAreAnswered
<1>5. task'["Alex"].status \notin {"NONE", "SKIPPED"} => Done("Mike")' /\ ~ Unheard("Mike")'
  BY <1>0, <1>1, <1>2, MovesUnheard
<1>6. \A v \in Workers : worker'[v] # Idle => Answered(v)'
  BY MovesAnswered
<1>7. QED
  BY <1>4, <1>5, <1>6, MovesPlanned DEF GatesInv

\* A person's approval is granted and put into the job in one step.
LEMMA PersonGates ==
    ASSUME GatesInv, Person
    PROVE  GatesInv'
<1> USE DEF data, row
<1>1. granted \subseteq granted' /\ UNCHANGED <<task, worker>>
  BY DEF Person, Stop, Continue, ChangePlan, OpenFile, PutProjectFile
<1>2. status' = "COMPLETED" => status = "COMPLETED"
  BY DEF Person, Stop, Continue, MoveTo, ChangePlan, OpenFile, PutProjectFile
<1>3. \A d \in queue' : d \in queue \/ Planned(d.job)'
  <2>1. ASSUME NEW command \in {"resume", "retry", "plan", "content"}, Continue(command)
        PROVE  \A d \in queue' : d \in queue \/ Planned(d.job)'
    <3> DEFINE e == NewDelivery(command, controlVersion + 1)
    <3>1. e.job.command = command
      BY DEF NewDelivery
    <3>2. queue' = queue \union {e} /\ {command} \intersect {"plan", "content"} \subseteq granted'
      BY <2>1 DEF Continue
    <3> HIDE DEF e
    <3>3. e.job.command \in {"plan", "content"} => e.job.command \in granted'
      BY <3>1, <3>2
    <3>4. QED
      BY <3>2, <3>3 DEF Planned
  <2>2. queue' = queue \/ \E command \in {"resume", "retry", "plan", "content"} : Continue(command)
    BY DEF Person, Stop, ChangePlan, OpenFile, PutProjectFile
  <2>3. QED
    BY <2>1, <2>2
<1>4. \A j : Planned(j) => Planned(j)'
  BY <1>1 DEF Planned
<1>a. Unheard("Mike")' => Unheard("Mike")
  <2>1. status' = "RUNNING" => UNCHANGED <<status, controlVersion>>
    BY DEF Person, Stop, Continue, MoveTo, ChangePlan, OpenFile, PutProjectFile
  <2>2. QED
    BY <1>1, <2>1 DEF Unheard, Holds, Authority, Node
<1>5. \A w \in Workers : worker'[w] # Idle => Planned(worker[w].delivery.job)' /\ Answered(w)'
  BY <1>1, <1>4 DEF GatesInv, Answered, Past, Planned
<1>6. \A d \in queue' : Planned(d.job)'
  BY <1>3, <1>4 DEF GatesInv, Planned
<1>7. GatesAreAnswered'
  BY <1>1, <1>2 DEF GatesInv, GatesAreAnswered
<1>8. QED
  BY <1>1, <1>a, <1>5, <1>6, <1>7 DEF GatesInv, Done

\* Both gates hold through every stop, resume, retry, crash and redelivery: a
\* run never writes code under a plan that asks, and never completes with copy
\* that asks, unless a person has approved that very scope.
THEOREM GatesAreAnsweredHolds ==
    ASSUME ~ StallSurvives, ~ PlanMayChange
    PROVE  Spec => []GatesAreAnswered
<1> DEFINE IInv == WholeInv /\ GatesInv
<1>1. Init => IInv
  <2> SUFFICES ASSUME Init
               PROVE  GatesInv
    BY InitWhole
  <2>1. task["Alex"].status = "NONE" /\ status = "PENDING"
    BY GateOrder DEF Init
  <2>2. \A d \in queue : Planned(d.job)
    BY DEF Init, Planned, NewDelivery
  <2>3. \A w \in Workers : worker[w] = Idle
    BY DEF Init
  <2>4. QED
    BY <2>1, <2>2, <2>3 DEF GatesInv, GatesAreAnswered
<1>2. IInv /\ [Next]_vars => IInv'
  <2> SUFFICES ASSUME WholeInv, GatesInv, [Next]_vars
               PROVE  GatesInv'
    BY NextWhole
  <2>1. UNCHANGED entitled
    BY NextWhole
  <2>2. CASE Person
    BY <2>2, PersonGates
  <2>3. ASSUME NEW w \in Workers, Execute(w)
        PROVE  GatesInv'
    BY <2>1, <2>3, ExecuteMoves, MovesGates DEF WholeInv, SingleInv
  <2>4. CASE UNCHANGED vars
    BY <2>4 DEF GatesInv, Planned, Answered, Past, Done, GatesAreAnswered, Unheard, Holds, Authority,
       Node, vars, row, data
  <2>5. QED
    BY <2>2, <2>3, <2>4 DEF Next
<1>3. IInv => GatesAreAnswered
  BY DEF GatesInv
<1>4. QED
  BY <1>1, <1>2, <1>3, PTL DEF Spec

=================================================================================
