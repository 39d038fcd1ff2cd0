---------------------------- MODULE WorkerProcess ----------------------------
(***************************************************************************)
(* The life of the orchestrator worker's process.  main() opens stores and *)
(* constructs queue consumers one after the other; a consumer takes jobs   *)
(* from its construction on, while main() still awaits the schedulers of   *)
(* the later ones.  A signal closes everything in a fixed order, waiting   *)
(* for the job of each consumer while the others still take theirs.  A     *)
(* process whose main() failed lives on as long as a consumer does.        *)
(***************************************************************************)
EXTENDS Naturals, Sequences

CONSTANTS
    Phase3,      \* SUPABASE_ACCESS_TOKEN is set: the database consumers are configured
    SignalBound  \* bound: signals of one kind sent to the process

Consumers == {"run", "attachment", "reopen", "handoff"}
             \union (IF Phase3 THEN {"database", "reconciliation"} ELSE {})
Stores == {"repository", "checkpointer", "previewStore"} \union (IF Phase3 THEN {"recoveryQueue"} ELSE {})
Services == {"readiness", "expiry", "reminder", "purge"}
Signals == {"SIGINT", "SIGTERM"}

(* What the processor of each queue works on. *)
Uses(c) ==
    CASE c = "run" -> {"repository", "checkpointer", "previewStore"}
      [] c = "reopen" -> {"repository", "previewStore"}
      [] c = "reconciliation" -> {"repository", "recoveryQueue"}
      [] OTHER -> {"repository"}

(* What the constants satisfy; the modules that instantiate this one assume it. *)
WorkerAssumption == Phase3 \in BOOLEAN /\ SignalBound \in Nat

VARIABLES
    pc,        \* the step of main(), of shutdown(), or the end
    left,      \* what shutdown() has still to close, in order
    taking,    \* the consumers that take jobs
    busy,      \* the consumers that work on a job
    open,      \* the stores that are open
    services,  \* the timers that run
    handlers,  \* the signals whose handler is still registered
    sent       \* how many signals of each kind were sent

vars == <<pc, left, taking, busy, open, services, handlers, sent>>
work == <<taking, busy, open>>

TypeOK ==
    /\ pc \in {"environment", "setup", "consumers", "handoff", "databases", "reconciliation", "services",
               "serving", "closing", "failed", "exited", "killed", "crashed"}
    /\ left \in Seq(Consumers \union Stores)
    /\ taking \subseteq Consumers /\ busy \subseteq Consumers /\ open \subseteq Stores
    /\ services \subseteq Services /\ handlers \subseteq Signals
    /\ sent \in [Signals -> 0 .. SignalBound]

Init ==
    /\ pc = "environment" /\ left = <<>> /\ taking = {} /\ busy = {} /\ open = {}
    /\ services = {} /\ handlers = {} /\ sent = [s \in Signals |-> 0]

Ended == pc \in {"exited", "killed", "crashed"}

-----------------------------------------------------------------------------
(* main().  Each step either goes on or rejects; a rejection is printed, sets the exit code and *)
(* leaves what runs running.                                                                    *)
Fails == pc' = "failed" /\ UNCHANGED <<left, services, handlers, sent>>
Continues(at) == pc' = at /\ UNCHANGED <<left, services, handlers, sent>>

ParseEnvironment ==
    /\ pc = "environment" /\ (Continues("setup") \/ Fails)
    /\ UNCHANGED work

SetupCheckpointer ==
    /\ pc = "setup" /\ (Continues("consumers") \/ Fails)
    /\ open' = {"repository", "checkpointer"} /\ UNCHANGED <<taking, busy>>

ConstructConsumers ==
    /\ pc = "consumers" /\ Continues("handoff")
    /\ open' = open \union {"previewStore"}
    /\ taking' = {"run", "attachment", "reopen", "handoff"} /\ UNCHANGED busy

(* The scheduler of the handoff reconciliation is written to Redis. *)
StartHandoff ==
    /\ pc = "handoff" /\ (Continues(IF Phase3 THEN "databases" ELSE "services") \/ Fails)
    /\ UNCHANGED work

ConstructDatabaseConsumers ==
    /\ pc = "databases" /\ Continues("reconciliation")
    /\ open' = open \union {"recoveryQueue"}
    /\ taking' = taking \union {"database", "reconciliation"} /\ UNCHANGED busy

StartReconciliation ==
    /\ pc = "reconciliation" /\ (Continues("services") \/ Fails)
    /\ UNCHANGED work

(* The readiness publisher, the sweepers that are configured, and the handlers, in one turn. *)
StartServices(configured) ==
    /\ pc = "services" /\ pc' = "serving"
    /\ services' = {"readiness"} \union configured /\ handlers' = Signals
    /\ UNCHANGED <<left, work, sent>>

-----------------------------------------------------------------------------
(* The queues *)

Take(c) ==
    /\ ~Ended /\ c \in taking \ busy /\ busy' = busy \union {c}
    /\ UNCHANGED <<pc, left, taking, open, services, handlers, sent>>

EndJob(c) ==
    /\ ~Ended /\ c \in busy /\ busy' = busy \ {c}
    /\ UNCHANGED <<pc, left, taking, open, services, handlers, sent>>

-----------------------------------------------------------------------------
(* shutdown() *)

CloseOrder ==
    (IF Phase3 THEN <<"reconciliation", "recoveryQueue", "database">> ELSE <<>>)
    \o <<"handoff", "attachment", "reopen", "run", "previewStore", "checkpointer", "repository">>

(* A signal without a handler ends the process, its jobs with it.  A handler is used once; the first *)
(* that runs stops the timers and starts to close, the other finds that it is shutting down.         *)
Signal(s) ==
    /\ ~Ended /\ sent[s] < SignalBound /\ sent' = [sent EXCEPT ![s] = @ + 1]
    /\ \/ /\ s \notin handlers /\ pc' = "killed" /\ taking' = {} /\ busy' = {}
          /\ UNCHANGED <<left, services, handlers>>
       \/ /\ s \in handlers /\ handlers' = handlers \ {s} /\ UNCHANGED <<taking, busy>>
          /\ IF pc = "closing" THEN UNCHANGED <<pc, left, services>>
             ELSE pc' = "closing" /\ left' = CloseOrder /\ services' = {}
    /\ UNCHANGED open

(* close() of a consumer takes no further job and waits for the one it works on. *)
StopsTaking(c) == taking' = taking \ {c}

CloseConsumer ==
    /\ pc = "closing" /\ left # <<>> /\ Head(left) \in Consumers
    /\ \/ /\ Head(left) \in taking /\ StopsTaking(Head(left))
          /\ UNCHANGED left
       \/ /\ Head(left) \notin taking /\ Head(left) \notin busy /\ left' = Tail(left)
          /\ UNCHANGED taking
    /\ UNCHANGED <<pc, busy, open, services, handlers, sent>>

CloseStore ==
    /\ pc = "closing" /\ left # <<>> /\ Head(left) \in Stores
    /\ open' = open \ {Head(left)} /\ left' = Tail(left)
    /\ UNCHANGED <<pc, taking, busy, services, handlers, sent>>

(* A close() that rejects: nobody awaits shutdown(), so Node ends the process, its jobs with it. *)
CloseRejects ==
    /\ pc = "closing" /\ left # <<>>
    /\ pc' = "crashed" /\ taking' = {} /\ busy' = {}
    /\ UNCHANGED <<left, open, services, handlers, sent>>

(* The process ends when nothing keeps it alive: consumers do, and the timers are unreferenced. *)
Exit ==
    /\ (pc = "closing" /\ left = <<>>) \/ (pc = "failed" /\ taking = {})
    /\ pc' = "exited"
    /\ UNCHANGED <<left, work, services, handlers, sent>>

-----------------------------------------------------------------------------
Main ==
    \/ ParseEnvironment \/ SetupCheckpointer \/ ConstructConsumers \/ StartHandoff
    \/ ConstructDatabaseConsumers \/ StartReconciliation
    \/ \E configured \in SUBSET (Services \ {"readiness"}) : StartServices(configured)
Shutdown == CloseConsumer \/ CloseStore

Next ==
    \/ Main \/ Shutdown \/ CloseRejects \/ Exit
    \/ \E c \in Consumers : Take(c) \/ EndJob(c)
    \/ \E s \in Signals : Signal(s)

Spec == Init /\ [][Next]_vars

(* The process runs, and a job ends: its processor works under timeouts. *)
FairSpec ==
    /\ Spec /\ WF_vars(Main) /\ WF_vars(Shutdown) /\ WF_vars(Exit)
    /\ \A c \in Consumers : WF_vars(EndJob(c))

-----------------------------------------------------------------------------
(* No job works on a store that is closed or not yet open: consumers are constructed after what they use and *)
(* closed before it, and the reconciliation before the queue it fills, while every other consumer still works. *)
NoUseAfterClose == \A c \in busy : Uses(c) \subseteq open

(* A shutdown that began completes: each close waits only for a job that ends, whatever jobs the consumers *)
(* after it still take, or rejects and ends the process. *)
Closing == pc = "closing"
ShutdownCompletes == Closing ~> Ended

(* A signal cuts jobs off only when the process was still starting, its start had failed, or the same signal *)
(* was sent again.  (What a close() that rejects cuts off is not the signal's doing.) *)
OneSignalIsGraceful ==
    pc' = "killed" => pc \notin {"serving"} /\ (pc = "closing" => \E s \in Signals : sent'[s] > 1)

(* "The worker must publish its own state": a process that takes runs comes to publish its readiness, or ends. *)
TakingWorkerReports == "run" \in taking ~> ("readiness" \in services \/ Ended \/ pc = "closing")

=============================================================================
