----------------------------- MODULE EventStream -----------------------------
(***************************************************************************)
(* The event log of one run and the page that follows it.  Transactions of *)
(* the worker and of the Control API append events under the run's row     *)
(* lock; an SSE connection lists them page by page and ends when it reads  *)
(* a terminal status; the browser reconnects behind the last sequence it   *)
(* has, asks for the run in between, and shows whichever answer came last. *)
(***************************************************************************)
EXTENDS Naturals, Sequences, FiniteSets, SequencesExt

CONSTANTS
    Writers,        \* transactions that may be open at once
    Page,           \* events one query returns (100 in the code)
    MaxEvents,      \* bound: events in the log
    MaxVersion,     \* bound: control versions
    ReloadBound,    \* bound: page reloads and stream restarts
    MayRetry,       \* may the user retry a failed run?
    MayLeave,       \* may the user start a new project?
    LateAnswers,    \* may an answer arrive after one that was read later?
    NetworkErrors,  \* may a request of the stream fail?
    None, Pending

VARIABLES
    run,     \* agent_runs: status and control version
    counter, \* agent_runs.event_sequence, the open transaction's increment included
    log,     \* run_events: the type of each committed sequence
    txn,     \* the open append of each writer
    conn,    \* the server side of the SSE connection
    client,  \* streamRunEvents and the projection it feeds
    shown,   \* the page's run state
    asked,   \* the page's GET /runs/:id requests: pending, read or none
    reloads

server == <<run, counter, log, txn>>
page == <<client, shown, asked, reloads>>
vars == <<server, conn, page>>

Terminal == {"COMPLETED", "FAILED", "CANCELLED"}
Statuses == {"PENDING", "RUNNING", "PAUSED"} \union Terminal

\* What an event of a type makes of the run's status in the same transaction.
Sets(type, status) ==
    CASE type = "run.status_changed" -> "RUNNING"
      [] type = "approval.required"  -> "PAUSED"
      [] type = "run.completed"      -> "COMPLETED"
      [] type = "run.failed"         -> "FAILED"
      [] OTHER                       -> status
MayAppend(type, status) ==
    CASE type = "run.status_changed" -> status = "PENDING"
      [] type \in {"approval.required", "run.completed", "run.failed"} -> status = "RUNNING"
      [] OTHER -> TRUE
Types == {"run.status_changed", "approval.required", "run.completed", "run.failed",
          "integration.status_changed"}
\* The events on which the page asks for the run.
Asking == {"approval.required", "run.completed", "run.failed"}

(* What the constants satisfy; the modules that instantiate this one assume it. *)
EventStreamAssumption ==
    /\ {Page, MaxEvents} \subseteq Nat \ {0} /\ {MaxVersion, ReloadBound} \subseteq Nat
    /\ {MayRetry, MayLeave, LateAnswers, NetworkErrors} \subseteq BOOLEAN
    /\ None \notin Types \union [seq : Nat, type : Types] /\ Pending # None

\* Who asks: the loop between two connections, the handlers of two events, the
\* callback after the stream, the user's action.
Askers == {"loop", "event1", "event2", "end", "action"}

Init ==
    /\ run = [status |-> "PENDING", version |-> 0]
    /\ counter = 0
    /\ log = <<>>
    /\ txn = [w \in Writers |-> None]
    /\ conn = None
    /\ client = [phase |-> "connect", cursor |-> 0, last |-> 0, got |-> <<>>]
    /\ shown = run
    /\ asked = [a \in Askers |-> None]
    /\ reloads = 0

-----------------------------------------------------------------------------
(* The log *)

\* Incrementing event_sequence locks the run row until the transaction ends.
LockFree_NoLock == TRUE
LockFree == \A w \in Writers : txn[w] = None

BeginAppend(w, type) ==
    /\ txn[w] = None /\ LockFree
    /\ counter < MaxEvents
    /\ MayAppend(type, run.status)
    /\ counter' = counter + 1
    /\ txn' = [txn EXCEPT ![w] = [seq |-> counter', type |-> type]]
    /\ UNCHANGED <<run, log, conn, page>>

Visible(s) == s \in DOMAIN log /\ log[s] # None

CommitAppend(w) ==
    /\ txn[w] # None
    /\ LET t == txn[w] IN
        /\ log' = [s \in 1 .. (IF t.seq > Len(log) THEN t.seq ELSE Len(log)) |->
                     IF s = t.seq THEN t.type ELSE IF s \in DOMAIN log THEN log[s] ELSE None]
        /\ run' = [run EXCEPT !.status = Sets(t.type, @)]
    /\ txn' = [txn EXCEPT ![w] = None]
    /\ UNCHANGED <<counter, conn, page>>

RollbackAppend(w) ==
    /\ txn[w] # None
    /\ counter' = counter - 1
    /\ txn' = [txn EXCEPT ![w] = None]
    /\ UNCHANGED <<run, log, conn, page>>

-----------------------------------------------------------------------------
(* GET /v1/runs/:runId/events *)

\* The committed events behind the cursor, by sequence and a page at most.
EventsAfter(cursor) == {s \in DOMAIN log : s > cursor /\ Visible(s)}
PageLength(events) == IF Cardinality(events) < Page THEN Cardinality(events) ELSE Page
Nth(events, i) == CHOOSE s \in events : Cardinality({t \in events : t <= s}) = i

ListRunEventsAfter(cursor) ==
    LET events == EventsAfter(cursor)
    IN  [i \in 1 .. PageLength(events) |-> Nth(events, i)]

\* Between two polls; a new connection lists before it looks at its age.
StreamPage ==
    /\ conn # None /\ conn.pc \in {"list", "poll"}
    /\ LET events == ListRunEventsAfter(conn.cursor)
       IN  conn' = [conn EXCEPT !.pipe = @ \o events,
                                !.cursor = IF events = <<>> THEN @ ELSE Last(events),
                                !.pc = IF Len(events) = Page THEN "poll" ELSE "status"]
    /\ UNCHANGED <<server, page>>

StreamStatus ==
    /\ conn # None /\ conn.pc = "status"
    /\ conn' = [conn EXCEPT !.pc = IF run.status \in Terminal THEN "ended" ELSE "poll"]
    /\ UNCHANGED <<server, page>>

\* sseMaxConnectionMs
StreamExpires ==
    /\ conn # None /\ conn.pc = "poll"
    /\ conn' = [conn EXCEPT !.pc = "ended"]
    /\ UNCHANGED <<server, page>>

-----------------------------------------------------------------------------
(* streamRunEvents *)

Ask(who) == [asked EXCEPT ![who] = Pending]

Connect ==
    /\ client.phase = "connect"
    /\ conn' = [pc |-> "list", cursor |-> client.cursor, pipe |-> <<>>]
    /\ client' = [client EXCEPT !.phase = "read"]
    /\ UNCHANGED <<server, shown, asked, reloads>>

\* The effect's onEvent: the sequence is remembered, the projection reduced
\* (an event it has is skipped), and some events make the page ask.
OnEvent(s) ==
    /\ client' = [client EXCEPT !.cursor = s, !.last = IF s > @ THEN s ELSE @,
                                !.got = IF s \in ToSet(@) THEN @ ELSE Append(@, s)]
    /\ IF log[s] \notin Asking THEN UNCHANGED asked
       ELSE \E e \in {"event1", "event2"} : asked[e] = None /\ asked' = Ask(e)

Receive ==
    /\ client.phase = "read" /\ conn.pipe # <<>>
    /\ conn' = [conn EXCEPT !.pipe = Tail(@)]
    /\ LET s == Head(conn.pipe) IN
        IF s <= client.cursor THEN UNCHANGED <<client, asked>> ELSE OnEvent(s)
    /\ UNCHANGED <<server, shown, reloads>>

StreamCloses ==
    /\ client.phase = "read" /\ conn.pc = "ended" /\ conn.pipe = <<>>
    /\ conn' = None
    /\ client' = [client EXCEPT !.phase = "refresh"]
    /\ asked' = Ask("loop")
    /\ UNCHANGED <<server, shown, reloads>>

\* The API reads the run for a request; while answers arrive in the order they
\* are read, reading is part of the delivery.
ReadRun(who) ==
    /\ LateAnswers /\ asked[who] = Pending
    /\ asked' = [asked EXCEPT ![who] = run]
    /\ UNCHANGED <<server, conn, client, shown, reloads>>

\* streamRunEvents returns on a terminal status and reconnects otherwise.
LoopEnds_Waiting(status) == status \in Terminal \union {"PAUSED"}
LoopEnds(status) == status \in Terminal

\* setRun: a page that shows no run starts to stream the one it is given.
Deliver(who) ==
    /\ asked[who] # None
    /\ LateAnswers => asked[who] # Pending
    /\ LET latest == IF asked[who] = Pending THEN run ELSE asked[who]
           done == [asked EXCEPT ![who] = None]
       IN  /\ shown' = latest
           /\ IF who # "loop"
              THEN /\ asked' = done
                   /\ client' = [client EXCEPT !.phase = IF @ = "none" THEN "connect" ELSE @]
              ELSE IF LoopEnds(latest.status)
              THEN /\ asked' = [done EXCEPT !["end"] = Pending]
                   /\ client' = [client EXCEPT !.phase = "ended"]
              ELSE /\ asked' = done
                   /\ client' = [client EXCEPT !.phase = "connect"]
    /\ UNCHANGED <<server, conn, reloads>>

\* A request of the stream fails: the effect reports it and does not start over.
StreamFails ==
    /\ NetworkErrors /\ client.phase \in {"connect", "read", "refresh"}
    /\ conn' = None
    /\ client' = [client EXCEPT !.phase = "error"]
    /\ asked' = [asked EXCEPT !["loop"] = None]
    /\ UNCHANGED <<server, shown, reloads>>

-----------------------------------------------------------------------------
(* The user *)

\* Another tab cancels or resumes the run: no event tells this page.
ControlElsewhere ==
    /\ LockFree /\ run.version < MaxVersion
    /\ \E status \in Statuses :
        /\ \/ status = "CANCELLED" /\ run.status \notin Terminal
           \/ status = "PENDING" /\ run.status = "PAUSED"
        /\ run' = [status |-> status, version |-> run.version + 1]
    /\ UNCHANGED <<counter, log, txn, conn, page>>

\* applyRunAction("retry"): the run is asked for first, and the answer of an
\* accepted action is shown when it arrives.
Retry ==
    /\ MayRetry /\ LockFree
    /\ shown # None /\ shown.status = "FAILED" /\ asked["action"] = None
    /\ IF run.status # "FAILED"
       THEN shown' = run /\ UNCHANGED <<run, asked>>
       ELSE /\ run.version < MaxVersion
            /\ run' = [status |-> "PENDING", version |-> run.version + 1]
            /\ IF LateAnswers
               THEN asked' = [asked EXCEPT !["action"] = run'] /\ UNCHANGED shown
               ELSE shown' = run' /\ UNCHANGED asked
    /\ UNCHANGED <<counter, log, txn, conn, client, reloads>>

\* A new epoch of the stream: the old one is aborted, the new one starts behind
\* the last sequence seen.
RestartStream ==
    /\ shown # None /\ shown.status = "COMPLETED" /\ reloads < ReloadBound
    /\ client' = [client EXCEPT !.phase = "connect", !.cursor = client.last]
    /\ conn' = None
    /\ asked' = [asked EXCEPT !["loop"] = None]
    /\ reloads' = reloads + 1
    /\ UNCHANGED <<server, shown>>

Reload ==
    /\ client.phase # "none" /\ reloads < ReloadBound
    /\ client' = [phase |-> "connect", cursor |-> 0, last |-> 0, got |-> <<>>]
    /\ conn' = None
    /\ shown' = run
    /\ asked' = [a \in Askers |-> None]
    /\ reloads' = reloads + 1
    /\ UNCHANGED server

\* Only the stream's own requests are aborted.
StartNewProject ==
    /\ MayLeave /\ client.phase # "none"
    /\ client' = [phase |-> "none", cursor |-> 0, last |-> 0, got |-> <<>>]
    /\ conn' = None
    /\ shown' = None
    /\ asked' = [asked EXCEPT !["loop"] = None]
    /\ UNCHANGED <<server, reloads>>

-----------------------------------------------------------------------------

StreamNext ==
    \/ StreamPage \/ StreamStatus \/ StreamExpires \/ Connect \/ Receive \/ StreamCloses
    \/ \E who \in Askers : ReadRun(who) \/ Deliver(who)

Next ==
    \/ \E w \in Writers, type \in Types : BeginAppend(w, type)
    \/ \E w \in Writers : CommitAppend(w) \/ RollbackAppend(w)
    \/ StreamNext \/ StreamFails
    \/ ControlElsewhere \/ Retry \/ RestartStream \/ Reload \/ StartNewProject

\* The connection, the page and its requests go on, a connection reaches its
\* maximum age and a transaction ends.  What the worker and the user do next is
\* up to them.
Fairness ==
    /\ WF_vars(StreamPage \/ StreamStatus) /\ SF_vars(StreamExpires)
    /\ WF_vars(Connect \/ Receive \/ StreamCloses)
    /\ \A who \in Askers : WF_vars(ReadRun(who)) /\ WF_vars(Deliver(who))
    /\ \A w \in Writers : WF_vars(CommitAppend(w))

Spec == Init /\ [][Next]_vars
FairSpec == Spec /\ Fairness

-----------------------------------------------------------------------------
(* Properties *)

Runs == [status : Statuses, version : 0 .. MaxVersion]

\* Every variable keeps its shape, and no cursor is ahead of the committed log.
TypeOK ==
    /\ run \in Runs /\ counter \in 0 .. MaxEvents
    /\ \A w \in Writers : txn[w] = None \/ txn[w].seq \in 1 .. MaxEvents
    /\ conn = None \/ (conn.pc \in {"list", "poll", "status", "ended"} /\ conn.cursor \in 0 .. Len(log))
    /\ client.phase \in {"connect", "read", "refresh", "ended", "error", "none"}
    /\ client.cursor \in 0 .. Len(log) /\ client.last \in 0 .. Len(log)
    /\ ToSet(client.got) \subseteq DOMAIN log
    /\ shown \in Runs \union {None}
    /\ \A a \in Askers : asked[a] \in Runs \union {None, Pending}

\* appendEvent, listRunEventsAfter and Last-Event-ID together: the page's events
\* are 1, 2, 3 ... without a gap, a duplicate or a swap, across pages, reconnects,
\* restarts and reloads, although transactions commit while the log is listed.
GaplessReplay == client.got = [i \in 1 .. Len(client.got) |-> i]

\* streamRunEvents asks for the run on every cycle: once nobody changes it any
\* more, the page that shows it shows its status.
ShownIsCurrent == shown # None => shown = run
ShownCatchesUp == <>[]ShownIsCurrent

\* The stream of a finished run: when the page has stopped listening, the final
\* event of the status it shows is among the events it has.
FinalEventIsDelivered ==
    client.phase = "ended" /\ shown = run =>
        \A s \in DOMAIN log :
            log[s] \in {"run.completed", "run.failed"} /\ Sets(log[s], "") = run.status
                => s \in ToSet(client.got)

\* startNewProject: the page does not come back to the run the user has left.
LeftRunStaysAway == [][shown = None => shown' = None]_vars
=============================================================================
