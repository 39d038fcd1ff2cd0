--------------------------- MODULE RunStateMachine ---------------------------
(***************************************************************************)
(* What a run promises to everyone who looks at its row: the status moves  *)
(* only along the edges below, COMPLETED and CANCELLED are final, and      *)
(* every move but one costs a control version, so a decision taken on an   *)
(* old (status, control version) pair can be recognised as stale.  The     *)
(* exception is the Control API giving up a run it could not enqueue.      *)
(***************************************************************************)
EXTENDS Naturals

VARIABLES
    status,          \* agent_runs.status, "NONE" before the run exists
    controlVersion   \* agent_runs.control_version

vars == <<status, controlVersion>>

Statuses == {"NONE", "PENDING", "RUNNING", "PAUSED",
             "COMPLETED", "FAILED", "CANCELLED"}

Edges == {<<"PENDING", "RUNNING">>,   <<"PENDING", "PAUSED">>,
          <<"PENDING", "CANCELLED">>, <<"RUNNING", "PAUSED">>,
          <<"RUNNING", "COMPLETED">>, <<"RUNNING", "FAILED">>,
          <<"RUNNING", "CANCELLED">>, <<"PAUSED", "PENDING">>,
          <<"PAUSED", "CANCELLED">>,  <<"FAILED", "PENDING">>}

Init ==
    /\ status = "NONE"
    /\ controlVersion = 0

Create ==
    /\ status = "NONE"
    /\ status' = "PENDING"
    /\ UNCHANGED controlVersion

Move ==
    /\ <<status, status'>> \in Edges
    /\ controlVersion' = controlVersion + 1

GiveUpEnqueue ==
    /\ status = "PENDING"
    /\ status' = "FAILED"
    /\ UNCHANGED controlVersion

Next == Create \/ Move \/ GiveUpEnqueue

Spec == Init /\ [][Next]_vars
=============================================================================
