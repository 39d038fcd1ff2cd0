-------------------------- MODULE ReleaseAssessment --------------------------
(***************************************************************************)
(* The observe-only release assessment of one run.  A worker that has      *)
(* validated the generated files loads the evidence of its sandbox         *)
(* session, evaluates it and stores assessment, evidence rows and run      *)
(* events in one transaction, then completes the run; a member may trigger *)
(* an assessment by hand at any time.  Meanwhile the run is paused and     *)
(* resumed, jobs are delivered twice, files are edited and evidence ages.  *)
(* RunControl has the details of the run; here it is active, paused or     *)
(* completed at a control version.                                         *)
(***************************************************************************)
EXTENDS Naturals

CONSTANTS
    Workers,        \* executions of the run's jobs
    Baseline,       \* the checks a sandbox command is evidence for
    RequiredChecks, \* the recorded policy: STANDARD_RELEASE_POLICY or narrower
    Attempts,       \* bound: session attempts, delivered ones and repaired ones
    VersionBound,   \* bound: no pause or resume at or above this control version
    FileBound,      \* bound: no edit at or above this file revision
    DeliveryBound,  \* bound: deliveries of the run's jobs
    FaultBound,     \* bound: database calls that fail
    ManualBound     \* bound: manual assessments

(* What the constants satisfy; the modules that instantiate this one assume it. *)
ReleaseAssessmentAssumption ==
    /\ Baseline \subseteq RequiredChecks /\ "ACCEPTANCE" \notin RequiredChecks
    /\ Attempts \subseteq Nat /\ 1 \in Attempts
    /\ {VersionBound, FileBound, DeliveryBound, FaultBound, ManualBound} \subseteq Nat

VARIABLES
    status,     \* agent_runs.status: "active", "paused", "completed"
    version,    \* agent_runs.control_version
    files,      \* the project's latest file revisions, as one number
    criteria,   \* Emma's criteria: "mapped" ones have a scenario; {} without a task
    session,    \* sandbox_commands by session attempt and step
    work,       \* what each worker is doing
    row,        \* release_assessments by (control version, attempt, source)
    evidence,   \* release_evidence: the assessment each stored evidence id is of
    announced,  \* the last release.ready / release.blocked event of an assessment
    faults,     \* database calls that failed so far
    delivered,  \* deliveries so far
    manual,     \* manual assessments so far
    lost        \* history: keys whose failure record could not be written either

run == <<status, version>>
stored == <<row, evidence, announced>>
other == <<delivered, manual, lost>>
vars == <<run, files, criteria, session, work, stored, faults, other>>

None == [kind |-> "none"]
Steps == Baseline \union {"ACCEPTANCE"}
Criteria == {"mapped", "unmapped"}
Keys == (0 .. VersionBound) \X Attempts \X {"WORKER", "MANUAL"}
EvidenceIds == Attempts \X Steps
Command == [passed : BOOLEAN, old : BOOLEAN, on : Nat]
Codes == {"MISSING_ACCEPTANCE", "EVIDENCE_TOO_OLD", "EVIDENCE_NOT_PASSED", "MISSING_CHECK",
          "MISSING_CRITERION_EVIDENCE", "EVALUATOR_FAILURE"}
Pcs == {"idle", "validate", "load", "persist", "fail", "complete"}
Item == [step : Steps, id : EvidenceIds, passed : BOOLEAN, old : BOOLEAN, bound : BOOLEAN]

(* READY exactly when the evaluation found no issue. *)
Status(issues) == IF issues = {} THEN "READY" ELSE "BLOCKED"

Init ==
    /\ status = "active" /\ version = 0 /\ files = 1
    /\ criteria \in {{}, {"mapped"}, Criteria}
    /\ session = [a \in Attempts |-> [s \in Steps |-> None]]
    /\ work = [w \in Workers |-> [pc |-> "idle", version |-> 0, attempt |-> 0, items |-> {}]]
    /\ row = [k \in Keys |-> None]
    /\ evidence = [i \in EvidenceIds |-> None]
    /\ announced = [k \in Keys |-> None]
    /\ faults = 0 /\ lost = {} /\ manual = 0 /\ delivered = 0

-----------------------------------------------------------------------------
(* The evaluation *)

(* The commands of a set of sessions as evidence, stamped with the fingerprint of the *)
(* latest files (bound: these are the files it ran on); the id is the command row's.   *)
Items(attempts, steps) ==
    {[step |-> i[2], id |-> i, passed |-> session[i[1]][i[2]].passed,
      old |-> session[i[1]][i[2]].old, bound |-> session[i[1]][i[2]].on = files] :
        i \in {j \in attempts \X steps : session[j[1]][j[2]] # None}}

(* evaluateRelease: every submitted item is inspected; an old one is not usable, *)
(* and no newer passing item makes up for a failing one.                         *)
Evaluate(items) ==
    LET usable == {i \in items : ~i.old}
        Covered(c) == c = "mapped" /\ \E i \in usable : i.step = "ACCEPTANCE"
    IN  {code \in Codes :
            \/ code = "MISSING_ACCEPTANCE" /\ criteria = {}
            \/ code = "EVIDENCE_TOO_OLD" /\ \E i \in items : i.old
            \/ code = "EVIDENCE_NOT_PASSED" /\ \E i \in items : ~i.passed
            \/ code = "MISSING_CHECK" /\ \E k \in RequiredChecks : \A i \in usable : i.step # k
            \/ code = "MISSING_CRITERION_EVIDENCE" /\ \E c \in criteria : ~Covered(c)}

(* The row of a new evaluation, or of one that failed. *)
Assessed(items) == [kind |-> "row", status |-> Status(Evaluate(items)),
                    issues |-> Evaluate(items),
                    items |-> items]
EvaluatorFailure == [kind |-> "row", status |-> "BLOCKED", issues |-> {"EVALUATOR_FAILURE"},
                     items |-> {}]

-----------------------------------------------------------------------------
(* The worker *)

Key(w) == <<work[w].version, work[w].attempt, "WORKER">>
At(w, pc) == work[w].pc = pc
Current(w) == status = "active" /\ version = work[w].version
GoTo(w, pc) == work' = [work EXCEPT ![w].pc = pc]
Stop(w) == work' = [work EXCEPT ![w].pc = "idle", ![w].items = {}]
Fault == faults < FaultBound /\ faults' = faults + 1

(* A job of the current control version; the attempts of every version count from one. *)
Deliver(w) ==
    /\ At(w, "idle") /\ status = "active"
    /\ delivered < DeliveryBound /\ delivered' = delivered + 1
    /\ work' = [work EXCEPT ![w].pc = "validate", ![w].version = version, ![w].attempt = 1]
    /\ UNCHANGED <<run, files, criteria, session, stored, faults, manual, lost>>

(* What a validation records in its session: each step overwrites the row of its     *)
(* ordinal, and the first failing step is the last one.  The acceptance step comes   *)
(* after the others, if it runs at all, and its outcome never fails the validation.  *)
Recorded(a, ran, failing, acceptance) ==
    [s \in Steps |->
        IF s = "ACCEPTANCE"
        THEN IF failing = {} /\ acceptance # "off"
             THEN [passed |-> acceptance = "passed", old |-> FALSE, on |-> files] ELSE session[a][s]
        ELSE IF s \in ran THEN [passed |-> s \notin failing, old |-> FALSE, on |-> files]
        ELSE session[a][s]]

(* Every write of the validation compares the control version. *)
ValidationPasses(w) ==
    /\ At(w, "validate") /\ Current(w)
    /\ \E acceptance \in {"off", "passed", "failed"} :
          session' = [session EXCEPT ![work[w].attempt] = Recorded(work[w].attempt, Baseline, {}, acceptance)]
    /\ GoTo(w, "load")
    /\ UNCHANGED <<run, files, criteria, stored, faults, other>>

MayRepair(w) == work[w].attempt + 1 \in Attempts

(* A failed validation is repaired in a session of its own, with a new file revision, *)
(* or ends the job.                                                                    *)
ValidationFails(w) ==
    /\ At(w, "validate") /\ Current(w)
    /\ \E s \in Baseline : \E ran \in SUBSET Baseline :
          /\ s \in ran
          /\ session' = [session EXCEPT ![work[w].attempt] = Recorded(work[w].attempt, ran, {s}, "off")]
    /\ \/ /\ MayRepair(w)
          /\ files' = files + 1
          /\ work' = [work EXCEPT ![w].attempt = @ + 1]
       \/ files' = files /\ Stop(w)
    /\ UNCHANGED <<run, criteria, stored, faults, other>>

Superseded(w) ==
    /\ At(w, "validate") /\ ~Current(w)
    /\ Stop(w)
    /\ UNCHANGED <<run, files, criteria, session, stored, faults, other>>

(* The sessions an assessment reads: the worker those of its attempt. *)
Scope(w) == {work[w].attempt}

(* loadEvidenceInputs: the latest files and the session's commands, whatever the *)
(* control version is by now.  A scenario result without a mapped criterion is   *)
(* no evidence.                                                                  *)
LoadEvidenceInputs(w) ==
    /\ At(w, "load")
    /\ work' = [work EXCEPT ![w].pc = "persist",
                            ![w].items = Items(Scope(w), IF "mapped" \in criteria THEN Steps ELSE Baseline)]
    /\ UNCHANGED <<run, files, criteria, session, stored, faults, other>>

(* Upsert on the key, which gives the row a new id its evidence follows; the evidence *)
(* rows are then replaced, and both events appended.                                  *)
Store(k, r) ==
    /\ row' = [row EXCEPT ![k] = r]
    /\ announced' = [announced EXCEPT ![k] = [kind |-> "event", status |-> r.status]]

Conflicts_Never(w) == FALSE

(* Command ids are primary keys of release_evidence; ids of acceptance items are fresh. *)
Conflicts(w) == \E i \in work[w].items : i.step # "ACCEPTANCE" /\ evidence[i.id] \notin {None, [kind |-> "of", key |-> Key(w)]}

Rows(k, ids) == [i \in EvidenceIds |-> IF i \in ids THEN [kind |-> "of", key |-> k]
                                       ELSE IF evidence[i] = [kind |-> "of", key |-> k] THEN None ELSE evidence[i]]

PersistAssessment(w) ==
    /\ At(w, "persist") /\ ~Conflicts(w)
    /\ Store(Key(w), Assessed(work[w].items))
    /\ evidence' = Rows(Key(w), {i.id : i \in {j \in work[w].items : j.step # "ACCEPTANCE"}})
    /\ GoTo(w, "complete")
    /\ UNCHANGED <<run, files, criteria, session, faults, other>>

(* Any failure of loading or storing, a conflicting evidence id included. *)
AssessmentFails(w) ==
    /\ \/ At(w, "load") /\ Fault
       \/ At(w, "persist") /\ Fault
       \/ At(w, "persist") /\ Conflicts(w) /\ faults' = faults
    /\ GoTo(w, "fail")
    /\ UNCHANGED <<run, files, criteria, session, stored, other>>

PersistEvaluatorFailure(w) ==
    /\ At(w, "fail")
    /\ Store(Key(w), EvaluatorFailure)
    /\ evidence' = Rows(Key(w), {})
    /\ GoTo(w, "complete")
    /\ UNCHANGED <<run, files, criteria, session, faults, other>>

(* The failure record fails as well, and that is swallowed. *)
FailureIsSwallowed(w) ==
    /\ At(w, "fail") /\ Fault
    /\ lost' = lost \union {Key(w)}
    /\ GoTo(w, "complete")
    /\ UNCHANGED <<run, files, criteria, session, stored, delivered, manual>>

(* The catch block around loading, evaluating and storing. *)
Catch(w) == AssessmentFails(w) \/ PersistEvaluatorFailure(w) \/ FailureIsSwallowed(w)

(* completeRun compares the control version; the assessment plays no part in it. *)
CompleteRun(w) ==
    /\ At(w, "complete")
    /\ status' = IF Current(w) THEN "completed" ELSE status
    /\ Stop(w)
    /\ UNCHANGED <<version, files, criteria, session, stored, faults, other>>

-----------------------------------------------------------------------------
(* A manual assessment: attempt 1 of the current version, no acceptance evidence, *)
(* no evidence rows and no events.                                                *)

ManualScope == Attempts
ManualKey == <<version, 1, "MANUAL">>

TriggerReleaseAssessment ==
    /\ manual < ManualBound /\ manual' = manual + 1
    /\ row' = [row EXCEPT ![ManualKey] = Assessed(Items(ManualScope, Baseline))]
    /\ UNCHANGED <<run, files, criteria, session, work, evidence, announced, faults, delivered, lost>>

-----------------------------------------------------------------------------
(* What happens around it *)

ChangeRun ==
    /\ version < VersionBound /\ version' = version + 1
    /\ status' = CASE status = "active" -> "paused" [] status = "paused" -> "active" [] OTHER -> "completed"
    /\ status # "completed"
    /\ UNCHANGED <<files, criteria, session, work, stored, faults, other>>

EditFile ==
    /\ files < FileBound /\ files' = files + 1
    /\ UNCHANGED <<run, criteria, session, work, stored, faults, other>>

(* A day passes: what was recorded so far is too old. *)
DayPasses ==
    /\ \E a \in Attempts, s \in Steps : session[a][s] # None
    /\ session' = [a \in Attempts |-> [s \in Steps |->
                      IF session[a][s] = None THEN None ELSE [session[a][s] EXCEPT !.old = TRUE]]]
    /\ UNCHANGED <<run, files, criteria, work, stored, faults, other>>

Step(w) ==
    \/ Deliver(w) \/ ValidationPasses(w) \/ ValidationFails(w) \/ Superseded(w)
    \/ LoadEvidenceInputs(w) \/ PersistAssessment(w) \/ Catch(w) \/ CompleteRun(w)

Next == (\E w \in Workers : Step(w)) \/ TriggerReleaseAssessment \/ ChangeRun \/ EditFile \/ DayPasses

Spec == Init /\ [][Next]_vars

-----------------------------------------------------------------------------

(* Every variable has its type. *)
TypeOK ==
    /\ status \in {"active", "paused", "completed"} /\ version \in 0 .. VersionBound
    /\ files \in Nat /\ criteria \subseteq Criteria /\ faults \in 0 .. FaultBound
    /\ manual \in 0 .. ManualBound /\ delivered \in 0 .. DeliveryBound
    /\ \A a \in Attempts, s \in Steps : session[a][s] \in Command \union {None}
    /\ \A w \in Workers : /\ work[w].pc \in Pcs /\ work[w].version \in 0 .. VersionBound
                          /\ work[w].attempt \in Attempts \union {0}
                          /\ work[w].items \subseteq Item
    /\ \A k \in Keys : row[k] = None \/ row[k].issues \subseteq Codes
    /\ \A i \in EvidenceIds : evidence[i] = None \/ evidence[i].key \in Keys
    /\ lost \subseteq Keys

(* A READY assessment of the worker rests on its own attempt's passing commands: a     *)
(* stored evidence row of this assessment for every check of the policy, none failing, *)
(* whatever later versions that reuse the session, other attempts and duplicate jobs   *)
(* store (persistAssessment in release-repository.ts).                                 *)
ReadyKeepsItsEvidence ==
    \A k \in Keys : row[k] # None /\ row[k].status = "READY" =>
        /\ criteria # {} /\ k[3] = "WORKER"
        /\ \A c \in RequiredChecks :
              \E i \in row[k].items : i.step = c /\ i.passed /\ ~i.old /\ i.id[1] = k[2] /\ evidence[i.id] = [kind |-> "of", key |-> k]

(* The run's event stream and the stored assessment never disagree: the last           *)
(* release.ready or release.blocked event of an assessment of the worker names the     *)
(* status of its row, and a row without an event is a manual one (appendReleaseEvent). *)
AnnouncedIsStored ==
    \A k \in Keys :
        IF k[3] = "MANUAL" THEN announced[k] = None
        ELSE IF row[k] = None THEN announced[k] = None
        ELSE announced[k] # None /\ announced[k].status = row[k].status

(* A completed run has an assessment of the version and of an attempt that completed *)
(* it, unless the database refused the failure record too (assess in                 *)
(* release-assessor.ts).                                                             *)
CompletedIsAssessed ==
    status = "completed" => \E a \in Attempts : LET k == <<version, a, "WORKER">> IN row[k] # None \/ k \in lost

(* What a worker stored for an attempt stays until a worker assesses that attempt    *)
(* again: no manual assessment overwrites it (the key of release_assessments names   *)
(* the source).                                                                      *)
WorkerRowIsKept ==
    \A k \in Keys : k[3] = "WORKER" /\ row'[k] # row[k] =>
       \E w \in Workers : Key(w) = k /\ work[w].pc \in {"persist", "fail"}

(* README of @atoms/quality: results are bound to the files they were obtained on, not *)
(* stamped with the latest fingerprint.  Checked of the worker's assessments.          *)
SnapshotWasValidated ==
    \A k \in Keys : k[3] = "WORKER" /\ row[k] # None => \A i \in row[k].items : i.bound

(* A failed evaluation is recorded only where something failed: a malformed record, a *)
(* database error, an evaluator exception.  Without faults none is recorded.          *)
FailureIsReal == \A k \in Keys : row[k] # None => row[k].issues # {"EVALUATOR_FAILURE"}

(* A manual trigger assesses attempt 1 of the current control version. *)
ManualAssessesItsAttempt ==
    \A k \in Keys : k[3] = "MANUAL" /\ row[k] # None => \A i \in row[k].items : i.id[1] = k[2]
=============================================================================
