--------------------------- MODULE WorkspaceLaunch ---------------------------
(***************************************************************************)
(* The launch form of the workspace page: one reference file is uploaded   *)
(* to quarantine and scanned, then the run is created under an idempotency *)
(* key; the page keeps a pointer to the run in the browser's storage.  Any *)
(* call may fail with or without its effect, and the user submits again.   *)
(* A submission is what the form held from one edit to the next.  While a  *)
(* launch is under way only the submit button is disabled: the user may    *)
(* edit, choose another file or start a new project all the same.          *)
(***************************************************************************)
EXTENDS Naturals, Sequences, FiniteSets, SequencesExt

CONSTANTS
    Prompts,        \* normalised prompts
    Files,          \* versions of a reference file, of one name and size
    Lossy,          \* the calls whose answer may be lost
    MaxAttachments, \* attachment rows a project may have (5 in the code)
    MaxSubmissions, \* bound: edits, reloads, new projects and finished launches
    MaxRuns,        \* bound: runs created
    MayExpire,      \* may an upload intent expire before it is used?
    None

(* What the constants satisfy; the modules that instantiate this one assume it. *)
WorkspaceLaunchAssumption ==
    /\ Lossy \subseteq {"intent", "upload", "complete", "create", "restore"}
    /\ {MaxAttachments, MaxSubmissions, MaxRuns} \subseteq Nat
    /\ MayExpire \in BOOLEAN /\ Prompts # {}
    /\ None \notin Prompts \union Files \union Nat
    /\ None \notin [fingerprint : Prompts \X (Nat \union {None}), key : Nat]

VARIABLES
    attachment, \* project_attachments: project, status, whether uploaded, the file's version
    runs,       \* agent_runs: project, idempotency key, prompt and attachment, and whose submission
    form,       \* project, prompt, file and submission number
    launch,     \* the launch under way: its step and what it captured at submit
    intent,     \* uploadIntentsRef: the intent of a file version
    records,    \* attachmentRecords: the status the page knows of an attachment
    request,    \* runRequestRef
    pointer,    \* localStorage: the run
    shown,      \* the run the page shows
    restoring   \* the saved run the page is asking for

page == <<form, launch, intent, records, request, shown, restoring>>
vars == <<attachment, runs, page, pointer>>

Attachments == DOMAIN attachment
Usable == {"QUARANTINED", "SCANNING", "CLEAN"}
Failed == {"REJECTED", "FAILED", "EXPIRED"}

\* A project has the number of the submission it was started at; `busy` records
\* that the file was chosen while a launch was under way.
FreshForm(n) == [project |-> n, prompt |-> CHOOSE p \in Prompts : TRUE, file |-> None,
                 busy |-> FALSE, submission |-> n]
Idle == [step |-> "idle"]
NoRecords == [a \in {} |-> None]
NoIntents == [f \in Files |-> None]

Init ==
    /\ attachment = <<>> /\ runs = <<>>
    /\ form = FreshForm(0) /\ launch = Idle
    /\ intent = NoIntents /\ records = NoRecords
    /\ request = None /\ pointer = None /\ shown = None /\ restoring = None

-----------------------------------------------------------------------------
(* The form *)

\* A new project cannot be verified, and its run described, before the launch that
\* is still under way for the one before it has ended.
Left == launch # Idle /\ launch.project # form.project
Editable == shown = None /\ ~ Left /\ form.submission < MaxSubmissions

EditPrompt(p) ==
    /\ Editable /\ p # form.prompt
    /\ form' = [form EXCEPT !.prompt = p, !.submission = @ + 1]
    /\ UNCHANGED <<attachment, runs, launch, intent, records, request, pointer, shown, restoring>>

\* Another file is chosen, or the attachments are cleared.
SelectAttachments(f) ==
    /\ Editable /\ f # form.file
    /\ form' = [form EXCEPT !.file = f, !.busy = launch # Idle, !.submission = @ + 1]
    /\ intent' = NoIntents /\ records' = NoRecords
    /\ UNCHANGED <<attachment, runs, launch, request, pointer, shown, restoring>>

-----------------------------------------------------------------------------
(* launchRun *)

GoOn(step) == launch' = [launch EXCEPT !.step = step]
Throws == launch' = Idle

\* The key of an unchanged request is used again; one that was never used yet is
\* the number of the next run.
Fingerprint(l) == <<l.prompt, l.id>>
KeyFor_Fresh(fingerprint) == [fingerprint |-> fingerprint, key |-> Len(runs) + 1]
KeyFor(fingerprint) ==
    IF request # None /\ request.fingerprint = fingerprint THEN request
    ELSE [fingerprint |-> fingerprint, key |-> Len(runs) + 1]

\* createRun is sent under the key that is then remembered.
Send(l) ==
    LET keyed == KeyFor(Fingerprint(l)) IN
    /\ request' = keyed
    /\ launch' = [l EXCEPT !.step = "create", !.key = keyed.key]

\* The first usable record with the file's name and size stands for the file.
Existing == {a \in DOMAIN records : records[a] \in Usable}

Submit ==
    /\ shown = None /\ launch = Idle
    /\ LET start(step, id) == [step |-> step, project |-> form.project, prompt |-> form.prompt,
                               file |-> form.file, busy |-> form.busy,
                               submission |-> form.submission, id |-> id, key |-> 0]
       IN  IF form.file = None THEN Send(start("create", None))
           ELSE /\ IF Existing # {} THEN \E a \in Existing : launch' = start("wait", a)
                   ELSE launch' = start("intent", None)
                /\ UNCHANGED request
    /\ UNCHANGED <<attachment, runs, form, intent, records, pointer, shown, restoring>>

OfProject(n) == {a \in Attachments : attachment[a].project = n}
LimitReached == Cardinality(OfProject(launch.project)) >= MaxAttachments

\* An intent that was given for this file is used again.
CreateIntent ==
    /\ launch.step = "intent"
    /\ \/ /\ intent[launch.file] # None
          /\ launch' = [launch EXCEPT !.step = "upload", !.id = intent[launch.file]]
          /\ UNCHANGED <<attachment, intent, records>>
       \/ /\ intent[launch.file] = None
          /\ IF LimitReached
             THEN Throws /\ UNCHANGED <<attachment, intent, records>>
             ELSE LET a == Len(attachment) + 1 IN
                /\ attachment' = Append(attachment, [project |-> launch.project,
                                                     status |-> "AWAITING_UPLOAD",
                                                     uploaded |-> FALSE, file |-> launch.file])
                /\ \/ /\ intent' = [intent EXCEPT ![launch.file] = a]
                      /\ records' = [b \in DOMAIN records \union {a} |->
                                        IF b = a THEN "AWAITING_UPLOAD" ELSE records[b]]
                      /\ launch' = [launch EXCEPT !.step = "upload", !.id = a]
                   \/ "intent" \in Lossy /\ Throws /\ UNCHANGED <<intent, records>>
    /\ UNCHANGED <<runs, form, request, pointer, shown, restoring>>

\* The PUT to object storage is refused once the signed URL has expired.
Upload ==
    /\ launch.step = "upload"
    /\ LET a == launch.id IN
        IF attachment[a].status = "EXPIRED" THEN Throws /\ UNCHANGED attachment
        ELSE /\ attachment' = [attachment EXCEPT ![a].uploaded = TRUE]
             /\ GoOn("complete") \/ ("upload" \in Lossy /\ Throws)
    /\ UNCHANGED <<runs, form, intent, records, request, pointer, shown, restoring>>

\* Refused too for an intent of the project that the page has left since.
Complete ==
    /\ launch.step = "complete"
    /\ LET a == launch.id IN
        IF attachment[a].status # "AWAITING_UPLOAD" \/ attachment[a].project # launch.project
        THEN Throws /\ UNCHANGED <<attachment, intent, records>>
        ELSE /\ attachment' = [attachment EXCEPT ![a].status = "QUARANTINED"]
             /\ \/ /\ records' = [b \in DOMAIN records |-> IF b = a THEN "QUARANTINED" ELSE records[b]]
                   /\ intent' = [intent EXCEPT ![launch.file] = None]
                   /\ GoOn("wait")
                \/ "complete" \in Lossy /\ Throws /\ UNCHANGED <<records, intent>>
    /\ UNCHANGED <<runs, form, request, pointer, shown, restoring>>

\* waitForCleanAttachments: one poll of the project's list, or the end of its two
\* minutes.
WaitForClean ==
    /\ launch.step = "wait"
    /\ LET listed == {launch.id} \intersect OfProject(launch.project)
           status == [b \in listed |-> attachment[b].status]
           is(set) == \E b \in listed : status[b] \in set
       IN  /\ records' = status
           /\ \/ is({"CLEAN"}) /\ Send(launch)
              \/ ~ is({"CLEAN"}) /\ Throws /\ UNCHANGED request
              \/ ~ is(Failed \union {"CLEAN"}) /\ UNCHANGED <<launch, request>>
    /\ UNCHANGED <<attachment, runs, form, intent, pointer, shown, restoring>>

\* createRunWithIdempotency returns the run of a key it knows.  The request is
\* remembered until an answer arrives.
WithKey(key) == SelectInSeq(runs, LAMBDA r : r.key = key)

CreateRun ==
    /\ launch.step = "create"
    /\ LET known == WithKey(launch.key)
           created == IF known # 0 THEN runs
                      ELSE Append(runs, [key |-> launch.key, project |-> launch.project,
                                         prompt |-> launch.prompt, id |-> launch.id,
                                         file |-> launch.file, busy |-> launch.busy,
                                         left |-> Left, submission |-> launch.submission])
       IN  /\ known # 0 \/ Len(runs) < MaxRuns
           /\ \/ /\ runs' = created
                 /\ request' = None
                 /\ shown' = IF known = 0 THEN Len(created) ELSE known
                 /\ pointer' = shown'
                 /\ form' = [form EXCEPT !.submission = @ + 1]
              \/ /\ "create" \in Lossy
                 /\ runs' \in {runs, created}
                 /\ UNCHANGED <<form, request, shown, pointer>>
    /\ Throws
    /\ UNCHANGED <<attachment, intent, records, restoring>>

-----------------------------------------------------------------------------
(* The server and the browser *)

Scan(a) ==
    /\ attachment[a].status = "QUARANTINED"
    /\ \E status \in {"CLEAN", "REJECTED"} : attachment' = [attachment EXCEPT ![a].status = status]
    /\ UNCHANGED <<runs, page, pointer>>

Expire(a) ==
    /\ MayExpire /\ attachment[a].status = "AWAITING_UPLOAD"
    /\ attachment' = [attachment EXCEPT ![a].status = "EXPIRED"]
    /\ UNCHANGED <<runs, page, pointer>>

\* The page begins anew, and asks for the run it finds saved.
Reload ==
    /\ form.submission < MaxSubmissions
    /\ form' = FreshForm(form.submission + 1) /\ launch' = Idle
    /\ intent' = NoIntents /\ records' = NoRecords
    /\ request' = None /\ shown' = None /\ restoring' = pointer
    /\ UNCHANGED <<attachment, runs, pointer>>

\* The prompt and the intents stay, and so do a launch and a restore under way.
StartNewProject ==
    /\ form.submission < MaxSubmissions
    /\ form' = [form EXCEPT !.project = form.submission + 1, !.file = None,
                            !.submission = @ + 1]
    /\ records' = NoRecords
    /\ request' = None /\ shown' = None /\ pointer' = None
    /\ UNCHANGED <<attachment, runs, launch, intent, restoring>>

\* A run that is there is restored, whatever the page has done since it asked.
Restore ==
    /\ restoring # None
    /\ shown' = restoring /\ restoring' = None
    /\ UNCHANGED <<attachment, runs, form, launch, intent, records, request, pointer>>

\* An answer that says nothing of the run keeps the pointer, and the user may ask
\* again.
AfterFailedRestore == UNCHANGED pointer

RestoreFails ==
    /\ "restore" \in Lossy /\ restoring # None
    /\ restoring' = None
    /\ AfterFailedRestore
    /\ UNCHANGED <<attachment, runs, form, launch, intent, records, request, shown>>

RetryRestore ==
    /\ restoring = None /\ shown = None /\ pointer # None
    /\ restoring' = pointer
    /\ UNCHANGED <<attachment, runs, form, launch, intent, records, request, pointer, shown>>

-----------------------------------------------------------------------------

Launching == CreateIntent \/ Upload \/ Complete \/ WaitForClean \/ CreateRun

Next ==
    \/ \E p \in Prompts : EditPrompt(p)
    \/ \E f \in Files \union {None} : SelectAttachments(f)
    \/ Submit \/ Launching
    \/ \E a \in Attachments : Scan(a) \/ Expire(a)
    \/ Reload \/ StartNewProject \/ Restore \/ RestoreFails \/ RetryRestore

Spec == Init /\ [][Next]_vars

-----------------------------------------------------------------------------
(* Properties *)

Runs == DOMAIN runs

\* Every variable keeps its shape, no project has more attachments than it may,
\* and the page points at rows that exist.
TypeOK ==
    /\ \A n \in 0 .. MaxSubmissions : Cardinality(OfProject(n)) <= MaxAttachments
    /\ Len(runs) <= MaxRuns
    /\ DOMAIN records \subseteq Attachments
    /\ \A f \in Files : intent[f] \in Attachments \union {None}
    /\ launch.step \in {"idle", "intent", "upload", "complete", "wait", "create"}
    /\ {pointer, shown, restoring} \subseteq Runs \union {None}

\* launchRun's idempotency key: however often an unchanged form is submitted,
\* whichever answers are lost and whatever is edited meanwhile, it creates at most
\* one run; and one more only if the user starts a new project while the launch
\* runs, which forgets the key that the launch is about to use.
OneRunPerSubmission ==
    \A i, j \in Runs :
        runs[i].submission = runs[j].submission /\ runs[i].left = runs[j].left => i = j

\* selectAttachments, the intents and the records together: a run gets a file of
\* its own project, scanned, and the one the form held when it was submitted and
\* not another of the same name and size; unless it was chosen while an earlier
\* launch ran, whose poll may put the file before it back in its place.
RunHasItsFile ==
    \A i \in Runs : LET r == runs[i] IN
        IF r.file = None THEN r.id = None
        ELSE /\ attachment[r.id].project = r.project /\ attachment[r.id].status = "CLEAN"
             /\ attachment[r.id].file = r.file \/ r.busy

\* The two without their exceptions, which the code does not keep.
NeverASecondRun ==
    \A i, j \in Runs : runs[i].submission = runs[j].submission => i = j
NeverAnotherFile ==
    \A i \in Runs : runs[i].file # None => attachment[runs[i].id].file = runs[i].file

\* The saved pointer: it leaves a run only for the run that a launch has just
\* created and shows, or when the user starts a new project.
ShownRunStaysReachable ==
    pointer # None /\ pointer' # pointer =>
        StartNewProject \/ (launch.step = "create" /\ pointer' # None /\ shown' = pointer')
=============================================================================
