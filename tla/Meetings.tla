------------------------------ MODULE Meetings ------------------------------
(***************************************************************************)
(* Meeting preparation.  Each workspace has one meeting of the fixed title *)
(* with one Olivia action; pages (browser tabs) find or create it, paste a *)
(* brief, validate it and save it.  Loads and saves are requests whose     *)
(* answers arrive late or are lost, after the page has moved on.           *)
(* A load's answer counts only while its effect is active; the answer of a *)
(* save always replaces the page's meeting.                                *)
(***************************************************************************)
EXTENDS Naturals

CONSTANTS
    Workspaces,  \* workspaces of the user
    Pages,       \* open pages
    Briefs,      \* responses with every section, by normalized text
    Invalid,     \* a response that misses a section
    None,        \* no workspace, no brief
    MountBound   \* bound: effects a page runs (choices of a workspace and retries)

(* What the constants satisfy; the modules that instantiate this one assume it. *)
MeetingsAssumption ==
    /\ MountBound \in Nat /\ Invalid \notin Briefs /\ None \notin Workspaces \union Briefs \union {Invalid}

VARIABLES
    meeting,  \* meetings and olivia_assisted_actions of each workspace
    page,     \* WorkspaceMeetingPreparation of each page
    form,     \* OliviaMeetingBriefAction of each page
    load,     \* the effects that load a meeting, by page and run of the effect
    save      \* the calls of completeMeetingBriefAction, likewise

vars == <<meeting, page, form, load, save>>

Absent == [status |-> "ABSENT", response |-> None, brief |-> None, state |-> "NONE"]
Meeting == [status : {"ABSENT", "PENDING", "COMPLETED"}, response : Briefs \union {None},
            brief : Briefs \union {None}, state : {"NONE", "OLIVIA_ACTION_REQUIRED", "READY"}]

(* `of' is the workspace of the meeting in the page's state, None when undefined. *)
Page == [selected : Workspaces \union {None}, run : 0 .. MountBound, of : Workspaces \union {None},
         row : Meeting, loading : BOOLEAN, error : BOOLEAN]
Statuses == {"PENDING", "PROMPT_COPIED", "RESPONSE_RECEIVED", "VALIDATED", "COMPLETED"}
(* `key' is the meeting the form was mounted for. *)
Form == [key : Workspaces \union {None}, mount : 0 .. MountBound, response : Briefs \union {Invalid, None},
         status : Statuses, valid : BOOLEAN, brief : Briefs \union {None}, applying : BOOLEAN,
         error : {"none", "lost", "conflict"}]

Runs == 1 .. MountBound
Load == [pc : {"none", "list", "create", "answer", "ended"}, ws : Workspaces \union {None}, row : Meeting]
Save == [pc : {"none", "access", "read", "swap", "answer", "ended"}, ws : Workspaces \union {None},
         brief : Briefs \union {None}, answer : {"none", "ok", "conflict"}, row : Meeting]

NoLoad == [pc |-> "none", ws |-> None, row |-> Absent]
NoSave == [pc |-> "none", ws |-> None, brief |-> None, answer |-> "none", row |-> Absent]
NoForm == [key |-> None, mount |-> 0, response |-> None, status |-> "PENDING", valid |-> FALSE,
           brief |-> None, applying |-> FALSE, error |-> "none"]

TypeOK ==
    /\ meeting \in [Workspaces -> Meeting]
    /\ page \in [Pages -> Page]
    /\ form \in [Pages -> Form]
    /\ load \in [Pages \X Runs -> Load]
    /\ save \in [Pages \X Runs -> Save]

Init ==
    /\ meeting = [w \in Workspaces |-> Absent]
    /\ page = [p \in Pages |-> [selected |-> None, run |-> 0, of |-> None, row |-> Absent,
                                loading |-> FALSE, error |-> FALSE]]
    /\ form = [p \in Pages |-> NoForm]
    /\ load = [r \in Pages \X Runs |-> NoLoad]
    /\ save = [r \in Pages \X Runs |-> NoSave]

-----------------------------------------------------------------------------
(* The page *)

(* The form is rendered when there is a meeting, nothing loads and no error shows. *)
Renders(pg) == pg.of # None /\ ~pg.loading /\ ~pg.error

(* useState of a new form: its status and brief are those of the meeting it mounts for. *)
Mounted(pg) ==
    [NoForm EXCEPT !.key = pg.of, !.mount = pg.run, !.status = pg.row.status, !.brief = pg.row.brief]

(* The form after the page rendered: React keeps it while its key is the same. *)
Rendered(f, pg) ==
    CASE ~Renders(pg) -> NoForm
      [] Renders(pg) /\ f.key = pg.of /\ f.mount = pg.run -> f
      [] OTHER -> Mounted(pg)

SetPage(p, pg, f) ==
    /\ page' = [page EXCEPT ![p] = pg]
    /\ form' = [form EXCEPT ![p] = Rendered(f, pg)]

(* The effect of a workspace: it clears the meeting and the error and loads. *)
StartLoad(p, w) ==
    LET run == page[p].run + 1 IN
    /\ run <= MountBound
    /\ SetPage(p, [selected |-> w, run |-> run, of |-> None, row |-> Absent,
                   loading |-> TRUE, error |-> FALSE], form[p])
    /\ load' = [load EXCEPT ![<<p, run>>] = [NoLoad EXCEPT !.pc = "list", !.ws = w]]
    /\ UNCHANGED <<meeting, save>>

(* The first list of workspaces selects one; later the user does. *)
Select(p, w) == page[p].selected # w /\ StartLoad(p, w)
(* The button of the error view runs the effects again. *)
Retry(p) == page[p].error /\ StartLoad(p, page[p].selected)

(* The cleanup of an effect clears `active'. *)
Active(p, run) == page[p].run = run

-----------------------------------------------------------------------------
(* The load: list, create when the title is missing, answer *)

ListMeetings(p, run) ==
    LET l == load[p, run]
        row == meeting[l.ws]
    IN
    /\ l.pc = "list"
    /\ load' = [load EXCEPT ![<<p, run>>] =
                   [@ EXCEPT !.pc = IF row.status = "ABSENT" THEN "create" ELSE "answer", !.row = row]]
    /\ UNCHANGED <<meeting, page, form, save>>

(* The unique index on the workspace and the title. *)
Taken(w) == meeting[w].status # "ABSENT"

(* createMeeting inserts the meeting with its one action. *)
NewMeeting ==
    [status |-> "PENDING", response |-> None, brief |-> None, state |-> "OLIVIA_ACTION_REQUIRED"]

(* The insert; a caller that loses the race gets the row that landed. *)
CreateMeeting(p, run) ==
    LET l == load[p, run]
        row == IF Taken(l.ws) THEN meeting[l.ws] ELSE NewMeeting
    IN
    /\ l.pc = "create"
    /\ meeting' = [meeting EXCEPT ![l.ws] = row]
    /\ load' = [load EXCEPT ![<<p, run>>] = [@ EXCEPT !.pc = "answer", !.row = row]]
    /\ UNCHANGED <<page, form, save>>

LoadAnswers(p, run) ==
    LET l == load[p, run] IN
    /\ l.pc = "answer"
    /\ load' = [load EXCEPT ![<<p, run>>].pc = "ended"]
    /\ IF Active(p, run)
       THEN SetPage(p, [page[p] EXCEPT !.of = l.ws, !.row = l.row, !.loading = FALSE], form[p])
       ELSE UNCHANGED <<page, form>>
    /\ UNCHANGED <<meeting, save>>

(* A call fails or its answer is lost, whether or not it took effect. *)
LoadFails(p, run) ==
    /\ load[p, run].pc \in {"list", "create", "answer"}
    /\ load' = [load EXCEPT ![<<p, run>>].pc = "ended"]
    /\ IF Active(p, run)
       THEN SetPage(p, [page[p] EXCEPT !.error = TRUE, !.loading = FALSE], form[p])
       ELSE UNCHANGED <<page, form>>
    /\ UNCHANGED <<meeting, save>>

-----------------------------------------------------------------------------
(* The form *)

SetForm(p, f) ==
    /\ form' = [form EXCEPT ![p] = f]
    /\ UNCHANGED <<meeting, page, load>>

CopyPrompt(p) ==
    /\ form[p].key # None /\ form[p].status = "PENDING"
    /\ SetForm(p, [form[p] EXCEPT !.status = "PROMPT_COPIED"])
    /\ UNCHANGED save

(* Editing the response takes back its validation. *)
UpdateResponse(p, r) ==
    /\ form[p].key # None /\ form[p].status # "COMPLETED" /\ ~form[p].applying /\ form[p].response # r
    /\ SetForm(p, [form[p] EXCEPT !.response = r, !.valid = FALSE, !.error = "none",
                   !.status = IF r = None THEN "PENDING" ELSE "RESPONSE_RECEIVED"])
    /\ UNCHANGED save

(* validateMeetingBriefResponse: every section is present. *)
Valid(r) == r \in Briefs

ValidateResponse(p) ==
    LET f == form[p] IN
    /\ f.key # None /\ f.response # None /\ ~f.applying /\ f.status # "COMPLETED"
    /\ SetForm(p, [f EXCEPT !.valid = Valid(f.response),
                   !.status = IF Valid(f.response) THEN "VALIDATED" ELSE "RESPONSE_RECEIVED"])
    /\ UNCHANGED save

(* A run of the effect saves again only after its call has ended. *)
ApplyResponse(p) ==
    LET f == form[p] IN
    /\ f.key # None /\ f.valid /\ ~f.applying /\ f.status # "COMPLETED"
    /\ save[p, f.mount].pc \in {"none", "ended"}
    /\ SetForm(p, [f EXCEPT !.applying = TRUE, !.error = "none"])
    /\ save' = [save EXCEPT ![<<p, f.mount>>] = [NoSave EXCEPT !.pc = "access", !.ws = f.key, !.brief = f.response]]

(* The form that called, when it is still mounted. *)
Caller(p, run) == form[p].key = save[p, run].ws /\ form[p].mount = run

-----------------------------------------------------------------------------
(* completeMeetingBriefAction: the route's read, then the transaction *)

SetSave(p, run, v) ==
    /\ save' = [save EXCEPT ![<<p, run>>] = v]
    /\ UNCHANGED <<page, form, load>>

(* The brief on record is the one this caller sends. *)
Same(row, brief) == row.brief = brief

Conflict_Never(row, brief) == "ok"

(* The answer to a caller who finds the action completed. *)
Conflict(row, brief) == IF Same(row, brief) THEN "ok" ELSE "conflict"

Finish(s, row) == [s EXCEPT !.pc = "answer", !.answer = Conflict(row, s.brief), !.row = row]

ReadAccess(p, run) ==
    LET s == save[p, run]
        row == meeting[s.ws]
    IN
    /\ s.pc = "access"
    /\ SetSave(p, run, IF row.status = "COMPLETED" THEN Finish(s, row) ELSE [s EXCEPT !.pc = "read"])
    /\ UNCHANGED meeting

ReadCurrent(p, run) ==
    LET s == save[p, run]
        row == meeting[s.ws]
    IN
    /\ s.pc = "read"
    /\ SetSave(p, run, IF row.status = "COMPLETED" THEN Finish(s, row) ELSE [s EXCEPT !.pc = "swap"])
    /\ UNCHANGED meeting

(* The where clause of the compare-and-set. *)
Matches(w) == meeting[w].status # "COMPLETED"

(* The compare-and-set and the update of the meeting commit together; a caller *)
(* that changed no row reads the one that won.                                 *)
Swap(p, run) ==
    LET s == save[p, run]
        row == [status |-> "COMPLETED", response |-> s.brief, brief |-> s.brief, state |-> "READY"]
    IN
    /\ s.pc = "swap"
    /\ IF Matches(s.ws)
       THEN /\ meeting' = [meeting EXCEPT ![s.ws] = row]
            /\ SetSave(p, run, [s EXCEPT !.pc = "answer", !.answer = "ok", !.row = row])
       ELSE /\ SetSave(p, run, Finish(s, meeting[s.ws]))
            /\ UNCHANGED meeting

(* 200: setMeeting runs whatever the page shows now, the form completes if mounted. *)
SaveSucceeds(p, run) ==
    LET s == save[p, run]
        f == IF Caller(p, run)
             THEN [form[p] EXCEPT !.status = "COMPLETED", !.brief = s.brief, !.applying = FALSE]
             ELSE form[p]
    IN
    /\ s.pc = "answer" /\ s.answer = "ok"
    /\ SetPage(p, [page[p] EXCEPT !.of = s.ws, !.row = s.row], f)
    /\ save' = [save EXCEPT ![<<p, run>>].pc = "ended"]
    /\ UNCHANGED <<meeting, load>>

(* 409, or a call that failed or whose answer was lost. *)
SaveFails(p, run, error) ==
    LET s == save[p, run] IN
    /\ error = "conflict" => s.pc = "answer" /\ s.answer = "conflict"
    /\ error = "lost" => s.pc \in {"access", "read", "swap", "answer"}
    /\ save' = [save EXCEPT ![<<p, run>>].pc = "ended"]
    /\ form' = IF Caller(p, run)
               THEN [form EXCEPT ![p] = [@ EXCEPT !.error = error, !.status = "VALIDATED", !.applying = FALSE]]
               ELSE form
    /\ UNCHANGED <<meeting, page, load>>

-----------------------------------------------------------------------------

LoadStep(p, run) ==
    ListMeetings(p, run) \/ CreateMeeting(p, run) \/ LoadAnswers(p, run) \/ LoadFails(p, run)

SaveStep(p, run) ==
    \/ ReadAccess(p, run) \/ ReadCurrent(p, run) \/ Swap(p, run) \/ SaveSucceeds(p, run)
    \/ \E error \in {"lost", "conflict"} : SaveFails(p, run, error)

Next ==
    \E p \in Pages :
        \/ Retry(p) \/ CopyPrompt(p) \/ ValidateResponse(p) \/ ApplyResponse(p)
        \/ \E w \in Workspaces : Select(p, w)
        \/ \E r \in Briefs \union {Invalid, None} : UpdateResponse(p, r)
        \/ \E run \in Runs : LoadStep(p, run) \/ SaveStep(p, run)

Spec == Init /\ [][Next]_vars

-----------------------------------------------------------------------------
(* Properties *)

(* A meeting and its completed brief are never replaced or taken back by a       *)
(* later save or a racing create (CAS of completeMeetingBriefAction, P2002 of    *)
(* createMeeting), and the meeting unlocks exactly with the brief of the action. *)
BriefIsFinal ==
    \A w \in Workspaces :
       /\ meeting[w].status = "COMPLETED" => meeting'[w] = meeting[w]
       /\ meeting[w].status # "ABSENT" => meeting'[w].status # "ABSENT"
       /\ meeting'[w].state = "READY" => meeting'[w].brief = meeting'[w].response

(* A form that says "Durably saved" shows the brief that is on record: a 200     *)
(* never answers a caller whose brief lost the race.                             *)
UnlockedIsSaved ==
    \A p \in Pages : form[p].status = "COMPLETED" =>
        /\ meeting[form[p].key].status = "COMPLETED"
        /\ form[p].brief = meeting[form[p].key].brief

(* A save refused with 409 really lost to another brief: a retry after a lost    *)
(* answer is not told that its own brief is in the way.                          *)
ConflictIsReal ==
    \A p \in Pages : form[p].error = "conflict" => meeting[form[p].key].brief # form[p].response

(* A page shows a meeting of a workspace it has left only when it saved the      *)
(* brief of that meeting itself: answers of loads that are no longer active do   *)
(* not count.                                                                    *)
StaleLoadIsIgnored ==
    \A p \in Pages : page[p].of \notin {None, page[p].selected} =>
        \E run \in Runs : save[p, run].ws = page[p].of /\ save[p, run].answer = "ok"

(* The meeting on the page is the one of the selected workspace. *)
ShownIsSelected == \A p \in Pages : Renders(page[p]) => page[p].of = page[p].selected

=============================================================================
