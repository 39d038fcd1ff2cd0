--------------------------- MODULE WorkspaceEditor ---------------------------
(***************************************************************************)
(* The code tab of the workspace page over the versioned project files:    *)
(* the file list, opening a file with its predecessor, typing, and saving  *)
(* with the version the page has seen.  Agents write revisions meanwhile,  *)
(* and the page's requests are answered late and in any order.             *)
(* A revision's content stands for what was typed and what it was typed    *)
(* over: [path, base, by], base being the version the author had read.     *)
(***************************************************************************)
EXTENDS Naturals, Sequences

CONSTANTS
    Paths,      \* file paths of the project
    MaxVersion, \* bound: revisions of a path
    None, NotRead, Conflict

(* What the constants satisfy; the modules that instantiate this one assume it. *)
WorkspaceEditorAssumption == MaxVersion \in Nat \ {0} /\ None \notin Paths

VARIABLES
    file,     \* project_files: the revisions of a path
    listed,   \* the page's file list: the version it knows of a path
    selected, \* selectedFile: path, version and content
    editor,   \* editorValue
    previous, \* previousContent
    opening,  \* the open request of a path on its way
    saving    \* the save request on its way

vars == <<file, listed, selected, editor, previous, opening, saving>>

Content(path, base, by) == [path |-> path, base |-> base, by |-> by]
Version(p) == Len(file[p])

Init ==
    /\ file = [p \in Paths |-> <<Content(p, 0, "agent")>>]
    /\ listed = [p \in Paths |-> 1]
    /\ selected = None /\ editor = None /\ previous = None
    /\ opening = [p \in Paths |-> None]
    /\ saving = None

-----------------------------------------------------------------------------
(* The server *)

\* Agents and repairs append whatever the latest revision is.
AgentWrites(p) ==
    /\ Version(p) < MaxVersion
    /\ file' = [file EXCEPT ![p] = Append(@, Content(p, Version(p), "agent"))]
    /\ UNCHANGED <<listed, selected, editor, previous, opening, saving>>

\* putProjectFile compares the expected version with the latest.
Accepts(p, expected) == Version(p) = expected

\* The answer of a getProjectFile for a version, or none.
Revision(p, v) == IF v \in DOMAIN file[p] THEN file[p][v] ELSE None
Latest(p) == [path |-> p, version |-> Version(p), content |-> file[p][Version(p)]]

-----------------------------------------------------------------------------
(* refreshFiles, started by events and by a save.  A listing that arrives late *)
(* leaves the page with what a listing not made would have left.           *)

Listing == [p \in Paths |-> Version(p)]

RefreshFiles ==
    /\ listed' = Listing
    /\ UNCHANGED <<file, selected, editor, previous, opening, saving>>

-----------------------------------------------------------------------------
(* openFile: the latest revision and, of the one in the list, the predecessor *)

OpenFile(p) ==
    /\ opening[p] = None
    /\ opening' = [opening EXCEPT ![p] = [version |-> listed[p], latest |-> None, previous |->
                                             IF listed[p] > 1 THEN NotRead ELSE None]]
    /\ UNCHANGED <<file, listed, selected, editor, previous, saving>>

\* The two reads are two requests.
ReadLatest(p) ==
    /\ opening[p] # None /\ opening[p].latest = None
    /\ opening' = [opening EXCEPT ![p].latest = Latest(p)]
    /\ UNCHANGED <<file, listed, selected, editor, previous, saving>>

ReadPrevious(p) ==
    /\ opening[p] # None /\ opening[p].previous = NotRead
    /\ opening' = [opening EXCEPT ![p].previous = Revision(p, opening[p].version - 1)]
    /\ UNCHANGED <<file, listed, selected, editor, previous, saving>>

ShowFile(p) ==
    /\ opening[p] # None /\ opening[p].latest # None /\ opening[p].previous # NotRead
    /\ selected' = opening[p].latest
    /\ editor' = opening[p].latest.content
    /\ previous' = opening[p].previous
    /\ opening' = [opening EXCEPT ![p] = None]
    /\ UNCHANGED <<file, listed, saving>>

OpenFails(p) ==
    /\ opening[p] # None
    /\ opening' = [opening EXCEPT ![p] = None]
    /\ UNCHANGED <<file, listed, selected, editor, previous, saving>>

-----------------------------------------------------------------------------
(* The editor *)

Type ==
    /\ selected # None
    /\ editor' = Content(selected.path, selected.version, "user")
    /\ UNCHANGED <<file, listed, selected, previous, opening, saving>>

\* What a save sends: the version the page has read.
ExpectedVersion_Listed == listed[selected.path]
ExpectedVersion == selected.version

SaveFile ==
    /\ selected # None /\ saving = None
    /\ editor # selected.content
    /\ saving' = [path |-> selected.path, value |-> editor, expected |-> ExpectedVersion,
                  over |-> selected.content, answer |-> None]
    /\ UNCHANGED <<file, listed, selected, editor, previous, opening>>

PutProjectFile ==
    /\ saving # None /\ saving.answer = None
    /\ LET p == saving.path IN
        IF Accepts(p, saving.expected)
        THEN /\ Version(p) < MaxVersion
             /\ file' = [file EXCEPT ![p] = Append(@, saving.value)]
             /\ saving' = [saving EXCEPT !.answer =
                   [path |-> p, version |-> Version(p) + 1, content |-> saving.value]]
        ELSE /\ saving' = [saving EXCEPT !.answer = Conflict]
             /\ UNCHANGED file
    /\ UNCHANGED <<listed, selected, editor, previous, opening>>

\* What a save shows: its revision, compared with the one it was typed over.
ShowSaved ==
    /\ selected' = saving.answer
    /\ editor' = saving.answer.content
    /\ previous' = saving.over

\* A conflict and a lost answer leave the editor alone; a save lists the files
\* again, which may fail.
SaveAnswered ==
    /\ saving # None /\ saving.answer # None
    /\ \/ UNCHANGED <<selected, editor, previous, listed>>
       \/ saving.answer # Conflict /\ ShowSaved /\ listed' \in {Listing, listed}
    /\ saving' = None
    /\ UNCHANGED <<file, opening>>

\* startNewProject and a new run close the file; editorValue is kept.
CloseFile ==
    /\ selected # None
    /\ selected' = None /\ previous' = None
    /\ UNCHANGED <<file, listed, editor, opening, saving>>

-----------------------------------------------------------------------------

Next ==
    \/ \E p \in Paths : \/ AgentWrites(p) \/ OpenFile(p) \/ ReadLatest(p) \/ ReadPrevious(p)
                        \/ ShowFile(p) \/ OpenFails(p)
    \/ RefreshFiles \/ Type \/ SaveFile \/ PutProjectFile \/ SaveAnswered
    \/ CloseFile

Spec == Init /\ [][Next]_vars

-----------------------------------------------------------------------------
(* Properties *)

Contents == [path : Paths, base : 0 .. MaxVersion, by : {"agent", "user"}]

\* Every variable keeps its shape, and what the page shows is a revision that
\* exists under the version it is shown with.
TypeOK ==
    /\ \A p \in Paths : Version(p) \in 1 .. MaxVersion /\ listed[p] \in 1 .. Version(p)
    /\ selected # None =>
        /\ selected.version \in DOMAIN file[selected.path]
        /\ selected.content = Revision(selected.path, selected.version)
    /\ editor \in Contents \union {None} /\ previous \in Contents \union {None}

\* putProjectFile with selectedFile.version: what the user saved was typed in the
\* file it is stored in and over the revision right below it, so no save takes
\* another author's revision away unseen, whatever file was opened meanwhile.
NoRevisionIsOverwritten ==
    \A p \in Paths : \A v \in 1 .. Version(p) :
        file[p][v].by = "user" => file[p][v].path = p /\ file[p][v].base = v - 1

\* openFile and saveFile: the comparison shows the latest revision against its
\* immediate predecessor.
ComparesWithPredecessor ==
    selected # None => previous = Revision(selected.path, selected.version - 1)
=============================================================================
