---------------------------- MODULE BrowserSession ----------------------------
(***************************************************************************)
(* The signed-in session of a browser tab: the workspace page and the      *)
(* admin page each restore it with their own copy of the same boundary,    *)
(* renew tokens silently, and leave for Microsoft when the user has to     *)
(* sign in, must be asked again, or signs out.  Every call to Microsoft    *)
(* may fail.  The workspace page keeps a pointer to the active run in      *)
(* local storage and restores that run when it opens.                      *)
(***************************************************************************)
EXTENDS Naturals

CONSTANTS
    Pages,      \* the pages the user opens
    FaultBound  \* bound: calls that fail although the service could answer

Workspace == "workspace"
(* What the constants satisfy; the modules that instantiate this one assume it. *)
SessionAssumption == Pages \subseteq {"workspace", "admin"} /\ FaultBound \in Nat

VARIABLES
    page,        \* the page of the tab
    at,          \* "loading", "shown", or "away": at Microsoft
    client,      \* setClient was called
    account,     \* the account state of the boundary
    error,       \* authError
    signingOut,  \* signingOut
    token,       \* the newest token request of the page
    stored,      \* MSAL holds an account for the tab
    live,        \* the session at Microsoft is live
    errand,      \* the interaction with Microsoft that is under way
    pointer,     \* the active run in local storage
    shownRun,    \* the workspace page shows a run
    faults       \* how many calls failed

view == <<page, at, client, account, error, signingOut, token, errand>>
vars == <<view, stored, live, pointer, shownRun, faults>>

TypeOK ==
    /\ page \in Pages /\ at \in {"loading", "shown", "away"} /\ client \in BOOLEAN
    /\ account \in {"undefined", "null", "user"}
    /\ error \in {"none", "unavailable", "sign_in", "sign_out"} /\ signingOut \in BOOLEAN
    /\ token \in {"none", "asked", "renewal_timeout", "failed", "granted"}
    /\ stored \in BOOLEAN /\ live \in BOOLEAN /\ errand \in {"none", "login", "renewal", "logout"}
    /\ pointer \in BOOLEAN /\ shownRun \in BOOLEAN /\ faults \in 0 .. FaultBound
    /\ (at = "away" => errand # "none") /\ (at = "loading" => errand = "none")

Init ==
    /\ page \in Pages /\ at = "loading" /\ client = FALSE /\ account = "undefined" /\ error = "none"
    /\ signingOut = FALSE /\ token = "none" /\ stored \in BOOLEAN /\ live \in BOOLEAN /\ errand = "none"
    /\ pointer \in BOOLEAN /\ shownRun = FALSE /\ faults = 0

-----------------------------------------------------------------------------
Fault == faults < FaultBound /\ faults' = faults + 1

(* A page is opened or reloaded, and all its state is new. *)
Opens(p) ==
    /\ page' = p /\ at' = "loading" /\ client' = FALSE /\ account' = "undefined" /\ error' = "none"
    /\ signingOut' = FALSE /\ token' = "none" /\ errand' = "none" /\ shownRun' = FALSE
Navigate(p) ==
    /\ at = "shown" /\ Opens(p)
    /\ UNCHANGED <<stored, live, pointer, faults>>

(* initialize(), handleRedirectPromise() and the account that is found. *)
Initialized ==
    /\ at = "loading" /\ at' = "shown"
    /\ client' = TRUE /\ account' = (IF stored THEN "user" ELSE "null") /\ error' = "none"
    /\ UNCHANGED <<page, signingOut, token, errand, stored, live, pointer, shownRun, faults>>

(* The client is not set here, and the boundary renders by the client. *)
InitFailed ==
    /\ at = "loading" /\ Fault /\ at' = "shown"
    /\ account' = "null" /\ error' = "unavailable"
    /\ UNCHANGED <<page, client, signingOut, token, errand, stored, live, pointer, shownRun>>

Rendered ==
    IF at # "shown" THEN at
    ELSE IF ~client \/ account = "undefined" THEN "restoring"
    ELSE IF account = "null" THEN "sign_in" ELSE "page"

-----------------------------------------------------------------------------
(* Tokens *)

Leave(why) ==
    /\ at' = "away" /\ errand' = why
    /\ UNCHANGED <<page, client, account, error, signingOut>>

AskToken ==
    /\ Rendered = "page" /\ token # "asked" /\ token' = "asked"
    /\ UNCHANGED <<page, at, client, account, error, signingOut, errand, stored, live, pointer, shownRun, faults>>

(* requiresVisibleSignIn: the two pages differ in which failures they answer with a redirect. *)
RequiresVisibleSignIn(p, failure) ==
    failure = "interaction_required" \/ (p = Workspace /\ failure = "renewal_timeout")

(* A page answers a failure that needs the user with a redirect, which MSAL refuses while another *)
(* interaction is under way; any other failure is the caller's.                                    *)
Renewal(failure) ==
    \/ RequiresVisibleSignIn(page, failure) /\ errand = "none" /\ Leave("renewal") /\ token' = "none"
    \/ /\ ~RequiresVisibleSignIn(page, failure) \/ errand # "none"
       /\ token' = (IF failure = "renewal_timeout" /\ errand = "none" THEN failure ELSE "failed")
       /\ UNCHANGED <<page, at, client, account, error, signingOut, errand>>

(* The hidden frame answers while the session is live, and times out or asks for the user when it is not. *)
SilentAnswer ==
    /\ at = "shown" /\ token = "asked"
    /\ \/ live /\ token' = "granted" /\ UNCHANGED <<page, at, client, account, error, signingOut, errand>>
       \/ ~live /\ \E failure \in {"interaction_required", "renewal_timeout"} : Renewal(failure)
    /\ UNCHANGED <<stored, live, pointer, shownRun, faults>>

SilentFails ==
    /\ at = "shown" /\ token = "asked" /\ Fault /\ token' = "failed"
    /\ UNCHANGED <<page, at, client, account, error, signingOut, errand, stored, live, pointer, shownRun>>

-----------------------------------------------------------------------------
(* Signing in and out *)

SignIn ==
    /\ Rendered = "sign_in"
    /\ \/ Leave("login") /\ UNCHANGED faults
       \/ Fault /\ error' = "sign_in" /\ UNCHANGED <<page, at, client, account, signingOut, errand>>
    /\ UNCHANGED <<token, stored, live, pointer, shownRun>>

(* The user completes what Microsoft asks; the tab comes back to the page, or after a logout to the workspace. *)
ReturnFromMicrosoft ==
    /\ at = "away" /\ stored' = (errand # "logout") /\ live' = (errand # "logout")
    /\ Opens(IF errand = "logout" /\ Workspace \in Pages THEN Workspace ELSE page)
    /\ UNCHANGED <<pointer, faults>>

(* The workspace page forgets the active run as it asks for the redirect. *)
Forgets(p) == IF p = Workspace THEN FALSE ELSE pointer

StartSignOut ==
    /\ Rendered = "page" /\ ~signingOut /\ signingOut' = TRUE /\ pointer' = Forgets(page)
    /\ errand' = "logout"
    /\ error' = IF page = Workspace THEN "none" ELSE error
    /\ UNCHANGED <<page, at, client, account, token, stored, live, shownRun, faults>>

LogoutRedirect ==
    /\ at = "shown" /\ errand = "logout"
    /\ \/ at' = "away" /\ UNCHANGED <<page, client, account, error, signingOut, token, errand, faults>>
       \/ /\ Fault /\ error' = "sign_out" /\ signingOut' = FALSE /\ errand' = "none"
          /\ UNCHANGED <<page, at, client, account, token>>
    /\ UNCHANGED <<stored, live, pointer, shownRun>>

SessionExpires ==
    /\ live /\ live' = FALSE
    /\ UNCHANGED <<view, stored, pointer, shownRun, faults>>

-----------------------------------------------------------------------------
(* The workspace page and its pointer *)

(* A run is created and its identifiers are saved. *)
CreateRun ==
    /\ page = Workspace /\ Rendered = "page" /\ token = "granted" /\ ~shownRun
    /\ pointer' = TRUE /\ shownRun' = TRUE
    /\ UNCHANGED <<view, stored, live, faults>>

(* The saved run is restored, is gone or another's, or cannot be read now. *)
Definitive(failure) == failure = "gone"

RestoreRun ==
    /\ page = Workspace /\ Rendered = "page" /\ pointer /\ ~shownRun /\ token = "granted"
    /\ \/ shownRun' = TRUE /\ UNCHANGED <<pointer, faults>>
       \/ \E failure \in {"gone", "transient"} :
             /\ Fault /\ pointer' = ~Definitive(failure) /\ UNCHANGED shownRun
    /\ UNCHANGED <<view, stored, live>>

StartNewProject ==
    /\ page = Workspace /\ Rendered = "page" /\ shownRun
    /\ pointer' = FALSE /\ shownRun' = FALSE
    /\ UNCHANGED <<view, stored, live, faults>>

-----------------------------------------------------------------------------
Restores == Initialized \/ InitFailed
Answers == SilentAnswer \/ SilentFails

Next ==
    \/ Restores \/ Answers \/ LogoutRedirect \/ ReturnFromMicrosoft \/ AskToken \/ SignIn \/ StartSignOut \/ SessionExpires
    \/ CreateRun \/ RestoreRun \/ StartNewProject
    \/ \E p \in Pages : Navigate(p)

Spec == Init /\ [][Next]_vars

(* Calls end, a page goes on asking for tokens, and a user who is asked to sign in does. *)
FairSpec ==
    /\ Spec /\ WF_vars(Restores) /\ WF_vars(Answers) /\ WF_vars(LogoutRedirect)
    /\ WF_vars(ReturnFromMicrosoft) /\ WF_vars(SignIn) /\ WF_vars(AskToken)

-----------------------------------------------------------------------------
(* The user of the workspace comes to have tokens or to be asked to sign in, whatever expired and failed: no *)
(* silent renewal that cannot recover leaves a page that works no more. *)
WorkspaceIsOpen == page = Workspace /\ Rendered = "page"
WorkspaceIsServed ==
    token = "granted" \/ at \in {"away", "loading"} \/ page # Workspace \/ Rendered = "sign_in"
WorkspaceRecovers == WorkspaceIsOpen ~> WorkspaceIsServed

(* The sign-out button comes back or the tab leaves: a logout that fails does not leave it disabled. *)
SignedOut == ~signingOut \/ at = "away"
SignOutEnds == signingOut ~> SignedOut

(* When the session cannot be restored the page says that "Microsoft Entra External ID is temporarily *)
(* unavailable." *)
InitFailureIsShown == error = "unavailable" => Rendered = "sign_in"

(* A failure "must keep" the saved pointer, "otherwise one bad moment makes a live, paused run unreachable from *)
(* the UI for good": the run the page goes on showing is one it can restore, after a failed sign-out too. *)
ShownRunIsSaved == page = Workspace /\ shownRun /\ ~signingOut => pointer

(* A silent renewal that times out "needs a visible sign-in redirect rather than a permanently broken page", *)
(* on the page with the "same sign-in behaviour" too. *)
TimeoutIsRedirected == token # "renewal_timeout"

=============================================================================
