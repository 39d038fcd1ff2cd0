----------------------------- MODULE GtmOutreach -----------------------------
(***************************************************************************)
(* Outreach within the GTM scopes of a workspace: scopes, sequences, the   *)
(* outcome recorded of each step, suppression entries and lead scores.     *)
(* Outcomes and scores arrive in any order; two clients suppress the same  *)
(* identifier at once.  Prospects are those of GtmDeals and exist.         *)
(***************************************************************************)
EXTENDS Naturals

CONSTANTS
    Scopes,     \* GTM scopes of the workspace: the platform's and its projects'
    Names,      \* names of sequences
    Steps,      \* step ordinals
    Clients,    \* requests to suppress an identifier
    Reasons,    \* SuppressionReason
    Members,    \* users by their role in the workspace
    TimeBound   \* bound: instants at which outcomes occur and scores are computed

(* What the constants satisfy; the modules that instantiate this one assume it. *)
GtmOutreachAssumption == TimeBound \in Nat \ {0} /\ "none" \notin Reasons

VARIABLES
    scope,      \* gtm_scopes that exist
    sequence,   \* outreach_sequences: (scope, name) pairs that exist
    outcome,    \* outreach_events: when the recorded outcome of a step occurred
    suppressed, \* suppression_entries of each scope: the reason
    request,    \* createSuppressionEntry of each client
    scores,     \* lead_scores of the prospect of each scope
    cached,     \* prospects.current_score of that prospect
    seen        \* history: the outcomes recorded of each step

vars == <<scope, sequence, outcome, suppressed, request, scores, cached, seen>>

None == [kind |-> "none"]
Sequences == Scopes \X Names
Times == 1 .. TimeBound
Request == [kind : {"request"}, pc : {"find", "create", "reread", "answered"}, scope : Scopes,
            reason : Reasons, answer : Reasons \union {"pending"}]

Init ==
    /\ scope = {} /\ sequence = {}
    /\ outcome = [step \in Sequences \X Scopes \X Steps |-> 0]
    /\ suppressed = [sc \in Scopes |-> "none"]
    /\ request = [c \in Clients |-> None]
    /\ scores = [sc \in Scopes |-> {}] /\ cached = [sc \in Scopes |-> 0]
    /\ seen = [step \in Sequences \X Scopes \X Steps |-> {}]

(* requireAdministrativeRole *)
Administrative(u) == u \in {"OWNER", "ADMIN"}
(* getGtmScopeAccess: the scope exists and the user is a member of its workspace. *)
Access(u, sc) == u \in {"OWNER", "ADMIN", "MEMBER"} /\ sc \in scope

-----------------------------------------------------------------------------

(* One scope of the platform and one of each project, by partial unique indexes. *)
CreateGtmScope(u, sc) ==
    /\ Administrative(u) /\ sc \notin scope
    /\ scope' = scope \union {sc}
    /\ UNCHANGED <<sequence, outcome, suppressed, request, scores, cached, seen>>

CreateOutreachSequence(u, sc, name) ==
    /\ Access(u, sc) /\ <<sc, name>> \notin sequence
    /\ sequence' = sequence \union {<<sc, name>>}
    /\ UNCHANGED <<scope, outcome, suppressed, request, scores, cached, seen>>

Reachable_AnyScope(q) == scope

(* The prospects whose outcome a sequence may record: those of its own scope. *)
Reachable(q) == {q[1]}

(* The route finds the sequence in the scope, the repository the prospect in the *)
(* sequence's scope; the upsert takes whatever arrives.                          *)
RecordOutreachEvent(u, q, p, n, at) ==
    /\ Access(u, q[1]) /\ q \in sequence /\ p \in Reachable(q)
    /\ outcome' = [outcome EXCEPT ![<<q, p, n>>] = at]
    /\ seen' = [seen EXCEPT ![<<q, p, n>>] = @ \union {at}]
    /\ UNCHANGED <<scope, sequence, suppressed, request, scores, cached>>

-----------------------------------------------------------------------------
(* createSuppressionEntry: find, create, and on a lost race read again *)

Answer(c, r) == request' = [request EXCEPT ![c].pc = "answered", ![c].answer = r]

AskToSuppress(c, u, sc, r) ==
    /\ request[c] = None /\ Access(u, sc)
    /\ request' = [request EXCEPT ![c] = [kind |-> "request", pc |-> "find", scope |-> sc, reason |-> r, answer |-> "pending"]]
    /\ UNCHANGED <<scope, sequence, outcome, suppressed, scores, cached, seen>>

FindEntry(c) ==
    /\ request[c] # None /\ request[c].pc = "find"
    /\ IF suppressed[request[c].scope] # "none" THEN Answer(c, suppressed[request[c].scope])
       ELSE request' = [request EXCEPT ![c].pc = "create"]
    /\ UNCHANGED <<scope, sequence, outcome, suppressed, scores, cached, seen>>

Taken(c) == suppressed[request[c].scope] # "none"

CreateEntry(c) ==
    /\ request[c] # None /\ request[c].pc = "create" /\ ~Taken(c)
    /\ suppressed' = [suppressed EXCEPT ![request[c].scope] = request[c].reason]
    /\ Answer(c, request[c].reason)
    /\ UNCHANGED <<scope, sequence, outcome, scores, cached, seen>>

LosesRace(c) ==
    /\ request[c] # None /\ request[c].pc = "create" /\ Taken(c)
    /\ request' = [request EXCEPT ![c].pc = "reread"]
    /\ UNCHANGED <<scope, sequence, outcome, suppressed, scores, cached, seen>>

Reread(c) ==
    /\ request[c] # None /\ request[c].pc = "reread"
    /\ Answer(c, suppressed[request[c].scope])
    /\ UNCHANGED <<scope, sequence, outcome, suppressed, scores, cached, seen>>

-----------------------------------------------------------------------------

(* createLeadScore appends to the history and touches nothing else. *)
CreateLeadScore(u, sc, at) ==
    /\ Access(u, sc)
    /\ scores' = [scores EXCEPT ![sc] = @ \union {at}]
    /\ UNCHANGED <<scope, sequence, outcome, suppressed, request, cached, seen>>

Suppress(c) == FindEntry(c) \/ CreateEntry(c) \/ LosesRace(c) \/ Reread(c)

(* The routes: any request with any of its inputs. *)
ScopeRequest(u) == \E sc \in Scopes : CreateGtmScope(u, sc)
SequenceRequest(u) == \E sc \in Scopes, name \in Names : CreateOutreachSequence(u, sc, name)
ScoreRequest(u) == \E sc \in Scopes, at \in Times : CreateLeadScore(u, sc, at)
SuppressionRequest(u) == \E sc \in Scopes, c \in Clients, r \in Reasons : AskToSuppress(c, u, sc, r)
EventRequest(u) ==
    \E q \in Sequences, p \in Scopes, n \in Steps, at \in Times : RecordOutreachEvent(u, q, p, n, at)

Next ==
    \/ \E u \in Members : \/ ScopeRequest(u) \/ SequenceRequest(u) \/ ScoreRequest(u)
                           \/ SuppressionRequest(u) \/ EventRequest(u)
    \/ \E c \in Clients : Suppress(c)

Spec == Init /\ [][Next]_vars

-----------------------------------------------------------------------------

(* Every variable has its type. *)
TypeOK ==
    /\ scope \subseteq Scopes /\ sequence \subseteq Sequences
    /\ \A q \in Sequences, p \in Scopes, n \in Steps : outcome[q, p, n] \in 0 .. TimeBound
    /\ \A sc \in Scopes : suppressed[sc] \in Reasons \union {"none"} /\ scores[sc] \subseteq Times
    /\ \A c \in Clients : request[c] \in Request \union {None}

(* "The two scopes never share data, credentials, leads, campaigns, or suppression     *)
(* lists": whatever is stored belongs to a scope that exists, and an outcome to a      *)
(* prospect of the sequence's scope (recordOutreachEvent).                             *)
ScopesDoNotMix ==
    /\ \A q \in Sequences, p \in Scopes, n \in Steps : outcome[q, p, n] # 0 => q \in sequence /\ p = q[1]
    /\ \A q \in sequence : q[1] \in scope
    /\ \A sc \in Scopes : suppressed[sc] # "none" \/ scores[sc] # {} => sc \in scope

(* Suppression is set-like: an entry stays as the winner of the race wrote it, and every *)
(* caller is answered with the entry that is stored (createSuppressionEntry).            *)
SuppressionIsStable ==
    /\ \A sc \in Scopes : suppressed[sc] # "none" => suppressed'[sc] = suppressed[sc]
    /\ \A c \in Clients : request'[c] # None /\ request'[c].pc = "answered" =>
          request'[c].answer = suppressed'[request'[c].scope]

(* Recording an event advances the step's latest known outcome. *)
OutcomeIsLatest ==
    \A q \in Sequences, p \in Scopes, n \in Steps : \A at \in seen[q, p, n] : outcome[q, p, n] >= at

(* current_score is a cache of the latest lead score. *)
CacheIsLatest == \A sc \in Scopes : \A at \in scores[sc] : cached[sc] >= at
=============================================================================
