------------------------------- MODULE GtmDeals -------------------------------
(***************************************************************************)
(* Prospects and deals of the GTM scopes, and the sweep that records a     *)
(* customer-success handoff for every deal that was won.  Stage changes    *)
(* read the deal and write it in two statements of one transaction at the  *)
(* database's default isolation, so two of them interleave; sweeps list    *)
(* deals first and record handoffs one by one.                             *)
(***************************************************************************)
EXTENDS Naturals

CONSTANTS
    Scopes,      \* GTM scopes
    Boxes,       \* mailboxes; an address is a mailbox in some spelling
    Deals,       \* deal ids
    Clients,     \* requests that change stages at once
    Sweepers,    \* workers that run reconcile
    FaultBound   \* bound: inserts that fail

(* What the constants satisfy; the modules that instantiate this one assume it. *)
GtmDealsAssumption == FaultBound \in Nat

VARIABLES
    prospect,  \* prospects: the (scope, normalized address) pairs that exist
    deal,      \* deals
    tx,        \* updateDealStage of each client: what it has read
    handoff,   \* customer_success_handoffs by deal
    sweep,     \* what each sweeper still has to record
    faults,    \* inserts that failed so far
    won        \* history: deals that were ever CLOSED_WON

vars == <<prospect, deal, tx, handoff, sweep, faults, won>>

OpenStages == {"PROSPECTING", "NEGOTIATION"}  \* PROSPECTING to NEGOTIATION
ClosedStages == {"CLOSED_WON", "CLOSED_LOST"}
Stages == OpenStages \union ClosedStages
Spellings == {"lower", "upper"}
None == [kind |-> "none"]
Prospects == Scopes \X Boxes
Deal == [kind : {"deal"}, scope : Scopes, prospect : Prospects, stage : Stages, closed : BOOLEAN]
Handoff == [kind : {"handoff"}, scope : Scopes, prospect : Prospects]
Listed == [deal : Deals, scope : Scopes, prospect : Prospects]

Init ==
    /\ prospect = {}
    /\ deal = [d \in Deals |-> None]
    /\ tx = [c \in Clients |-> None]
    /\ handoff = [d \in Deals |-> None]
    /\ sweep = [w \in Sweepers |-> {}]
    /\ faults = 0 /\ won = {}

-----------------------------------------------------------------------------
(* Requests *)

(* normalizeEmail: trimmed and in lower case, whatever the spelling. *)
Normalize(address) == address[1]

(* The unique index on scope and normalized address refuses a second spelling. *)
CreateProspect(sc, address) ==
    /\ <<sc, Normalize(address)>> \notin prospect
    /\ prospect' = prospect \union {<<sc, Normalize(address)>>}
    /\ UNCHANGED <<deal, tx, handoff, sweep, faults, won>>

(* The prospects a deal of a scope may name. *)
ProspectsOf(sc) == {p \in prospect : p[1] = sc}

StageOf(input) == IF input = "omitted" THEN "PROSPECTING" ELSE input

IsClosed(stage) == stage \in ClosedStages

CreateDeal(d, sc, p, input) ==
    /\ deal[d] = None /\ p \in ProspectsOf(sc)
    /\ deal' = [deal EXCEPT ![d] = [kind |-> "deal", scope |-> sc, prospect |-> p,
                                    stage |-> StageOf(input), closed |-> IsClosed(StageOf(input))]]
    /\ won' = IF StageOf(input) = "CLOSED_WON" THEN won \union {d} ELSE won
    /\ UNCHANGED <<prospect, tx, handoff, sweep, faults>>

(* updateDealStage, first statement; a deal of another scope is not found, and a *)
(* closed one is refused.                                                        *)
ReadDeal(c, d, sc, stage) ==
    /\ tx[c] = None /\ deal[d] # None
    /\ deal[d].scope = sc /\ ~IsClosed(deal[d].stage)
    /\ tx' = [tx EXCEPT ![c] = [kind |-> "tx", deal |-> d, stage |-> stage, closed |-> deal[d].closed]]
    /\ UNCHANGED <<prospect, deal, handoff, sweep, faults, won>>

(* closedAt is now for a closed stage, and otherwise what was read. *)
ClosedAt(c) == IsClosed(tx[c].stage) \/ tx[c].closed

(* Second statement: by id alone. *)
UpdateDeal(c) ==
    /\ tx[c] # None
    /\ deal' = [deal EXCEPT ![tx[c].deal].stage = tx[c].stage, ![tx[c].deal].closed = ClosedAt(c)]
    /\ won' = IF tx[c].stage = "CLOSED_WON" THEN won \union {tx[c].deal} ELSE won
    /\ tx' = [tx EXCEPT ![c] = None]
    /\ UNCHANGED <<prospect, handoff, sweep, faults>>

-----------------------------------------------------------------------------
(* The handoff sweep *)

Ready(d) == deal[d] # None /\ deal[d].stage = "CLOSED_WON" /\ handoff[d] = None

ListDealsReadyForHandoff(w) ==
    /\ sweep[w] = {}
    /\ \E d \in Deals : Ready(d)
    /\ sweep' = [sweep EXCEPT ![w] = {[deal |-> d, scope |-> deal[d].scope, prospect |-> deal[d].prospect] :
                                        d \in {e \in Deals : Ready(e)}}]
    /\ UNCHANGED <<prospect, deal, tx, handoff, faults, won>>

Insert_Replaces(i) == [e \in Deals |-> IF e = i.deal THEN [kind |-> "handoff", scope |-> i.scope, prospect |-> i.prospect]
                                       ELSE None]

(* The insert, or the unique key's refusal: already_exists, and the sweep goes on. *)
Insert(i) == IF handoff[i.deal] = None
             THEN [handoff EXCEPT ![i.deal] = [kind |-> "handoff", scope |-> i.scope, prospect |-> i.prospect]]
             ELSE handoff

RecordHandoff(w, i) ==
    /\ i \in sweep[w]
    /\ handoff' = Insert(i)
    /\ sweep' = [sweep EXCEPT ![w] = @ \ {i}]
    /\ UNCHANGED <<prospect, deal, tx, faults, won>>

(* Any other error ends the sweep; the next one lists again. *)
SweepFails(w) ==
    /\ sweep[w] # {} /\ faults < FaultBound
    /\ faults' = faults + 1
    /\ sweep' = [sweep EXCEPT ![w] = {}]
    /\ UNCHANGED <<prospect, deal, tx, handoff, won>>

Record(w) == \E i \in sweep[w] : RecordHandoff(w, i)

(* The routes: any request with any of its inputs. *)
ProspectRequest == \E sc \in Scopes, a \in Boxes \X Spellings : CreateProspect(sc, a)
DealRequest ==
    \E d \in Deals, sc \in Scopes, p \in Prospects, s \in {"omitted"} \union Stages : CreateDeal(d, sc, p, s)
StageRequest(c) == \E d \in Deals, sc \in Scopes, s \in Stages : ReadDeal(c, d, sc, s)

Next ==
    \/ ProspectRequest \/ DealRequest
    \/ \E c \in Clients : StageRequest(c) \/ UpdateDeal(c)
    \/ \E w \in Sweepers : ListDealsReadyForHandoff(w) \/ Record(w) \/ SweepFails(w)

Spec == Init /\ [][Next]_vars

(* The scheduler keeps adding a sweep and a worker takes it; inserts are awaited. *)
FairSpec == Spec /\ \A w \in Sweepers : WF_vars(ListDealsReadyForHandoff(w)) /\ WF_vars(Record(w))

-----------------------------------------------------------------------------

(* Every variable has its type. *)
TypeOK ==
    /\ prospect \subseteq Prospects
    /\ \A d \in Deals : deal[d] \in Deal \union {None} /\ handoff[d] \in Handoff \union {None}
    /\ \A w \in Sweepers : sweep[w] \subseteq Listed
    /\ faults \in 0 .. FaultBound /\ won \subseteq Deals

(* "The two scopes never share data": a deal is with a prospect of its own scope, and  *)
(* the handoff of a deal names the scope and the prospect of that deal (createDeal and *)
(* recordHandoff).                                                                     *)
OneScope ==
    \A d \in Deals :
        /\ deal[d] # None => deal[d].prospect \in prospect /\ deal[d].prospect[1] = deal[d].scope
        /\ handoff[d] # None => deal[d] # None /\ handoff[d].scope = deal[d].scope /\ handoff[d].prospect = deal[d].prospect

(* A deal shows a closing time exactly when its stage is a closed one, also when two *)
(* stage changes interleave (updateDealStage).                                       *)
ClosedHasTime == \A d \in Deals : deal[d] # None => deal[d].closed = IsClosed(deal[d].stage)

(* A recorded handoff is for a deal that was won and is never changed or withdrawn, *)
(* whatever other sweeps and stage changes do.                                      *)
HandoffIsDurable ==
    \A d \in Deals : (handoff[d] # None => handoff'[d] = handoff[d]) /\ (handoff'[d] # None => d \in won)

(* A deal that is won gets its handoff, unless its stage is changed again, although *)
(* sweeps overlap, fail and lose the race for the insert.                           *)
Won(d) == deal[d] # None /\ deal[d].stage = "CLOSED_WON"
HandedOff(d) == handoff[d] # None \/ ~Won(d)
WonIsHandedOff == \A d \in Deals : Won(d) ~> HandedOff(d)

(* A closed deal cannot change stage. *)
ClosedStaysClosed ==
    [][\A d \in Deals : deal[d] # None /\ IsClosed(deal[d].stage) => deal'[d] = deal[d]]_vars
=============================================================================
