---------------------------- MODULE ProviderBudget ----------------------------
(***************************************************************************)
(* The money side of every model call: a worst-case amount is reserved     *)
(* against the run's durable ceiling and the workspace's window of the UTC *)
(* day, the provider is called, and what the real cost did not use is      *)
(* given back to both.  Calls of several runs and workers interleave,      *)
(* transactions wait for each other's row locks, midnight passes while a   *)
(* call is in flight, workers die, and workers of two deployments have     *)
(* different per-run budgets.  All runs belong to one workspace.           *)
(*                                                                         *)
(* One reservation stands for one request, but the provider's SDK sends a  *)
(* request again when its answer does not arrive.  Nobody hears what such  *)
(* a request cost: it is kept apart here, in `unseen`.                     *)
(***************************************************************************)
EXTENDS Naturals, FiniteSets, FiniteSetsExt

CONSTANTS
    Calls,         \* calls that can be in flight at once
    Runs,
    LastDay,       \* bound: midnights the model can see
    RunBudgets,    \* RUN_PROVIDER_BUDGET_USD_MICROS of the deployed workers
    WorkspaceCap,  \* WORKSPACE_PROVIDER_BUDGET_USD_MICROS_PER_DAY
    InputBytes,    \* UTF-8 lengths a request can have
    OutputTokens,  \* maxOutputTokens a request can ask for
    OutputLimit,   \* the model's pinned output-token limit
    Overhead,      \* REQUEST_OVERHEAD_TOKEN_RESERVE
    InputPrice,    \* of one token, in the ledger's unit
    OutputPrice,
    Resends        \* requests of one call that are sent again: two in each of
                   \* the rounds that GeminiModelGateway starts after a 429

ASSUME ProviderBudgetAssumption ==
    /\ IsFiniteSet(Calls)
    /\ LastDay \in Nat
    /\ RunBudgets \subseteq Nat \ {0}
    /\ WorkspaceCap \in Nat \ {0}
    /\ InputBytes \union OutputTokens \subseteq Nat
    /\ {OutputLimit, Overhead, InputPrice, OutputPrice, Resends} \subseteq Nat

VARIABLES
    total,     \* run_provider_budgets.total_usd_micros, 0 before the row exists
    reserved,  \* run_provider_budgets.reserved_usd_micros
    window,    \* workspace_provider_budget_windows.reserved_usd_micros by day
    today,     \* CURRENT_TIMESTAMP AT TIME ZONE 'UTC'
    call,      \* what each call in flight is doing
    paid,      \* history: what the last request of each call cost, by run
    paidOn     \* history: the same, by the day whose window was charged

ledger == <<total, reserved, window>>
vars == <<total, reserved, window, today, call, paid, paidOn>>

Days == 0 .. LastDay
Rows == [kind : {"run"}, of : Runs] \union [kind : {"window"}, of : Days]
RunRow(r) == [kind |-> "run", of |-> r]
WindowRow(d) == [kind |-> "window", of |-> d]

Request == [bytes : Nat, maxOutput : Nat]
Idle == [pc |-> "idle"]
ReleasePcs == {"release", "releaseSecond", "releaseCommit"}
OpenCall ==
    [pc : {"reserve", "reserveWindow", "reserveCommit", "calling", "record"}
            \union ReleasePcs,
     run : Runs, budget : RunBudgets, request : Request, amount : Nat,
     day : Days, actual : Nat, holds : SUBSET Rows,
     resent : 0 .. Resends,
     unseen : Nat]   \* history: what the requests that were sent again cost

TypeOK ==
    /\ total \in [Runs -> RunBudgets \union {0}]
    /\ {reserved, paid} \subseteq [Runs -> Nat]
    /\ {window, paidOn} \subseteq [Days -> Nat]
    /\ today \in Days
    /\ call \in [Calls -> OpenCall \union {Idle}]

Init ==
    /\ total = [r \in Runs |-> 0]
    /\ reserved = [r \in Runs |-> 0]
    /\ window = [d \in Days |-> 0]
    /\ today = 0
    /\ call = [c \in Calls |-> Idle]
    /\ paid = [r \in Runs |-> 0]
    /\ paidOn = [d \in Days |-> 0]

\* A row lock of PostgreSQL is held until the transaction ends.
Free(row) == \A c \in Calls : call[c] # Idle => row \notin call[c].holds

End_KeepLocks(c) == call' = [call EXCEPT ![c].pc = "idle"]
End(c) == call' = [call EXCEPT ![c] = Idle]

-----------------------------------------------------------------------------
(* BudgetedModelGateway.#reserve and PostgresRunProviderBudgetStore.reserve *)

\* What this call may still reserve of its run: the durable ceiling, or the
\* worker's own configuration where that is lower.
RunRemaining_Raised(c) ==
    IF call[c].budget > reserved[call[c].run]
    THEN call[c].budget - reserved[call[c].run] ELSE 0
RunRemaining(c) ==
    LET durable == IF total[call[c].run] = 0 THEN call[c].budget ELSE total[call[c].run]
        limit   == Min({durable, call[c].budget})
    IN  IF limit > reserved[call[c].run] THEN limit - reserved[call[c].run] ELSE 0

WindowRemaining(d) == IF WorkspaceCap > window[d] THEN WorkspaceCap - window[d] ELSE 0

\* resolveMaxOutputTokens: the request that is priced and sent is clamped to
\* what the model can answer.
Clamped(q) == [q EXCEPT !.maxOutput = Min({@, OutputLimit})]

Cost(input, output) == input * InputPrice + output * OutputPrice

\* estimateTextRequestReservationUsdMicros: a token per byte, a reserve for the
\* protocol, every output token, and the safety multiplier 1.5, rounded up.
Reservation(q) ==
    Max({1, (3 * Cost(q.bytes + Overhead, Min({q.maxOutput, OutputLimit})) + 1) \div 2})

\* A request without a run, an output limit or a known price throws before
\* this point and changes nothing.
StartCall(c, r, b, q) ==
    /\ call[c] = Idle
    /\ call' = [call EXCEPT ![c] = [pc |-> "reserve", run |-> r, budget |-> b,
                                    request |-> Clamped(q), amount |-> Reservation(q),
                                    day |-> today, actual |-> 0, holds |-> {},
                                    resent |-> 0, unseen |-> 0]]
    /\ UNCHANGED <<ledger, today, paid, paidOn>>

\* INSERT ... ON CONFLICT DO NOTHING and SELECT ... FOR UPDATE of the run row.
\* The transaction's CURRENT_TIMESTAMP is fixed here.
LockRunRow(c) ==
    /\ call[c].pc = "reserve"
    /\ Free(RunRow(call[c].run))
    /\ call[c].amount <= RunRemaining(c)
    /\ call' = [call EXCEPT ![c].pc = "reserveWindow", ![c].day = today,
                            ![c].holds = {RunRow(call[c].run)}]
    /\ UNCHANGED <<ledger, today, paid, paidOn>>

\* PROVIDER_BUDGET_EXCEEDED: the callback returns, so the transaction commits
\* the row it has inserted.
RejectByRun(c) ==
    /\ call[c].pc = "reserve"
    /\ Free(RunRow(call[c].run))
    /\ call[c].amount > RunRemaining(c)
    /\ total' = [total EXCEPT ![call[c].run] = IF @ = 0 THEN call[c].budget ELSE @]
    /\ End(c)
    /\ UNCHANGED <<reserved, window, today, paid, paidOn>>

\* The day is the transaction's, even when midnight has passed since.
LockWindowRow(c) ==
    /\ call[c].pc = "reserveWindow"
    /\ Free(WindowRow(call[c].day))
    /\ call[c].amount <= WindowRemaining(call[c].day)
    /\ call' = [call EXCEPT ![c].pc = "reserveCommit",
                            ![c].holds = @ \union {WindowRow(call[c].day)}]
    /\ UNCHANGED <<ledger, today, paid, paidOn>>

RejectByWorkspace(c) ==
    /\ call[c].pc = "reserveWindow"
    /\ Free(WindowRow(call[c].day))
    /\ call[c].amount > WindowRemaining(call[c].day)
    /\ total' = [total EXCEPT ![call[c].run] = IF @ = 0 THEN call[c].budget ELSE @]
    /\ End(c)
    /\ UNCHANGED <<reserved, window, today, paid, paidOn>>

CommitReservation(c) ==
    LET r == call[c].run  n == call[c].amount  d == call[c].day IN
    /\ call[c].pc = "reserveCommit"
    /\ total' = [total EXCEPT ![r] = IF @ = 0 THEN call[c].budget ELSE @]
    /\ reserved' = [reserved EXCEPT ![r] = @ + n]
    /\ window' = [window EXCEPT ![d] = @ + n]
    /\ call' = [call EXCEPT ![c].pc = "calling", ![c].holds = {}]
    /\ UNCHANGED <<today, paid, paidOn>>

-----------------------------------------------------------------------------
(* The provider, and #recordActual                                         *)

Pay(c, a) ==
    /\ paid' = [paid EXCEPT ![call[c].run] = @ + a]
    /\ paidOn' = [paidOn EXCEPT ![call[c].day] = @ + a]

\* What one request can cost: the provider counts at most a token
\* per byte and the overhead, and stops at the request's maxOutputTokens.
PossibleCosts(c) ==
    {Cost(i, o) : i \in 0 .. call[c].request.bytes + Overhead,
                  o \in 0 .. call[c].request.maxOutput}

\* The provider works and charges, but the answer is a timeout, a broken
\* connection or a 5xx: the SDK, whose maxRetries main.ts leaves at two, sends
\* the request again under the same reservation.
ResendRequest(c) ==
    /\ call[c].pc = "calling"
    /\ call[c].resent < Resends
    /\ \E a \in PossibleCosts(c) :
         call' = [call EXCEPT ![c].resent = @ + 1, ![c].unseen = @ + a]
    /\ UNCHANGED <<ledger, today, paid, paidOn>>

ProviderAnswers(c) ==
    /\ call[c].pc = "calling"
    /\ \E a \in PossibleCosts(c) :
         /\ Pay(c, a)
         /\ call' = [call EXCEPT ![c].pc = "record", ![c].actual = a]
    /\ UNCHANGED <<ledger, today>>

\* An error, a timeout, a stream nobody finishes or an answer without a price:
\* the provider may have been paid and the reservation stays.
EndUnpriced(c) ==
    /\ call[c].pc = "calling"
    /\ \E a \in PossibleCosts(c) : Pay(c, a)
    /\ End(c)
    /\ UNCHANGED <<ledger, today>>

\* reservationToRelease: the actual cost with SETTLED_COST_MARGIN = 1.25 stays.
ToRelease_NoMargin(n, a) == n
ToRelease(n, a) ==
    LET settled == (5 * a + 3) \div 4 IN IF n > settled THEN n - settled ELSE 0

\* One statement on the run row; actual_usd_micros is telemetry and left out.
RecordActual(c) ==
    /\ call[c].pc = "record"
    /\ Free(RunRow(call[c].run))
    /\ IF ToRelease(call[c].amount, call[c].actual) > 0
       THEN call' = [call EXCEPT ![c].pc = "release"]
       ELSE End(c)
    /\ UNCHANGED <<ledger, today, paid, paidOn>>

\* A failing write is swallowed, and nothing is released after it.
RecordingFails(c) ==
    /\ call[c].pc \in {"record"} \union ReleasePcs
    /\ End(c)
    /\ UNCHANGED <<ledger, today, paid, paidOn>>

\* The window a release goes to is the one the reservation was charged to.
ReleaseDay(c) == call[c].day

\* The order in which a release updates, and so locks, its two rows.
ReleaseLocks_WindowFirst(c) == <<WindowRow(ReleaseDay(c)), RunRow(call[c].run)>>
ReleaseLocks(c) == <<RunRow(call[c].run), WindowRow(ReleaseDay(c))>>

LockForRelease(c) ==
    /\ \/ /\ call[c].pc = "release"
          /\ Free(ReleaseLocks(c)[1])
          /\ call' = [call EXCEPT ![c].pc = "releaseSecond", ![c].holds = {ReleaseLocks(c)[1]}]
       \/ /\ call[c].pc = "releaseSecond"
          /\ Free(ReleaseLocks(c)[2])
          /\ call' = [call EXCEPT ![c].pc = "releaseCommit",
                                  ![c].holds = @ \union {ReleaseLocks(c)[2]}]
    /\ UNCHANGED <<ledger, today, paid, paidOn>>

CommitRelease(c) ==
    LET n == ToRelease(call[c].amount, call[c].actual)
        Less(m) == IF m > n THEN m - n ELSE 0
    IN
    /\ call[c].pc = "releaseCommit"
    /\ reserved' = [reserved EXCEPT ![call[c].run] = Less(@)]
    /\ window' = [window EXCEPT ![ReleaseDay(c)] = Less(@)]
    /\ End(c)
    /\ UNCHANGED <<total, today, paid, paidOn>>

\* The worker dies, or the database refuses: an open transaction is undone.
Crash(c) ==
    /\ call[c] # Idle
    /\ End(c)
    /\ UNCHANGED <<ledger, today, paid, paidOn>>

Midnight ==
    /\ today < LastDay
    /\ today' = today + 1
    /\ UNCHANGED <<ledger, call, paid, paidOn>>

-----------------------------------------------------------------------------
CallNext(c) ==
    \/ \E r \in Runs, b \in RunBudgets, n \in InputBytes, m \in OutputTokens :
         StartCall(c, r, b, [bytes |-> n, maxOutput |-> m])
    \/ LockRunRow(c) \/ RejectByRun(c)
    \/ LockWindowRow(c) \/ RejectByWorkspace(c) \/ CommitReservation(c)
    \/ ResendRequest(c) \/ ProviderAnswers(c) \/ EndUnpriced(c)
    \/ RecordActual(c) \/ RecordingFails(c)
    \/ LockForRelease(c) \/ CommitRelease(c)
    \/ Crash(c)

Next == Midnight \/ \E c \in Calls : CallNext(c)

Spec == Init /\ [][Next]_vars

-----------------------------------------------------------------------------
(* Properties *)

\* What a call may still cost, or is still about to give back.
Open(c) ==
    CASE call[c].pc = "calling" -> call[c].amount
      [] call[c].pc \in {"record"} \union ReleasePcs -> ToRelease(call[c].amount, call[c].actual)
      [] OTHER -> 0

ShareOf(c, r) == IF call[c] # Idle /\ call[c].run = r THEN Open(c) ELSE 0
ShareOn(c, d) == IF call[c] # Idle /\ call[c].day = d THEN Open(c) ELSE 0
OpenOf(r) == SumFunctionOnSet([c \in Calls |-> ShareOf(c, r)], Calls)
OpenOn(d) == SumFunctionOnSet([c \in Calls |-> ShareOn(c, d)], Calls)

ResendsBounded ==
    \A c \in Calls : call[c] # Idle => call[c].unseen <= call[c].resent * call[c].amount

\* "A call still in flight keeps its full reservation" (model-budget.ts:143):
\* what is charged covers what the last request of each call cost and what open
\* calls can still cost or give back, in the run's ledger and in the window of
\* the day each call was charged to, so GREATEST(0, ...) of a release never
\* hides a loss.  What the ledger does not cover is bounded: each request that
\* the SDK sent again cost at most the reservation of its call.
LedgerCoversSpend ==
    /\ \A r \in Runs : reserved[r] >= paid[r] + OpenOf(r)
    /\ \A d \in Days : window[d] >= paidOn[d] + OpenOn(d)
    /\ ResendsBounded

\* "The ceilings then limit real spend" (model-budget.ts:142): also what was
\* charged for requests that the SDK sent again stays within the run's ceiling.
CeilingLimitsRealSpend ==
    \A r \in Runs :
      total[r] > 0 =>
        paid[r] + MapThenSumSet(LAMBDA c : call[c].unseen,
                                {c \in Calls : call[c] # Idle /\ call[c].run = r}) <= total[r]

\* "First reservation permanently fixes the durable ceiling for this run"
\* (model-budget.ts:486): whatever the deployed workers are configured with,
\* each run is a capped account of SpendCap, for the last request of each call.
RunLedger == INSTANCE SpendCap WITH
    Accounts <- Runs, limit <- total, committed <- reserved, spent <- paid
RunsAreCapped == RunLedger!Spec

\* The workspace's ceiling holds for each day, for the last request of each
\* call, also when it was reserved before midnight and settled after it.
WindowLedger == INSTANCE SpendCap WITH
    Accounts <- Days, limit <- [d \in Days |-> WorkspaceCap],
    committed <- window, spent <- paidOn
WindowsAreCapped == WindowLedger!Spec

\* No interleaving of concurrent calls, crash or midnight spends past either
\* cap, if one request is what a call costs: both ledgers implement SpendCap
\* for the last request of each call (model-budget.ts:524-600).
SpendIsCapped == RunsAreCapped /\ WindowsAreCapped

\* "Lock order is always run row first, then workspace-window row"
\* (model-budget.ts:503): no two transactions wait for each other's row.
WaitsFor(c) ==
    CASE call[c].pc = "reserve" -> {RunRow(call[c].run)}
      [] call[c].pc = "reserveWindow" -> {WindowRow(call[c].day)}
      [] call[c].pc = "release" -> {ReleaseLocks(c)[1]}
      [] call[c].pc = "releaseSecond" -> {ReleaseLocks(c)[2]}
      [] OTHER -> {}

NoCircularWait ==
    ~ \E c1, c2 \in Calls :
        /\ call[c1] # Idle /\ call[c2] # Idle
        /\ WaitsFor(c1) \intersect call[c2].holds # {}
        /\ WaitsFor(c2) \intersect call[c1].holds # {}
=============================================================================
