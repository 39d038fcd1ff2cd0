------------------------- MODULE ProviderBudgetProofs -------------------------
(***************************************************************************)
(* The provider budget of one workspace, for any set of calls, runs,       *)
(* prices, limits and requests sent again: the two ledgers cover what the  *)
(* last request of each call costs, the lock order admits no cycle, and    *)
(* each ledger implements SpendCap.                                        *)
(*                                                                         *)
(* A reservation is decided in one step and booked in another, so the      *)
(* argument rests on the row locks: who has decided still fits, because    *)
(* nobody else can have booked since.                                      *)
(***************************************************************************)
EXTENDS ProviderBudget, FiniteSetTheorems, WellFoundedInduction, TLAPS

\* The rows a transaction has locked by the step it is at, run row first.
LocksAt(c) ==
    CASE call[c].pc \in {"reserveWindow", "releaseSecond"} -> {RunRow(call[c].run)}
      [] call[c].pc \in {"reserveCommit", "releaseCommit"} ->
           {RunRow(call[c].run), WindowRow(call[c].day)}
      [] OTHER -> {}

LocksInOrder == \A c \in Calls : call[c] # Idle => call[c].holds = LocksAt(c)

LocksExclude ==
    \A c, e \in Calls :
        c # e /\ call[c] # Idle /\ call[e] # Idle => call[c].holds \intersect call[e].holds = {}

\* Nothing the provider may charge for a call exceeds what was reserved for it.
WorstCase(c) == Cost(call[c].request.bytes + Overhead, call[c].request.maxOutput)
CallsPriced == \A c \in Calls : call[c] # Idle => WorstCase(c) <= call[c].amount

\* A reservation that was found to fit still fits when it is booked.
ReservationsFit ==
    \A c \in Calls :
        /\ call[c].pc \in {"reserveWindow", "reserveCommit"} =>
             call[c].amount <= RunRemaining(c)
        /\ call[c].pc = "reserveCommit" => call[c].amount <= WindowRemaining(call[c].day)

WithinCaps ==
    /\ \A r \in Runs : reserved[r] <= total[r]
    /\ \A d \in Days : window[d] <= WorkspaceCap

LocksInv  == TypeOK /\ LocksInOrder /\ LocksExclude
LedgerInv == CallsPriced /\ ReservationsFit /\ WithinCaps /\ LedgerCoversSpend
IInv      == LocksInv /\ LedgerInv

-----------------------------------------------------------------------------
(* Sums over a finite set.  The induction is over a set of numbers, or of  *)
(* subsets, for which the library's well-foundedness of < is enough.       *)

\* Induction over the natural numbers, for a set instead of a predicate.
LEMMA NatSetInduction ==
    ASSUME NEW G, 0 \in G, \A n \in Nat : n \in G => n + 1 \in G
    PROVE  Nat \subseteq G
<1> DEFINE Bad == Nat \ G
<1> SUFFICES ASSUME Bad # {}
             PROVE  FALSE
  OBVIOUS
<1>1. \E x \in Bad : \A y \in Bad : <<y, x>> \notin OpToRel(<, Nat)
  <2>1. Bad \subseteq Nat
    OBVIOUS
  <2> HIDE DEF Bad
  <2>2. QED
    BY <2>1, NatLessThanWellFounded, WFMin
<1>2. PICK x \in Bad : \A y \in Bad : ~ (y < x)
  BY <1>1 DEF OpToRel
<1>3. x \in Nat /\ x # 0
  OBVIOUS
<1>4. x - 1 \in Nat /\ x - 1 < x /\ (x - 1) + 1 = x
  BY <1>3
<1>5. x - 1 \in G
  BY <1>2, <1>4
<1>6. QED
  BY <1>4, <1>5

\* The element that the folds of the community modules take next.
Pick(T) == CHOOSE x \in T : TRUE

\* The recursion that a sum over a set unfolds to.
IsSum(sum, f, S) ==
    sum = [T \in SUBSET S |->
             IF T = {} THEN 0 ELSE f[Pick(T)] + sum[T \ {Pick(T)}]]

LEMMA PickIn ==
    ASSUME NEW T, T # {}
    PROVE  Pick(T) \in T
BY DEF Pick

\* Induction over the subsets of a finite set, one element at a time.
LEMMA SubsetInduction ==
    ASSUME NEW S, IsFiniteSet(S), NEW G, {} \in G,
           \A T \in SUBSET S : T # {} /\ T \ {Pick(T)} \in G => T \in G
    PROVE  SUBSET S \subseteq G
<1> DEFINE Sized == {n \in Nat : \A T \in SUBSET S : Cardinality(T) = n => T \in G}
<1>1. \A T \in SUBSET S : IsFiniteSet(T) /\ Cardinality(T) \in Nat
  BY FS_Subset, FS_CardinalityType
<1>2. 0 \in Sized
  BY <1>1, FS_EmptySet
<1>3. ASSUME NEW n \in Nat, n \in Sized
      PROVE  n + 1 \in Sized
  <2> SUFFICES ASSUME NEW T \in SUBSET S, Cardinality(T) = n + 1
               PROVE  T \in G
    OBVIOUS
  <2>1. T # {}
    BY FS_EmptySet
  <2>2. Pick(T) \in T
    BY <2>1, PickIn
  <2>3. Cardinality(T \ {Pick(T)}) = n
    BY <1>1, <2>2, FS_RemoveElement
  <2>4. T \ {Pick(T)} \in SUBSET S
    OBVIOUS
  <2>5. T \ {Pick(T)} \in G
    BY <1>3, <2>3, <2>4
  <2>6. QED
    BY <2>1, <2>5
<1>4. Nat \subseteq Sized
  <2> HIDE DEF Sized
  <2> QED BY <1>2, <1>3, NatSetInduction
<1>5. QED
  BY <1>1, <1>4

\* A function on the subsets of S satisfies the recursion: built size by size.
LEMMA SumExists ==
    ASSUME NEW S, IsFiniteSet(S), NEW f
    PROVE  \E sum : IsSum(sum, f, S)
<1> DEFINE Step(g, T) == IF T = {} THEN 0 ELSE f[Pick(T)] + g[T \ {Pick(T)}]
           Sized == {n \in Nat : \E g : \A T \in SUBSET S :
                                    Cardinality(T) <= n => g[T] = Step(g, T)}
<1>1. \A T \in SUBSET S : IsFiniteSet(T) /\ Cardinality(T) \in Nat
  BY FS_Subset, FS_CardinalityType
<1>2. \A T \in SUBSET S : T # {} =>
         /\ T \ {Pick(T)} \in SUBSET S
         /\ Cardinality(T \ {Pick(T)}) = Cardinality(T) - 1
  BY <1>1, PickIn, FS_RemoveElement
<1>3. 0 \in Sized
  <2> DEFINE g == [T \in SUBSET S |-> 0]
  <2>1. \A T \in SUBSET S : Cardinality(T) <= 0 => T = {}
    BY <1>1, FS_EmptySet
  <2>2. \A T \in SUBSET S : Cardinality(T) <= 0 => g[T] = Step(g, T)
    BY <2>1
  <2>3. QED
    BY <2>2
<1>4. ASSUME NEW n \in Nat, n \in Sized
      PROVE  n + 1 \in Sized
  <2>1. PICK g : \A T \in SUBSET S : Cardinality(T) <= n => g[T] = Step(g, T)
    BY <1>4
  <2> DEFINE h == [T \in SUBSET S |-> Step(g, T)]
  <2>2. ASSUME NEW T \in SUBSET S, Cardinality(T) <= n + 1
        PROVE  h[T] = Step(h, T)
    <3>1. CASE T = {}
      BY <3>1
    <3>2. CASE T # {}
      <4> DEFINE k == Cardinality(T)  U == T \ {Pick(T)}
      <4>a. k \in Nat /\ k <= n + 1
        BY <1>1, <2>2
      <4>b. U \in SUBSET S /\ Cardinality(U) = k - 1
        BY <1>2, <3>2
      <4> HIDE DEF k
      <4>1. U \in SUBSET S /\ Cardinality(U) <= n
        BY <4>a, <4>b
      <4> HIDE DEF U
      <4>2. h[U] = g[U]
        BY <2>1, <4>1 DEF h
      <4>3. QED
        BY <3>2, <4>2 DEF U
    <3>3. QED
      BY <3>1, <3>2
  <2> HIDE DEF h
  <2>3. QED
    BY <2>2
<1>5. Cardinality(S) \in Sized
  <2>1. Cardinality(S) \in Nat
    BY <1>1
  <2> HIDE DEF Sized
  <2>2. QED
    BY <1>3, <1>4, <2>1, NatSetInduction
<1>6. PICK g : \A T \in SUBSET S : Cardinality(T) <= Cardinality(S) => g[T] = Step(g, T)
  BY <1>5
<1>7. \A T \in SUBSET S : Cardinality(T) <= Cardinality(S)
  BY FS_Subset
<1> DEFINE h == [T \in SUBSET S |-> Step(g, T)]
<1>8. \A T \in SUBSET S : h[T] = g[T]
  BY <1>6, <1>7
<1>9. h = [T \in SUBSET S |-> Step(h, T)]
  <2> SUFFICES ASSUME NEW T \in SUBSET S
               PROVE  Step(g, T) = Step(h, T)
    OBVIOUS
  <2>1. T # {} => h[T \ {Pick(T)}] = g[T \ {Pick(T)}]
    BY <1>2, <1>8
  <2> HIDE DEF h
  <2>2. QED
    BY <2>1
<1>10. QED
  BY <1>9 DEF IsSum

\* What the community module's fold computes.
LEMMA SumFunctionIs ==
    ASSUME NEW S, IsFiniteSet(S), NEW f
    PROVE  \E sum : IsSum(sum, f, S) /\ SumFunctionOnSet(f, S) = sum[S]
<1> DEFINE sum == CHOOSE sum : IsSum(sum, f, S)
<1>1. IsSum(sum, f, S)
  BY SumExists
<1>2. SumFunctionOnSet(f, S) = sum[S]
  BY DEF SumFunctionOnSet, FoldFunctionOnSet, MapThenFoldSet, IsSum, Pick
<1>3. QED
  BY <1>1, <1>2

\* Sums of natural numbers are natural numbers.
LEMMA SumType ==
    ASSUME NEW S, IsFiniteSet(S), NEW f \in [S -> Nat], NEW sum, IsSum(sum, f, S)
    PROVE  \A T \in SUBSET S : sum[T] \in Nat
<1> DEFINE G == {T \in SUBSET S : sum[T] \in Nat}
<1>1. {} \in G
  BY DEF IsSum
<1>2. ASSUME NEW T \in SUBSET S, T # {}, T \ {Pick(T)} \in G
      PROVE  T \in G
  <2>1. Pick(T) \in S
    BY <1>2, PickIn
  <2>2. sum[T] = f[Pick(T)] + sum[T \ {Pick(T)}]
    BY <1>2 DEF IsSum
  <2>3. QED
    BY <1>2, <2>1, <2>2
<1> HIDE DEF G
<1>3. SUBSET S \subseteq G
  BY <1>1, <1>2, SubsetInduction
<1>4. QED
  BY <1>3 DEF G

\* Two functions that differ at one point only have sums that differ by as much.
LEMMA SumChange ==
    ASSUME NEW S, IsFiniteSet(S), NEW f \in [S -> Nat], NEW g \in [S -> Nat],
           NEW c \in S, \A x \in S \ {c} : g[x] = f[x]
    PROVE  /\ SumFunctionOnSet(f, S) \in Nat
           /\ SumFunctionOnSet(g, S) \in Nat
           /\ SumFunctionOnSet(g, S) + f[c] = SumFunctionOnSet(f, S) + g[c]
<1>1. PICK a : IsSum(a, f, S) /\ SumFunctionOnSet(f, S) = a[S]
  BY SumFunctionIs
<1>2. PICK b : IsSum(b, g, S) /\ SumFunctionOnSet(g, S) = b[S]
  BY SumFunctionIs
<1>3. \A T \in SUBSET S : a[T] \in Nat /\ b[T] \in Nat
  BY <1>1, <1>2, SumType
<1> DEFINE G == {T \in SUBSET S : IF c \in T THEN b[T] + f[c] = a[T] + g[c] ELSE b[T] = a[T]}
<1>4. {} \in G
  BY <1>1, <1>2 DEF IsSum
<1>5. ASSUME NEW T \in SUBSET S, T # {}, T \ {Pick(T)} \in G
      PROVE  T \in G
  <2> DEFINE p == Pick(T)  U == T \ {p}
  <2>1. p \in T /\ p \in S
    BY <1>5, PickIn
  <2>2. a[T] = f[p] + a[U] /\ b[T] = g[p] + b[U]
    BY <1>1, <1>2, <1>5 DEF IsSum
  <2>3. a[U] \in Nat /\ b[U] \in Nat /\ f[p] \in Nat /\ g[p] \in Nat /\ f[c] \in Nat /\ g[c] \in Nat
    BY <1>3, <2>1
  <2>4. CASE p = c
    <3>1. c \notin U /\ b[U] = a[U]
      BY <1>5, <2>4
    <3>2. b[T] + f[c] = a[T] + g[c]
      <4> HIDE DEF p, U
      <4> QED BY <2>2, <2>3, <2>4, <3>1
    <3>3. QED
      BY <2>1, <2>4, <3>2
  <2>5. CASE p # c
    <3>1. f[p] = g[p] /\ (c \in U <=> c \in T)
      BY <2>1, <2>5
    <3>2. IF c \in U THEN b[U] + f[c] = a[U] + g[c] ELSE b[U] = a[U]
      BY <1>5
    <3>3. IF c \in T THEN b[T] + f[c] = a[T] + g[c] ELSE b[T] = a[T]
      <4> HIDE DEF p, U
      <4> QED BY <2>2, <2>3, <3>1, <3>2
    <3>4. QED
      BY <3>3
  <2>6. QED
    BY <2>4, <2>5
<1>6. S \in G
  <2> HIDE DEF G
  <2> QED BY <1>4, <1>5, SubsetInduction
<1>7. QED
  BY <1>1, <1>2, <1>3, <1>6

-----------------------------------------------------------------------------
(* Prices *)

LEMMA MinOfTwo ==
    ASSUME NEW a \in Nat, NEW b \in Nat
    PROVE  /\ Min({a, b}) \in {a, b}
           /\ Min({a, b}) \in Nat
           /\ Min({a, b}) <= a
           /\ Min({a, b}) <= b
BY DEF Min

LEMMA MaxOfTwo ==
    ASSUME NEW a \in Nat, NEW b \in Nat
    PROVE  /\ Max({a, b}) \in Nat
           /\ Max({a, b}) >= b
BY DEF Max

LEMMA ProductGrows ==
    ASSUME NEW i \in Nat, NEW k \in Nat, NEW p \in Nat, i <= k
    PROVE  i * p \in Nat /\ i * p <= k * p
<1>1. (k - i) \in Nat
  OBVIOUS
<1>2. (k - i) * p >= 0
  BY <1>1
<1>3. QED
  BY <1>2

\* More tokens never cost less.
LEMMA CostGrows ==
    ASSUME NEW i \in Nat, NEW o \in Nat, NEW j \in Nat, NEW n \in Nat, i <= j, o <= n
    PROVE  Cost(i, o) \in Nat /\ Cost(i, o) <= Cost(j, n)
<1>1. InputPrice \in Nat /\ OutputPrice \in Nat
  BY ProviderBudgetAssumption
<1>2. /\ i * InputPrice \in Nat /\ j * InputPrice \in Nat
      /\ i * InputPrice <= j * InputPrice
  BY <1>1, ProductGrows
<1>3. /\ o * OutputPrice \in Nat /\ n * OutputPrice \in Nat
      /\ o * OutputPrice <= n * OutputPrice
  BY <1>1, ProductGrows
<1>4. QED
  BY <1>2, <1>3 DEF Cost

\* estimateTextRequestReservationUsdMicros prices the request that is sent.
LEMMA ReservationCovers ==
    ASSUME NEW q \in Request
    PROVE  /\ Clamped(q) \in Request
           /\ Reservation(q) \in Nat
           /\ Cost(Clamped(q).bytes + Overhead, Clamped(q).maxOutput) <= Reservation(q)
<1> DEFINE m == Min({q.maxOutput, OutputLimit})
           k == Cost(q.bytes + Overhead, m)
<1>1. q.bytes \in Nat /\ q.maxOutput \in Nat /\ Overhead \in Nat /\ OutputLimit \in Nat
  BY ProviderBudgetAssumption DEF Request
<1>2. m \in Nat
  BY <1>1, MinOfTwo
<1>3. /\ Clamped(q) \in Request
      /\ Clamped(q).bytes = q.bytes
      /\ Clamped(q).maxOutput = m
  BY <1>2 DEF Clamped, Request
<1>4. k \in Nat
  <2> HIDE DEF m
  <2> QED BY <1>1, <1>2, CostGrows
<1>5. (3 * k + 1) \div 2 \in Nat /\ (3 * k + 1) \div 2 >= k
  <2> HIDE DEF k
  <2> QED BY <1>4
<1>6. Reservation(q) = Max({1, (3 * k + 1) \div 2})
  BY DEF Reservation
<1>7. QED
  <2> HIDE DEF k
  <2>1. Max({1, (3 * k + 1) \div 2}) \in Nat /\ Max({1, (3 * k + 1) \div 2}) >= (3 * k + 1) \div 2
    BY <1>5, MaxOfTwo
  <2>2. Reservation(q) \in Nat /\ Reservation(q) >= k
    BY <1>4, <1>5, <1>6, <2>1
  <2>3. QED
    BY <1>3, <2>2 DEF k

\* What is given back, with the margin, leaves at least the actual cost.
LEMMA ReleaseLeavesCost ==
    ASSUME NEW n \in Nat, NEW a \in Nat
    PROVE  /\ ToRelease(n, a) \in Nat
           /\ a <= n => ToRelease(n, a) + a <= n
BY DEF ToRelease

-----------------------------------------------------------------------------
(* Types *)

LEMMA InitType == Init => TypeOK
BY ProviderBudgetAssumption DEF Init, TypeOK, Days

\* A step of a call changes no other call.
LEMMA OthersStay ==
    ASSUME TypeOK, NEW c \in Calls, CallNext(c)
    PROVE  /\ \A e \in Calls \ {c} : call'[e] = call[e]
           /\ today' = today
<1> USE DEF TypeOK, End, ledger
<1>1. CASE \E r \in Runs, b \in RunBudgets, n \in InputBytes, m \in OutputTokens :
             StartCall(c, r, b, [bytes |-> n, maxOutput |-> m])
  BY <1>1 DEF StartCall
<1>2. CASE LockRunRow(c) \/ RejectByRun(c) \/ LockWindowRow(c) \/ RejectByWorkspace(c)
  BY <1>2 DEF LockRunRow, RejectByRun, LockWindowRow, RejectByWorkspace
<1>3. CASE CommitReservation(c) \/ ResendRequest(c) \/ ProviderAnswers(c) \/ EndUnpriced(c)
  BY <1>3 DEF CommitReservation, ResendRequest, ProviderAnswers, EndUnpriced
<1>4. CASE RecordActual(c) \/ RecordingFails(c) \/ LockForRelease(c)
  BY <1>4 DEF RecordActual, RecordingFails, LockForRelease
<1>5. CASE CommitRelease(c) \/ Crash(c)
  BY <1>5 DEF CommitRelease, Crash
<1>6. QED
  BY <1>1, <1>2, <1>3, <1>4, <1>5 DEF CallNext

LEMMA OpenType ==
    ASSUME TypeOK, NEW c \in Calls, call[c] # Idle
    PROVE  /\ call[c] \in OpenCall
           /\ call[c].run \in Runs /\ call[c].budget \in RunBudgets
           /\ call[c].day \in Days
           /\ call[c].amount \in Nat /\ call[c].actual \in Nat
           /\ call[c].resent \in Nat /\ call[c].unseen \in Nat
           /\ call[c].request.bytes \in Nat /\ call[c].request.maxOutput \in Nat
           /\ call[c].holds \subseteq Rows
BY ProviderBudgetAssumption DEF TypeOK, OpenCall, Request

LEMMA CostsType ==
    ASSUME TypeOK, NEW c \in Calls, call[c] # Idle, NEW a \in PossibleCosts(c)
    PROVE  a \in Nat /\ a <= WorstCase(c)
<1>1. call[c].request.bytes \in Nat /\ call[c].request.maxOutput \in Nat /\ Overhead \in Nat
  BY OpenType, ProviderBudgetAssumption
<1>2. PICK i \in 0 .. call[c].request.bytes + Overhead, o \in 0 .. call[c].request.maxOutput :
        a = Cost(i, o)
  BY DEF PossibleCosts
<1>3. /\ i \in Nat /\ i <= call[c].request.bytes + Overhead
      /\ o \in Nat /\ o <= call[c].request.maxOutput
      /\ call[c].request.bytes + Overhead \in Nat
  BY <1>1, <1>2
<1>4. QED
  BY <1>1, <1>2, <1>3, CostGrows DEF WorstCase

\* A request that is sent again costs something; all that was decided for its
\* call stays.
LEMMA ResendEffect ==
    ASSUME TypeOK, NEW c \in Calls, ResendRequest(c)
    PROVE  /\ call[c] # Idle /\ call[c].pc = "calling"
           /\ call'[c] # Idle /\ call'[c] \in OpenCall
           /\ call' \in [Calls -> OpenCall \union {Idle}]
           /\ call'[c].pc = "calling" /\ call'[c].holds = call[c].holds
           /\ call'[c].run = call[c].run /\ call'[c].day = call[c].day
           /\ call'[c].budget = call[c].budget /\ call'[c].request = call[c].request
           /\ call'[c].amount = call[c].amount
           /\ call'[c].resent = call[c].resent + 1
           /\ \E a \in PossibleCosts(c) : call'[c].unseen = call[c].unseen + a
           /\ UNCHANGED <<ledger, today, paid, paidOn>>
<1>1. call[c] # Idle /\ call[c].pc = "calling" /\ call[c].resent < Resends
  BY DEF ResendRequest, Idle
<1>2. call[c] \in OpenCall /\ call \in [Calls -> OpenCall \union {Idle}] /\ Resends \in Nat
  BY <1>1, OpenType, ProviderBudgetAssumption DEF TypeOK
<1>3. PICK a \in PossibleCosts(c) :
         call' = [call EXCEPT ![c].resent = @ + 1, ![c].unseen = @ + a]
  BY DEF ResendRequest
<1>4. a \in Nat
  BY <1>1, CostsType
<1> DEFINE x == [call[c] EXCEPT !.resent = @ + 1, !.unseen = @ + a]
<1>5. call' = [call EXCEPT ![c] = x]
  BY <1>3
<1>6. /\ x \in OpenCall /\ x.pc = "calling" /\ x.holds = call[c].holds
      /\ x.run = call[c].run /\ x.day = call[c].day /\ x.budget = call[c].budget
      /\ x.request = call[c].request /\ x.amount = call[c].amount
      /\ x.resent = call[c].resent + 1 /\ x.unseen = call[c].unseen + a
  <2>1. call[c].resent + 1 \in 0 .. Resends
    BY <1>1, <1>2 DEF OpenCall
  <2>2. call[c].unseen + a \in Nat
    BY <1>2, <1>4 DEF OpenCall
  <2>3. QED
    BY <1>1, <1>2, <2>1, <2>2 DEF OpenCall
<1> HIDE DEF x
<1>7. call'[c] = x /\ call' \in [Calls -> OpenCall \union {Idle}]
  BY <1>2, <1>5, <1>6
<1>8. x # Idle
  BY <1>6 DEF Idle
<1>9. UNCHANGED <<ledger, today, paid, paidOn>>
  BY DEF ResendRequest
<1>10. QED
  BY <1>1, <1>6, <1>7, <1>8, <1>9

LEMMA CallType ==
    ASSUME TypeOK, NEW c \in Calls, CallNext(c)
    PROVE  TypeOK'
<1> USE DEF ledger
<1>0. WorkspaceCap \in Nat /\ RunBudgets \subseteq Nat
  BY ProviderBudgetAssumption
<1>1. ASSUME NEW r \in Runs, NEW b \in RunBudgets, NEW n \in InputBytes, NEW m \in OutputTokens,
             StartCall(c, r, b, [bytes |-> n, maxOutput |-> m])
      PROVE  TypeOK'
  <2> DEFINE q == [bytes |-> n, maxOutput |-> m]
  <2>1. q \in Request
    BY ProviderBudgetAssumption DEF Request
  <2>2. Clamped(q) \in Request /\ Reservation(q) \in Nat
    BY <2>1, ReservationCovers
  <2> DEFINE x == [pc |-> "reserve", run |-> r, budget |-> b, request |-> Clamped(q),
                   amount |-> Reservation(q), day |-> today, actual |-> 0, holds |-> {},
                   resent |-> 0, unseen |-> 0]
  <2>3. x \in OpenCall
    <3> HIDE DEF q
    <3> QED BY <2>2, ProviderBudgetAssumption DEF OpenCall, TypeOK
  <2>4. call' = [call EXCEPT ![c] = x]
    BY <1>1 DEF StartCall
  <2> HIDE DEF x
  <2>5. QED
    BY <1>1, <2>3, <2>4 DEF StartCall, TypeOK
<1>2. CASE LockRunRow(c)
  <2>1. call[c] \in OpenCall /\ RunRow(call[c].run) \in Rows
    BY <1>2, OpenType DEF LockRunRow, Idle, Rows, RunRow
  <2>2. call'[c] \in OpenCall
    BY <1>2, <2>1 DEF LockRunRow, OpenCall, TypeOK
  <2>3. QED
    BY <1>2, <2>2 DEF LockRunRow, TypeOK
<1>3. CASE RejectByRun(c) \/ RejectByWorkspace(c)
  <2>1. call[c] \in OpenCall
    BY <1>3, OpenType DEF RejectByRun, RejectByWorkspace, Idle
  <2>2. QED
    BY <1>3, <2>1 DEF RejectByRun, RejectByWorkspace, TypeOK, End, OpenCall
<1>4. CASE LockWindowRow(c)
  <2>1. call[c] \in OpenCall /\ WindowRow(call[c].day) \in Rows
    BY <1>4, OpenType DEF LockWindowRow, Idle, Rows, WindowRow
  <2>2. call'[c] \in OpenCall
    BY <1>4, <2>1 DEF LockWindowRow, OpenCall, TypeOK
  <2>3. QED
    BY <1>4, <2>2 DEF LockWindowRow, TypeOK
<1>5. CASE CommitReservation(c)
  <2>1. call[c] \in OpenCall
    BY <1>5, OpenType DEF CommitReservation, Idle
  <2>2. call'[c] \in OpenCall
    BY <1>5, <2>1 DEF CommitReservation, OpenCall, TypeOK
  <2>3. QED
    BY <1>5, <2>1, <2>2 DEF CommitReservation, TypeOK, OpenCall
<1>6. CASE ProviderAnswers(c) \/ EndUnpriced(c)
  <2>1. call[c] \in OpenCall /\ call[c] # Idle
    BY <1>6, OpenType DEF ProviderAnswers, EndUnpriced, Idle
  <2>2. PICK a \in PossibleCosts(c) :
           /\ Pay(c, a)
           /\ \/ call' = [call EXCEPT ![c].pc = "record", ![c].actual = a]
              \/ End(c)
    BY <1>6 DEF ProviderAnswers, EndUnpriced
  <2>3. a \in Nat
    BY <2>1, CostsType
  <2>4. paid' \in [Runs -> Nat] /\ paidOn' \in [Days -> Nat]
    BY <2>1, <2>2, <2>3 DEF Pay, TypeOK, OpenCall
  <2>5. call' \in [Calls -> OpenCall \union {Idle}]
    BY <2>1, <2>2, <2>3 DEF TypeOK, OpenCall, End
  <2>6. UNCHANGED <<ledger, today>>
    BY <1>6 DEF ProviderAnswers, EndUnpriced
  <2>7. QED
    BY <2>4, <2>5, <2>6 DEF TypeOK
<1>7. CASE RecordActual(c) \/ RecordingFails(c) \/ Crash(c)
  <2>1. call[c] \in OpenCall
    BY <1>7, OpenType DEF RecordActual, RecordingFails, Crash, Idle, ReleasePcs
  <2>2. call' \in [Calls -> OpenCall \union {Idle}]
    BY <1>7, <2>1 DEF RecordActual, RecordingFails, Crash, TypeOK, OpenCall, End, ReleasePcs
  <2>3. QED
    BY <1>7, <2>2 DEF RecordActual, RecordingFails, Crash, TypeOK
<1>8. CASE LockForRelease(c)
  <2>1. /\ call[c] \in OpenCall
        /\ ReleaseLocks(c)[1] \in Rows /\ ReleaseLocks(c)[2] \in Rows
    BY <1>8, OpenType DEF LockForRelease, Idle, ReleaseLocks, ReleaseDay, Rows, RunRow, WindowRow
  <2> DEFINE first == ReleaseLocks(c)[1]  second == ReleaseLocks(c)[2]
  <2>2. \/ call' = [call EXCEPT ![c].pc = "releaseSecond", ![c].holds = {first}]
        \/ call' = [call EXCEPT ![c].pc = "releaseCommit", ![c].holds = @ \union {second}]
    BY <1>8 DEF LockForRelease
  <2> HIDE DEF first, second
  <2>3. call'[c] \in OpenCall
    <3>1. first \in Rows /\ second \in Rows
      BY <2>1 DEF first, second
    <3>2. QED
      BY <2>1, <2>2, <3>1 DEF OpenCall, TypeOK, ReleasePcs
  <2>4. QED
    BY <1>8, <2>2, <2>3 DEF LockForRelease, TypeOK
<1>9. CASE CommitRelease(c)
  <2>1. call[c] \in OpenCall /\ call[c].run \in Runs /\ call[c].day \in Days
    BY <1>9, OpenType DEF CommitRelease, Idle
  <2>2. ToRelease(call[c].amount, call[c].actual) \in Nat
    BY <1>9, OpenType, ReleaseLeavesCost, SMTT(60) DEF CommitRelease, Idle
  <2>3. reserved' \in [Runs -> Nat] /\ window' \in [Days -> Nat]
    BY <1>9, <2>1, <2>2 DEF CommitRelease, TypeOK, ReleaseDay
  <2>4. QED
    BY <1>9, <2>3 DEF CommitRelease, TypeOK, End
<1>10. CASE ResendRequest(c)
  BY <1>10, ResendEffect DEF TypeOK
<1>11. QED
  BY <1>1, <1>2, <1>3, <1>4, <1>5, <1>6, <1>7, <1>8, <1>9, <1>10 DEF CallNext

LEMMA MidnightType ==
    ASSUME TypeOK, Midnight
    PROVE  TypeOK'
BY ProviderBudgetAssumption, SMTT(60) DEF TypeOK, Midnight, ledger, Days

-----------------------------------------------------------------------------
(* Row locks *)

\* What a step of a call does to its own locks: it gives them all up, or it
\* takes the next row in the order, which it has found free.
LocksStep(c) ==
    \/ call'[c] = Idle
    \/ /\ call'[c] # Idle
       /\ call'[c].holds = LocksAt(c)'
       /\ \/ call'[c].holds = {}
          \/ call[c] # Idle /\ call'[c].holds = call[c].holds
          \/ \E row : /\ Free(row)
                      /\ call'[c].holds =
                           (IF call[c] = Idle THEN {} ELSE call[c].holds) \union {row}

LEMMA CallLocks ==
    ASSUME TypeOK, LocksInOrder, NEW c \in Calls, CallNext(c)
    PROVE  LocksStep(c)
<1> USE DEF TypeOK, LocksStep, LocksAt, Idle
<1>1. ASSUME NEW r \in Runs, NEW b \in RunBudgets, NEW n \in InputBytes, NEW m \in OutputTokens,
             StartCall(c, r, b, [bytes |-> n, maxOutput |-> m])
      PROVE  LocksStep(c)
  BY <1>1 DEF StartCall
<1>2. CASE LockRunRow(c)
  <2>0. call[c].pc = "reserve" /\ call[c] # Idle
    BY <1>2 DEF LockRunRow
  <2>1. call[c] \in OpenCall /\ call[c].holds = {}
    BY <2>0, OpenType DEF LocksInOrder
  <2>2. /\ call'[c].pc = "reserveWindow"
        /\ call'[c].run = call[c].run
        /\ call'[c].holds = {RunRow(call[c].run)}
    BY <1>2, <2>1 DEF LockRunRow, OpenCall
  <2>3. QED
    BY <1>2, <2>1, <2>2 DEF LockRunRow
<1>3. CASE RejectByRun(c) \/ RejectByWorkspace(c) \/ EndUnpriced(c) \/ RecordingFails(c)
             \/ CommitRelease(c) \/ Crash(c)
  BY <1>3 DEF RejectByRun, RejectByWorkspace, EndUnpriced, RecordingFails, CommitRelease,
              Crash, End
<1>4. CASE LockWindowRow(c)
  <2>0. call[c].pc = "reserveWindow" /\ call[c] # Idle
    BY <1>4 DEF LockWindowRow
  <2>1. call[c] \in OpenCall /\ call[c].holds = {RunRow(call[c].run)}
    BY <2>0, OpenType DEF LocksInOrder
  <2>2. /\ call'[c].pc = "reserveCommit"
        /\ call'[c].run = call[c].run /\ call'[c].day = call[c].day
        /\ call'[c].holds = call[c].holds \union {WindowRow(call[c].day)}
    BY <1>4, <2>1 DEF LockWindowRow, OpenCall
  <2>3. QED
    BY <1>4, <2>1, <2>2 DEF LockWindowRow
<1>5. CASE CommitReservation(c)
  <2>1. call[c] \in OpenCall
    BY <1>5, OpenType DEF CommitReservation
  <2>2. call'[c].pc = "calling" /\ call'[c].holds = {}
    BY <1>5, <2>1 DEF CommitReservation, OpenCall
  <2>3. QED
    BY <2>2
<1>6. CASE ProviderAnswers(c) \/ RecordActual(c)
  <2>0. call[c].pc \in {"calling", "record"} /\ call[c] # Idle
    BY <1>6 DEF ProviderAnswers, RecordActual
  <2>1. call[c] \in OpenCall /\ call[c].holds = {}
    BY <2>0, OpenType DEF LocksInOrder
  <2>2. \/ call'[c] = Idle
        \/ call'[c].pc \in {"record", "release"} /\ call'[c].holds = {}
    BY <1>6, <2>1 DEF ProviderAnswers, RecordActual, OpenCall, End
  <2>3. QED
    BY <2>2
<1>7. CASE LockForRelease(c)
  <2>1. /\ call[c] \in OpenCall /\ call[c] # Idle
        /\ call[c].holds = LocksAt(c)
    <3>1. call[c] # Idle
      BY <1>7 DEF LockForRelease
    <3>2. QED
      BY <3>1, OpenType DEF LocksInOrder
  <2> DEFINE run == RunRow(call[c].run)  win == WindowRow(call[c].day)
  <2>2. CASE /\ call[c].pc = "release" /\ Free(run)
             /\ call' = [call EXCEPT ![c].pc = "releaseSecond", ![c].holds = {run}]
    <3>1. call'[c].pc = "releaseSecond" /\ call'[c].run = call[c].run /\ call'[c].holds = {run}
      BY <2>1, <2>2 DEF OpenCall
    <3>2. call[c].holds = {}
      BY <2>1, <2>2
    <3>3. QED
      BY <2>1, <2>2, <3>1, <3>2
  <2>3. CASE /\ call[c].pc = "releaseSecond" /\ Free(win)
             /\ call' = [call EXCEPT ![c].pc = "releaseCommit", ![c].holds = @ \union {win}]
    <3>1. /\ call'[c].pc = "releaseCommit"
          /\ call'[c].run = call[c].run /\ call'[c].day = call[c].day
          /\ call'[c].holds = call[c].holds \union {win}
      BY <2>1, <2>3 DEF OpenCall
    <3>2. call[c].holds = {run}
      BY <2>1, <2>3
    <3>3. QED
      BY <2>1, <2>3, <3>1, <3>2
  <2>4. QED
    BY <1>7, <2>2, <2>3 DEF LockForRelease, ReleaseLocks, ReleaseDay
<1>8. CASE ResendRequest(c)
  BY <1>8, ResendEffect DEF LocksInOrder
<1>9. QED
  BY <1>1, <1>2, <1>3, <1>4, <1>5, <1>6, <1>7, <1>8 DEF CallNext

\* At most one transaction has a row, and it took its rows in the one order.
LEMMA LocksKept ==
    ASSUME LocksInv, [Next]_vars
    PROVE  LocksInv'
<1>1. CASE UNCHANGED vars
  BY <1>1 DEF LocksInv, TypeOK, LocksInOrder, LocksExclude, LocksAt, vars, ledger
<1>2. CASE Midnight
  <2>1. call' = call
    BY <1>2 DEF Midnight
  <2>2. TypeOK'
    BY <1>2, MidnightType DEF LocksInv
  <2>3. QED
    BY <2>1, <2>2 DEF LocksInv, LocksInOrder, LocksExclude, LocksAt
<1>3. ASSUME NEW c \in Calls, CallNext(c)
      PROVE  LocksInv'
  <2>1. TypeOK /\ LocksInOrder /\ LocksExclude
    BY DEF LocksInv
  <2>2. TypeOK'
    BY <1>3, <2>1, CallType
  <2>3. LocksStep(c)
    BY <1>3, <2>1, CallLocks
  <2>4. \A e \in Calls \ {c} : call'[e] = call[e]
    BY <1>3, <2>1, OthersStay
  <2>5. LocksInOrder'
    <3> SUFFICES ASSUME NEW e \in Calls, call'[e] # Idle
                 PROVE  call'[e].holds = LocksAt(e)'
      BY DEF LocksInOrder, Idle
    <3>1. CASE e = c
      BY <2>3, <3>1 DEF LocksStep
    <3>2. CASE e # c
      BY <2>1, <2>4, <3>2 DEF LocksInOrder, LocksAt
    <3>3. QED
      BY <3>1, <3>2
  <2>6. ASSUME NEW e \in Calls \ {c}, call'[c] # Idle, call[e] # Idle
        PROVE  call'[c].holds \intersect call[e].holds = {}
    <3>1. call[c] # Idle => call[c].holds \intersect call[e].holds = {}
      BY <2>1, <2>6 DEF LocksExclude
    <3>2. \A row : Free(row) => row \notin call[e].holds
      BY <2>6 DEF Free
    <3>3. QED
      BY <2>3, <2>6, <3>1, <3>2 DEF LocksStep
  <2>7. LocksExclude'
    <3> SUFFICES ASSUME NEW d \in Calls, NEW e \in Calls, d # e,
                        call'[d] # Idle, call'[e] # Idle
                 PROVE  call'[d].holds \intersect call'[e].holds = {}
      BY DEF LocksExclude, Idle
    <3>1. CASE d = c
      BY <2>4, <2>6, <3>1
    <3>2. CASE e = c
      BY <2>4, <2>6, <3>2
    <3>3. CASE d # c /\ e # c
      BY <2>1, <2>4, <3>3 DEF LocksExclude
    <3>4. QED
      BY <3>1, <3>2, <3>3
  <2>8. QED
    BY <2>2, <2>5, <2>7 DEF LocksInv
<1>4. QED
  BY <1>1, <1>2, <1>3 DEF Next

LEMMA LocksHold == Spec => []LocksInv
<1>1. Init => LocksInv
  <2> SUFFICES ASSUME Init PROVE LocksInv
    OBVIOUS
  <2>1. \A c \in Calls : call[c] = Idle
    BY DEF Init
  <2>2. QED
    BY <2>1, InitType DEF LocksInv, LocksInOrder, LocksExclude
<1>2. QED
  BY <1>1, LocksKept, PTL DEF Spec

\* Every variable of the two ledgers and of every call has its type.
THEOREM TypeCorrect == Spec => []TypeOK
<1>1. LocksInv => TypeOK
  BY DEF LocksInv
<1>2. QED
  BY <1>1, LocksHold, PTL

\* "Lock order is always run row first, then workspace-window row": reserve and
\* release of any number of calls never wait for each other in a circle.
THEOREM NoCircularWaitHolds == Spec => []NoCircularWait
<1>1. LocksInv => NoCircularWait
  <2> SUFFICES ASSUME LocksInv, NEW c1 \in Calls, NEW c2 \in Calls,
                      call[c1] # Idle, call[c2] # Idle,
                      WaitsFor(c1) \intersect call[c2].holds # {},
                      WaitsFor(c2) \intersect call[c1].holds # {}
               PROVE  FALSE
    BY DEF NoCircularWait
  <2>1. call[c1].holds = LocksAt(c1) /\ call[c2].holds = LocksAt(c2)
    BY DEF LocksInv, LocksInOrder
  <2>2. \A r, d : RunRow(r) # WindowRow(d)
    BY DEF RunRow, WindowRow
  <2>3. QED
    BY <2>1, <2>2 DEF LocksAt, WaitsFor, ReleaseLocks, ReleaseDay
<1>2. QED
  BY <1>1, LocksHold, PTL

-----------------------------------------------------------------------------
(* The ledgers cover what is spent                                         *)

SharesTyped ==
    \A c \in Calls :
        /\ Open(c) \in Nat
        /\ \A r \in Runs : ShareOf(c, r) \in Nat
        /\ \A d \in Days : ShareOn(c, d) \in Nat

LEMMA ShareType == TypeOK => SharesTyped
<1> SUFFICES ASSUME TypeOK, NEW c \in Calls
             PROVE  /\ Open(c) \in Nat
                    /\ \A r \in Runs : ShareOf(c, r) \in Nat
                    /\ \A d \in Days : ShareOn(c, d) \in Nat
  BY DEF SharesTyped
<1>1. CASE call[c] = Idle
  <2>1. call[c].pc = "idle"
    BY <1>1 DEF Idle
  <2>2. QED
    BY <1>1, <2>1 DEF Open, ShareOf, ShareOn, ReleasePcs
<1>2. CASE call[c] # Idle
  <2>1. call[c].amount \in Nat /\ ToRelease(call[c].amount, call[c].actual) \in Nat
    BY <1>2, OpenType, ReleaseLeavesCost
  <2>2. Open(c) \in Nat
    BY <2>1 DEF Open
  <2>3. QED
    BY <2>2 DEF ShareOf, ShareOn
<1>3. QED
  BY <1>1, <1>2

\* An account of R, of which P is paid and the calls' shares are open, stays
\* covered by a step of one call that books at least what it adds to the two.
LEMMA AccountStaysCovered ==
    ASSUME NEW f \in [Calls -> Nat], NEW g \in [Calls -> Nat],
           NEW c \in Calls, \A e \in Calls \ {c} : g[e] = f[e],
           NEW R \in Nat, NEW P \in Nat, NEW S \in Nat, NEW Q \in Nat,
           R >= P + SumFunctionOnSet(f, Calls),
           S + P + f[c] >= R + Q + g[c]
    PROVE  S >= Q + SumFunctionOnSet(g, Calls)
<1>1. /\ SumFunctionOnSet(f, Calls) \in Nat
      /\ SumFunctionOnSet(g, Calls) \in Nat
      /\ SumFunctionOnSet(g, Calls) + f[c] = SumFunctionOnSet(f, Calls) + g[c]
  BY SumChange, ProviderBudgetAssumption
<1>2. f[c] \in Nat /\ g[c] \in Nat
  OBVIOUS
<1>3. QED
  BY <1>1, <1>2

\* One call's share is part of the sum.
LEMMA ShareIsCharged ==
    ASSUME TypeOK, LedgerCoversSpend, NEW c \in Calls
    PROVE  /\ \A r \in Runs : reserved[r] >= paid[r] + ShareOf(c, r)
           /\ \A d \in Days : window[d] >= paidOn[d] + ShareOn(c, d)
<1>1. ASSUME NEW f \in [Calls -> Nat]
      PROVE  /\ SumFunctionOnSet(f, Calls) \in Nat
             /\ SumFunctionOnSet(f, Calls) >= f[c]
  <2> DEFINE g == [f EXCEPT ![c] = 0]
  <2>1. g \in [Calls -> Nat] /\ g[c] = 0 /\ \A e \in Calls \ {c} : g[e] = f[e]
    OBVIOUS
  <2> HIDE DEF g
  <2>2. /\ SumFunctionOnSet(f, Calls) \in Nat
        /\ SumFunctionOnSet(g, Calls) \in Nat
        /\ SumFunctionOnSet(g, Calls) + f[c] = SumFunctionOnSet(f, Calls) + g[c]
    BY <2>1, SumChange, ProviderBudgetAssumption
  <2>3. f[c] \in Nat
    OBVIOUS
  <2>4. QED
    BY <2>1, <2>2, <2>3
<1>2. ASSUME NEW r \in Runs
      PROVE  reserved[r] >= paid[r] + ShareOf(c, r)
  <2> DEFINE f == [e \in Calls |-> ShareOf(e, r)]
  <2>1. f \in [Calls -> Nat] /\ f[c] = ShareOf(c, r)
    BY ShareType DEF SharesTyped
  <2>2. OpenOf(r) = SumFunctionOnSet(f, Calls)
    BY DEF OpenOf
  <2> HIDE DEF f
  <2>3. OpenOf(r) \in Nat /\ OpenOf(r) >= ShareOf(c, r)
    BY <1>1, <2>1, <2>2
  <2>4. reserved[r] \in Nat /\ paid[r] \in Nat /\ ShareOf(c, r) \in Nat
    BY ShareType DEF TypeOK, SharesTyped
  <2>5. QED
    BY <2>3, <2>4 DEF LedgerCoversSpend
<1>3. ASSUME NEW d \in Days
      PROVE  window[d] >= paidOn[d] + ShareOn(c, d)
  <2> DEFINE f == [e \in Calls |-> ShareOn(e, d)]
  <2>1. f \in [Calls -> Nat] /\ f[c] = ShareOn(c, d)
    BY ShareType DEF SharesTyped
  <2>2. OpenOn(d) = SumFunctionOnSet(f, Calls)
    BY DEF OpenOn
  <2> HIDE DEF f
  <2>3. OpenOn(d) \in Nat /\ OpenOn(d) >= ShareOn(c, d)
    BY <1>1, <2>1, <2>2
  <2>4. window[d] \in Nat /\ paidOn[d] \in Nat /\ ShareOn(c, d) \in Nat
    BY ShareType DEF TypeOK, SharesTyped
  <2>5. QED
    BY <2>3, <2>4 DEF LedgerCoversSpend
<1>4. QED
  BY <1>2, <1>3

\* A step of one call books at least what it pays and what it leaves open.
StepIsCovered(c) ==
    /\ \A r \in Runs : reserved'[r] + paid[r] + ShareOf(c, r) >= reserved[r] + paid'[r] + ShareOf(c, r)'
    /\ \A d \in Days : window'[d] + paidOn[d] + ShareOn(c, d) >= window[d] + paidOn'[d] + ShareOn(c, d)'

LEMMA CoverageKept ==
    ASSUME TypeOK, TypeOK', LedgerCoversSpend, NEW c \in Calls,
           \A e \in Calls \ {c} : call'[e] = call[e], StepIsCovered(c), ResendsBounded'
    PROVE  LedgerCoversSpend'
<1>1. \A e \in Calls : (\A r \in Runs : ShareOf(e, r)' \in Nat) /\ (\A d \in Days : ShareOn(e, d)' \in Nat)
  <2>1. (TypeOK => SharesTyped)'
    BY ShareType, PTL
  <2>2. QED
    BY <2>1 DEF SharesTyped
<1>2. ASSUME NEW r \in Runs
      PROVE  (reserved[r] >= paid[r] + OpenOf(r))'
  <2> DEFINE f == [e \in Calls |-> ShareOf(e, r)]  g == [e \in Calls |-> ShareOf(e, r)']
  <2>1. f \in [Calls -> Nat] /\ g \in [Calls -> Nat]
    BY <1>1, ShareType DEF SharesTyped
  <2>2. \A e \in Calls \ {c} : g[e] = f[e]
    BY DEF ShareOf, Open
  <2>3. f[c] = ShareOf(c, r) /\ g[c] = ShareOf(c, r)'
    OBVIOUS
  <2>4. OpenOf(r) = SumFunctionOnSet(f, Calls) /\ OpenOf(r)' = SumFunctionOnSet(g, Calls)
    BY DEF OpenOf
  <2> HIDE DEF f, g
  <2>5. reserved[r] \in Nat /\ paid[r] \in Nat /\ reserved'[r] \in Nat /\ paid'[r] \in Nat
    BY DEF TypeOK
  <2>6. reserved[r] >= paid[r] + SumFunctionOnSet(f, Calls)
    BY <2>4 DEF LedgerCoversSpend
  <2>7. reserved'[r] + paid[r] + f[c] >= reserved[r] + paid'[r] + g[c]
    BY <2>3 DEF StepIsCovered
  <2>8. reserved'[r] >= paid'[r] + SumFunctionOnSet(g, Calls)
    BY <2>1, <2>2, <2>5, <2>6, <2>7, AccountStaysCovered
  <2>9. QED
    BY <2>4, <2>8
<1>3. ASSUME NEW d \in Days
      PROVE  (window[d] >= paidOn[d] + OpenOn(d))'
  <2> DEFINE f == [e \in Calls |-> ShareOn(e, d)]  g == [e \in Calls |-> ShareOn(e, d)']
  <2>1. f \in [Calls -> Nat] /\ g \in [Calls -> Nat]
    BY <1>1, ShareType DEF SharesTyped
  <2>2. \A e \in Calls \ {c} : g[e] = f[e]
    BY DEF ShareOn, Open
  <2>3. f[c] = ShareOn(c, d) /\ g[c] = ShareOn(c, d)'
    OBVIOUS
  <2>4. OpenOn(d) = SumFunctionOnSet(f, Calls) /\ OpenOn(d)' = SumFunctionOnSet(g, Calls)
    BY DEF OpenOn
  <2> HIDE DEF f, g
  <2>5. window[d] \in Nat /\ paidOn[d] \in Nat /\ window'[d] \in Nat /\ paidOn'[d] \in Nat
    BY DEF TypeOK
  <2>6. window[d] >= paidOn[d] + SumFunctionOnSet(f, Calls)
    BY <2>4 DEF LedgerCoversSpend
  <2>7. window'[d] + paidOn[d] + f[c] >= window[d] + paidOn'[d] + g[c]
    BY <2>3 DEF StepIsCovered
  <2>8. window'[d] >= paidOn'[d] + SumFunctionOnSet(g, Calls)
    BY <2>1, <2>2, <2>5, <2>6, <2>7, AccountStaysCovered
  <2>9. QED
    BY <2>4, <2>8
<1>4. QED
  BY <1>2, <1>3 DEF LedgerCoversSpend

\* A step that moves no money and opens nothing new.
LEMMA QuietIsCovered ==
    ASSUME TypeOK, TypeOK', NEW c \in Calls,
           UNCHANGED <<reserved, window, paid, paidOn>>,
           \/ call'[c] = Idle
           \/ Open(c)' = 0
           \/ /\ call[c] # Idle /\ call'[c].run = call[c].run /\ call'[c].day = call[c].day
              /\ Open(c)' <= Open(c)
    PROVE  StepIsCovered(c)
<1>1. \A r \in Runs : reserved[r] \in Nat /\ paid[r] \in Nat
  BY DEF TypeOK
<1>2. \A d \in Days : window[d] \in Nat /\ paidOn[d] \in Nat
  BY DEF TypeOK
<1>3. \A r \in Runs : ShareOf(c, r) \in Nat
  BY ShareType DEF SharesTyped
<1>4. \A d \in Days : ShareOn(c, d) \in Nat
  BY ShareType DEF SharesTyped
<1>5. Open(c) \in Nat
  BY ShareType DEF SharesTyped
<1>6. Open(c)' \in Nat
  <2>1. (TypeOK => SharesTyped)'
    BY ShareType, PTL
  <2>2. QED
    BY <2>1 DEF SharesTyped
<1>7. \A r \in Runs : ShareOf(c, r)' <= ShareOf(c, r)
  BY <1>3, <1>5, <1>6 DEF ShareOf
<1>8. \A d \in Days : ShareOn(c, d)' <= ShareOn(c, d)
  BY <1>4, <1>5, <1>6 DEF ShareOn
<1>9. /\ \A r \in Runs : ShareOf(c, r)' \in Nat
      /\ \A d \in Days : ShareOn(c, d)' \in Nat
  BY <1>6 DEF ShareOf, ShareOn
<1>10. QED
  BY <1>1, <1>2, <1>3, <1>4, <1>7, <1>8, <1>9 DEF StepIsCovered

\* A step of a call that stays with its run and day, or ends, whose ledgers
\* change for that run and day only.
LEMMA MoneyIsCovered ==
    ASSUME TypeOK, NEW c \in Calls, call[c] # Idle,
           NEW o \in Nat, NEW m \in Nat, NEW p \in Nat, NEW r \in Runs, NEW d \in Days,
           r = call[c].run, d = call[c].day,
           \/ call'[c] = Idle /\ o = 0
           \/ call'[c] # Idle /\ call'[c].run = r /\ call'[c].day = d /\ o = Open(c)',
           \A x \in Runs : reserved'[x] = IF x = r THEN m ELSE reserved[x],
           \A y \in Days : window'[y] = IF y = d THEN p ELSE window[y],
           NEW k \in Nat,
           \A x \in Runs : paid'[x] = IF x = r THEN paid[x] + k ELSE paid[x],
           \A y \in Days : paidOn'[y] = IF y = d THEN paidOn[y] + k ELSE paidOn[y],
           m + Open(c) >= reserved[r] + k + o,
           p + Open(c) >= window[d] + k + o
    PROVE  StepIsCovered(c)
<1>1. \A x \in Runs : reserved[x] \in Nat /\ paid[x] \in Nat
  BY DEF TypeOK
<1>2. \A y \in Days : window[y] \in Nat /\ paidOn[y] \in Nat
  BY DEF TypeOK
<1>3. Open(c) \in Nat
  BY ShareType DEF SharesTyped
<1>4. /\ \A x \in Runs : ShareOf(c, x) = IF x = r THEN Open(c) ELSE 0
      /\ \A y \in Days : ShareOn(c, y) = IF y = d THEN Open(c) ELSE 0
  BY DEF ShareOf, ShareOn
<1>5. /\ \A x \in Runs : ShareOf(c, x)' = IF x = r THEN o ELSE 0
      /\ \A y \in Days : ShareOn(c, y)' = IF y = d THEN o ELSE 0
  BY DEF ShareOf, ShareOn
<1>6. ASSUME NEW x \in Runs
      PROVE  reserved'[x] + paid[x] + ShareOf(c, x) >= reserved[x] + paid'[x] + ShareOf(c, x)'
  <2>1. CASE x = r
    <3>1. reserved'[x] = m /\ paid'[x] = paid[x] + k /\ ShareOf(c, x) = Open(c) /\ ShareOf(c, x)' = o
      BY <1>4, <1>5, <2>1
    <3>2. reserved[x] \in Nat /\ paid[x] \in Nat /\ m + Open(c) >= reserved[x] + k + o
      BY <1>1, <2>1
    <3>3. QED
      BY <1>3, <3>1, <3>2
  <2>2. CASE x # r
    BY <1>1, <1>4, <1>5, <2>2
  <2>3. QED
    BY <2>1, <2>2
<1>7. ASSUME NEW y \in Days
      PROVE  window'[y] + paidOn[y] + ShareOn(c, y) >= window[y] + paidOn'[y] + ShareOn(c, y)'
  <2>1. CASE y = d
    <3>1. window'[y] = p /\ paidOn'[y] = paidOn[y] + k /\ ShareOn(c, y) = Open(c) /\ ShareOn(c, y)' = o
      BY <1>4, <1>5, <2>1
    <3>2. window[y] \in Nat /\ paidOn[y] \in Nat /\ p + Open(c) >= window[y] + k + o
      BY <1>2, <2>1
    <3>3. QED
      BY <1>3, <3>1, <3>2
  <2>2. CASE y # d
    BY <1>2, <1>4, <1>5, <2>2
  <2>3. QED
    BY <2>1, <2>2
<1>8. QED
  BY <1>6, <1>7 DEF StepIsCovered

LEMMA CallIsCovered ==
    ASSUME TypeOK, TypeOK', CallsPriced, LedgerCoversSpend, NEW c \in Calls, CallNext(c)
    PROVE  StepIsCovered(c)
<1> USE DEF ledger
<1>0. call \in [Calls -> OpenCall \union {Idle}]
  BY DEF TypeOK
<1>1. ASSUME NEW r \in Runs, NEW b \in RunBudgets, NEW n \in InputBytes, NEW m \in OutputTokens,
             StartCall(c, r, b, [bytes |-> n, maxOutput |-> m])
      PROVE  StepIsCovered(c)
  <2>1. call'[c].pc = "reserve"
    BY <1>0, <1>1 DEF StartCall
  <2>2. Open(c)' = 0
    BY <2>1 DEF Open, ReleasePcs
  <2>3. QED
    BY <1>1, <2>2, QuietIsCovered DEF StartCall
<1>2. CASE LockRunRow(c) \/ LockWindowRow(c)
  <2>1. call[c] \in OpenCall
    BY <1>2, OpenType DEF LockRunRow, LockWindowRow, Idle
  <2>2. call'[c].pc \in {"reserveWindow", "reserveCommit"}
    BY <1>0, <1>2, <2>1 DEF LockRunRow, LockWindowRow, OpenCall
  <2>3. Open(c)' = 0
    BY <2>2 DEF Open, ReleasePcs
  <2>4. QED
    BY <1>2, <2>3, QuietIsCovered DEF LockRunRow, LockWindowRow
<1>3. CASE RejectByRun(c) \/ RejectByWorkspace(c) \/ RecordingFails(c) \/ Crash(c)
  <2>1. call'[c] = Idle
    BY <1>0, <1>3 DEF RejectByRun, RejectByWorkspace, RecordingFails, Crash, End
  <2>2. UNCHANGED <<reserved, window, paid, paidOn>>
    BY <1>3 DEF RejectByRun, RejectByWorkspace, RecordingFails, Crash
  <2>3. QED
    BY <2>1, <2>2, QuietIsCovered
<1>4. CASE CommitReservation(c)
  <2>1. call[c].pc = "reserveCommit" /\ call[c] # Idle
    BY <1>4 DEF CommitReservation, Idle
  <2>2. /\ call[c] \in OpenCall /\ call[c].run \in Runs /\ call[c].day \in Days
        /\ call[c].amount \in Nat
    BY <2>1, OpenType
  <2> DEFINE r == call[c].run  d == call[c].day  n == call[c].amount
  <2>3. /\ call'[c].pc = "calling" /\ call'[c].run = r /\ call'[c].day = d
        /\ call'[c].amount = n
    BY <1>0, <1>4, <2>2 DEF CommitReservation, OpenCall
  <2>4. call'[c] # Idle /\ Open(c)' = n /\ Open(c) = 0
    BY <2>1, <2>3 DEF Open, Idle, ReleasePcs
  <2>5. /\ reserved' = [reserved EXCEPT ![r] = @ + n]
        /\ window' = [window EXCEPT ![d] = @ + n]
        /\ paid' = paid /\ paidOn' = paidOn
    BY <1>4 DEF CommitReservation
  <2>6. /\ reserved \in [Runs -> Nat] /\ paid \in [Runs -> Nat]
        /\ window \in [Days -> Nat] /\ paidOn \in [Days -> Nat]
    BY DEF TypeOK
  <2>7. /\ \A x \in Runs : reserved'[x] = IF x = r THEN reserved[r] + n ELSE reserved[x]
        /\ \A y \in Days : window'[y] = IF y = d THEN window[d] + n ELSE window[y]
        /\ \A x \in Runs : paid'[x] = IF x = r THEN paid[x] + 0 ELSE paid[x]
        /\ \A y \in Days : paidOn'[y] = IF y = d THEN paidOn[y] + 0 ELSE paidOn[y]
    BY <2>2, <2>5, <2>6
  <2>8. /\ reserved[r] + n \in Nat /\ window[d] + n \in Nat
        /\ (reserved[r] + n) + Open(c) >= reserved[r] + 0 + n
        /\ (window[d] + n) + Open(c) >= window[d] + 0 + n
    BY <2>2, <2>4, <2>6
  <2>9. QED
    BY <2>1, <2>2, <2>3, <2>4, <2>7, <2>8, MoneyIsCovered
<1>5. CASE ProviderAnswers(c) \/ EndUnpriced(c)
  <2>1. call[c].pc = "calling" /\ call[c] # Idle
    BY <1>5 DEF ProviderAnswers, EndUnpriced, Idle
  <2>2. /\ call[c] \in OpenCall /\ call[c].run \in Runs /\ call[c].day \in Days
        /\ call[c].amount \in Nat
    BY <2>1, OpenType
  <2> DEFINE r == call[c].run  d == call[c].day  n == call[c].amount
  <2>3. PICK a \in PossibleCosts(c) :
           /\ Pay(c, a)
           /\ \/ call' = [call EXCEPT ![c].pc = "record", ![c].actual = a]
              \/ call' = [call EXCEPT ![c] = Idle]
    BY <1>5 DEF ProviderAnswers, EndUnpriced, End
  <2>4. a \in Nat /\ a <= n
    <3>1. a \in Nat /\ a <= WorstCase(c) /\ WorstCase(c) <= n
      BY <2>1, CostsType DEF CallsPriced
    <3>2. WorstCase(c) \in Nat
      <4>1. /\ call[c].request.bytes + Overhead \in Nat
            /\ call[c].request.maxOutput \in Nat
        BY <2>1, OpenType, ProviderBudgetAssumption
      <4>2. QED
        BY <4>1, CostGrows, SMTT(60) DEF WorstCase
    <3>3. QED
      BY <2>2, <3>1, <3>2
  <2>5. Open(c) = n
    BY <2>1 DEF Open, ReleasePcs
  <2> DEFINE o == IF call'[c] = Idle THEN 0 ELSE ToRelease(n, a)
  <2>6. o \in Nat /\ o + a <= n
    <3>1. ToRelease(n, a) \in Nat /\ ToRelease(n, a) + a <= n
      BY <2>2, <2>4, ReleaseLeavesCost
    <3>2. QED
      BY <2>2, <2>4, <3>1
  <2>7. \/ call'[c] = Idle /\ o = 0
        \/ call'[c] # Idle /\ call'[c].run = r /\ call'[c].day = d /\ o = Open(c)'
    <3>1. CASE call' = [call EXCEPT ![c] = Idle]
      BY <1>0, <3>1
    <3>2. CASE call' = [call EXCEPT ![c].pc = "record", ![c].actual = a]
      <4>1. /\ call'[c].pc = "record" /\ call'[c].run = r /\ call'[c].day = d
            /\ call'[c].amount = n /\ call'[c].actual = a
        BY <1>0, <2>2, <3>2 DEF OpenCall
      <4>2. call'[c] # Idle
        BY <4>1 DEF Idle
      <4>3. Open(c)' = ToRelease(n, a)
        BY <4>1 DEF Open
      <4>4. QED
        BY <4>1, <4>2, <4>3
    <3>3. QED
      BY <2>3, <3>1, <3>2
  <2>8. reserved' = reserved /\ window' = window
    BY <1>5 DEF ProviderAnswers, EndUnpriced
  <2>9. /\ reserved \in [Runs -> Nat] /\ paid \in [Runs -> Nat]
        /\ window \in [Days -> Nat] /\ paidOn \in [Days -> Nat]
    BY DEF TypeOK
  <2>10. /\ \A x \in Runs : reserved'[x] = IF x = r THEN reserved[r] ELSE reserved[x]
         /\ \A y \in Days : window'[y] = IF y = d THEN window[d] ELSE window[y]
         /\ \A x \in Runs : paid'[x] = IF x = r THEN paid[x] + a ELSE paid[x]
         /\ \A y \in Days : paidOn'[y] = IF y = d THEN paidOn[y] + a ELSE paidOn[y]
    BY <2>2, <2>3, <2>8, <2>9 DEF Pay
  <2> HIDE DEF o
  <2>11. /\ reserved[r] \in Nat /\ window[d] \in Nat
         /\ reserved[r] + Open(c) >= reserved[r] + a + o
         /\ window[d] + Open(c) >= window[d] + a + o
    BY <2>2, <2>4, <2>5, <2>6, <2>9
  <2>12. QED
    BY <2>1, <2>2, <2>4, <2>6, <2>7, <2>10, <2>11, MoneyIsCovered, SMTT(60)
<1>6. CASE RecordActual(c) \/ LockForRelease(c)
  <2>0. call[c].pc \in {"record", "release", "releaseSecond"} /\ call[c] # Idle
    BY <1>6 DEF RecordActual, LockForRelease, Idle
  <2>1. call[c] \in OpenCall
    BY <2>0, OpenType
  <2>2. \/ call'[c] = Idle
        \/ /\ call'[c].pc \in {"release", "releaseSecond", "releaseCommit"}
           /\ call'[c].run = call[c].run /\ call'[c].day = call[c].day
           /\ call'[c].amount = call[c].amount /\ call'[c].actual = call[c].actual
    BY <1>0, <1>6, <2>1 DEF RecordActual, LockForRelease, End, OpenCall
  <2>3. \/ call'[c] = Idle
        \/ /\ call'[c].run = call[c].run /\ call'[c].day = call[c].day
           /\ Open(c)' = Open(c)
    BY <2>0, <2>2 DEF Open, ReleasePcs
  <2>4. Open(c) \in Nat
    BY ShareType DEF SharesTyped
  <2>5. UNCHANGED <<reserved, window, paid, paidOn>>
    BY <1>6 DEF RecordActual, LockForRelease
  <2>6. QED
    BY <2>0, <2>3, <2>4, <2>5, QuietIsCovered
<1>7. CASE CommitRelease(c)
  <2>1. call[c].pc = "releaseCommit" /\ call[c] # Idle
    BY <1>7 DEF CommitRelease, Idle
  <2>2. /\ call[c] \in OpenCall /\ call[c].run \in Runs /\ call[c].day \in Days
        /\ call[c].amount \in Nat /\ call[c].actual \in Nat
    BY <2>1, OpenType
  <2> DEFINE r == call[c].run  d == call[c].day
             n == ToRelease(call[c].amount, call[c].actual)
             Less(m) == IF m > n THEN m - n ELSE 0
  <2>3. n \in Nat
    BY <2>2, ReleaseLeavesCost
  <2>4. Open(c) = n
    BY <2>1 DEF Open, ReleasePcs
  <2>5. /\ reserved' = [reserved EXCEPT ![r] = Less(@)]
        /\ window' = [window EXCEPT ![d] = Less(@)]
        /\ paid' = paid /\ paidOn' = paidOn
        /\ call' = [call EXCEPT ![c] = Idle]
    BY <1>7 DEF CommitRelease, ReleaseDay, End
  <2>6. /\ reserved \in [Runs -> Nat] /\ paid \in [Runs -> Nat]
        /\ window \in [Days -> Nat] /\ paidOn \in [Days -> Nat]
    BY DEF TypeOK
  <2> HIDE DEF n
  <2>7. /\ \A x \in Runs : reserved'[x] = IF x = r THEN Less(reserved[r]) ELSE reserved[x]
        /\ \A y \in Days : window'[y] = IF y = d THEN Less(window[d]) ELSE window[y]
        /\ \A x \in Runs : paid'[x] = IF x = r THEN paid[x] + 0 ELSE paid[x]
        /\ \A y \in Days : paidOn'[y] = IF y = d THEN paidOn[y] + 0 ELSE paidOn[y]
    BY <2>2, <2>5, <2>6
  <2>8. call'[c] = Idle
    BY <1>0, <2>5
  <2>9. reserved[r] \in Nat /\ window[d] \in Nat
    BY <2>2, <2>6
  <2>10. /\ Less(reserved[r]) \in Nat /\ Less(window[d]) \in Nat
         /\ Less(reserved[r]) + Open(c) >= reserved[r] + 0 + 0
         /\ Less(window[d]) + Open(c) >= window[d] + 0 + 0
    BY <2>3, <2>4, <2>9
  <2>11. QED
    BY <2>1, <2>2, <2>7, <2>8, <2>10, MoneyIsCovered
<1>8. CASE ResendRequest(c)
  <2>1. Open(c)' = Open(c)
    BY <1>8, ResendEffect DEF Open, ReleasePcs
  <2>2. Open(c) \in Nat
    BY ShareType DEF SharesTyped
  <2>3. QED
    BY <1>8, <2>1, <2>2, ResendEffect, QuietIsCovered
<1>9. QED
  BY <1>1, <1>2, <1>3, <1>4, <1>5, <1>6, <1>7, <1>8 DEF CallNext

\* What a step of a call does to what was decided for it: the call ends, is
\* opened for the price of its request, or goes on under the same price.
LEMMA CallGoesOn ==
    ASSUME TypeOK, NEW c \in Calls, CallNext(c)
    PROVE  \/ call'[c] = Idle
           \/ /\ call'[c].pc = "reserve" /\ WorstCase(c)' <= call'[c].amount
           \/ /\ call[c] # Idle
              /\ call'[c].run = call[c].run /\ call'[c].budget = call[c].budget
              /\ call'[c].request = call[c].request /\ call'[c].amount = call[c].amount
<1> DEFINE Goal == \/ call'[c] = Idle
                   \/ /\ call'[c].pc = "reserve" /\ WorstCase(c)' <= call'[c].amount
                   \/ /\ call[c] # Idle
                      /\ call'[c].run = call[c].run /\ call'[c].budget = call[c].budget
                      /\ call'[c].request = call[c].request /\ call'[c].amount = call[c].amount
<1>0. call \in [Calls -> OpenCall \union {Idle}]
  BY DEF TypeOK
<1>1. ASSUME NEW r \in Runs, NEW b \in RunBudgets, NEW n \in InputBytes, NEW m \in OutputTokens,
             StartCall(c, r, b, [bytes |-> n, maxOutput |-> m])
      PROVE  Goal
  <2> DEFINE q == [bytes |-> n, maxOutput |-> m]
  <2>1. q \in Request
    BY ProviderBudgetAssumption DEF Request
  <2>2. Cost(Clamped(q).bytes + Overhead, Clamped(q).maxOutput) <= Reservation(q)
    BY <2>1, ReservationCovers
  <2> HIDE DEF q
  <2>3. /\ call'[c].pc = "reserve" /\ call'[c].request = Clamped(q)
        /\ call'[c].amount = Reservation(q)
    BY <1>0, <1>1 DEF StartCall, q
  <2>4. WorstCase(c)' = Cost(Clamped(q).bytes + Overhead, Clamped(q).maxOutput)
    BY <2>3 DEF WorstCase, Cost
  <2>5. QED
    BY <2>2, <2>3, <2>4
<1>2. CASE LockRunRow(c) \/ LockWindowRow(c) \/ CommitReservation(c) \/ LockForRelease(c)
  <2>1. call[c] # Idle /\ call[c] \in OpenCall
    BY <1>2, OpenType DEF LockRunRow, LockWindowRow, CommitReservation, LockForRelease, Idle
  <2>2. QED
    BY <1>0, <1>2, <2>1 DEF LockRunRow, LockWindowRow, CommitReservation, LockForRelease, OpenCall
<1>3. CASE ProviderAnswers(c) \/ RecordActual(c)
  <2>1. call[c] # Idle /\ call[c] \in OpenCall
    BY <1>3, OpenType DEF ProviderAnswers, RecordActual, Idle
  <2>2. QED
    BY <1>0, <1>3, <2>1 DEF ProviderAnswers, RecordActual, OpenCall, End
<1>4. CASE RejectByRun(c) \/ RejectByWorkspace(c) \/ EndUnpriced(c) \/ RecordingFails(c)
             \/ CommitRelease(c) \/ Crash(c)
  BY <1>0, <1>4 DEF RejectByRun, RejectByWorkspace, EndUnpriced, RecordingFails, CommitRelease,
                    Crash, End
<1>5. CASE ResendRequest(c)
  BY <1>5, ResendEffect
<1>6. QED
  BY <1>1, <1>2, <1>3, <1>4, <1>5 DEF CallNext

LEMMA PricedKept ==
    ASSUME TypeOK, CallsPriced, NEW c \in Calls, CallNext(c)
    PROVE  CallsPriced'
<1> SUFFICES ASSUME NEW e \in Calls, call'[e] # Idle
             PROVE  WorstCase(e)' <= call'[e].amount
  BY DEF CallsPriced, Idle
<1>1. CASE e # c
  <2>1. call'[e] = call[e]
    BY <1>1, OthersStay
  <2>2. QED
    BY <2>1 DEF CallsPriced, WorstCase, Cost
<1>2. CASE e = c
  <2>1. CASE call'[c].pc = "reserve" /\ WorstCase(c)' <= call'[c].amount
    BY <1>2, <2>1
  <2>2. CASE /\ call[c] # Idle
             /\ call'[c].request = call[c].request /\ call'[c].amount = call[c].amount
    BY <1>2, <2>2 DEF CallsPriced, WorstCase, Cost
  <2>3. QED
    BY <1>2, <2>1, <2>2, CallGoesOn
<1>3. QED
  BY <1>1, <1>2

\* Each request that was sent again cost at most what was reserved for one.
LEMMA ResendsKept ==
    ASSUME TypeOK, CallsPriced, ResendsBounded, NEW c \in Calls, CallNext(c)
    PROVE  ResendsBounded'
<1> DEFINE Same == /\ call[c] # Idle
                   /\ call'[c].amount = call[c].amount
                   /\ call'[c].resent = call[c].resent /\ call'[c].unseen = call[c].unseen
           Goal == call'[c] # Idle => call'[c].unseen <= call'[c].resent * call'[c].amount
<1>0. call \in [Calls -> OpenCall \union {Idle}]
  BY DEF TypeOK
<1>1. ASSUME NEW r \in Runs, NEW b \in RunBudgets, NEW n \in InputBytes, NEW m \in OutputTokens,
             StartCall(c, r, b, [bytes |-> n, maxOutput |-> m])
      PROVE  Goal
  <2> DEFINE q == [bytes |-> n, maxOutput |-> m]
  <2>1. q \in Request
    BY ProviderBudgetAssumption DEF Request
  <2>2. Reservation(q) \in Nat
    BY <2>1, ReservationCovers
  <2> HIDE DEF q
  <2>3. call'[c].unseen = 0 /\ call'[c].resent = 0 /\ call'[c].amount = Reservation(q)
    BY <1>0, <1>1 DEF StartCall, q
  <2>4. QED
    BY <2>2, <2>3
<1>2. ASSUME LockRunRow(c) \/ LockWindowRow(c) \/ CommitReservation(c) \/ LockForRelease(c)
               \/ ProviderAnswers(c) \/ RecordActual(c)
      PROVE  Goal
  <2>1. call[c].pc \in {"reserve", "reserveWindow", "reserveCommit", "release", "releaseSecond",
                        "calling", "record"}
    BY <1>2 DEF LockRunRow, LockWindowRow, CommitReservation, LockForRelease, ProviderAnswers,
                RecordActual
  <2>2. call[c] # Idle /\ call[c] \in OpenCall
    BY <2>1, OpenType DEF Idle
  <2>3. Same \/ call'[c] = Idle
    BY <1>0, <1>2, <2>2 DEF LockRunRow, LockWindowRow, CommitReservation, LockForRelease,
                            ProviderAnswers, RecordActual, OpenCall, End
  <2>4. QED
    BY <2>3 DEF ResendsBounded
<1>3. ASSUME ResendRequest(c)
      PROVE  Goal
  <2>1. PICK a \in PossibleCosts(c) : call'[c].unseen = call[c].unseen + a
    BY <1>3, ResendEffect
  <2>2. /\ call[c] # Idle /\ call'[c].amount = call[c].amount
        /\ call'[c].resent = call[c].resent + 1
    BY <1>3, ResendEffect
  <2>3. call[c].amount \in Nat /\ call[c].resent \in Nat /\ call[c].unseen \in Nat
    BY <2>2, OpenType
  <2>4. a \in Nat /\ a <= call[c].amount
    <3>1. /\ call[c].request.bytes + Overhead \in Nat /\ call[c].request.maxOutput \in Nat
      BY <2>2, OpenType, ProviderBudgetAssumption
    <3>2. WorstCase(c) \in Nat
      BY <3>1, CostGrows, SMTT(60) DEF WorstCase
    <3>3. a \in Nat /\ a <= WorstCase(c) /\ WorstCase(c) <= call[c].amount
      BY <2>1, <2>2, CostsType DEF CallsPriced
    <3>4. QED
      BY <2>3, <3>2, <3>3
  <2>5. call[c].unseen <= call[c].resent * call[c].amount
    BY <2>2 DEF ResendsBounded
  <2>6. QED
    <3> DEFINE k == call[c].resent  n == call[c].amount  u == call[c].unseen
    <3>1. k \in Nat /\ n \in Nat /\ u \in Nat /\ u <= k * n /\ a \in Nat /\ a <= n
      BY <2>3, <2>4, <2>5
    <3> HIDE DEF k, n, u
    <3>2. (k + 1) * n = k * n + n /\ k * n \in Nat
      BY <3>1
    <3>3. u + a <= (k + 1) * n
      BY <3>1, <3>2
    <3>4. QED
      BY <2>1, <2>2, <3>3 DEF k, n, u
<1>4. ASSUME RejectByRun(c) \/ RejectByWorkspace(c) \/ EndUnpriced(c) \/ RecordingFails(c)
               \/ CommitRelease(c) \/ Crash(c)
      PROVE  Goal
  BY <1>0, <1>4 DEF RejectByRun, RejectByWorkspace, EndUnpriced, RecordingFails, CommitRelease,
                    Crash, End
<1>5. Goal
  BY <1>1, <1>2, <1>3, <1>4 DEF CallNext
<1>6. \A e \in Calls \ {c} : call'[e] = call[e]
  BY OthersStay
<1>7. QED
  BY <1>5, <1>6 DEF ResendsBounded, Idle

\* A row of a ledger changes only under its lock, or while nobody has it.
LEMMA RowsChangeUnderLock ==
    ASSUME TypeOK, LocksInOrder, NEW c \in Calls, CallNext(c)
    PROVE  /\ \A r \in Runs :
                \/ total'[r] = total[r] /\ reserved'[r] = reserved[r]
                \/ Free(RunRow(r))
                \/ call[c] # Idle /\ RunRow(r) \in call[c].holds
           /\ \A d \in Days :
                \/ window'[d] = window[d]
                \/ call[c] # Idle /\ WindowRow(d) \in call[c].holds
<1> USE DEF ledger
<1>0. /\ total \in [Runs -> RunBudgets \union {0}] /\ reserved \in [Runs -> Nat]
      /\ window \in [Days -> Nat]
  BY DEF TypeOK
<1>1. CASE UNCHANGED ledger
  BY <1>1
<1>2. CASE RejectByRun(c)
  <2>1. /\ Free(RunRow(call[c].run))
        /\ total' = [total EXCEPT ![call[c].run] = IF @ = 0 THEN call[c].budget ELSE @]
        /\ reserved' = reserved /\ window' = window
    BY <1>2 DEF RejectByRun
  <2>2. QED
    BY <1>0, <2>1
<1>3. CASE RejectByWorkspace(c) \/ CommitReservation(c) \/ CommitRelease(c)
  <2>1. call[c].pc \in {"reserveWindow", "reserveCommit", "releaseCommit"} /\ call[c] # Idle
    BY <1>3 DEF RejectByWorkspace, CommitReservation, CommitRelease, Idle
  <2>2. /\ RunRow(call[c].run) \in call[c].holds
        /\ call[c].pc \in {"reserveCommit", "releaseCommit"} => WindowRow(call[c].day) \in call[c].holds
    BY <2>1 DEF LocksInOrder, LocksAt
  <2>3. \A r \in Runs : r # call[c].run => total'[r] = total[r] /\ reserved'[r] = reserved[r]
    BY <1>0, <1>3 DEF RejectByWorkspace, CommitReservation, CommitRelease
  <2>4. \A d \in Days :
          \/ window'[d] = window[d]
          \/ d = call[c].day /\ call[c].pc \in {"reserveCommit", "releaseCommit"}
    <3>1. CASE RejectByWorkspace(c)
      BY <3>1 DEF RejectByWorkspace
    <3>2. CASE CommitReservation(c)
      BY <1>0, <3>2 DEF CommitReservation
    <3>3. CASE CommitRelease(c)
      BY <1>0, <3>3 DEF CommitRelease, ReleaseDay
    <3>4. QED
      BY <1>3, <3>1, <3>2, <3>3
  <2>5. QED
    BY <2>1, <2>2, <2>3, <2>4
<1>4. CASE \E r \in Runs, b \in RunBudgets, n \in InputBytes, m \in OutputTokens :
             StartCall(c, r, b, [bytes |-> n, maxOutput |-> m])
  BY <1>1, <1>4 DEF StartCall
<1>5. CASE LockRunRow(c) \/ LockWindowRow(c) \/ ProviderAnswers(c) \/ EndUnpriced(c)
             \/ RecordActual(c) \/ RecordingFails(c) \/ LockForRelease(c) \/ Crash(c)
  BY <1>1, <1>5 DEF LockRunRow, LockWindowRow, ProviderAnswers, EndUnpriced, RecordActual,
                    RecordingFails, LockForRelease, Crash
<1>6. CASE ResendRequest(c)
  BY <1>1, <1>6, ResendEffect
<1>7. QED
  BY <1>2, <1>3, <1>4, <1>5, <1>6 DEF CallNext

LEMMA FitKept ==
    ASSUME TypeOK, LocksInOrder, LocksExclude, ReservationsFit, NEW c \in Calls, CallNext(c)
    PROVE  ReservationsFit'
<1> DEFINE Decided(e) == call[e].pc \in {"reserveWindow", "reserveCommit"}
<1> SUFFICES ASSUME NEW e \in Calls, Decided(e)'
             PROVE  /\ call'[e].amount <= RunRemaining(e)'
                    /\ call'[e].pc = "reserveCommit" => call'[e].amount <= WindowRemaining(call[e].day)'
  BY DEF ReservationsFit
<1> USE DEF ledger
<1>1. CASE e # c
  <2>1. call'[e] = call[e]
    BY <1>1, OthersStay
  <2>2. call[e] # Idle /\ Decided(e)
    BY <2>1 DEF Idle
  <2>3. /\ RunRow(call[e].run) \in call[e].holds
        /\ call[e].pc = "reserveCommit" => WindowRow(call[e].day) \in call[e].holds
    BY <2>2 DEF LocksInOrder, LocksAt
  <2>4. call[e].run \in Runs /\ call[e].day \in Days
    BY <2>2, OpenType
  <2>5. call[c] # Idle => call[c].holds \intersect call[e].holds = {}
    BY <1>1, <2>2 DEF LocksExclude
  <2>6. total'[call[e].run] = total[call[e].run] /\ reserved'[call[e].run] = reserved[call[e].run]
    BY <2>2, <2>3, <2>4, <2>5, RowsChangeUnderLock DEF Free
  <2>7. call[e].pc = "reserveCommit" => window'[call[e].day] = window[call[e].day]
    BY <2>2, <2>3, <2>4, <2>5, RowsChangeUnderLock
  <2>8. call[e].amount <= RunRemaining(e)'
    BY <2>1, <2>2, <2>6 DEF ReservationsFit, RunRemaining
  <2>9. call[e].pc = "reserveCommit" => call[e].amount <= WindowRemaining(call[e].day)'
    BY <2>1, <2>2, <2>7 DEF ReservationsFit, WindowRemaining
  <2>10. QED
    BY <2>1, <2>8, <2>9
<1>2. CASE e = c
  <2>0. call \in [Calls -> OpenCall \union {Idle}]
    BY DEF TypeOK
  <2>1. CASE LockRunRow(c)
    <3>1. call[c] \in OpenCall
      BY <2>1, OpenType DEF LockRunRow, Idle
    <3>2. /\ call'[c].pc = "reserveWindow" /\ call'[c].amount = call[c].amount
          /\ call'[c].run = call[c].run /\ call'[c].budget = call[c].budget
      BY <2>0, <2>1, <3>1 DEF LockRunRow, OpenCall
    <3>3. call[c].amount <= RunRemaining(c) /\ total' = total /\ reserved' = reserved
      BY <2>1 DEF LockRunRow
    <3>4. QED
      BY <1>2, <3>2, <3>3 DEF RunRemaining
  <2>2. CASE LockWindowRow(c)
    <3>0. call[c].pc = "reserveWindow" /\ call[c] # Idle
      BY <2>2 DEF LockWindowRow, Idle
    <3>1. call[c] \in OpenCall
      BY <3>0, OpenType
    <3>2. /\ call'[c].pc = "reserveCommit" /\ call'[c].amount = call[c].amount
          /\ call'[c].run = call[c].run /\ call'[c].budget = call[c].budget
          /\ call'[c].day = call[c].day
      BY <2>0, <2>2, <3>1 DEF LockWindowRow, OpenCall
    <3>3. /\ call[c].amount <= WindowRemaining(call[c].day)
          /\ total' = total /\ reserved' = reserved /\ window' = window
      BY <2>2 DEF LockWindowRow
    <3>4. call[c].amount <= RunRemaining(c)
      BY <3>0 DEF ReservationsFit
    <3>5. call'[c].amount <= RunRemaining(c)'
      BY <3>2, <3>3, <3>4 DEF RunRemaining
    <3>6. call'[c].amount <= WindowRemaining(call[c].day)'
      BY <3>2, <3>3 DEF WindowRemaining
    <3>7. QED
      BY <1>2, <3>5, <3>6
  <2>3. CASE \E r \in Runs, b \in RunBudgets, n \in InputBytes, m \in OutputTokens :
               StartCall(c, r, b, [bytes |-> n, maxOutput |-> m])
    BY <1>2, <2>0, <2>3 DEF StartCall
  <2>4. CASE CommitReservation(c) \/ ProviderAnswers(c) \/ RecordActual(c) \/ LockForRelease(c)
    <3>1. call[c] \in OpenCall
      BY <2>4, OpenType DEF CommitReservation, ProviderAnswers, RecordActual, LockForRelease, Idle
    <3>2. call'[c] = Idle \/ call'[c].pc \in {"calling", "record"} \union ReleasePcs
      BY <2>0, <2>4, <3>1 DEF CommitReservation, ProviderAnswers, RecordActual, LockForRelease,
                              OpenCall, End, ReleasePcs
    <3>3. QED
      BY <1>2, <3>2 DEF Idle, ReleasePcs
  <2>5. CASE RejectByRun(c) \/ RejectByWorkspace(c) \/ EndUnpriced(c) \/ RecordingFails(c)
               \/ CommitRelease(c) \/ Crash(c)
    BY <1>2, <2>0, <2>5 DEF RejectByRun, RejectByWorkspace, EndUnpriced, RecordingFails,
                            CommitRelease, Crash, End, Idle
  <2>6. CASE ResendRequest(c)
    BY <1>2, <2>6, ResendEffect
  <2>7. QED
    BY <2>1, <2>2, <2>3, <2>4, <2>5, <2>6 DEF CallNext
<1>3. QED
  BY <1>1, <1>2

-----------------------------------------------------------------------------
(* The two ledgers are capped accounts                                     *)

\* What was paid is booked.
Booked ==
    /\ \A r \in Runs : paid[r] <= reserved[r]
    /\ \A d \in Days : paidOn[d] <= window[d]

LEMMA CoveredIsBooked == TypeOK /\ LedgerCoversSpend => Booked
<1> SUFFICES ASSUME TypeOK, LedgerCoversSpend
             PROVE  Booked
  OBVIOUS
<1>1. ASSUME NEW f \in [Calls -> Nat]
      PROVE  SumFunctionOnSet(f, Calls) \in Nat
  <2>1. PICK sum : IsSum(sum, f, Calls) /\ SumFunctionOnSet(f, Calls) = sum[Calls]
    BY SumFunctionIs, ProviderBudgetAssumption
  <2>2. QED
    BY <2>1, SumType, ProviderBudgetAssumption
<1>2. ASSUME NEW r \in Runs
      PROVE  paid[r] <= reserved[r]
  <2>1. OpenOf(r) \in Nat
    BY <1>1, ShareType DEF OpenOf, SharesTyped
  <2>2. paid[r] \in Nat /\ reserved[r] \in Nat
    BY DEF TypeOK
  <2>3. QED
    BY <2>1, <2>2 DEF LedgerCoversSpend
<1>3. ASSUME NEW d \in Days
      PROVE  paidOn[d] <= window[d]
  <2>1. OpenOn(d) \in Nat
    BY <1>1, ShareType DEF OpenOn, SharesTyped
  <2>2. paidOn[d] \in Nat /\ window[d] \in Nat
    BY DEF TypeOK
  <2>3. QED
    BY <2>1, <2>2 DEF LedgerCoversSpend
<1>4. QED
  BY <1>2, <1>3 DEF Booked

\* What was decided under the locks fits both limits when it is booked.
LEMMA BookingFits ==
    ASSUME TypeOK, ReservationsFit, WithinCaps, NEW c \in Calls, CommitReservation(c)
    PROVE  /\ reserved'[call[c].run] <= total'[call[c].run]
           /\ window'[call[c].day] <= WorkspaceCap
<1> DEFINE r == call[c].run  d == call[c].day  n == call[c].amount  b == call[c].budget
           t == IF total[r] = 0 THEN b ELSE total[r]
           m == Min({t, b})
<1>1. call[c].pc = "reserveCommit" /\ call[c] # Idle
  BY DEF CommitReservation, Idle
<1>2. r \in Runs /\ d \in Days /\ n \in Nat /\ b \in RunBudgets
  BY <1>1, OpenType
<1>3. b \in Nat /\ total[r] \in Nat /\ reserved[r] \in Nat /\ window[d] \in Nat /\ WorkspaceCap \in Nat
  <2>1. WorkspaceCap \in Nat /\ RunBudgets \subseteq Nat
    BY ProviderBudgetAssumption
  <2>2. total[r] \in RunBudgets \union {0} /\ reserved[r] \in Nat /\ window[d] \in Nat
    BY <1>2 DEF TypeOK
  <2>3. b \in Nat
    BY <1>2, <2>1
  <2>4. total[r] \in Nat
    <3>1. \A x \in RunBudgets \union {0} : x \in Nat
      BY <2>1
    <3>2. QED
      BY <2>2, <3>1
  <2>5. QED
    BY <2>1, <2>2, <2>3, <2>4
<1>4. t \in Nat /\ reserved[r] <= t
  BY <1>2, <1>3 DEF WithinCaps
<1>5. reserved'[r] = reserved[r] + n /\ window'[d] = window[d] + n /\ total'[r] = t
  BY <1>2 DEF CommitReservation, TypeOK
<1>6. /\ n <= IF m > reserved[r] THEN m - reserved[r] ELSE 0
      /\ n <= IF WorkspaceCap > window[d] THEN WorkspaceCap - window[d] ELSE 0
  BY <1>1 DEF ReservationsFit, RunRemaining, WindowRemaining
<1> HIDE DEF t
<1>7. m \in Nat /\ m <= t
  BY <1>3, <1>4, MinOfTwo
<1> HIDE DEF m
<1>8. reserved[r] + n <= t
  BY <1>2, <1>3, <1>4, <1>6, <1>7
<1>9. window[d] + n <= WorkspaceCap
  BY <1>2, <1>3, <1>6 DEF WithinCaps
<1>10. QED
  BY <1>5, <1>8, <1>9

\* An update of one point, read back from the updated function.
LEMMA PointUpdate ==
    ASSUME NEW S, NEW f \in [S -> Nat], NEW x \in S, NEW v,
           NEW g, g = [f EXCEPT ![x] = v]
    PROVE  g[x] = v /\ g = [f EXCEPT ![x] = g[x]]
OBVIOUS

\* A step of a call leaves the run's account alone, opens it, or moves its
\* money in the one direction the step is about.
RunMove(r) ==
    \/ /\ total[r] = 0 /\ total'[r] \in RunBudgets
       /\ total' = [total EXCEPT ![r] = total'[r]]
       /\ reserved'[r] \in 0 .. total'[r]
       /\ reserved' = [reserved EXCEPT ![r] = reserved'[r]]
       /\ paid' = paid
    \/ /\ total' = total /\ paid' = paid
       /\ reserved'[r] \in reserved[r] .. total[r]
       /\ reserved' = [reserved EXCEPT ![r] = reserved'[r]]
    \/ /\ total' = total /\ reserved' = reserved
       /\ paid'[r] \in paid[r] .. reserved[r]
       /\ paid' = [paid EXCEPT ![r] = paid'[r]]
    \/ /\ total' = total /\ paid' = paid
       /\ reserved'[r] \in paid[r] .. reserved[r]
       /\ reserved' = [reserved EXCEPT ![r] = reserved'[r]]

WindowMove(d) ==
    \/ /\ paidOn' = paidOn
       /\ window'[d] \in window[d] .. WorkspaceCap
       /\ window' = [window EXCEPT ![d] = window'[d]]
    \/ /\ window' = window
       /\ paidOn'[d] \in paidOn[d] .. window[d]
       /\ paidOn' = [paidOn EXCEPT ![d] = paidOn'[d]]
    \/ /\ paidOn' = paidOn
       /\ window'[d] \in paidOn[d] .. window[d]
       /\ window' = [window EXCEPT ![d] = window'[d]]

MoneyMoves ==
    /\ UNCHANGED <<total, reserved, paid>> \/ \E r \in Runs : RunMove(r)
    /\ UNCHANGED <<window, paidOn>> \/ \E d \in Days : WindowMove(d)

LEMMA CallMovesMoney ==
    ASSUME TypeOK, ReservationsFit, WithinCaps, Booked, TypeOK', Booked',
           NEW c \in Calls, CallNext(c)
    PROVE  MoneyMoves
<1> USE DEF ledger
<1>0. /\ total \in [Runs -> RunBudgets \union {0}] /\ total' \in [Runs -> RunBudgets \union {0}]
      /\ reserved \in [Runs -> Nat] /\ reserved' \in [Runs -> Nat]
      /\ paid \in [Runs -> Nat] /\ paid' \in [Runs -> Nat]
      /\ window \in [Days -> Nat] /\ window' \in [Days -> Nat]
      /\ paidOn \in [Days -> Nat] /\ paidOn' \in [Days -> Nat]
      /\ RunBudgets \subseteq Nat \ {0} /\ WorkspaceCap \in Nat
  BY ProviderBudgetAssumption DEF TypeOK
<1>1. CASE UNCHANGED <<total, reserved, paid, window, paidOn>>
  BY <1>1 DEF MoneyMoves
<1>2. CASE RejectByRun(c) \/ RejectByWorkspace(c)
  <2>1. call[c] # Idle
    BY <1>2 DEF RejectByRun, RejectByWorkspace, Idle
  <2>2. call[c].run \in Runs /\ call[c].budget \in RunBudgets
    BY <2>1, OpenType
  <2> DEFINE r == call[c].run  b == call[c].budget
  <2>3. /\ total' = [total EXCEPT ![r] = IF @ = 0 THEN b ELSE @]
        /\ UNCHANGED <<reserved, window, paid, paidOn>>
    BY <1>2 DEF RejectByRun, RejectByWorkspace
  <2>4. CASE total[r] # 0
    <3>1. total' = total
      BY <1>0, <2>2, <2>3, <2>4
    <3>2. QED
      BY <1>1, <2>3, <3>1
  <2>5. CASE total[r] = 0
    <3>1. total'[r] = b /\ total' = [total EXCEPT ![r] = total'[r]]
      BY <1>0, <2>2, <2>3, <2>5
    <3>2. reserved[r] = 0
      BY <1>0, <2>2, <2>5 DEF WithinCaps
    <3>3. reserved' = [reserved EXCEPT ![r] = reserved'[r]] /\ reserved'[r] \in 0 .. b
      <4>1. reserved' = [reserved EXCEPT ![r] = reserved[r]]
        BY <1>0, <2>3
      <4>2. reserved' = [reserved EXCEPT ![r] = reserved'[r]]
        BY <1>0, <2>2, <4>1, PointUpdate
      <4>3. b \in Nat /\ reserved'[r] = 0
        BY <1>0, <2>2, <2>3, <3>2
      <4>4. QED
        BY <4>2, <4>3
    <3>4. RunMove(r)
      BY <2>2, <2>3, <2>5, <3>1, <3>3 DEF RunMove
    <3>5. QED
      BY <2>2, <2>3, <3>4 DEF MoneyMoves
  <2>6. QED
    BY <2>4, <2>5
<1>3. CASE CommitReservation(c)
  <2>1. call[c] # Idle
    BY <1>3 DEF CommitReservation, Idle
  <2>2. /\ call[c].run \in Runs /\ call[c].budget \in RunBudgets /\ call[c].day \in Days
        /\ call[c].amount \in Nat
    BY <2>1, OpenType
  <2> DEFINE r == call[c].run  b == call[c].budget  d == call[c].day  n == call[c].amount
  <2>3. /\ total' = [total EXCEPT ![r] = IF @ = 0 THEN b ELSE @]
        /\ reserved' = [reserved EXCEPT ![r] = @ + n]
        /\ window' = [window EXCEPT ![d] = @ + n]
        /\ paid' = paid /\ paidOn' = paidOn
    BY <1>3 DEF CommitReservation
  <2>4. reserved'[r] <= total'[r] /\ window'[d] <= WorkspaceCap
    BY <1>3, BookingFits
  <2>5. /\ reserved' = [reserved EXCEPT ![r] = reserved'[r]] /\ reserved'[r] >= reserved[r]
        /\ window' = [window EXCEPT ![d] = window'[d]] /\ window'[d] >= window[d]
    <3>1. reserved'[r] = reserved[r] + n /\ reserved' = [reserved EXCEPT ![r] = reserved'[r]]
      BY <1>0, <2>2, <2>3, PointUpdate, ZenonT(60)
    <3>2. window'[d] = window[d] + n /\ window' = [window EXCEPT ![d] = window'[d]]
      BY <1>0, <2>2, <2>3, PointUpdate, ZenonT(60)
    <3>3. QED
      BY <1>0, <2>2, <3>1, <3>2
  <2>6. RunMove(r)
    <3>1. CASE total[r] = 0
      <4>1. total'[r] = b /\ total' = [total EXCEPT ![r] = total'[r]]
        BY <1>0, <2>2, <2>3, <3>1
      <4>2. reserved'[r] \in 0 .. total'[r]
        BY <1>0, <2>2, <2>4
      <4>3. QED
        BY <2>2, <2>3, <2>5, <3>1, <4>1, <4>2 DEF RunMove
    <3>2. CASE total[r] # 0
      <4>1. total' = total
        BY <1>0, <2>2, <2>3, <3>2
      <4>2. reserved'[r] \in reserved[r] .. total[r]
        BY <1>0, <2>2, <2>4, <2>5, <4>1
      <4>3. QED
        BY <2>3, <2>5, <4>1, <4>2 DEF RunMove
    <3>3. QED
      BY <3>1, <3>2
  <2>7. WindowMove(d)
    <3>1. window'[d] \in window[d] .. WorkspaceCap
      BY <1>0, <2>2, <2>4, <2>5
    <3>2. QED
      BY <2>3, <2>5, <3>1 DEF WindowMove
  <2>8. QED
    BY <2>2, <2>6, <2>7 DEF MoneyMoves
<1>4. CASE ProviderAnswers(c) \/ EndUnpriced(c)
  <2>1. call[c] # Idle
    BY <1>4 DEF ProviderAnswers, EndUnpriced, Idle
  <2>2. call[c].run \in Runs /\ call[c].day \in Days
    BY <2>1, OpenType
  <2> DEFINE r == call[c].run  d == call[c].day
  <2>3. PICK a \in PossibleCosts(c) : Pay(c, a)
    BY <1>4 DEF ProviderAnswers, EndUnpriced
  <2>4. a \in Nat
    BY <2>1, CostsType
  <2>5. UNCHANGED ledger
    BY <1>4 DEF ProviderAnswers, EndUnpriced
  <2>6. /\ paid' = [paid EXCEPT ![r] = paid'[r]] /\ paid'[r] >= paid[r]
        /\ paidOn' = [paidOn EXCEPT ![d] = paidOn'[d]] /\ paidOn'[d] >= paidOn[d]
    <3>1. paid'[r] = paid[r] + a /\ paid' = [paid EXCEPT ![r] = paid'[r]]
      BY <1>0, <2>2, <2>3, PointUpdate DEF Pay
    <3>2. paidOn'[d] = paidOn[d] + a /\ paidOn' = [paidOn EXCEPT ![d] = paidOn'[d]]
      BY <1>0, <2>2, <2>3, PointUpdate DEF Pay
    <3>3. QED
      BY <1>0, <2>2, <2>4, <3>1, <3>2
  <2>7. paid'[r] \in paid[r] .. reserved[r] /\ paidOn'[d] \in paidOn[d] .. window[d]
    <3>1. paid'[r] <= reserved'[r] /\ paidOn'[d] <= window'[d]
      BY <2>2 DEF Booked
    <3>2. QED
      BY <1>0, <2>2, <2>5, <2>6, <3>1
  <2>8. RunMove(r) /\ WindowMove(d)
    BY <2>5, <2>6, <2>7 DEF RunMove, WindowMove
  <2>9. QED
    BY <2>2, <2>8 DEF MoneyMoves
<1>5. CASE CommitRelease(c)
  <2>1. call[c] # Idle
    BY <1>5 DEF CommitRelease, Idle
  <2>2. /\ call[c].run \in Runs /\ call[c].day \in Days
        /\ ToRelease(call[c].amount, call[c].actual) \in Nat
    BY <2>1, OpenType, ReleaseLeavesCost
  <2> DEFINE r == call[c].run  d == call[c].day
             n == ToRelease(call[c].amount, call[c].actual)
             Less(m) == IF m > n THEN m - n ELSE 0
  <2>3. /\ reserved' = [reserved EXCEPT ![r] = Less(@)]
        /\ window' = [window EXCEPT ![d] = Less(@)]
        /\ UNCHANGED <<total, paid, paidOn>>
    BY <1>5 DEF CommitRelease, ReleaseDay
  <2>4. n \in Nat
    BY <2>2
  <2> HIDE DEF n
  <2>5. /\ reserved' = [reserved EXCEPT ![r] = reserved'[r]] /\ reserved'[r] <= reserved[r]
        /\ window' = [window EXCEPT ![d] = window'[d]] /\ window'[d] <= window[d]
    <3>1. reserved'[r] = Less(reserved[r]) /\ reserved' = [reserved EXCEPT ![r] = reserved'[r]]
      BY <1>0, <2>2, <2>3, PointUpdate
    <3>2. window'[d] = Less(window[d]) /\ window' = [window EXCEPT ![d] = window'[d]]
      BY <1>0, <2>2, <2>3, PointUpdate, ZenonT(60)
    <3>3. QED
      BY <1>0, <2>2, <2>4, <3>1, <3>2
  <2>6. reserved'[r] \in paid[r] .. reserved[r] /\ window'[d] \in paidOn[d] .. window[d]
    <3>1. paid'[r] <= reserved'[r] /\ paidOn'[d] <= window'[d]
      BY <2>2 DEF Booked
    <3>2. QED
      BY <1>0, <2>2, <2>3, <2>5, <3>1
  <2>7. RunMove(r) /\ WindowMove(d)
    BY <2>3, <2>5, <2>6 DEF RunMove, WindowMove
  <2>8. QED
    BY <2>2, <2>7 DEF MoneyMoves
<1>6. CASE \E r \in Runs, b \in RunBudgets, n \in InputBytes, m \in OutputTokens :
             StartCall(c, r, b, [bytes |-> n, maxOutput |-> m])
  BY <1>1, <1>6 DEF StartCall
<1>7. CASE LockRunRow(c) \/ LockWindowRow(c) \/ RecordActual(c) \/ RecordingFails(c)
             \/ LockForRelease(c) \/ Crash(c)
  BY <1>1, <1>7 DEF LockRunRow, LockWindowRow, RecordActual, RecordingFails, LockForRelease, Crash
<1>8. CASE ResendRequest(c)
  BY <1>1, <1>8, ResendEffect
<1>9. QED
  BY <1>2, <1>3, <1>4, <1>5, <1>6, <1>7, <1>8 DEF CallNext

LEMMA CapsKept ==
    ASSUME TypeOK, TypeOK', WithinCaps, MoneyMoves
    PROVE  WithinCaps'
<1>0. /\ total \in [Runs -> RunBudgets \union {0}] /\ total' \in [Runs -> RunBudgets \union {0}]
      /\ reserved \in [Runs -> Nat] /\ reserved' \in [Runs -> Nat]
      /\ window \in [Days -> Nat] /\ window' \in [Days -> Nat]
  BY DEF TypeOK
<1>a. WorkspaceCap \in Nat /\ \A x \in RunBudgets \union {0} : x \in Nat
  BY ProviderBudgetAssumption
<1>b. /\ \A x \in Runs : total[x] \in Nat /\ total'[x] \in Nat /\ reserved[x] \in Nat /\ reserved'[x] \in Nat
      /\ \A y \in Days : window[y] \in Nat /\ window'[y] \in Nat
  BY <1>0, <1>a
<1>1. ASSUME NEW x \in Runs
      PROVE  reserved'[x] <= total'[x]
  <2>1. CASE UNCHANGED <<total, reserved, paid>>
    BY <2>1 DEF WithinCaps
  <2>2. ASSUME NEW r \in Runs, RunMove(r), x # r
        PROVE  reserved'[x] <= total'[x]
    <3>1. total'[x] = total[x] /\ reserved'[x] = reserved[x]
      BY <1>0, <2>2 DEF RunMove
    <3>2. QED
      BY <3>1 DEF WithinCaps
  <2>3. ASSUME RunMove(x)
        PROVE  reserved'[x] <= total'[x]
    <3>1. \/ reserved'[x] \in 0 .. total'[x]
          \/ total'[x] = total[x] /\ reserved'[x] \in reserved[x] .. total[x]
          \/ total'[x] = total[x] /\ reserved'[x] = reserved[x]
          \/ total'[x] = total[x] /\ reserved'[x] \in paid[x] .. reserved[x]
      BY <2>3 DEF RunMove
    <3>2. paid[x] \in Nat /\ reserved[x] <= total[x]
      BY DEF TypeOK, WithinCaps
    <3>3. QED
      BY <1>b, <3>1, <3>2
  <2>4. QED
    BY <2>1, <2>2, <2>3 DEF MoneyMoves
<1>2. ASSUME NEW y \in Days
      PROVE  window'[y] <= WorkspaceCap
  <2>1. CASE UNCHANGED <<window, paidOn>>
    BY <2>1 DEF WithinCaps
  <2>2. ASSUME NEW d \in Days, WindowMove(d), y # d
        PROVE  window'[y] <= WorkspaceCap
    <3>1. window'[y] = window[y]
      BY <1>0, <2>2 DEF WindowMove
    <3>2. QED
      BY <3>1 DEF WithinCaps
  <2>3. ASSUME WindowMove(y)
        PROVE  window'[y] <= WorkspaceCap
    <3>1. \/ window'[y] \in window[y] .. WorkspaceCap
          \/ window'[y] = window[y]
          \/ window'[y] \in paidOn[y] .. window[y]
      BY <2>3 DEF WindowMove
    <3>2. paidOn[y] \in Nat /\ window[y] <= WorkspaceCap
      BY DEF TypeOK, WithinCaps
    <3>3. QED
      BY <1>a, <1>b, <3>1, <3>2
  <2>4. QED
    BY <2>1, <2>2, <2>3 DEF MoneyMoves
<1>3. QED
  BY <1>1, <1>2 DEF WithinCaps

\* One step of the system: the invariant holds again, and the money of at most
\* one run and one window has moved as SpendCap allows.
LEMMA Step ==
    ASSUME IInv, [Next]_vars
    PROVE  IInv' /\ (MoneyMoves \/ UNCHANGED <<total, reserved, paid, window, paidOn>>)
<1> USE DEF IInv, LocksInv, LedgerInv
<1>0. LocksInv'
  BY LocksKept
<1>1. CASE UNCHANGED <<call, total, reserved, paid, window, paidOn>>
  <2>1. LedgerInv'
    BY <1>1 DEF CallsPriced, WorstCase, Cost, ReservationsFit, RunRemaining, WindowRemaining,
                WithinCaps, LedgerCoversSpend, ResendsBounded, OpenOf, OpenOn, ShareOf, ShareOn, Open
  <2>2. QED
    BY <1>0, <1>1, <2>1
<1>2. ASSUME NEW c \in Calls, CallNext(c)
      PROVE  IInv' /\ MoneyMoves
  <2>1. TypeOK /\ TypeOK'
    BY <1>0
  <2>2. StepIsCovered(c)
    BY <1>2, <2>1, CallIsCovered
  <2>3. \A e \in Calls \ {c} : call'[e] = call[e]
    BY <1>2, OthersStay
  <2>4. LedgerCoversSpend'
    <3>1. ResendsBounded'
      BY <1>2, ResendsKept DEF LedgerCoversSpend
    <3>2. QED
      BY <2>1, <2>2, <2>3, <3>1, CoverageKept
  <2>5. Booked
    BY CoveredIsBooked
  <2>6. Booked'
    <3>1. (TypeOK /\ LedgerCoversSpend => Booked)'
      BY CoveredIsBooked, PTL
    <3>2. QED
      BY <2>1, <2>4, <3>1
  <2>7. MoneyMoves
    BY <1>2, <2>1, <2>5, <2>6, CallMovesMoney
  <2>8. WithinCaps'
    BY <2>1, <2>7, CapsKept
  <2>9. CallsPriced' /\ ReservationsFit'
    BY <1>2, PricedKept, FitKept
  <2>10. QED
    BY <1>0, <2>4, <2>7, <2>8, <2>9
<1>3. QED
  BY <1>1, <1>2 DEF Next, Midnight, vars, ledger

LEMMA StartsCovered == Init => IInv
<1> SUFFICES ASSUME Init
             PROVE  IInv
  OBVIOUS
<1>1. \A c \in Calls : call[c] = Idle /\ call[c].pc = "idle"
  BY DEF Init, Idle
<1>2. LocksInv
  BY <1>1, InitType DEF LocksInv, LocksInOrder, LocksExclude
<1>3. CallsPriced /\ ReservationsFit
  BY <1>1 DEF CallsPriced, ReservationsFit
<1>4. WithinCaps
  BY ProviderBudgetAssumption DEF Init, WithinCaps
<1>5. LedgerCoversSpend
  <2>1. ASSUME NEW f, f = [c \in Calls |-> 0]
        PROVE  SumFunctionOnSet(f, Calls) = 0
    <3>1. PICK sum : IsSum(sum, f, Calls) /\ SumFunctionOnSet(f, Calls) = sum[Calls]
      BY SumFunctionIs, ProviderBudgetAssumption
    <3> DEFINE G == {T \in SUBSET Calls : sum[T] = 0}
    <3>2. {} \in G
      BY <3>1 DEF IsSum
    <3>3. ASSUME NEW T \in SUBSET Calls, T # {}, T \ {Pick(T)} \in G
          PROVE  T \in G
      <4>1. Pick(T) \in Calls
        BY <3>3, PickIn
      <4>2. sum[T] = f[Pick(T)] + sum[T \ {Pick(T)}]
        BY <3>1, <3>3 DEF IsSum
      <4>3. QED
        BY <2>1, <3>3, <4>1, <4>2
    <3> HIDE DEF G
    <3>4. SUBSET Calls \subseteq G
      BY <3>2, <3>3, SubsetInduction, ProviderBudgetAssumption
    <3>5. QED
      BY <3>1, <3>4 DEF G
  <2>2. \A r \in Runs : OpenOf(r) = 0
    BY <1>1, <2>1 DEF OpenOf, ShareOf
  <2>3. \A d \in Days : OpenOn(d) = 0
    BY <1>1, <2>1 DEF OpenOn, ShareOn
  <2>4. QED
    BY <1>1, <2>2, <2>3 DEF LedgerCoversSpend, ResendsBounded, Init
<1>6. QED
  BY <1>2, <1>3, <1>4, <1>5 DEF IInv, LedgerInv

LEMMA InvHolds == Spec => []IInv
BY StartsCovered, Step, PTL DEF Spec

\* "A call still in flight keeps its full reservation": with any number of
\* calls, crashes, midnights and releases, what is charged to a run and to a day
\* covers what the last request of each of its calls cost and what its open calls
\* can still cost or give back, and each request the SDK sent again cost at most
\* one more reservation.
THEOREM LedgerCoversSpendHolds == Spec => []LedgerCoversSpend
<1>1. IInv => LedgerCoversSpend
  BY DEF IInv, LedgerInv
<1>2. QED
  BY <1>1, InvHolds, PTL

\* The run's ledger is a capped account of SpendCap for each run: the ceiling is
\* fixed once, a reservation fits it, and only what the last request did not cost
\* is given back.
THEOREM RunLedgerImplementsSpendCap == Spec => RunsAreCapped
<1>1. Init => RunLedger!Init
  <2>1. Init => total \in [Runs -> Nat]
    BY DEF Init
  <2>2. QED
    BY <2>1 DEF Init, RunLedger!Init
<1>2. IInv /\ [Next]_vars => [RunLedger!Next]_(RunLedger!vars)
  <2> SUFFICES ASSUME IInv, [Next]_vars
               PROVE  [RunLedger!Next]_(RunLedger!vars)
    OBVIOUS
  <2>1. MoneyMoves \/ UNCHANGED <<total, reserved, paid, window, paidOn>>
    BY Step
  <2>2. CASE UNCHANGED <<total, reserved, paid>>
    BY <2>2 DEF RunLedger!vars
  <2>3. ASSUME NEW r \in Runs, RunMove(r)
        PROVE  RunLedger!Next
    <3>1. \A b \in RunBudgets : b > 0
      BY ProviderBudgetAssumption
    <3>2. QED
      BY <2>3, <3>1 DEF RunMove, RunLedger!Next, RunLedger!Open, RunLedger!Commit,
                        RunLedger!Spend, RunLedger!GiveBack
  <2>4. QED
    BY <2>1, <2>2, <2>3 DEF MoneyMoves
<1>3. QED
  BY <1>1, <1>2, InvHolds, PTL DEF Spec, RunsAreCapped, RunLedger!Spec

\* So is the workspace's window of each day, also for calls that were reserved
\* before midnight and settled after it.
THEOREM WindowLedgerImplementsSpendCap == Spec => WindowsAreCapped
<1>1. Init => WindowLedger!Init
  BY ProviderBudgetAssumption DEF Init, WindowLedger!Init
<1>2. IInv /\ [Next]_vars => [WindowLedger!Next]_(WindowLedger!vars)
  <2> SUFFICES ASSUME IInv, [Next]_vars
               PROVE  [WindowLedger!Next]_(WindowLedger!vars)
    OBVIOUS
  <2>1. MoneyMoves \/ UNCHANGED <<total, reserved, paid, window, paidOn>>
    BY Step
  <2>2. CASE UNCHANGED <<window, paidOn>>
    BY <2>2 DEF WindowLedger!vars
  <2>3. ASSUME NEW d \in Days, WindowMove(d)
        PROVE  WindowLedger!Next
    BY <2>3 DEF WindowMove, WindowLedger!Next, WindowLedger!Commit,
                WindowLedger!Spend, WindowLedger!GiveBack
  <2>4. QED
    BY <2>1, <2>2, <2>3 DEF MoneyMoves
<1>3. QED
  BY <1>1, <1>2, InvHolds, PTL DEF Spec, WindowsAreCapped, WindowLedger!Spec

\* No interleaving of calls, crash or midnight spends past either cap, as far as
\* the last request of each call goes: both ledgers implement SpendCap, for every
\* number of calls, runs and prices.
THEOREM SpendIsCappedHolds == Spec => SpendIsCapped
BY RunLedgerImplementsSpendCap, WindowLedgerImplementsSpendCap DEF SpendIsCapped

=================================================================================
