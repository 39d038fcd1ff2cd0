------------------------------- MODULE SpendCap -------------------------------
(***************************************************************************)
(* What a spending ledger promises of each account: money is committed     *)
(* within the limit before it is spent, and only what was not spent is     *)
(* given back.  Spending therefore never passes the limit, without anybody *)
(* looking at what was spent.                                              *)
(***************************************************************************)
EXTENDS Naturals

CONSTANT Accounts

VARIABLES limit, committed, spent   \* of each account

vars == <<limit, committed, spent>>

Init ==
    /\ limit \in [Accounts -> Nat]
    /\ committed = [a \in Accounts |-> 0]
    /\ spent = [a \in Accounts |-> 0]

\* An account without a limit gets one, once, and may commit at the same time.
Open(a) ==
    /\ limit[a] = 0
    /\ limit'[a] > 0
    /\ limit' = [limit EXCEPT ![a] = limit'[a]]
    /\ committed'[a] \in 0 .. limit'[a]
    /\ committed' = [committed EXCEPT ![a] = committed'[a]]
    /\ UNCHANGED spent

Commit(a) ==
    /\ committed'[a] \in committed[a] .. limit[a]
    /\ committed' = [committed EXCEPT ![a] = committed'[a]]
    /\ UNCHANGED <<limit, spent>>

Spend(a) ==
    /\ spent'[a] \in spent[a] .. committed[a]
    /\ spent' = [spent EXCEPT ![a] = spent'[a]]
    /\ UNCHANGED <<limit, committed>>

GiveBack(a) ==
    /\ committed'[a] \in spent[a] .. committed[a]
    /\ committed' = [committed EXCEPT ![a] = committed'[a]]
    /\ UNCHANGED <<limit, spent>>

Next == \E a \in Accounts : Open(a) \/ Commit(a) \/ Spend(a) \/ GiveBack(a)

Spec == Init /\ [][Next]_vars
=============================================================================
