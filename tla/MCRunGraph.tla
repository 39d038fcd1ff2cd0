------------------------------ MODULE MCRunGraph ------------------------------
(* RunGraph on short graphs that keep both gates, a file writer and a      *)
(* premium agent.  Workers are interchangeable.                            *)
EXTENDS RunGraph, TLC

BothGates == <<"Mike", "approval", "Alex", "Adrian", "content-approval">>
PlanGate  == <<"Mike", "approval", "Alex">>
AllRequired == {"Mike", "Alex", "Adrian"}
CodeRequired == {"Mike", "Alex"}

Symmetry == Permutations(Workers)
=============================================================================
