--------------------------- MODULE MCProviderBudget ---------------------------
(* ProviderBudget on small sets; calls and runs are interchangeable.       *)
EXTENDS ProviderBudget, TLC

Symmetry == Permutations(Calls) \union Permutations(Runs)
=============================================================================
