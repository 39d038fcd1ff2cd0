-------------------------- MODULE MCDatabaseLifecycle --------------------------
(* DatabaseLifecycle on small sets; requests and workers are               *)
(* interchangeable.                                                        *)
EXTENDS DatabaseLifecycle, TLC

Symmetry == Permutations(Clients) \union Permutations(Workers)
=============================================================================
