---------------------------- MODULE MCRunControl ----------------------------
(* RunControl on small sets.  Requests, workers and sweepers are           *)
(* interchangeable: no action or property names one of them.               *)
EXTENDS RunControl, TLC

Symmetry == Permutations(Clients) \union Permutations(Workers)
                \union Permutations(Sweepers)
=============================================================================
