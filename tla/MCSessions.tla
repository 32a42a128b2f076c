----------------------------- MODULE MCSessions -----------------------------
(* Symmetry of the instance of Sessions. *)
EXTENDS Sessions, TLC

Symmetry == Permutations(Tasks) \cup Permutations(Clients)
============================================================================
