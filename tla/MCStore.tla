------------------------------- MODULE MCStore -------------------------------
(* Instances of Store: files called x and directories called d, at the top     *)
(* or in a directory d; any name can be a file or a directory.                 *)
EXTENDS Store

CONSTANTS x, d, swap_x, swap_d

MCSwapName == (x :> swap_x) @@ (d :> swap_d)
MCPaths == {<<x>>, <<d>>, <<d, x>>}
\* Bound: as many rows as a conflict of keys or an exchange has.
FewRows == Cardinality(DOMAIN rows) <= 2

MCSymmetry == Permutations(Tasks) \cup Permutations(Items) \cup Permutations(Users)
===============================================================================
