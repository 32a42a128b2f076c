------------------------------ MODULE MCCache ------------------------------
(* Values of the constants of Cache for TLC. *)
EXTENDS Cache, TLC

CONSTANTS d, f

\* A directory below the root and a file in it.
BranchPaths == {<<>>, <<d>>, <<d, f>>}

MCValues == {"attributes", "children"}

\* A directory as readdir puts it and a file as cache_write_file puts it.
MixedItems == {[kind |-> "Directory", attr |-> "attributes", body |-> "children"],
            [kind |-> "File", attr |-> NoValue, body |-> NoValue]}

TaskSymmetry == Permutations(Tasks)
============================================================================
