----------------------------- MODULE MCFileData -----------------------------
(* Values of the constants of FileData for TLC. *)
EXTENDS FileData, TLC

Scoped(requests, files, len, writes) ==
    [requests |-> requests, files |-> files, len |-> len, writes |-> writes]

\* Writers, and readers.
ConcurrentScopes == {Scoped({"write", "flush"}, Files, 2, 3), Scoped({"read"}, Files, 1, 0)}

\* Many writes to one file, or two among reads, or one byte and the names of
\* several.
OneFile == CHOOSE p \in Files : TRUE
SerialScopes ==
    {Scoped({"write", "flush", "fsync", "create", "truncate", "remove"}, {OneFile}, 2, 3),
     Scoped({"write", "flush", "read", "remove"}, {OneFile}, 2, 2),
     Scoped({"write", "flush", "truncate", "remove", "rename"}, Files, 1, 1)}

OwnWritesScopes == {Scoped({"write", "read"}, {OneFile}, 2, 3)}
ZombieScopes == {Scoped({"write", "flush", "remove"}, {OneFile}, 2, 3)}

Symmetry == Permutations(Tasks)
============================================================================
