----------------------------- MODULE MCClientFs -----------------------------
EXTENDS ClientFs

CONSTANTS t1, t2, d1, d2, f1

\* Two directories' names, each a file's as well, and a name in each.
SomePaths == {<<>>, <<d1>>, <<d2>>, <<d1, f1>>, <<d2, f1>>}

Within(adapter, tasks, ops, most, opened, lossy) ==
    [adapter |-> adapter, tasks |-> tasks, ops |-> ops, changes |-> most,
     handles |-> opened, lossy |-> lossy]

\* One handler and the changes of a tree; with messages lost; exchanges; links;
\* files that stay open; the two of WinFSP, with a handle; and two handlers.
SomeScopes ==
    {Within("fuse", 1, {"list", "mkdir", "remove", "rename"}, 3, 0, FALSE),
     Within("fuse", 1, {"stat", "mkdir", "create", "remove", "rename"}, 2, 0, TRUE),
     Within("fuse", 1, {"list", "mkdir", "exchange"}, 3, 0, FALSE),
     Within("fuse", 1, {"stat", "readlink", "symlink", "noreplace", "exchange"}, 2, 0, TRUE),
     Within("fuse", 1, {"stat", "create", "rename", "remove"}, 2, 1, FALSE),
     Within("winfsp", 1, {"stat", "create", "remove", "rename"}, 2, 1, FALSE),
     Within("winfsp", 1, {"stat", "list", "mkdir", "create", "symlink", "noreplace"}, 1, 1, FALSE),
     Within("fuse", 2, {"mkdir", "remove", "readlink"}, 2, 0, TRUE)}
=============================================================================
