------------------------------- MODULE MCAccess -------------------------------
(* Instances of Access: one where commands race, and some where users with and *)
(* without a common group make requests on one file, or on the top directory.  *)
EXTENDS Access, TLC

CONSTANTS file, n0, n1, n2

\* rw-r-----, r--rw-r-- and -w-r---wx.
SomeModes == {\o640, \o464, \o243}

Account(n, g) == [name |-> n, gid |-> g]
File(mode, u, g, dir) ==
    [mode |-> mode, uid |-> u, gid |-> g, size |-> 0, atime |-> 1, mtime |-> 0,
     changed |-> 0, dir |-> dir]

Nothing == [mode |-> None, uid |-> None, gid |-> None, size |-> None, atime |-> None, mtime |-> None]
SetOf(p, asked) == [op |-> "set", path |-> p] @@ asked @@ Nothing
Put(p) == [op |-> "put", path |-> p]
May(p, mask) == [op |-> "access", path |-> p, mask |-> mask]

Rooted == (0 :> Account(n0, 0)) @@ (1 :> Account(n1, 1)) @@ (3 :> Account(n2, 3))
Users == (1 :> Account(n0, 1)) @@ (2 :> Account(n1, 1)) @@ (3 :> Account(n2, 3))

Chmods == {SetOf(file, [mode |-> m]) : m \in SomeModes}
Chowns == {SetOf(file, [uid |-> 1, gid |-> 1]), SetOf(file, [gid |-> 3]), SetOf(file, [uid |-> 2])}
Sizes == {SetOf(file, [size |-> 1]), SetOf(file, [size |-> 0, mtime |-> 0]),
          SetOf(file, [mode |-> \o640, size |-> 1])}
Timings == {SetOf(file, [atime |-> 0]), SetOf(file, [atime |-> Before, mtime |-> 0])}
Masks == {May(file, {"read", "write"}), May(file, {"read", "execute"}), May(file, {"write"})}

Instance(us, its, ops, most, asks) ==
    [users |-> us, items |-> its, ops |-> ops, most |-> most, asks |-> asks]

SomeInstances ==
    LET root == Top :> File(\o750, 0, 0, TRUE)
        of(u, mode) == root @@ (file :> File(mode, u, 1, FALSE))
    IN  {Instance(<<>>, root, {"create"}, 3, {}),
         Instance(3 :> Account(n1, 3), root, {"create", "rename", "password", "delete"}, 2, {}),
         Instance(Users, of(1, \o640), {}, 0, Chmods \cup Masks),
         Instance(Users, of(1, \o464), {}, 0, Sizes \cup Timings \cup {Put(file)}),
         Instance(Rooted, of(0, \o464), {}, 0, Chowns \cup {May(file, {"write"}), Put(file)}),
         Instance(1 :> Account(n1, 1), root, {"create"}, 1,
                  {SetOf(Top, [mode |-> \o640, size |-> 1]), May(Top, {"write"})})}

Symmetry == Permutations(Commands) \cup Permutations(Tasks)
===============================================================================
