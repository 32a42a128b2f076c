-------------------------------- MODULE Names --------------------------------
(***************************************************************************)
(* The names of the exported directory (server/src/storage.rs behind the   *)
(* handlers of server/src/routes.rs): what each request for an item that   *)
(* has passed its permission check does to the tree of names.              *)
(*                                                                         *)
(* A path is the sequence of its components and the root is <<>>.  An item *)
(* is its kind and an identity; the identity stands for its attributes     *)
(* and, of a symbolic link, for its target.                                *)
(*                                                                         *)
(* A change is the set of the trees it can lead to, empty if the server    *)
(* refuses.  The system calls one change is made of are actions of Store.  *)
(* What a handler does after the change, with the rows, the owner and the  *)
(* attributes of the item, may fail and its answer with it: that is in     *)
(* ClientFs.Serve.                                                         *)
(***************************************************************************)
EXTENDS Naturals, Sequences, FiniteSets

CONSTANTS
    Paths,      \* bound: the paths that are used, with the parents of each
    Absent      \* no item

Root == <<>>

\* The names paths are made of.
Components == UNION {{p[i] : i \in DOMAIN p} : p \in Paths}

ASSUME PathsAssumption ==
    /\ Paths \subseteq Seq(Components)
    /\ Root \in Paths
    /\ \A p \in Paths : \A n \in 0 .. Len(p) : SubSeq(p, 1, n) \in Paths

Up == [p \in Paths |-> IF p = Root THEN Root ELSE SubSeq(p, 1, Len(p) - 1)]
Below == [p \in Paths |-> {x \in Paths : Len(x) > Len(p) /\ SubSeq(x, 1, Len(p)) = p}]
Above == [p \in Paths |-> {x \in Paths : p \in Below[x]}]
Children == [p \in Paths |-> {x \in Below[p] : Len(x) = Len(p) + 1}]
Rest(x, p) == SubSeq(x, Len(p) + 1, Len(x))
Rebase(x, p, q) == q \o Rest(x, p)

Kinds == {"file", "dir", "link"}

ASSUME AbsentAssumption == Absent \notin [kind : Kinds, id : Nat]

Item(kind, id) == [kind |-> kind, id |-> id]
Is(tree, p, kind) == tree[p] # Absent /\ tree[p].kind = kind

----------------------------------------------------------------------------
(* Looking *)

\* get_attributes_by_path: the item itself, a link is not followed.
Stat(tree, p) == tree[p]

\* list_path over find: the children of a directory with their attributes.
List(tree, p) == [x \in {c \in Children[p] : tree[c] # Absent} |-> tree[x]]

\* read_symlink
Target(tree, p) == IF Is(tree, p, "link") THEN tree[p].id ELSE Absent

----------------------------------------------------------------------------
(* Changing *)

Free(tree, p) == p # Root /\ tree[p] = Absent /\ Is(tree, Up[p], "dir")
Put(tree, p, item) == [tree EXCEPT ![p] = item]

\* make_dir, after a look whether the name is taken.
MakeDir(tree, p, id) == IF Free(tree, p) THEN {Put(tree, p, Item("dir", id))} ELSE {}

\* create_symlink, after the same look.
MakeLink(tree, p, id) == IF Free(tree, p) THEN {Put(tree, p, Item("link", id))} ELSE {}

\* write_file without data: opens a file that is there, creates one that is not.
Touch(tree, p, id) ==
    IF Is(tree, p, "file") THEN {tree}
    ELSE IF Free(tree, p) THEN {Put(tree, p, Item("file", id))} ELSE {}

\* Fault: delete that takes a directory whatever is in it.
DeleteFull(tree, p) == IF p # Root /\ tree[p] # Absent THEN {Put(tree, p, Absent)} ELSE {}

\* delete: a directory must be empty.
Delete(tree, p) ==
    IF p # Root /\ tree[p] # Absent /\ DOMAIN List(tree, p) = {}
    THEN {Put(tree, p, Absent)} ELSE {}

\* The tree after the items at and below p have moved to q.
Moved(tree, p, q) ==
    [x \in Paths |->
        IF x = q \/ x \in Below[q]
        THEN IF Rebase(x, q, p) \in Paths THEN tree[Rebase(x, q, p)] ELSE Absent
        ELSE IF x = p \/ x \in Below[p] THEN Absent ELSE tree[x]]

\* rename(2): a directory replaces an empty directory only, anything else
\* anything but a directory, and nothing moves below itself.
CanMove(tree, p, q) ==
    /\ p # Root /\ q # Root /\ tree[p] # Absent
    /\ Is(tree, Up[q], "dir") /\ q \notin Below[p]
    /\ \/ tree[q] = Absent
       \/ Is(tree, p, "dir") /\ Is(tree, q, "dir") /\ DOMAIN List(tree, q) = {}
       \/ ~Is(tree, p, "dir") /\ ~Is(tree, q, "dir")

Move(tree, p, q) ==
    IF p = q /\ tree[p] # Absent THEN {tree}
    ELSE IF CanMove(tree, p, q) THEN {Moved(tree, p, q)} ELSE {}

\* rename with NOREPLACE
MoveNoReplace(tree, p, q) == IF tree[q] # Absent THEN {} ELSE Move(tree, p, q)

\* rename with EXCHANGE, when both items are there and apart.
CanExchange(tree, p, q) ==
    /\ p # Root /\ q # Root /\ p # q /\ tree[p] # Absent /\ tree[q] # Absent
    /\ p \notin Below[q] /\ q \notin Below[p]

Gone(tree, p) == [x \in Paths |-> IF x = p \/ x \in Below[p] THEN Absent ELSE tree[x]]

Exchange(tree, p, q) ==
    IF ~CanExchange(tree, p, q) THEN {}
    ELSE {[x \in Paths |->
             IF x = p \/ x \in Below[p] THEN Moved(tree, q, p)[x] ELSE Moved(tree, p, q)[x]]}

\* The first of its three renames is done when the second one fails: the item
\* stays under its temporary name, outside Paths.
HalfExchange(tree, p, q) ==
    IF p = Root \/ tree[p] = Absent \/ CanExchange(tree, p, q) THEN {} ELSE {Gone(tree, p)}

\* Bound: what lies below p keeps a path of Paths below q.
Fits(tree, p, q) == \A x \in Below[p] : tree[x] # Absent => Rebase(x, p, q) \in Paths

Mutations == {"mkdir", "symlink", "create", "remove", "rename", "noreplace", "exchange"}

\* The trees request op on p, and on q for a rename, can lead to.
Trees(tree, op, p, q, id) ==
    CASE op = "mkdir" -> MakeDir(tree, p, id)
      [] op = "symlink" -> MakeLink(tree, p, id)
      [] op = "create" -> Touch(tree, p, id)
      [] op = "remove" -> Delete(tree, p)
      [] op = "rename" -> Move(tree, p, q)
      [] op = "noreplace" -> MoveNoReplace(tree, p, q)
      [] op = "exchange" -> Exchange(tree, p, q)
============================================================================
