-------------------------------- MODULE Store --------------------------------
(***************************************************************************)
(* The server's name space and its extended attributes                     *)
(* (server/src/routes.rs, storage.rs, db.rs): the items of the exported    *)
(* directory, and the rows (path, name, value) SQLite keeps for them.      *)
(*                                                                         *)
(* A request is a task.  Handlers run on several threads and nothing is    *)
(* locked or put into a transaction, so every system call and every        *)
(* statement that other requests can see is one step; a request starts     *)
(* with its permission check, and one the check refuses does not show.     *)
(* Any step may fail instead: what was done before it stays done.          *)
(* A path is a sequence of names, <<>> the exported directory.  Items have *)
(* the default modes 644 and 755: only the owner writes.                   *)
(***************************************************************************)
EXTENDS SequencesExt

CONSTANTS
    Tasks, Users,
    Server,     \* the user the server runs as
    Items,      \* bound: identities of files and directories
    Paths,      \* the paths requests name
    Attributes, \* the names of extended attributes
    SwapName,   \* with_extension(".swap_tmp") of a name
    NoItem, NoName, \* what a request does not name
    Left,       \* what a row is of when a rename has left it behind
    Orphan,     \* the owner that is the server for good
    Exchanging, \* "__tmp_exchange__", the path of rows being exchanged
    Requests,   \* the requests made in this instance
    MaxOverlaps \* bound on the requests that start while another is running

Components == UNION {{p[i] : i \in DOMAIN p} : p \in Paths}
SwapNames == {SwapName[n] : n \in Components}
Letters == Components \cup SwapNames

ASSUME ServerAssumption == Server # Orphan /\ Server \notin Users /\ Orphan \notin Users
ASSUME PathsAssumption == <<>> \notin Paths /\ \A p \in Paths : p \in Seq(Components)
ASSUME ItemsAssumption == NoItem \notin Items /\ Left \notin Items
ASSUME BoundsAssumption == IsFiniteSet(Tasks) /\ MaxOverlaps \in Nat
\* No request names what an exchange uses.
ASSUME SwapAssumption == Components \cap SwapNames = {} /\ Exchanging \notin Seq(Letters)

VARIABLES
    tree,       \* the exported directory: paths to items; an item the server owns has
                \* a history: no chown was to come, or its request failed before it,
                \* or a rename moved it from under it (Orphan), or none of these (Server)
    rows,       \* the table xattributes: its keys (path, name), each with a history:
                \* the item it was set on, or Left, or NoItem if there was none or
                \* a failed request has left it behind
    task,       \* what each request does next
    overlaps    \* history: how often a request started while another was running

vars == <<tree, rows, task, overlaps>>

Kinds == {"file", "dir"}
SwapPath(p) == Append(Front(p), SwapName[Last(p)])

----------------------------------------------------------------------------
(* The exported directory; its operations are the kernel's *)

Under(p, q) == IsStrictPrefix(q, p)
IsDir(p) == p = <<>> \/ (p \in DOMAIN tree /\ tree[p].kind = "dir")
Ids == {tree[p].id : p \in DOMAIN tree}
Children(p) == {q \in DOMAIN tree : Under(q, p)}
ItemAt(p) == IF p \in DOMAIN tree THEN tree[p].id ELSE NoItem

\* is_allowed for writing: the parent answers for a path that is not there.
IsAllowed(u, p) ==
    LET asked == IF p \in DOMAIN tree THEN p ELSE Front(p)
    IN  asked = <<>> \/ (asked \in DOMAIN tree /\ tree[asked].owner = u)

CanRename(p, q) ==
    /\ p \in DOMAIN tree /\ IsDir(Front(q)) /\ ~Under(q, p)
    /\ q \in DOMAIN tree => tree[q].kind = tree[p].kind /\ Children(q) = {}

\* The server's items at the paths of S stay the server's.
Orphaned(S) ==
    [p \in DOMAIN tree |-> IF p \in S /\ tree[p].owner = Server
                            THEN [tree[p] EXCEPT !.owner = Orphan] ELSE tree[p]]

\* The item at p and what is under it move to q, from under any chown.
Renamed(p, q) ==
    LET was == Orphaned({p} \cup Children(p))
        Moves(r) == r = p \/ Under(r, p)
        To(r) == IF Moves(r) THEN q \o SubSeq(r, Len(p) + 1, Len(r)) ELSE r
        kept == {r \in DOMAIN tree : Moves(r) \/ r # q}
    IN  [r \in {To(s) : s \in kept} |-> was[CHOOSE s \in kept : To(s) = r]]

----------------------------------------------------------------------------
(* The table xattributes *)

RowsAt(p) == {k \in DOMAIN rows : k[1] = p}

\* The items' rows at the paths of S are of what from now on.
Marked(S, what) ==
    [k \in DOMAIN rows |-> IF k[1] \in S /\ rows[k] \in Items THEN what ELSE rows[k]]

\* The primary key (path, name) lets all rows of p become rows of q.
KeysFree(p, q) == \A k \in RowsAt(p) : <<q, k[2]>> \notin DOMAIN rows

\* UPDATE xattributes SET path = q WHERE path = p.
MoveRows(p, q) ==
    rows' = [k \in (DOMAIN rows \ RowsAt(p)) \cup {<<q, k[2]>> : k \in RowsAt(p)} |->
               IF k \in DOMAIN rows THEN rows[k] ELSE rows[<<p, k[2]>>]]

----------------------------------------------------------------------------
Idle == [at |-> "idle"]
At(t, here) == task[t].at = here
Goto(t, next) == task' = [task EXCEPT ![t] = [@ EXCEPT !.at = next]]
Done(t) == task' = [task EXCEPT ![t] = Idle]

\* The request starts: its handler has passed check_permission.
Begin(t, op, here, r) ==
    /\ task[t] = Idle /\ op \in Requests
    /\ task' = [task EXCEPT ![t] = [r EXCEPT !.op = op, !.at = here]]
    /\ overlaps' = overlaps + Cardinality({s \in Tasks \ {t} : task[s] # Idle})
    /\ overlaps' <= MaxOverlaps
    /\ UNCHANGED <<tree, rows>>

Request(u, p, q) ==
    [op |-> "", at |-> "asked", user |-> u, path |-> p, to |-> q, name |-> NoName, of |-> NoItem]

Init ==
    /\ tree = <<>> /\ rows = <<>>
    /\ task = [t \in Tasks |-> Idle]
    /\ overlaps = 0

----------------------------------------------------------------------------
(* A step that fails *)

\* The paths whose rows are not yet where the items of t are: the rows of a
\* deleted item, those of a renamed one, those an exchange has not yet moved.
Behind(t) ==
    LET p == task[t].path
        q == task[t].to
    IN  CASE task[t].at \in {"remove_all", "move_rows", "swap_over"} -> {p}
          [] task[t].at \in {"swap_in", "rows_out"} -> {p, q}
          [] task[t].at = "rows_over" -> {Exchanging, q}
          [] task[t].at = "rows_in" -> {Exchanging}
          [] OTHER -> {}

\* The request is answered with an error: what it finds does not allow its next
\* step, or a system call (a write, a chown, a rename) or a statement fails.
Fails(t) ==
    /\ task[t] # Idle
    /\ Done(t)
    /\ rows' = Marked(Behind(t), NoItem)
    /\ tree' = IF At(t, "chown") THEN Orphaned({task[t].path}) ELSE tree
    /\ UNCHANGED overlaps

----------------------------------------------------------------------------
(* Files and directories *)

\* An identity nothing refers to.
Free == Items \ ({tree[p].id : p \in DOMAIN tree} \cup {rows[k] : k \in DOMAIN rows}
                  \cup {task[t].of : t \in {s \in Tasks : task[s] # Idle}})

Put(p, kind, owner) ==
    \E id \in Free :
        tree' = [q \in DOMAIN tree \cup {p} |->
                   IF q = p THEN [id |-> id, kind |-> kind, owner |-> owner] ELSE tree[q]]

WriteFile(t, u, p) == IsAllowed(u, p) /\ Begin(t, "write", "stat", Request(u, p, p))

\* created = symlink_metadata(&real).is_err()
Stat(t) ==
    /\ At(t, "stat")
    /\ Goto(t, IF task[t].path \in DOMAIN tree THEN "open" ELSE "create")
    /\ UNCHANGED <<tree, rows, overlaps>>

\* OpenOptions::create(true).open: either way it creates a missing file.
Open(t) ==
    /\ task[t].at \in {"open", "create"}
    /\ LET p == task[t].path
       IN  \/ p \in DOMAIN tree /\ ~IsDir(p) /\ UNCHANGED tree
           \/ /\ p \notin DOMAIN tree /\ IsDir(Front(p))
              /\ Put(p, "file", IF At(t, "create") THEN Server ELSE Orphan)
    /\ IF At(t, "create") THEN Goto(t, "chown") ELSE Done(t)
    /\ UNCHANGED <<rows, overlaps>>

MakeDirectory(t, u, p) ==
    IsAllowed(u, Front(p)) /\ Begin(t, "mkdir", "create_dir", Request(u, p, p))

CreatesDir(t) ==
    /\ At(t, "create_dir")
    /\ task[t].path \notin DOMAIN tree /\ IsDir(Front(task[t].path))
    /\ Put(task[t].path, "dir", Server)
    /\ UNCHANGED <<rows, overlaps>>

\* Fault: the owner is not set.
CreateDirUnowned(t) == CreatesDir(t) /\ Done(t)
CreateDir(t) == CreatesDir(t) /\ Goto(t, "chown")

\* set_owner goes by the path, whatever is there by now.
Chown(t) ==
    /\ At(t, "chown")
    /\ task[t].path \in DOMAIN tree
    /\ tree' = [tree EXCEPT ![task[t].path].owner = task[t].user]
    /\ Done(t)
    /\ UNCHANGED <<rows, overlaps>>

----------------------------------------------------------------------------
(* Deleting and renaming *)

DeleteItem(t, u, p) == IsAllowed(u, p) /\ Begin(t, "delete", "delete", Request(u, p, p))

\* The item goes.
RemoveItem(t) ==
    /\ At(t, "delete")
    /\ task[t].path \in DOMAIN tree
    /\ tree' = [q \in DOMAIN tree \ {task[t].path} |-> tree[q]]
    /\ Goto(t, "remove_all")
    /\ UNCHANGED <<rows, overlaps>>

\* A directory must be empty.
Delete(t) == RemoveItem(t) /\ Children(task[t].path) = {}

\* Fault: the rows of a deleted item stay.
RemoveAllSkipped(t) ==
    /\ At(t, "remove_all")
    /\ Done(t)
    /\ UNCHANGED <<tree, rows, overlaps>>

RemoveAll(t) ==
    /\ At(t, "remove_all")
    /\ rows' = [k \in DOMAIN rows \ RowsAt(task[t].path) |-> rows[k]]
    /\ Done(t)
    /\ UNCHANGED <<tree, overlaps>>

\* The client's kernel itself answers a rename of a name to itself.
MayRename(u, p, q) == p # q /\ IsAllowed(u, p) /\ IsAllowed(u, q)

Rename(t, u, p, q) ==
    MayRename(u, p, q) /\ Begin(t, "rename", "rename", Request(u, p, q))
RenameNoReplace(t, u, p, q) ==
    MayRename(u, p, q) /\ Begin(t, "noreplace", "noreplace", Request(u, p, q))
RenameExchange(t, u, p, q) ==
    MayRename(u, p, q) /\ Begin(t, "exchange", "swap_out", Request(u, p, q))

\* On to the rename.
GoesOn(t) ==
    /\ At(t, "noreplace")
    /\ Goto(t, "rename")
    /\ UNCHANGED <<tree, rows, overlaps>>

\* NOREPLACE: only if the new name is free.
NoReplace(t) == GoesOn(t) /\ task[t].to \notin DOMAIN tree

\* fs::rename(p, q), then on to the next step.  No row moves with a replaced
\* item or with what is under a directory.
FsRename(t, p, q, next) ==
    /\ CanRename(p, q)
    /\ tree' = Renamed(p, q)
    /\ Goto(t, next)
    /\ rows' = Marked((DOMAIN tree \cap {q}) \cup Children(p), Left)
    /\ UNCHANGED overlaps

FsRenamePlain(t) == At(t, "rename") /\ FsRename(t, task[t].path, task[t].to, "move_rows")

\* Nothing looks first whether both items are there.
Swap(t) ==
    LET a == task[t].path
        b == task[t].to
    IN  \/ At(t, "swap_out") /\ FsRename(t, a, SwapPath(a), "swap_over")
        \/ At(t, "swap_over") /\ FsRename(t, b, a, "swap_in")
        \/ At(t, "swap_in") /\ FsRename(t, SwapPath(a), b, "rows_out")

\* One UPDATE; if it meets a key it fails and changes nothing.
UpdateRows(p, q) ==
    KeysFree(p, q) /\ MoveRows(p, q) /\ UNCHANGED <<tree, overlaps>>

RenameRows(t) == At(t, "move_rows") /\ UpdateRows(task[t].path, task[t].to) /\ Done(t)

ExchangeRows(t) ==
    LET a == task[t].path
        b == task[t].to
    IN  \/ At(t, "rows_out") /\ UpdateRows(a, Exchanging) /\ Goto(t, "rows_over")
        \/ At(t, "rows_over") /\ UpdateRows(b, a) /\ Goto(t, "rows_in")
        \/ At(t, "rows_in") /\ UpdateRows(Exchanging, b) /\ Done(t)

----------------------------------------------------------------------------
(* Extended attributes *)

\* Nothing looks whether an item is there.
SetXattr(t, u, p, n) ==
    /\ IsAllowed(u, p)
    /\ Begin(t, "set", "count", [Request(u, p, p) EXCEPT !.name = n, !.of = ItemAt(p)])
RemoveXattr(t, u, p, n) ==
    /\ IsAllowed(u, p)
    /\ Begin(t, "unset", "remove_one", [Request(u, p, p) EXCEPT !.name = n])

Key(t) == <<task[t].path, task[t].name>>

Count(t) ==
    /\ At(t, "count")
    /\ Goto(t, IF Key(t) \in DOMAIN rows THEN "update" ELSE "insert")
    /\ UNCHANGED <<tree, rows, overlaps>>

\* The primary key makes an INSERT fail that lost a race.
Insert(t) ==
    /\ At(t, "insert") /\ Key(t) \notin DOMAIN rows
    /\ rows' = [k \in DOMAIN rows \cup {Key(t)} |-> IF k = Key(t) THEN task[t].of ELSE rows[k]]
    /\ Done(t)
    /\ UNCHANGED <<tree, overlaps>>

\* UPDATE ... WHERE path = ? AND name = ?, bound to the name and the path: no
\* row is like that, and none is changed.
Update(t) ==
    /\ At(t, "update")
    /\ Done(t)
    /\ UNCHANGED <<tree, rows, overlaps>>

RemoveOne(t) ==
    /\ At(t, "remove_one")
    /\ rows' = [k \in DOMAIN rows \ {Key(t)} |-> rows[k]]
    /\ Done(t)
    /\ UNCHANGED <<tree, overlaps>>

----------------------------------------------------------------------------
Start(t) ==
    \E u \in Users, p \in Paths :
        \/ WriteFile(t, u, p) \/ MakeDirectory(t, u, p) \/ DeleteItem(t, u, p)
        \/ \E q \in Paths :
             Rename(t, u, p, q) \/ RenameNoReplace(t, u, p, q) \/ RenameExchange(t, u, p, q)
        \/ \E n \in Attributes : SetXattr(t, u, p, n) \/ RemoveXattr(t, u, p, n)

Step(t) ==
    \/ Stat(t) \/ Open(t) \/ CreateDir(t) \/ Chown(t)
    \/ Delete(t) \/ RemoveAll(t)
    \/ NoReplace(t) \/ FsRenamePlain(t) \/ Swap(t) \/ RenameRows(t) \/ ExchangeRows(t)
    \/ Count(t) \/ Insert(t) \/ Update(t) \/ RemoveOne(t)

Next == \E t \in Tasks : Start(t) \/ Step(t) \/ Fails(t)

Spec == Init /\ [][Next]_vars

----------------------------------------------------------------------------
(* Properties *)

Quiet == \A t \in Tasks : task[t] = Idle

\* The tree is one: no item is there twice, and parents are directories.
TypeOK ==
    /\ \A p \in DOMAIN tree :
         /\ tree[p].id \in Items /\ tree[p].kind \in Kinds /\ tree[p].owner \in Users \cup {Server, Orphan}
         /\ IsDir(Front(p))
         /\ \A q \in DOMAIN tree : tree[q].id = tree[p].id => q = p
    /\ \A k \in DOMAIN rows :
         k[1] \in Paths \cup {Exchanging} /\ rows[k] \in Items \cup {NoItem, Left}
    /\ overlaps \in 0 .. MaxOverlaps

\* server/tests/metadata_flow.rs:554 xattrs_follow_rename, :454
\* xattrs_after_delete_are_gone: between requests, a row set on an item is at
\* the path of that item, as long as requests came one at a time and none that
\* failed had left the row behind.
RowFollows(k) == rows[k] = NoItem \/ rows[k] = ItemAt(k[1])
XattrsFollowItems == (Quiet /\ overlaps = 0) => \A k \in DOMAIN rows : RowFollows(k)

\* It holds but for the rows a rename left behind: of an item it replaced and of
\* those under a directory it moved.
XattrsFollow ==
    (Quiet /\ overlaps = 0) => \A k \in DOMAIN rows : rows[k] = Left \/ RowFollows(k)

\* server/tests/resilience_flow.rs:97 rename_noreplace_fails_if_target_exists,
\* write_flow.rs:352 rename_exchange_swaps_source_and_target: as long as
\* requests came one at a time, the only items that go are the one a delete
\* names, the one a plain rename puts another in the place of, and one that an
\* exchange which failed halfway had left at its temporary name.
ItemsConserved ==
    [][overlaps = 0 => \A p \in DOMAIN tree : tree[p].id \notin Ids' =>
         \E t \in Tasks : \/ At(t, "delete") /\ p = task[t].path
                          \/ At(t, "rename") /\ p = task[t].to /\ task[t].op = "rename"
                          \/ At(t, "swap_out") /\ p = SwapPath(task[t].path)]_vars

\* However requests interleave, an item the server owns has its chown on the
\* way, unless a rename has moved it from under its chown, a write has created
\* it anew after a delete, or its request was answered with an error.
OwnersSet ==
    \A p \in DOMAIN tree : tree[p].owner = Server =>
        \E t \in Tasks : At(t, "chown") /\ task[t].path = p

=============================================================================
