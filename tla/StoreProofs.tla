----------------------------- MODULE StoreProofs -----------------------------
(***************************************************************************)
(* Proofs about the server's name space for every set of users, paths and  *)
(* requests: of the owners and of the shape of the tree however many       *)
(* requests overlap, of the items and their extended attributes as long as *)
(* requests come one at a time.                                            *)
(***************************************************************************)
EXTENDS Store, SequenceTheorems, FiniteSetTheorems, TLAPS

----------------------------------------------------------------------------
(* The inductive invariant *)

\* A request is made by a user, never by the server itself.
Places == {"asked", "stat", "open", "create", "create_dir", "chown", "delete", "remove_all",
           "noreplace", "rename", "swap_out", "swap_over", "swap_in",
           "move_rows", "rows_out", "rows_over", "rows_in",
           "count", "update", "insert", "remove_one"}
Asked == [op : Requests \cup {""}, at : Places, user : Users, path : Paths, to : Paths,
          name : Attributes \cup {NoName}, of : Items \cup {NoItem}]
Item == [id : Items, kind : Kinds, owner : Users \cup {Server, Orphan}]

TasksOK == /\ task = [t \in Tasks |-> task[t]]
           /\ \A t \in Tasks : task[t] = Idle \/ task[t] \in Asked

TreeOK == \A p \in DOMAIN tree : tree[p] \in Item

OwnersInv == TasksOK /\ TreeOK /\ OwnersSet

----------------------------------------------------------------------------
(* Steps of one request *)

\* A request that takes a step is not idle.
LEMMA BusyTask ==
    ASSUME TasksOK, NEW t \in Tasks, task[t].at # "idle" PROVE task[t] \in Asked /\ task[t] # Idle
BY DEF TasksOK, Idle

\* A request that goes on to another place.
LEMMA GotoStep ==
    ASSUME TasksOK, NEW t \in Tasks, task[t].at # "idle", NEW here \in Places, Goto(t, here)
    PROVE  /\ TasksOK'
           /\ task'[t].at = here /\ task'[t].path = task[t].path
           /\ \A s \in Tasks \ {t} : task'[s] = task[s]
<1> DEFINE r == task[t]
           y == [r EXCEPT !.at = here]
<1>1. r \in Asked
  BY BusyTask
<1>2. task' = [task EXCEPT ![t] = y]
  BY DEF Goto
<1>3. y.at = here /\ y.path = r.path /\ y \in Asked
  BY <1>1 DEF Asked
<1> HIDE DEF y
<1> QED BY <1>2, <1>3 DEF TasksOK

\* A request that ends.
LEMMA DoneStep ==
    ASSUME TasksOK, NEW t \in Tasks, Done(t)
    PROVE  TasksOK' /\ \A s \in Tasks \ {t} : task'[s] = task[s]
BY DEF TasksOK, Done

\* A request that starts leaves the tree alone and waits for no owner.
LEMMA BeginStep ==
    ASSUME OwnersInv, NEW t \in Tasks, NEW r \in Asked, NEW op, NEW here \in Places,
           Begin(t, op, here, r)
    PROVE  OwnersInv'
<1> DEFINE y == [r EXCEPT !.op = op, !.at = here]
<1>1. /\ task[t] = Idle /\ task' = [task EXCEPT ![t] = y] /\ UNCHANGED tree
      /\ op \in Requests
  BY DEF Begin
<1>2. y \in Asked
  BY <1>1 DEF Asked
<1> HIDE DEF y
<1>3. TasksOK'
  BY <1>1, <1>2 DEF OwnersInv, TasksOK
<1>4. ASSUME NEW s \in Tasks, At(s, "chown") PROVE At(s, "chown")' /\ task'[s] = task[s]
  BY <1>1, <1>4 DEF At, Idle, OwnersInv, TasksOK
<1>5. OwnersSet'
  BY <1>1, <1>4 DEF OwnersInv, OwnersSet, At
<1>6. TreeOK'
  BY <1>1 DEF OwnersInv, TreeOK
<1> QED BY <1>3, <1>5, <1>6 DEF OwnersInv

\* What the handlers ask for.
LEMMA AskedRequest ==
    ASSUME NEW u \in Users, NEW p \in Paths, NEW q \in Paths PROVE Request(u, p, q) \in Asked
BY DEF Request, Asked, Places

LEMMA AskedAttribute ==
    ASSUME NEW r \in Asked, NEW n \in Attributes
    PROVE  /\ [r EXCEPT !.name = n] \in Asked
           /\ \A id \in Items \cup {NoItem} : [r EXCEPT !.name = n, !.of = id] \in Asked
BY DEF Asked

\* A step of a request that awaits nothing: no item of the server is new
\* without its chown, and what was awaited still is.
LEMMA OtherStep ==
    ASSUME OwnersInv, NEW t \in Tasks, task[t].at \notin {"idle", "chown"},
           TasksOK', TreeOK', \A s \in Tasks \ {t} : task'[s] = task[s],
           \A p \in DOMAIN tree' : tree'[p].owner = Server =>
               \/ At(t, "chown")' /\ task'[t].path = p
               \/ p \in DOMAIN tree /\ tree[p].owner = Server
    PROVE  OwnersInv'
<1> SUFFICES ASSUME NEW p \in DOMAIN tree', tree'[p].owner = Server
             PROVE  \E s \in Tasks : At(s, "chown")' /\ task'[s].path = p
  BY DEF OwnersInv, OwnersSet, At
<1>1. CASE At(t, "chown")' /\ task'[t].path = p
  BY <1>1
<1>2. CASE p \in DOMAIN tree /\ tree[p].owner = Server
  BY <1>2 DEF OwnersInv, OwnersSet, At
<1> QED BY <1>1, <1>2

\* A step of a request that leaves the tree alone.
LEMMA QuietStep ==
    ASSUME OwnersInv, NEW t \in Tasks, task[t].at \notin {"idle", "chown"},
           UNCHANGED tree, Done(t) \/ \E here \in Places : Goto(t, here)
    PROVE  OwnersInv'
<1>1. TasksOK' /\ \A s \in Tasks \ {t} : task'[s] = task[s]
  BY GotoStep, DoneStep DEF OwnersInv
<1>2. TreeOK'
  BY DEF OwnersInv, TreeOK
<1> QED BY <1>1, <1>2, OtherStep

\* Put adds one item.
LEMMA PutStep ==
    ASSUME TreeOK, NEW p, NEW kind \in Kinds, NEW owner \in Users \cup {Server, Orphan},
           Put(p, kind, owner), p \notin DOMAIN tree
    PROVE  /\ DOMAIN tree' = DOMAIN tree \cup {p}
           /\ \A q \in DOMAIN tree' \ {p} : q \in DOMAIN tree /\ tree'[q] = tree[q]
           /\ tree'[p].id \in Ids' \ Ids /\ tree'[p].owner = owner
           /\ TreeOK'
<1>1. PICK id \in Free :
        tree' = [q \in DOMAIN tree \cup {p} |->
                   IF q = p THEN [id |-> id, kind |-> kind, owner |-> owner] ELSE tree[q]]
  BY DEF Put
<1>2. DOMAIN tree' = DOMAIN tree \cup {p} /\ tree'[p].id = id
      /\ \A q \in DOMAIN tree' \ {p} : q \in DOMAIN tree /\ tree'[q] = tree[q]
  BY <1>1
<1>3. id \notin Ids
  BY DEF Free, Ids
<1>4. tree'[p].id \in Ids'
  BY <1>2 DEF Ids
<1>5. tree'[p] = [id |-> id, kind |-> kind, owner |-> owner] /\ id \in Items
  BY <1>1 DEF Free
<1>6. TreeOK'
  <2>1. tree'[p] \in Item
    BY <1>5 DEF Item
  <2> QED BY <1>2, <2>1 DEF TreeOK
<1>7. tree'[p].owner = owner
  BY <1>5
<1> QED BY <1>2, <1>3, <1>4, <1>6, <1>7

\* An owner is left for good; nothing else changes.
LEMMA OrphanedIs ==
    ASSUME NEW S
    PROVE  /\ DOMAIN Orphaned(S) = DOMAIN tree
           /\ \A p \in DOMAIN tree :
                /\ TreeOK => Orphaned(S)[p] \in Item /\ Orphaned(S)[p].id = tree[p].id
                             /\ Orphaned(S)[p].kind = tree[p].kind
                /\ p \in S /\ TreeOK => Orphaned(S)[p].owner # Server
                /\ p \notin S => Orphaned(S)[p] = tree[p]
<1> SUFFICES ASSUME NEW p \in DOMAIN tree
             PROVE  /\ TreeOK => Orphaned(S)[p] \in Item /\ Orphaned(S)[p].id = tree[p].id
                                 /\ Orphaned(S)[p].kind = tree[p].kind
                    /\ p \in S /\ TreeOK => Orphaned(S)[p].owner # Server
                    /\ p \notin S => Orphaned(S)[p] = tree[p]
  BY DEF Orphaned
<1>1. Orphaned(S)[p] = IF p \in S /\ tree[p].owner = Server
                       THEN [tree[p] EXCEPT !.owner = Orphan] ELSE tree[p]
  BY DEF Orphaned
<1>2. CASE p \in S /\ tree[p].owner = Server
  BY <1>1, <1>2, ServerAssumption DEF TreeOK, Item
<1>3. CASE ~(p \in S /\ tree[p].owner = Server)
  BY <1>1, <1>3 DEF TreeOK, Item
<1> QED BY <1>2, <1>3

----------------------------------------------------------------------------
(* The actions *)

LEMMA OpenOwners == ASSUME OwnersInv, NEW t \in Tasks, Open(t) PROVE OwnersInv'
<1> DEFINE p == task[t].path
<1>1. task[t].at \in {"open", "create"} /\ IF At(t, "create") THEN Goto(t, "chown") ELSE Done(t)
  BY DEF Open
<1>2. CASE UNCHANGED tree
  BY <1>1, <1>2, QuietStep DEF Places
<1>3. CASE p \notin DOMAIN tree /\ Put(p, "file", IF At(t, "create") THEN Server ELSE Orphan)
  <2> DEFINE owner == IF At(t, "create") THEN Server ELSE Orphan
  <2>1. TasksOK' /\ \A s \in Tasks \ {t} : task'[s] = task[s]
    BY <1>1, GotoStep, DoneStep DEF OwnersInv, Places
  <2>2. owner = Server => At(t, "chown")' /\ task'[t].path = p
    BY <1>1, GotoStep, ServerAssumption DEF OwnersInv, At, Places
  <2>3. owner \in Users \cup {Server, Orphan}
    OBVIOUS
  <2>4. Put(p, "file", owner)
    BY <1>3
  <2> HIDE DEF p, owner
  <2>5. TreeOK' /\ tree'[p].owner = owner
        /\ \A q \in DOMAIN tree' \ {p} : q \in DOMAIN tree /\ tree'[q] = tree[q]
    BY <1>3, <2>3, <2>4, PutStep DEF OwnersInv, Kinds
  <2> QED BY <1>1, <2>1, <2>2, <2>5, OtherStep
<1> QED BY <1>2, <1>3 DEF Open

LEMMA CreateDirOwners == ASSUME OwnersInv, NEW t \in Tasks, CreateDir(t) PROVE OwnersInv'
<1> DEFINE p == task[t].path
<1>1. task[t].at = "create_dir" /\ p \notin DOMAIN tree /\ Put(p, "dir", Server) /\ Goto(t, "chown")
  BY DEF CreateDir, CreatesDir, At
<1>2. TasksOK' /\ (\A s \in Tasks \ {t} : task'[s] = task[s])
      /\ At(t, "chown")' /\ task'[t].path = p
  BY <1>1, GotoStep DEF OwnersInv, Places, At
<1>3. TreeOK' /\ \A q \in DOMAIN tree' \ {p} : q \in DOMAIN tree /\ tree'[q] = tree[q]
  BY <1>1, PutStep DEF OwnersInv, Kinds
<1> HIDE DEF p
<1> QED BY <1>1, <1>2, <1>3, OtherStep

\* A request at its chown ends, with the item at its path given to the user or
\* left for good: no other request waits for that path in vain.
LEMMA ChownEnds ==
    ASSUME OwnersInv, NEW t \in Tasks, At(t, "chown"), Done(t), TreeOK',
           DOMAIN tree' = DOMAIN tree,
           \A q \in DOMAIN tree : IF q = task[t].path THEN tree'[q].owner # Server
                                                     ELSE tree'[q] = tree[q]
    PROVE  OwnersInv'
<1>1. TasksOK' /\ \A s \in Tasks \ {t} : task'[s] = task[s]
  BY DoneStep DEF OwnersInv
<1>2. ASSUME NEW q \in DOMAIN tree', tree'[q].owner = Server
      PROVE  \E s \in Tasks : At(s, "chown")' /\ task'[s].path = q
  <2>1. q # task[t].path /\ tree[q].owner = Server /\ q \in DOMAIN tree
    BY <1>2
  <2>2. PICK s \in Tasks : At(s, "chown") /\ task[s].path = q
    BY <2>1 DEF OwnersInv, OwnersSet
  <2> QED BY <1>1, <2>1, <2>2 DEF At
<1> QED BY <1>1, <1>2 DEF OwnersInv, OwnersSet, At

LEMMA ChownOwners == ASSUME OwnersInv, NEW t \in Tasks, Chown(t) PROVE OwnersInv'
<1> DEFINE p == task[t].path
           u == task[t].user
<1>1. At(t, "chown") /\ Done(t) /\ p \in DOMAIN tree /\ tree' = [tree EXCEPT ![p].owner = u]
  BY DEF Chown
<1>2. u \in Users
  BY <1>1, BusyTask DEF At, OwnersInv, Asked
<1>3. DOMAIN tree' = DOMAIN tree /\ \A q \in DOMAIN tree \ {p} : tree'[q] = tree[q]
  BY <1>1
<1> HIDE DEF u
<1>4. tree'[p] \in Item /\ tree'[p].owner = u
  BY <1>1, <1>2 DEF OwnersInv, TreeOK, Item
<1>5. TreeOK'
  BY <1>3, <1>4 DEF OwnersInv, TreeOK
<1> QED BY <1>1, <1>2, <1>3, <1>4, <1>5, ChownEnds, ServerAssumption

\* Deleting takes an item away.
LEMMA DeleteOwners == ASSUME OwnersInv, NEW t \in Tasks, Delete(t) PROVE OwnersInv'
<1> DEFINE p == task[t].path
<1>1. task[t].at = "delete" /\ tree' = [q \in DOMAIN tree \ {p} |-> tree[q]]
      /\ Goto(t, "remove_all")
  BY DEF Delete, RemoveItem, At
<1>2. TasksOK' /\ (\A s \in Tasks \ {t} : task'[s] = task[s])
  BY <1>1, GotoStep DEF OwnersInv, Places
<1>3. \A q \in DOMAIN tree' : q \in DOMAIN tree /\ tree'[q] = tree[q]
  BY <1>1
<1>4. TreeOK'
  BY <1>3 DEF OwnersInv, TreeOK
<1> QED BY <1>1, <1>2, <1>3, <1>4, OtherStep

\* A rename takes what it moves away from a chown to come; what it does not
\* move stays where it was.
LEMMA FsRenameOwners ==
    ASSUME OwnersInv, NEW t \in Tasks, task[t].at \notin {"idle", "chown"},
           NEW p, NEW q, NEW next \in Places, FsRename(t, p, q, next)
    PROVE  OwnersInv'
<1> DEFINE S == {p} \cup Children(p)
           was == Orphaned(S)
           Moves(r) == r = p \/ Under(r, p)
           To(r) == IF Moves(r) THEN q \o SubSeq(r, Len(p) + 1, Len(r)) ELSE r
           kept == {r \in DOMAIN tree : Moves(r) \/ r # q}
           from(r) == CHOOSE s \in kept : To(s) = r
<1>1. tree' = [r \in {To(s) : s \in kept} |-> was[from(r)]]
  BY DEF FsRename, Renamed
<1>2. TasksOK' /\ (\A s \in Tasks \ {t} : task'[s] = task[s])
  BY GotoStep DEF FsRename, OwnersInv
<1>3. ASSUME NEW r \in DOMAIN tree'
      PROVE  from(r) \in DOMAIN tree /\ To(from(r)) = r /\ tree'[r] = was[from(r)]
  <2> HIDE DEF To, was
  <2>1. \E s \in kept : To(s) = r
    BY <1>1
  <2>2. from(r) \in kept /\ To(from(r)) = r
    BY <2>1
  <2> QED BY <1>1, <2>2
<1>4. TreeOK'
  <2> HIDE DEF from, To, S
  <2> QED BY <1>3, OrphanedIs DEF OwnersInv, TreeOK
<1>5. ASSUME NEW r \in DOMAIN tree', tree'[r].owner = Server
      PROVE  r \in DOMAIN tree /\ tree[r].owner = Server
  <2> DEFINE s == from(r)
  <2>1. s \in DOMAIN tree /\ To(s) = r /\ tree'[r] = was[s]
    BY <1>3
  <2>2. s \in S <=> Moves(s)
    BY <2>1 DEF Children
  <2> HIDE DEF s, from, S
  <2>3. CASE Moves(s)
    BY <1>5, <2>1, <2>2, <2>3, OrphanedIs DEF OwnersInv
  <2>4. CASE ~Moves(s)
    BY <1>5, <2>1, <2>2, <2>4, OrphanedIs
  <2> QED BY <2>3, <2>4
<1> HIDE DEF from, To, kept, Moves, S, was
<1> QED BY <1>2, <1>4, <1>5, OtherStep

\* A request that fails awaits no owner any more.
LEMMA FailsOwners == ASSUME OwnersInv, NEW t \in Tasks, Fails(t) PROVE OwnersInv'
<1>1. task[t] # Idle /\ Done(t)
      /\ tree' = IF At(t, "chown") THEN Orphaned({task[t].path}) ELSE tree
  BY DEF Fails
<1>2. CASE At(t, "chown")
  <2>1. tree' = Orphaned({task[t].path})
    BY <1>1, <1>2
  <2>2. DOMAIN tree' = DOMAIN tree /\ TreeOK'
    BY <2>1, OrphanedIs DEF OwnersInv, TreeOK
  <2>3. \A q \in DOMAIN tree : IF q = task[t].path THEN tree'[q].owner # Server
                                                   ELSE tree'[q] = tree[q]
    BY <2>1, OrphanedIs DEF OwnersInv
  <2> QED BY <1>1, <1>2, <2>2, <2>3, ChownEnds
<1>3. CASE ~At(t, "chown")
  <2>1. task[t].at \notin {"idle", "chown"}
    BY <1>1, <1>3 DEF At, OwnersInv, TasksOK, Asked, Places
  <2> QED BY <1>1, <1>3, <2>1, QuietStep
<1> QED BY <1>2, <1>3

----------------------------------------------------------------------------
(* The owners *)

LEMMA StartOwners == ASSUME OwnersInv, NEW t \in Tasks, Start(t) PROVE OwnersInv'
<1>1. PICK u \in Users, p \in Paths :
        \/ WriteFile(t, u, p) \/ MakeDirectory(t, u, p) \/ DeleteItem(t, u, p)
        \/ \E q \in Paths :
             Rename(t, u, p, q) \/ RenameNoReplace(t, u, p, q) \/ RenameExchange(t, u, p, q)
        \/ \E n \in Attributes : SetXattr(t, u, p, n) \/ RemoveXattr(t, u, p, n)
  BY DEF Start
<1>2. \A q \in Paths : Request(u, p, q) \in Asked
  BY AskedRequest
<1>3. CASE WriteFile(t, u, p) \/ MakeDirectory(t, u, p) \/ DeleteItem(t, u, p)
  <2>1. \E op, here : here \in Places /\ Begin(t, op, here, Request(u, p, p))
    BY <1>3 DEF WriteFile, MakeDirectory, DeleteItem, Places
  <2> QED BY <1>2, <2>1, BeginStep
<1>4. ASSUME NEW q \in Paths,
             Rename(t, u, p, q) \/ RenameNoReplace(t, u, p, q) \/ RenameExchange(t, u, p, q)
      PROVE  OwnersInv'
  <2>1. \E op, here : here \in Places /\ Begin(t, op, here, Request(u, p, q))
    BY <1>4 DEF Rename, RenameNoReplace, RenameExchange, Places
  <2> QED BY <1>2, <2>1, BeginStep
<1>5. ASSUME NEW n \in Attributes, SetXattr(t, u, p, n) \/ RemoveXattr(t, u, p, n)
      PROVE  OwnersInv'
  <2>1. ItemAt(p) \in Items \cup {NoItem}
    BY DEF OwnersInv, TreeOK, Item, ItemAt
  <2> DEFINE r == Request(u, p, p)
             x == [r EXCEPT !.name = n]
             y == [r EXCEPT !.name = n, !.of = ItemAt(p)]
  <2>2. (Begin(t, "unset", "remove_one", x) /\ x \in Asked) \/ (Begin(t, "set", "count", y) /\ y \in Asked)
    <3>1. r \in Asked
      BY <1>2
    <3> HIDE DEF r
    <3>2. x \in Asked /\ y \in Asked
      BY <2>1, <3>1, AskedAttribute
    <3> QED BY <1>5, <3>2 DEF SetXattr, RemoveXattr, r
  <2> HIDE DEF x, y
  <2> QED BY <2>2, BeginStep DEF Places
<1> QED BY <1>1, <1>3, <1>4, <1>5

LEMMA StepOwners == ASSUME OwnersInv, NEW t \in Tasks, Step(t) PROVE OwnersInv'
<1>1. CASE Stat(t) \/ NoReplace(t)
  <2>1. task[t].at \notin {"idle", "chown"} /\ UNCHANGED tree
    BY <1>1 DEF Stat, NoReplace, GoesOn, At
  <2>2. Done(t) \/ \E here \in Places : Goto(t, here)
    BY <1>1 DEF Stat, NoReplace, GoesOn, Places
  <2> QED BY <2>1, <2>2, QuietStep
<1>2. CASE RemoveAll(t) \/ Count(t) \/ Insert(t) \/ Update(t) \/ RemoveOne(t)
  <2>1. task[t].at \notin {"idle", "chown"} /\ UNCHANGED tree
    BY <1>2 DEF RemoveAll, Count, Insert, Update, RemoveOne, At
  <2>2. Done(t) \/ \E here \in Places : Goto(t, here)
    BY <1>2 DEF RemoveAll, Count, Insert, Update, RemoveOne, Places
  <2> QED BY <2>1, <2>2, QuietStep
<1>3. CASE RenameRows(t) \/ ExchangeRows(t)
  <2>1. task[t].at \notin {"idle", "chown"} /\ UNCHANGED tree
    BY <1>3 DEF RenameRows, ExchangeRows, UpdateRows, At
  <2>2. Done(t) \/ \E here \in Places : Goto(t, here)
    BY <1>3 DEF RenameRows, ExchangeRows, UpdateRows, Places
  <2> QED BY <2>1, <2>2, QuietStep
<1>4. CASE FsRenamePlain(t) \/ Swap(t)
  <2>1. task[t].at \notin {"idle", "chown"} /\ \E p, q : \E next \in Places : FsRename(t, p, q, next)
    BY <1>4 DEF FsRenamePlain, Swap, At, Places
  <2> QED BY <2>1, FsRenameOwners
<1>5. CASE Open(t) \/ CreateDir(t) \/ Chown(t) \/ Delete(t)
  BY <1>5, OpenOwners, CreateDirOwners, ChownOwners, DeleteOwners
<1> QED BY <1>1, <1>2, <1>3, <1>4, <1>5 DEF Step

\* However requests interleave and fail, an item the server owns has its chown
\* on the way, unless a rename has moved it from under it, a write has created
\* it anew after a delete, or its request was answered with an error
\* (storage.rs:189-190, 263-276).
THEOREM OwnersAreSet == Spec => []OwnersSet
<1>1. Init => OwnersInv
  BY DEF Init, OwnersInv, TasksOK, TreeOK, OwnersSet
<1>2. OwnersInv /\ [Next]_vars => OwnersInv'
  <2> SUFFICES ASSUME OwnersInv, [Next]_vars PROVE OwnersInv'
    OBVIOUS
  <2>1. CASE Next
    BY <2>1, StartOwners, StepOwners, FailsOwners DEF Next
  <2>2. CASE UNCHANGED vars
    BY <2>2 DEF vars, OwnersInv, TasksOK, TreeOK, OwnersSet, At
  <2> QED BY <2>1, <2>2
<1>3. OwnersInv => OwnersSet
  BY DEF OwnersInv
<1> QED BY <1>1, <1>2, <1>3, PTL DEF Spec

----------------------------------------------------------------------------
(* Paths *)

Path == Seq(Letters)
Within(r, p) == r = p \/ Under(r, p)

LEMMA PathIs ==
    ASSUME NEW p \in Path
    PROVE  /\ Len(p) \in Nat /\ (Len(p) = 0 <=> p = <<>>)
           /\ \A i \in 1 .. Len(p) : p[i] \in Letters
BY LenProperties, ElementOfSeq, EmptySeq DEF Path

LEMMA SamePath ==
    ASSUME NEW p \in Path, NEW q \in Path, Len(p) = Len(q), \A i \in 1 .. Len(p) : p[i] = q[i]
    PROVE  p = q
BY SeqEqual DEF Path

LEMMA Beginning ==
    ASSUME NEW p \in Path, NEW n \in 0 .. Len(p)
    PROVE  /\ SubSeq(p, 1, n) \in Path /\ Len(SubSeq(p, 1, n)) = n
           /\ \A i \in 1 .. n : SubSeq(p, 1, n)[i] = p[i]
<1>1. Len(p) \in Nat /\ \A i \in 1 .. n : p[i] \in Letters
  BY PathIs
<1> QED BY <1>1, SubSeqProperties DEF Path

\* A path under another agrees with it as far as that goes.
LEMMA UnderIs ==
    ASSUME NEW p \in Path, NEW x \in Path
    PROVE  Under(p, x) <=> Len(x) < Len(p) /\ \A i \in 1 .. Len(x) : p[i] = x[i]
<1>1. Len(p) \in Nat /\ Len(x) \in Nat
  BY PathIs
<1>2. Under(p, x) <=> Len(x) <= Len(p) /\ SubSeq(x, 1, Len(x)) = SubSeq(p, 1, Len(x)) /\ x # p
  BY DEF Under, IsStrictPrefix, IsPrefix
<1>3. SubSeq(x, 1, Len(x)) = x
  BY SubSeqFull DEF Path
<1>4. ASSUME Len(x) <= Len(p) PROVE x = SubSeq(p, 1, Len(x)) <=> \A i \in 1 .. Len(x) : p[i] = x[i]
  <2>1. Len(x) \in 0 .. Len(p)
    BY <1>1, <1>4
  <2>2. /\ SubSeq(p, 1, Len(x)) \in Path /\ Len(SubSeq(p, 1, Len(x))) = Len(x)
        /\ \A i \in 1 .. Len(x) : SubSeq(p, 1, Len(x))[i] = p[i]
    BY <2>1, Beginning
  <2> QED BY <2>2, SamePath
<1>5. ASSUME Len(x) = Len(p), \A i \in 1 .. Len(x) : p[i] = x[i] PROVE x = p
  BY <1>5, SamePath
<1> QED BY <1>1, <1>2, <1>3, <1>4, <1>5

LEMMA UnderOrder ==
    ASSUME NEW p \in Path, NEW q \in Path
    PROVE  /\ ~Under(p, p) /\ (Under(p, q) => ~Under(q, p) /\ p # q)
           /\ \A x \in Path : Under(p, q) /\ Under(q, x) => Under(p, x)
           /\ \A x \in Path : Within(x, p) /\ Within(x, q) => Within(p, q) \/ Within(q, p)
<1>1. Len(p) \in Nat /\ Len(q) \in Nat
  BY PathIs
<1>2. ~Under(p, p) /\ (Under(p, q) => ~Under(q, p) /\ p # q)
  BY <1>1, UnderIs
<1>3. ASSUME NEW x \in Path, Under(p, q), Under(q, x) PROVE Under(p, x)
  <2>1. Len(x) \in Nat
    BY PathIs
  <2>2. /\ Len(q) < Len(p) /\ Len(x) < Len(q)
        /\ \A i \in 1 .. Len(q) : p[i] = q[i]
        /\ \A i \in 1 .. Len(x) : q[i] = x[i]
    BY <1>3, UnderIs
  <2>3. \A i \in 1 .. Len(x) : p[i] = x[i]
    BY <1>1, <2>1, <2>2
  <2> QED BY <1>1, <2>1, <2>2, <2>3, UnderIs
<1>4. ASSUME NEW x \in Path, Within(x, p), Within(x, q) PROVE Within(p, q) \/ Within(q, p)
  <2>1. Len(x) \in Nat
    BY PathIs
  <2>2. /\ \A i \in 1 .. Len(p) : x[i] = p[i]
        /\ \A i \in 1 .. Len(q) : x[i] = q[i]
    BY <1>4, UnderIs DEF Within
  <2>3. CASE Len(p) = Len(q)
    BY <2>2, <2>3, SamePath DEF Within
  <2>4. CASE Len(p) < Len(q)
    <3>1. \A i \in 1 .. Len(p) : q[i] = p[i]
      BY <1>1, <2>2, <2>4
    <3> QED BY <2>4, <3>1, UnderIs DEF Within
  <2>5. CASE Len(q) < Len(p)
    <3>1. \A i \in 1 .. Len(q) : p[i] = q[i]
      BY <1>1, <2>2, <2>5
    <3> QED BY <2>5, <3>1, UnderIs DEF Within
  <2> QED BY <1>1, <2>3, <2>4, <2>5
<1> QED BY <1>2, <1>3, <1>4

\* A path is in the directory that its front names, and in those above it.
LEMMA FrontIs ==
    ASSUME NEW p \in Path, p # <<>>
    PROVE  /\ Front(p) \in Path /\ Len(Front(p)) = Len(p) - 1 /\ Under(p, Front(p))
           /\ \A i \in 1 .. Len(p) - 1 : Front(p)[i] = p[i]
           /\ \A x \in Path : Under(p, x) => Within(Front(p), x)
<1>1. Len(p) \in Nat \ {0} /\ Len(p) - 1 \in 0 .. Len(p)
  BY PathIs
<1> DEFINE f == Front(p)
<1>2. /\ f \in Path /\ Len(f) = Len(p) - 1
      /\ \A i \in 1 .. Len(p) - 1 : f[i] = p[i]
  BY <1>1, Beginning DEF Front
<1> HIDE DEF f
<1>3. Under(p, f)
  BY <1>1, <1>2, UnderIs
<1>4. ASSUME NEW x \in Path, Under(p, x) PROVE Within(f, x)
  <2>1. Len(x) \in Nat /\ Len(x) < Len(p) /\ \A i \in 1 .. Len(x) : p[i] = x[i]
    BY <1>4, PathIs, UnderIs
  <2>2. \A i \in 1 .. Len(x) : f[i] = x[i]
    BY <1>1, <1>2, <2>1
  <2>3. CASE Len(x) = Len(p) - 1
    BY <1>2, <2>2, <2>3, SamePath DEF Within
  <2>4. CASE Len(x) < Len(p) - 1
    BY <1>2, <2>2, <2>4, UnderIs DEF Within
  <2> QED BY <1>1, <2>1, <2>3, <2>4
<1> QED BY <1>2, <1>3, <1>4 DEF f

\* What requests name, and the name an exchange uses for it.
LEMMA PathsAre ==
    ASSUME NEW p \in Paths
    PROVE  /\ p \in Path /\ p # <<>> /\ Len(p) \in Nat \ {0} /\ \A i \in 1 .. Len(p) : p[i] \in Components
           /\ SwapPath(p) \in Path /\ Len(SwapPath(p)) = Len(p) /\ SwapPath(p)[Len(p)] \in SwapNames
           /\ \A i \in 1 .. Len(p) - 1 : SwapPath(p)[i] = p[i]
<1>1. p \in Seq(Components) /\ p # <<>>
  BY PathsAssumption
<1>2. p \in Path
  BY <1>1, SeqMonotonic DEF Path, Letters
<1>3. Len(p) \in Nat \ {0} /\ \A i \in 1 .. Len(p) : p[i] \in Components
  BY <1>1, <1>2, PathIs, ElementOfSeq
<1> DEFINE f == Front(p)
           n == SwapName[Last(p)]
<1>4. f \in Path /\ Len(f) = Len(p) - 1 /\ \A i \in 1 .. Len(p) - 1 : f[i] = p[i]
  BY <1>1, <1>2, FrontIs
<1>5. n \in SwapNames /\ n \in Letters
  <2>1. Last(p) \in Components
    BY <1>3 DEF Last
  <2> QED BY <2>1 DEF SwapNames, Letters
<1> HIDE DEF f, n
<1>6. /\ Append(f, n) \in Path /\ Len(Append(f, n)) = Len(f) + 1 /\ Append(f, n)[Len(f) + 1] = n
      /\ \A i \in 1 .. Len(f) : Append(f, n)[i] = f[i]
  BY <1>4, <1>5, AppendProperties DEF Path
<1>7. SwapPath(p) = Append(f, n)
  BY DEF SwapPath, f, n
<1>8. Len(f) + 1 = Len(p)
  BY <1>3, <1>4
<1> QED BY <1>1, <1>2, <1>3, <1>4, <1>5, <1>6, <1>7, <1>8

\* The name an exchange uses lies beside the path, and no request names it or
\* anything under it.
LEMMA SwapPathIs ==
    ASSUME NEW p \in Paths, NEW q \in Paths
    PROVE  /\ SwapPath(p) # q /\ ~Under(q, SwapPath(p)) /\ ~Under(SwapPath(p), p)
           /\ Under(SwapPath(p), q) => Under(p, q)
           /\ Front(SwapPath(p)) = Front(p)
<1>1. /\ p \in Path /\ q \in Path /\ Len(p) \in Nat \ {0} /\ Len(q) \in Nat /\ SwapPath(p) \in Path
      /\ Len(SwapPath(p)) = Len(p) /\ SwapPath(p)[Len(p)] \in SwapNames
      /\ \A i \in 1 .. Len(p) - 1 : SwapPath(p)[i] = p[i]
      /\ \A i \in 1 .. Len(q) : q[i] \in Components
      /\ p # <<>> /\ SwapPath(p) # <<>>
  <2>1. Len(SwapPath(p)) # 0
    BY PathsAre
  <2> QED BY <2>1, PathsAre, PathIs
<1>2. ASSUME q = SwapPath(p) \/ Under(q, SwapPath(p)) PROVE FALSE
  <2>1. Len(p) \in 1 .. Len(q) /\ q[Len(p)] = SwapPath(p)[Len(p)]
    BY <1>1, <1>2, UnderIs
  <2> QED BY <1>1, <2>1, SwapAssumption
<1>3. ~Under(SwapPath(p), p)
  BY <1>1, UnderIs
<1>4. ASSUME Under(SwapPath(p), q) PROVE Under(p, q)
  <2>1. Len(q) < Len(p) /\ \A i \in 1 .. Len(q) : SwapPath(p)[i] = q[i]
    BY <1>1, <1>4, UnderIs
  <2>2. \A i \in 1 .. Len(q) : p[i] = q[i]
    BY <1>1, <2>1
  <2> QED BY <1>1, <2>1, <2>2, UnderIs
<1>5. Front(SwapPath(p)) = Front(p)
  <2>1. /\ Front(p) \in Path /\ Len(Front(p)) = Len(p) - 1
        /\ \A i \in 1 .. Len(p) - 1 : Front(p)[i] = p[i]
    BY <1>1, FrontIs
  <2>2. /\ Front(SwapPath(p)) \in Path /\ Len(Front(SwapPath(p))) = Len(p) - 1
        /\ \A i \in 1 .. Len(p) - 1 : Front(SwapPath(p))[i] = SwapPath(p)[i]
    BY <1>1, FrontIs
  <2> QED BY <1>1, <2>1, <2>2, SamePath
<1> QED BY <1>2, <1>3, <1>4, <1>5

----------------------------------------------------------------------------
(* Moves *)

\* Where what is at r or in p gets to when p becomes q.
Rebased(r, p, q) == q \o SubSeq(r, Len(p) + 1, Len(r))

LEMMA RebasedIs ==
    ASSUME NEW p \in Path, NEW q \in Path, NEW r \in Path, Within(r, p)
    PROVE  /\ Rebased(r, p, q) \in Path
           /\ Len(Rebased(r, p, q)) = Len(q) + Len(r) - Len(p)
           /\ \A i \in 1 .. Len(q) : Rebased(r, p, q)[i] = q[i]
           /\ \A i \in Len(q) + 1 .. Len(q) + Len(r) - Len(p) : Rebased(r, p, q)[i] = r[i - Len(q) + Len(p)]
<1>1. Len(r) \in Nat /\ Len(p) \in Nat /\ Len(q) \in Nat /\ Len(p) <= Len(r)
  BY UnderIs, PathIs DEF Within
<1> DEFINE m == Len(p) + 1
           n == Len(r)
           s == SubSeq(r, m, n)
<1>2. m \in Int /\ n \in Int /\ \A i \in m .. n : r[i] \in Letters
  BY <1>1, PathIs
<1>3. s \in Path /\ Len(s) = (IF m <= n THEN n - m + 1 ELSE 0) /\ \A i \in 1 .. n - m + 1 : s[i] = r[m + i - 1]
  <2> HIDE DEF m, n
  <2> QED BY <1>2, SubSeqProperties DEF Path
<1>4. Len(s) = n - Len(p) /\ \A i \in 1 .. Len(s) : s[i] = r[Len(p) + i]
  BY <1>1, <1>3
<1> HIDE DEF s
<1>5. /\ q \o s \in Path /\ Len(q \o s) = Len(q) + Len(s)
      /\ \A i \in 1 .. Len(q) + Len(s) : (q \o s)[i] = IF i <= Len(q) THEN q[i] ELSE s[i - Len(q)]
  BY <1>1, <1>3, ConcatProperties DEF Path
<1>6. Rebased(r, p, q) = q \o s
  BY DEF Rebased, s
<1>7. Len(q) + Len(s) = Len(q) + Len(r) - Len(p)
  BY <1>1, <1>4
<1>8. ASSUME NEW i \in Len(q) + 1 .. Len(q) + Len(r) - Len(p) PROVE (q \o s)[i] = r[i - Len(q) + Len(p)]
  <2>1. i \in 1 .. Len(q) + Len(s) /\ ~(i <= Len(q)) /\ i - Len(q) \in 1 .. Len(s)
        /\ Len(p) + (i - Len(q)) = i - Len(q) + Len(p)
    BY <1>1, <1>7
  <2> QED BY <1>4, <1>5, <2>1
<1> QED BY <1>1, <1>5, <1>6, <1>7, <1>8

LEMMA RebasedBack ==
    ASSUME NEW p \in Path, NEW q \in Path, NEW r \in Path, Within(r, p)
    PROVE  /\ Within(Rebased(r, p, q), q) /\ (r = p <=> Rebased(r, p, q) = q)
           /\ Rebased(Rebased(r, p, q), q, p) = r
<1> DEFINE y == Rebased(r, p, q)
<1>1. Len(r) \in Nat /\ Len(p) \in Nat /\ Len(q) \in Nat
  BY PathIs
<1>2. Len(p) <= Len(r) /\ (Len(p) = Len(r) => r = p) /\ (r = p => Len(r) = Len(p))
      /\ \A i \in 1 .. Len(p) : r[i] = p[i]
  BY <1>1, UnderIs DEF Within
<1>3. /\ y \in Path /\ Len(y) = Len(q) + Len(r) - Len(p)
      /\ \A i \in 1 .. Len(q) : y[i] = q[i]
      /\ \A i \in Len(q) + 1 .. Len(q) + Len(r) - Len(p) : y[i] = r[i - Len(q) + Len(p)]
  BY RebasedIs
<1> HIDE DEF y
<1>4. r = p => y = q
  BY <1>1, <1>3, SamePath
<1>5. y = q => r = p
  BY <1>1, <1>2, <1>3
<1>6. Within(y, q)
  <2>1. CASE r = p
    BY <1>4, <2>1 DEF Within
  <2>2. CASE Len(p) < Len(r)
    BY <1>1, <1>3, <2>2, UnderIs DEF Within
  <2> QED BY <1>1, <1>2, <2>1, <2>2
<1> DEFINE z == Rebased(y, q, p)
<1>7. /\ z \in Path /\ Len(z) = Len(p) + Len(y) - Len(q)
      /\ \A i \in 1 .. Len(p) : z[i] = p[i]
      /\ \A i \in Len(p) + 1 .. Len(p) + Len(y) - Len(q) : z[i] = y[i - Len(p) + Len(q)]
  BY <1>3, <1>6, RebasedIs
<1> HIDE DEF z
<1>8. Len(z) = Len(r)
  BY <1>1, <1>3, <1>7
<1>9. ASSUME NEW i \in 1 .. Len(r) PROVE z[i] = r[i]
  <2>1. CASE i \in 1 .. Len(p)
    BY <1>2, <1>7, <2>1
  <2>2. CASE i \in Len(p) + 1 .. Len(r)
    <3> DEFINE j == i - Len(p) + Len(q)
    <3>1. i \in Len(p) + 1 .. Len(p) + Len(y) - Len(q) /\ j \in Len(q) + 1 .. Len(q) + Len(r) - Len(p)
          /\ j - Len(q) + Len(p) = i
      BY <1>1, <1>3, <2>2
    <3>2. z[i] = y[j] /\ y[j] = r[j - Len(q) + Len(p)]
      <4> HIDE DEF j
      <4>1. z[i] = y[i - Len(p) + Len(q)]
        BY <1>7, <3>1
      <4> QED BY <1>3, <3>1, <4>1 DEF j
    <3> QED BY <3>1, <3>2
  <2> QED BY <1>1, <1>9, <2>1, <2>2
<1>10. z = r
  BY <1>7, <1>8, <1>9, SamePath
<1> QED BY <1>4, <1>5, <1>6, <1>10 DEF y, z

\* What moves keeps its order, so the directories above it move along.
LEMMA RebasedOrder ==
    ASSUME NEW p \in Path, NEW q \in Path, NEW r \in Path, NEW x \in Path, Within(r, p), Within(x, p), Under(r, x)
    PROVE  Under(Rebased(r, p, q), Rebased(x, p, q))
<1> DEFINE y == Rebased(r, p, q)
           z == Rebased(x, p, q)
<1>1. Len(r) \in Nat /\ Len(p) \in Nat /\ Len(q) \in Nat /\ Len(x) \in Nat
  BY PathIs
<1>2. Len(p) <= Len(x) /\ Len(x) < Len(r) /\ \A i \in 1 .. Len(x) : r[i] = x[i]
  BY <1>1, UnderIs DEF Within
<1>3. /\ y \in Path /\ Len(y) = Len(q) + Len(r) - Len(p)
      /\ \A i \in 1 .. Len(q) : y[i] = q[i]
      /\ \A i \in Len(q) + 1 .. Len(q) + Len(r) - Len(p) : y[i] = r[i - Len(q) + Len(p)]
  BY RebasedIs
<1>4. /\ z \in Path /\ Len(z) = Len(q) + Len(x) - Len(p)
      /\ \A i \in 1 .. Len(q) : z[i] = q[i]
      /\ \A i \in Len(q) + 1 .. Len(q) + Len(x) - Len(p) : z[i] = x[i - Len(q) + Len(p)]
  BY RebasedIs
<1> HIDE DEF y, z
<1>5. ASSUME NEW i \in 1 .. Len(z) PROVE y[i] = z[i]
  <2>1. CASE i \in 1 .. Len(q)
    BY <1>3, <1>4, <2>1
  <2>2. CASE i \in Len(q) + 1 .. Len(q) + Len(x) - Len(p)
    <3>1. i \in Len(q) + 1 .. Len(q) + Len(r) - Len(p) /\ i - Len(q) + Len(p) \in 1 .. Len(x)
      BY <1>1, <1>2, <2>2
    <3> QED BY <1>2, <1>3, <1>4, <2>2, <3>1
  <2> QED BY <1>1, <1>4, <1>5, <2>1, <2>2
<1>6. Len(z) < Len(y)
  BY <1>1, <1>2, <1>3, <1>4
<1>7. Under(y, z)
  BY <1>3, <1>4, <1>5, <1>6, UnderIs
<1> QED BY <1>7 DEF y, z

----------------------------------------------------------------------------
(* The tree *)

\* Every item is in directories all the way up, and no item is there twice.
\* (The directory alone would not do: when p moves, what would lie between p
\* and the end of a path under it is not known to be there.)
Rooted ==
    /\ DOMAIN tree \subseteq Path \ {<<>>}
    /\ \A p \in DOMAIN tree : \A x \in Path : Under(p, x) => IsDir(x)
    /\ \A p, q \in DOMAIN tree : tree[p].id = tree[q].id => p = q

\* What a rename of p to q makes of the tree.
Moved(p, q) ==
    /\ DOMAIN tree' = {Rebased(r, p, q) : r \in {r \in DOMAIN tree : Within(r, p)}}
                        \cup {r \in DOMAIN tree : ~Within(r, p) /\ r # q}
    /\ \A r \in DOMAIN tree : Within(r, p) => /\ tree'[Rebased(r, p, q)].id = tree[r].id
                                              /\ tree'[Rebased(r, p, q)].kind = tree[r].kind
    /\ \A r \in DOMAIN tree : ~Within(r, p) /\ r # q => tree'[r] = tree[r] /\ ~Within(r, q)
    /\ p \in DOMAIN tree /\ p # q /\ ~Under(q, p) /\ ~Under(p, q)

\* A path above another has that one under it.
LEMMA NotAbove ==
    ASSUME Rooted, NEW p \in DOMAIN tree, NEW q \in Path \ {<<>>}, CanRename(p, q) PROVE ~Under(p, q)
<1> SUFFICES ASSUME Under(p, q) PROVE FALSE
  OBVIOUS
<1>1. IsDir(q)
  BY DEF Rooted
<1>2. q \in DOMAIN tree
  BY <1>1 DEF IsDir
<1> QED BY <1>2 DEF CanRename, Children

LEMMA RenamedIs ==
    ASSUME TreeOK, Rooted, NEW p \in Path, NEW q \in Path \ {<<>>}, p # q,
           CanRename(p, q), tree' = Renamed(p, q)
    PROVE  Moved(p, q)
<1>1. p \in DOMAIN tree /\ DOMAIN tree \subseteq Path /\ ~Under(q, p) /\ ~Under(p, q)
  BY NotAbove DEF Rooted, CanRename
<1> DEFINE was == Orphaned({p} \cup Children(p))
           Moves(r) == r = p \/ Under(r, p)
           To(r) == IF Moves(r) THEN q \o SubSeq(r, Len(p) + 1, Len(r)) ELSE r
           kept == {r \in DOMAIN tree : Moves(r) \/ r # q}
           from(r) == CHOOSE s \in kept : To(s) = r
<1>2. tree' = [r \in {To(s) : s \in kept} |-> was[from(r)]]
  BY DEF Renamed
<1>3. \A r \in DOMAIN tree : /\ was[r].id = tree[r].id /\ was[r].kind = tree[r].kind
                             /\ ~Within(r, p) => was[r] = tree[r]
  <2>1. \A r \in DOMAIN tree : r \in {p} \cup Children(p) => Within(r, p)
    BY DEF Children, Within
  <2> QED BY <2>1, OrphanedIs
<1> HIDE DEF was
<1>4. ASSUME NEW r \in DOMAIN tree, ~Within(r, p), r # q PROVE ~Within(r, q)
  <2> SUFFICES ASSUME Under(r, q) PROVE FALSE
    BY <1>4 DEF Within
  <2>1. q \in DOMAIN tree
    <3>1. IsDir(q)
      BY DEF Rooted
    <3> QED BY <3>1 DEF IsDir
  <2> QED BY <2>1 DEF CanRename, Children
<1>5. ASSUME NEW r \in kept
      PROVE  /\ r \in Path /\ r \in DOMAIN tree
             /\ Within(r, p) => To(r) = Rebased(r, p, q) /\ Within(To(r), q) /\ Rebased(To(r), q, p) = r
             /\ ~Within(r, p) => To(r) = r /\ ~Within(To(r), q)
  <2>1. r \in Path /\ r \in DOMAIN tree /\ (~Within(r, p) => r # q)
    BY <1>1 DEF Within
  <2>2. /\ Within(r, p) => To(r) = Rebased(r, p, q)
        /\ ~Within(r, p) => To(r) = r
    BY DEF Within, Rebased
  <2> HIDE DEF To, kept
  <2> QED BY <1>1, <1>4, <2>1, <2>2, RebasedBack
<1>6. ASSUME NEW r \in kept, NEW s \in kept, To(r) = To(s) PROVE r = s
  <2> HIDE DEF To, kept
  <2> QED BY <1>5, <1>6
<1>7. ASSUME NEW r \in kept PROVE from(To(r)) = r
  <2> HIDE DEF To, kept
  <2> QED BY <1>6
<1>8. DOMAIN tree' = {To(s) : s \in kept} /\ \A r \in kept : tree'[To(r)] = was[r]
  <2>1. \A r \in kept : To(r) \in {To(s) : s \in kept}
    OBVIOUS
  <2> HIDE DEF To, kept, from
  <2> QED BY <1>2, <1>7, <2>1
<1>9. \A r \in DOMAIN tree : r \in kept <=> Within(r, p) \/ r # q
  BY DEF Within
<1>10. kept \subseteq DOMAIN tree
  OBVIOUS
<1> HIDE DEF To, kept, from
<1>11. DOMAIN tree' = {Rebased(r, p, q) : r \in {r \in DOMAIN tree : Within(r, p)}}
                        \cup {r \in DOMAIN tree : ~Within(r, p) /\ r # q}
  BY <1>5, <1>8, <1>9, <1>10
<1>12. /\ \A r \in DOMAIN tree : Within(r, p) => tree'[Rebased(r, p, q)] = was[r]
       /\ \A r \in DOMAIN tree : ~Within(r, p) /\ r # q => tree'[r] = was[r]
  BY <1>5, <1>8, <1>9
<1>13. \A r \in DOMAIN tree : Within(r, p) => /\ tree'[Rebased(r, p, q)].id = tree[r].id
                                             /\ tree'[Rebased(r, p, q)].kind = tree[r].kind
  BY <1>3, <1>12
<1>14. \A r \in DOMAIN tree : ~Within(r, p) /\ r # q => tree'[r] = tree[r] /\ ~Within(r, q)
  BY <1>3, <1>4, <1>12
<1> QED BY <1>1, <1>11, <1>13, <1>14 DEF Moved

LEMMA RenameRooted ==
    ASSUME Rooted, NEW p, NEW q \in Path \ {<<>>}, Moved(p, q), IsDir(Front(q)) PROVE Rooted'
<1>1. /\ p \in DOMAIN tree /\ p \in Path /\ DOMAIN tree \subseteq Path \ {<<>>}
      /\ \A r \in DOMAIN tree' :
            \/ \E s \in DOMAIN tree : Within(s, p) /\ r = Rebased(s, p, q) /\ tree'[r].id = tree[s].id
            \/ r \in DOMAIN tree /\ ~Within(r, p) /\ r # q /\ tree'[r] = tree[r] /\ ~Within(r, q)
  BY DEF Rooted, Moved
<1>2. p # q /\ ~Under(q, p) /\ ~Under(p, q)
  BY DEF Moved
<1>3. ASSUME NEW r \in DOMAIN tree' PROVE r \in Path \ {<<>>}
  <2>1. ASSUME NEW s \in DOMAIN tree, Within(s, p), r = Rebased(s, p, q) PROVE r \in Path \ {<<>>}
    <3>1. s \in Path /\ Rebased(s, p, q) \in Path /\ Within(Rebased(s, p, q), q) /\ q # <<>>
      BY <1>1, <2>1, RebasedIs, RebasedBack
    <3>2. Len(q) \in Nat /\ Len(q) # 0 /\ (Len(r) = 0 <=> r = <<>>) /\ Len(r) \in Nat
      BY <2>1, <3>1, PathIs
    <3> QED BY <2>1, <3>1, <3>2, UnderIs DEF Within
  <2> QED BY <1>1, <2>1
\* A directory that stays is one afterwards.
<1>4. ASSUME NEW x \in Path, IsDir(x), ~Within(x, p), x # q PROVE IsDir(x)'
  <2>1. x \in DOMAIN tree => x \in DOMAIN tree' /\ tree'[x] = tree[x]
    BY <1>4 DEF Moved
  <2> QED BY <1>4, <2>1 DEF IsDir
\* And one that moves is one where it gets to.
<1>5. ASSUME NEW x \in Path, IsDir(x), Within(x, p) PROVE IsDir(Rebased(x, p, q))'
  <2>1. x # <<>>
    <3>1. Len(p) \in Nat /\ Len(p) # 0
      BY <1>1, PathIs
    <3> QED BY <1>1, <1>5, <3>1, UnderIs, PathIs DEF Within
  <2>2. x \in DOMAIN tree /\ tree[x].kind = "dir"
    BY <1>5, <2>1 DEF IsDir
  <2>3. Rebased(x, p, q) \in DOMAIN tree' /\ tree'[Rebased(x, p, q)].kind = tree[x].kind
    BY <1>5, <2>2 DEF Moved
  <2> QED BY <2>2, <2>3 DEF IsDir
<1>6. ASSUME NEW r \in DOMAIN tree', NEW x \in Path, Under(r, x) PROVE IsDir(x)'
  <2>1. CASE r \in DOMAIN tree /\ ~Within(r, p) /\ r # q /\ ~Within(r, q)
    <3>1. IsDir(x)
      BY <1>6, <2>1 DEF Rooted
    <3>2. x # q /\ ~Within(x, p)
      BY <1>1, <1>6, <2>1, UnderOrder DEF Within
    <3> QED BY <1>4, <3>1, <3>2
  <2>2. ASSUME NEW s \in DOMAIN tree, Within(s, p), r = Rebased(s, p, q) PROVE IsDir(x)'
    <3>1. s \in Path /\ r \in Path /\ Within(r, q) /\ Rebased(r, q, p) = s
      BY <1>1, <2>2, RebasedIs, RebasedBack
    <3>2. Within(r, x)
      BY <1>6 DEF Within
    <3>3. Within(q, x) \/ Within(x, q)
      BY <3>1, <3>2, UnderOrder
    <3>4. CASE Under(q, x)
      <4>1. Within(Front(q), x)
        BY <3>4, FrontIs
      <4>2. IsDir(x)
        <5>1. CASE x = Front(q)
          BY <5>1
        <5>2. CASE Under(Front(q), x)
          <6>1. Front(q) # <<>>
            BY <5>2, FrontIs, UnderIs, PathIs
          <6>2. Front(q) \in DOMAIN tree
            BY <6>1 DEF IsDir
          <6> QED BY <5>2, <6>2 DEF Rooted
        <5> QED BY <4>1, <5>1, <5>2 DEF Within
      <4>3. x # q /\ ~Within(x, p)
        BY <1>1, <1>2, <3>4, UnderOrder DEF Within
      <4> QED BY <1>4, <4>2, <4>3
    <3>5. CASE Within(x, q)
      <4> DEFINE y == Rebased(x, q, p)
      <4>1. y \in Path /\ Within(y, p) /\ Rebased(y, p, q) = x
        BY <1>1, <3>5, RebasedIs, RebasedBack
      <4>2. Under(s, y)
        BY <1>1, <1>6, <3>1, <3>5, RebasedOrder
      <4> HIDE DEF y
      <4>3. IsDir(y)
        BY <2>2, <4>1, <4>2 DEF Rooted
      <4> QED BY <1>5, <4>1, <4>3
    <3> QED BY <3>3, <3>4, <3>5 DEF Within
  <2> QED BY <1>1, <2>1, <2>2
<1>7. ASSUME NEW r \in DOMAIN tree', NEW s \in DOMAIN tree', tree'[r].id = tree'[s].id PROVE r = s
  <2>1. \A x \in DOMAIN tree : Within(x, p) => Within(Rebased(x, p, q), q)
    BY <1>1, RebasedBack
  <2>2. \A x, y \in DOMAIN tree : tree[x].id = tree[y].id => x = y
    BY DEF Rooted
  <2> QED BY <1>1, <1>7, <2>1, <2>2
<1> QED BY <1>3, <1>6, <1>7 DEF Rooted

----------------------------------------------------------------------------
(* Types *)

Where == Paths \cup {Exchanging}
Keys == Where \X Attributes
RowsOK == \A k \in DOMAIN rows : k \in Keys /\ rows[k] \in Items \cup {NoItem, Left}

Moving == {"rename", "noreplace", "swap_out", "swap_over", "swap_in"}
CallOK(r) ==
    /\ r.at \in {"count", "update", "insert", "remove_one"} => r.name \in Attributes
    /\ r.of \in Items \cup {NoItem}
    /\ r.at \in Moving => r.path # r.to

CallsOK == \A t \in Tasks : task[t] # Idle => CallOK(task[t])
TypeInv == OwnersInv /\ Rooted /\ RowsOK /\ CallsOK /\ overlaps \in 0 .. MaxOverlaps

\* The steps of a request: the places it goes from and to.
Arrows == {<<"stat", "open">>, <<"stat", "create">>, <<"create", "chown">>, <<"create_dir", "chown">>,
           <<"delete", "remove_all">>, <<"noreplace", "rename">>, <<"rename", "move_rows">>,
           <<"swap_out", "swap_over">>, <<"swap_over", "swap_in">>, <<"swap_in", "rows_out">>,
           <<"rows_out", "rows_over">>, <<"rows_over", "rows_in">>,
           <<"count", "update">>, <<"count", "insert">>}

LEMMA StepIs ==
    ASSUME NEW t \in Tasks, Step(t)
    PROVE  /\ task[t].at # "idle" /\ UNCHANGED overlaps
           /\ Done(t) \/ \E here \in Places : Goto(t, here) /\ <<task[t].at, here>> \in Arrows
<1> DEFINE OK == /\ task[t].at # "idle" /\ UNCHANGED overlaps
                 /\ Done(t) \/ \E here \in Places : Goto(t, here) /\ <<task[t].at, here>> \in Arrows
<1> USE DEF At, Arrows, Places
<1>1. CASE Stat(t) \/ NoReplace(t) \/ Count(t)
  BY <1>1 DEF Stat, NoReplace, GoesOn, Count
<1>2. CASE Open(t)
  BY <1>2 DEF Open
<1>3. CASE CreateDir(t) \/ Chown(t) \/ Delete(t)
  BY <1>3 DEF CreateDir, CreatesDir, Chown, Delete, RemoveItem
<1>4. CASE RemoveAll(t) \/ Insert(t) \/ Update(t) \/ RemoveOne(t)
  BY <1>4 DEF RemoveAll, Insert, Update, RemoveOne
<1>5. CASE FsRenamePlain(t) \/ Swap(t)
  BY <1>5 DEF FsRenamePlain, Swap, FsRename
<1>6. CASE RenameRows(t) \/ ExchangeRows(t)
  BY <1>6 DEF RenameRows, ExchangeRows, UpdateRows
<1> QED BY <1>1, <1>2, <1>3, <1>4, <1>5, <1>6 DEF Step

\* A request that goes on remembers what was asked.
LEMMA GotoIs ==
    ASSUME TasksOK, NEW t \in Tasks, task[t].at # "idle", NEW here \in Places, Goto(t, here)
    PROVE  \E y \in Asked : /\ task' = [task EXCEPT ![t] = y] /\ y.at = here /\ y # Idle
                            /\ y.op = task[t].op /\ y.path = task[t].path /\ y.to = task[t].to
                            /\ y.name = task[t].name /\ y.of = task[t].of
<1> DEFINE r == task[t]
           y == [r EXCEPT !.at = here]
<1>1. r \in Asked
  BY BusyTask
<1>2. task' = [task EXCEPT ![t] = y]
  BY DEF Goto
<1>3. /\ y.at = here /\ y \in Asked /\ here # "idle"
      /\ y.op = r.op /\ y.path = r.path /\ y.to = r.to /\ y.name = r.name /\ y.of = r.of
  BY <1>1 DEF Asked, Places
<1> HIDE DEF y
<1>4. y # Idle
  BY <1>3 DEF Idle
<1> QED BY <1>2, <1>3, <1>4

LEMMA CallsStep == ASSUME TasksOK, CallsOK, NEW t \in Tasks, Step(t) PROVE CallsOK'
<1>1. task[t] \in Asked /\ task[t] # Idle /\ CallOK(task[t])
  BY StepIs, BusyTask DEF CallsOK
<1>2. CASE Done(t)
  BY <1>2 DEF Done, CallsOK, TasksOK
<1>3. ASSUME NEW here \in Places, Goto(t, here), <<task[t].at, here>> \in Arrows PROVE CallsOK'
  <2>1. PICK y \in Asked : /\ task' = [task EXCEPT ![t] = y] /\ y.at = here
                           /\ y.path = task[t].path /\ y.to = task[t].to
                           /\ y.name = task[t].name /\ y.of = task[t].of
    BY <1>3, GotoIs, StepIs
  <2>2. CallOK(y)
    BY <1>1, <1>3, <2>1 DEF CallOK, Arrows, Moving
  <2> QED BY <2>1, <2>2 DEF CallsOK, TasksOK
<1> QED BY <1>2, <1>3, StepIs

\* What a request that starts asks for.
Asks(y) ==
    /\ y \in Asked
    /\ y.at \in {"stat", "create_dir", "delete", "rename", "noreplace", "swap_out", "count", "remove_one"}
    /\ y.at \in {"rename", "noreplace", "swap_out"} => y.path # y.to
    /\ y.at = "rename" => y.op = "rename"
    /\ y.at \in {"count", "remove_one"} => y.name \in Attributes
    /\ y.at = "count" => y.of = ItemAt(y.path)

\* A request starts.
Starts(t) ==
    /\ \E y : task' = [task EXCEPT ![t] = y] /\ Asks(y)
    /\ task[t] = Idle /\ UNCHANGED <<tree, rows>> /\ overlaps' <= MaxOverlaps
    /\ overlaps' = overlaps + Cardinality({s \in Tasks \ {t} : task[s] # Idle})

LEMMA BeginIs ==
    ASSUME NEW t \in Tasks, NEW r \in Asked, NEW op, NEW here \in Places, Begin(t, op, here, r),
           \A y \in Asked : /\ y.op = op /\ y.at = here /\ y.path = r.path /\ y.to = r.to
                            /\ y.name = r.name /\ y.of = r.of
                            => Asks(y)
    PROVE  Starts(t)
<1> DEFINE y == [r EXCEPT !.op = op, !.at = here]
<1>1. task' = [task EXCEPT ![t] = y] /\ op \in Requests
  BY DEF Begin
<1>2. y \in Asked /\ y.op = op /\ y.at = here /\ y.path = r.path /\ y.to = r.to /\ y.name = r.name /\ y.of = r.of
  BY <1>1 DEF Asked
<1> HIDE DEF y
<1>3. Asks(y)
  BY <1>2
<1> QED BY <1>1, <1>3 DEF Begin, Starts

LEMMA StartIs == ASSUME TreeOK, NEW t \in Tasks, Start(t) PROVE Starts(t)
<1>1. PICK u \in Users, p \in Paths :
        \/ WriteFile(t, u, p) \/ MakeDirectory(t, u, p) \/ DeleteItem(t, u, p)
        \/ \E q \in Paths :
             Rename(t, u, p, q) \/ RenameNoReplace(t, u, p, q) \/ RenameExchange(t, u, p, q)
        \/ \E n \in Attributes : SetXattr(t, u, p, n) \/ RemoveXattr(t, u, p, n)
  BY DEF Start
<1>2. \A q \in Paths : Request(u, p, q) \in Asked
  BY AskedRequest
<1>3. {"stat", "create_dir", "delete", "rename", "noreplace", "swap_out", "count", "remove_one"} \subseteq Places
  BY DEF Places
<1>4. CASE WriteFile(t, u, p) \/ MakeDirectory(t, u, p) \/ DeleteItem(t, u, p)
  <2>1. PICK op, here : here \in {"stat", "create_dir", "delete"} /\ Begin(t, op, here, Request(u, p, p))
    BY <1>4 DEF WriteFile, MakeDirectory, DeleteItem
  <2>2. \A y \in Asked : y.at = here => Asks(y)
    BY <2>1 DEF Asks
  <2> QED BY <1>2, <1>3, <2>1, <2>2, BeginIs
<1>5. ASSUME NEW q \in Paths,
             Rename(t, u, p, q) \/ RenameNoReplace(t, u, p, q) \/ RenameExchange(t, u, p, q)
      PROVE  Starts(t)
  <2> DEFINE r == Request(u, p, q)
  <2>1. r \in Asked /\ r.path = p /\ r.to = q /\ p # q
    BY <1>2, <1>5 DEF Request, Rename, RenameNoReplace, RenameExchange, MayRename
  <2>2. \/ Begin(t, "rename", "rename", r)
        \/ Begin(t, "noreplace", "noreplace", r)
        \/ Begin(t, "exchange", "swap_out", r)
    BY <1>5 DEF Rename, RenameNoReplace, RenameExchange
  <2> HIDE DEF r
  <2>3. CASE Begin(t, "rename", "rename", r)
    <3>1. \A y \in Asked : y.op = "rename" /\ y.at = "rename" /\ y.path = p /\ y.to = q => Asks(y)
      BY <2>1 DEF Asks
    <3> QED BY <1>3, <2>1, <2>3, <3>1, BeginIs
  <2>4. CASE Begin(t, "noreplace", "noreplace", r)
    <3>1. \A y \in Asked : y.at = "noreplace" /\ y.path = p /\ y.to = q => Asks(y)
      BY <2>1 DEF Asks
    <3> QED BY <1>3, <2>1, <2>4, <3>1, BeginIs
  <2>5. CASE Begin(t, "exchange", "swap_out", r)
    <3>1. \A y \in Asked : y.at = "swap_out" /\ y.path = p /\ y.to = q => Asks(y)
      BY <2>1 DEF Asks
    <3> QED BY <1>3, <2>1, <2>5, <3>1, BeginIs
  <2> QED BY <2>2, <2>3, <2>4, <2>5
<1>6. ASSUME NEW n \in Attributes, SetXattr(t, u, p, n) \/ RemoveXattr(t, u, p, n)
      PROVE  Starts(t)
  <2> DEFINE r == Request(u, p, p)
             x == [r EXCEPT !.name = n]
             z == [r EXCEPT !.name = n, !.of = ItemAt(p)]
  <2>1. ItemAt(p) \in Items \cup {NoItem}
    BY DEF TreeOK, Item, ItemAt
  <2>2. r \in Asked /\ r.path = p
    BY <1>2 DEF Request
  <2>3. Begin(t, "unset", "remove_one", x) \/ Begin(t, "set", "count", z)
    BY <1>6 DEF SetXattr, RemoveXattr
  <2> HIDE DEF r
  <2>4. x \in Asked /\ z \in Asked
    BY <2>1, <2>2, AskedAttribute
  <2>5. x.name = n /\ z.name = n /\ z.of = ItemAt(p) /\ z.path = p
    BY <2>2 DEF Asked
  <2> HIDE DEF x, z
  <2>6. \A y \in Asked : y.at = "remove_one" /\ y.name = n => Asks(y)
    BY DEF Asks
  <2>7. \A y \in Asked : y.at = "count" /\ y.name = n /\ y.path = p /\ y.of = ItemAt(p) => Asks(y)
    BY DEF Asks
  <2>8. CASE Begin(t, "unset", "remove_one", x)
    BY <1>3, <2>4, <2>5, <2>6, <2>8, BeginIs
  <2>9. CASE Begin(t, "set", "count", z)
    BY <1>3, <2>4, <2>5, <2>7, <2>9, BeginIs
  <2> QED BY <2>3, <2>8, <2>9
<1> QED BY <1>1, <1>4, <1>5, <1>6

LEMMA StartTypes == ASSUME TypeInv, NEW t \in Tasks, Start(t) PROVE TypeInv'
<1> USE DEF TypeInv
<1>1. OwnersInv' /\ TreeOK
  BY StartOwners DEF OwnersInv
<1>2. PICK y : task' = [task EXCEPT ![t] = y] /\ Asks(y)
  BY <1>1, StartIs DEF Starts
<1>3. /\ UNCHANGED <<tree, rows>> /\ overlaps' <= MaxOverlaps
      /\ overlaps' = overlaps + Cardinality({s \in Tasks \ {t} : task[s] # Idle})
  BY <1>1, StartIs DEF Starts
<1>4. CallsOK'
  <2>1. CallOK(y)
    BY <1>2 DEF Asks, Asked, CallOK, Moving
  <2> QED BY <1>2, <2>1 DEF CallsOK, OwnersInv, TasksOK
<1>5. overlaps' \in 0 .. MaxOverlaps
  <2> DEFINE others == {s \in Tasks \ {t} : task[s] # Idle}
  <2>1. others \in SUBSET Tasks /\ IsFiniteSet(Tasks) /\ MaxOverlaps \in Nat
    BY BoundsAssumption
  <2>2. Cardinality(others) \in Nat
    BY <2>1, FS_Subset, FS_CardinalityType
  <2> HIDE DEF others
  <2> QED BY <1>3, <2>1, <2>2 DEF others
<1>6. Rooted' /\ RowsOK'
  BY <1>3 DEF Rooted, IsDir, RowsOK
<1> QED BY <1>1, <1>4, <1>5, <1>6

----------------------------------------------------------------------------
(* The tree at every step *)

\* Put adds an item in a directory, with an identity of its own.
LEMMA PutRooted ==
    ASSUME Rooted, NEW p \in Paths, NEW kind \in Kinds, NEW owner,
           p \notin DOMAIN tree, IsDir(Front(p)), Put(p, kind, owner)
    PROVE  Rooted'
<1>1. PICK id \in Free :
        tree' = [q \in DOMAIN tree \cup {p} |->
                   IF q = p THEN [id |-> id, kind |-> kind, owner |-> owner] ELSE tree[q]]
  BY DEF Put
<1>2. /\ DOMAIN tree' = DOMAIN tree \cup {p} /\ tree'[p].id = id
      /\ \A q \in DOMAIN tree : tree'[q] = tree[q]
  BY <1>1
<1>3. p \in Path \ {<<>>} /\ id \notin Ids
  BY PathsAre DEF Free, Ids
<1>4. \A x : IsDir(x) => IsDir(x)'
  BY <1>2 DEF IsDir
<1>5. ASSUME NEW x \in Path, Under(p, x) PROVE IsDir(x)
  <2>1. Within(Front(p), x)
    BY <1>3, <1>5, FrontIs
  <2>2. CASE Under(Front(p), x)
    <3>1. Front(p) # <<>>
      BY <1>3, <2>2, FrontIs, UnderIs, PathIs
    <3>2. Front(p) \in DOMAIN tree
      BY <3>1 DEF IsDir
    <3> QED BY <2>2, <3>2 DEF Rooted
  <2> QED BY <2>1, <2>2 DEF Within
<1>6. ASSUME NEW q \in DOMAIN tree', NEW x \in Path, Under(q, x) PROVE IsDir(x)'
  BY <1>2, <1>4, <1>5, <1>6 DEF Rooted
<1>7. \A q \in DOMAIN tree : tree[q].id # id
  BY <1>3 DEF Ids
<1>8. \A q, r \in DOMAIN tree' : tree'[q].id = tree'[r].id => q = r
  BY <1>2, <1>7 DEF Rooted
<1> QED BY <1>2, <1>3, <1>6, <1>8 DEF Rooted

\* A change of owner, and the loss of an item with nothing in it.
LEMMA OwnerRooted ==
    ASSUME Rooted, DOMAIN tree' = DOMAIN tree,
           \A q \in DOMAIN tree : tree'[q].id = tree[q].id /\ tree'[q].kind = tree[q].kind
    PROVE  Rooted'
BY DEF Rooted, IsDir

LEMMA DeleteRooted ==
    ASSUME Rooted, NEW p, Children(p) = {}, tree' = [q \in DOMAIN tree \ {p} |-> tree[q]] PROVE Rooted'
<1>1. DOMAIN tree' = DOMAIN tree \ {p} /\ \A q \in DOMAIN tree' : tree'[q] = tree[q]
  OBVIOUS
<1>2. ASSUME NEW q \in DOMAIN tree', NEW x \in Path, Under(q, x) PROVE IsDir(x)'
  <2>1. IsDir(x) /\ x # p
    BY <1>1, <1>2 DEF Rooted, Children
  <2> QED BY <1>1, <2>1 DEF IsDir
<1>3. \A q, r \in DOMAIN tree' : tree'[q].id = tree'[r].id => q = r
  BY <1>1 DEF Rooted
<1> QED BY <1>1, <1>2, <1>3 DEF Rooted

\* The renames of an exchange, too, have two names.
LEMMA RenamesAre ==
    ASSUME TypeInv, NEW t \in Tasks, FsRenamePlain(t) \/ Swap(t)
    PROVE  \E p, q \in Path \ {<<>>} : \E next \in Places : p # q /\ FsRename(t, p, q, next)
<1> DEFINE a == task[t].path
           b == task[t].to
<1>1. task[t] # Idle /\ task[t] \in Asked /\ task[t].at \in Moving
  <2>1. task[t].at \in Moving /\ task[t].at # "idle"
    BY DEF FsRenamePlain, Swap, At, Moving
  <2> QED BY <2>1, BusyTask DEF TypeInv, OwnersInv
<1>2. a \in Paths /\ b \in Paths /\ a # b
  BY <1>1 DEF Asked, TypeInv, CallsOK, CallOK
<1>3. /\ a \in Path \ {<<>>} /\ b \in Path \ {<<>>} /\ SwapPath(a) # a /\ SwapPath(a) # b
      /\ SwapPath(a) \in Path \ {<<>>}
  <2>1. Len(SwapPath(a)) # 0 /\ SwapPath(a) \in Path
    BY <1>2, PathsAre
  <2> QED BY <1>2, <2>1, PathsAre, SwapPathIs, PathIs
<1>4. {"move_rows", "swap_over", "swap_in", "rows_out"} \subseteq Places
  BY DEF Places
<1>5. CASE FsRenamePlain(t)
  BY <1>2, <1>3, <1>4, <1>5 DEF FsRenamePlain
<1>6. CASE Swap(t)
  <2>1. \/ FsRename(t, a, SwapPath(a), "swap_over") \/ FsRename(t, b, a, "swap_in")
        \/ FsRename(t, SwapPath(a), b, "rows_out")
    BY <1>6 DEF Swap
  <2> HIDE DEF a, b
  <2> QED BY <1>2, <1>3, <1>4, <2>1
<1> QED BY <1>5, <1>6

LEMMA RowsMove ==
    ASSUME RowsOK, NEW p, NEW q \in Where, MoveRows(p, q)
    PROVE  /\ RowsOK'
           /\ DOMAIN rows' = (DOMAIN rows \ RowsAt(p)) \cup {<<q, k[2]>> : k \in RowsAt(p)}
           /\ \A k \in DOMAIN rows \ RowsAt(p) : rows'[k] = rows[k]
           /\ \A k \in RowsAt(p) : <<q, k[2]>> \notin DOMAIN rows => rows'[<<q, k[2]>>] = rows[k]
<1>1. DOMAIN rows' = (DOMAIN rows \ RowsAt(p)) \cup {<<q, k[2]>> : k \in RowsAt(p)}
  BY DEF MoveRows
<1>2. \A k \in DOMAIN rows' : rows'[k] = IF k \in DOMAIN rows THEN rows[k] ELSE rows[<<p, k[2]>>]
  BY DEF MoveRows
<1>3. \A k \in RowsAt(p) : k \in DOMAIN rows /\ k = <<p, k[2]>> /\ k \in Keys /\ k[2] \in Attributes
  BY DEF RowsAt, RowsOK, Keys
<1>4. \A k \in DOMAIN rows \ RowsAt(p) : rows'[k] = rows[k]
  BY <1>1, <1>2
<1>5. ASSUME NEW k \in RowsAt(p), <<q, k[2]>> \notin DOMAIN rows PROVE rows'[<<q, k[2]>>] = rows[k]
  BY <1>1, <1>2, <1>3, <1>5
<1>6. ASSUME NEW k \in DOMAIN rows' PROVE k \in Keys /\ rows'[k] \in Items \cup {NoItem, Left}
  <2>1. CASE k \in DOMAIN rows
    BY <1>2, <1>6, <2>1 DEF RowsOK
  <2>2. CASE k \notin DOMAIN rows
    <3>1. PICK l \in RowsAt(p) : k = <<q, l[2]>>
      BY <1>1, <1>6, <2>2
    <3>2. rows'[k] = rows[l]
      BY <1>5, <2>2, <3>1
    <3> QED BY <1>3, <3>1, <3>2 DEF RowsOK, Keys
  <2> QED BY <2>1, <2>2
<1> QED BY <1>1, <1>4, <1>5, <1>6 DEF RowsOK

\* The moves of rows.
LEMMA UpdatesAre ==
    ASSUME TypeInv, NEW t \in Tasks, RenameRows(t) \/ ExchangeRows(t)
    PROVE  UNCHANGED tree /\ \E p, q \in Where : MoveRows(p, q)
<1> DEFINE a == task[t].path
           b == task[t].to
<1>1. task[t].at # "idle"
  BY DEF RenameRows, ExchangeRows, At
<1>2. a \in Where /\ b \in Where /\ Exchanging \in Where
  BY <1>1, BusyTask DEF TypeInv, OwnersInv, Asked, Where
<1> HIDE DEF a, b
<1>3. UpdateRows(a, b) \/ UpdateRows(a, Exchanging) \/ UpdateRows(b, a) \/ UpdateRows(Exchanging, b)
  BY DEF RenameRows, ExchangeRows, a, b
<1> QED BY <1>2, <1>3 DEF UpdateRows

\* What marks rows leaves them where they are.
LEMMA MarkedIs ==
    ASSUME NEW S, NEW what, what \notin Items, rows' = Marked(S, what)
    PROVE  /\ DOMAIN rows' = DOMAIN rows
           /\ \A k \in DOMAIN rows : /\ rows'[k] \in {rows[k], what}
                                     /\ rows'[k] \in Items => rows'[k] = rows[k] /\ k[1] \notin S
BY DEF Marked

\* A rename moves one item and what is under it.
LEMMA FsRenameIs ==
    ASSUME TypeInv, NEW t \in Tasks, NEW p \in Path \ {<<>>}, NEW q \in Path \ {<<>>}, p # q,
           NEW next, FsRename(t, p, q, next)
    PROVE  Moved(p, q) /\ Rooted' /\ RowsOK'
<1>1. Rooted /\ TreeOK /\ RowsOK
  BY DEF TypeInv, OwnersInv
<1>2. CanRename(p, q) /\ tree' = Renamed(p, q) /\ IsDir(Front(q))
  BY DEF FsRename, CanRename
<1>3. Moved(p, q)
  BY <1>1, <1>2, RenamedIs
<1>4. Rooted'
  BY <1>1, <1>2, <1>3, RenameRooted
<1>5. RowsOK'
  <2> DEFINE S == (DOMAIN tree \cap {q}) \cup Children(p)
  <2>1. rows' = Marked(S, Left) /\ Left \notin Items
    BY ItemsAssumption DEF FsRename
  <2> HIDE DEF S
  <2> QED BY <1>1, <2>1, MarkedIs DEF RowsOK
<1> QED BY <1>3, <1>4, <1>5

LEMMA StepTypes == ASSUME TypeInv, NEW t \in Tasks, Step(t) PROVE TypeInv'
<1> DEFINE p == task[t].path
<1>1. /\ OwnersInv' /\ CallsOK' /\ UNCHANGED overlaps
      /\ TreeOK /\ TreeOK' /\ TasksOK
  BY StepOwners, CallsStep, StepIs DEF TypeInv, OwnersInv
<1>2. p \in Paths /\ task[t] \in Asked /\ task[t] # Idle /\ CallOK(task[t])
  BY <1>1, StepIs, BusyTask DEF Asked, TypeInv, CallsOK
<1> SUFFICES Rooted' /\ RowsOK'
  BY <1>1 DEF TypeInv
<1>3. Rooted /\ RowsOK
  BY DEF TypeInv
<1>4. UNCHANGED tree => Rooted'
  BY <1>3 DEF Rooted, IsDir
<1>5. UNCHANGED rows => RowsOK'
  BY <1>3 DEF RowsOK
<1>6. CASE Stat(t) \/ NoReplace(t) \/ Count(t) \/ Update(t)
  BY <1>4, <1>5, <1>6 DEF Stat, NoReplace, GoesOn, Count, Update
<1>7. CASE Open(t) \/ CreateDir(t)
  <2>1. /\ UNCHANGED rows
        /\ \/ UNCHANGED tree
           \/ /\ p \notin DOMAIN tree /\ IsDir(Front(p))
              /\ \E kind \in Kinds, owner \in {Server, Orphan} : Put(p, kind, owner)
    BY <1>7 DEF Open, CreateDir, CreatesDir, Kinds
  <2> HIDE DEF p
  <2>2. Rooted'
    BY <1>2, <1>3, <1>4, <2>1, PutRooted
  <2> QED BY <1>5, <2>1, <2>2
<1>8. CASE Chown(t)
  <2>1. UNCHANGED rows /\ p \in DOMAIN tree /\ tree' = [tree EXCEPT ![p].owner = task[t].user]
    BY <1>8 DEF Chown
  <2>2. DOMAIN tree' = DOMAIN tree /\ \A q \in DOMAIN tree \ {p} : tree'[q] = tree[q]
    BY <2>1
  <2>3. tree'[p].id = tree[p].id /\ tree'[p].kind = tree[p].kind
    <3> HIDE DEF p
    <3> QED BY <1>1, <2>1 DEF TreeOK, Item
  <2> QED BY <1>3, <1>5, <2>1, <2>2, <2>3, OwnerRooted
<1>9. CASE Delete(t)
  <2>1. UNCHANGED rows /\ Children(p) = {} /\ tree' = [q \in DOMAIN tree \ {p} |-> tree[q]]
    BY <1>9 DEF Delete, RemoveItem
  <2> QED BY <1>3, <1>5, <2>1, DeleteRooted
<1>10. CASE RemoveAll(t) \/ RemoveOne(t)
  <2>1. UNCHANGED tree /\ \E K : rows' = [k \in DOMAIN rows \ K |-> rows[k]]
    BY <1>10 DEF RemoveAll, RemoveOne
  <2>2. RowsOK'
    BY <1>3, <2>1 DEF RowsOK
  <2> QED BY <1>4, <2>1, <2>2
<1>11. CASE Insert(t)
  <2> DEFINE key == Key(t)
  <2>1. /\ UNCHANGED tree /\ task[t].at = "insert"
        /\ rows' = [k \in DOMAIN rows \cup {key} |-> IF k = key THEN task[t].of ELSE rows[k]]
    BY <1>11 DEF Insert, At
  <2>2. key \in Keys /\ task[t].of \in Items \cup {NoItem}
    BY <1>2, <2>1 DEF Key, Keys, Where, CallOK
  <2> HIDE DEF key
  <2>3. RowsOK'
    BY <1>3, <2>1, <2>2 DEF RowsOK
  <2> QED BY <1>4, <2>1, <2>3
<1>12. CASE FsRenamePlain(t) \/ Swap(t)
  BY <1>12, RenamesAre, FsRenameIs
<1>13. CASE RenameRows(t) \/ ExchangeRows(t)
  BY <1>3, <1>4, <1>13, UpdatesAre, RowsMove
<1> QED BY <1>6, <1>7, <1>8, <1>9, <1>10, <1>11, <1>12, <1>13 DEF Step

\* A step that fails takes nothing from the tree.
LEMMA FailsIs ==
    ASSUME TreeOK, NEW t \in Tasks, Fails(t)
    PROVE  DOMAIN tree' = DOMAIN tree
           /\ \A q \in DOMAIN tree : tree'[q].id = tree[q].id /\ tree'[q].kind = tree[q].kind
<1>1. tree' = IF At(t, "chown") THEN Orphaned({task[t].path}) ELSE tree
  BY DEF Fails
<1> QED BY <1>1, OrphanedIs

LEMMA FailsTypes == ASSUME TypeInv, NEW t \in Tasks, Fails(t) PROVE TypeInv'
<1>1. OwnersInv' /\ TreeOK /\ TasksOK /\ UNCHANGED overlaps
  BY FailsOwners DEF TypeInv, OwnersInv, Fails
<1>2. Rooted'
  BY <1>1, FailsIs, OwnerRooted DEF TypeInv
<1>3. RowsOK'
  <2>1. rows' = Marked(Behind(t), NoItem) /\ NoItem \notin Items /\ RowsOK
    BY ItemsAssumption DEF Fails, TypeInv
  <2> QED BY <2>1, MarkedIs DEF RowsOK
<1>4. CallsOK'
  BY <1>1 DEF Fails, Done, TypeInv, CallsOK, TasksOK
<1> QED BY <1>1, <1>2, <1>3, <1>4 DEF TypeInv

LEMMA TypeStep == TypeInv /\ [Next]_vars => TypeInv'
<1> SUFFICES ASSUME TypeInv, [Next]_vars PROVE TypeInv'
  OBVIOUS
<1>1. CASE UNCHANGED vars
  BY <1>1 DEF vars, TypeInv, OwnersInv, TasksOK, TreeOK, OwnersSet, At, Rooted, IsDir, RowsOK, CallsOK
<1>2. CASE Next
  BY <1>2, StartTypes, StepTypes, FailsTypes DEF Next
<1> QED BY <1>1, <1>2

LEMMA TypeStart == Init => TypeInv
<1> SUFFICES ASSUME Init PROVE TypeInv
  OBVIOUS
<1>1. OwnersInv
  BY DEF Init, OwnersInv, TasksOK, TreeOK, OwnersSet
<1>2. DOMAIN tree = {} /\ DOMAIN rows = {}
  BY DEF Init
<1>3. Rooted /\ RowsOK
  BY <1>2 DEF Rooted, RowsOK
<1>4. CallsOK
  BY DEF Init, CallsOK
<1>5. overlaps \in 0 .. MaxOverlaps
  BY BoundsAssumption DEF Init
<1> QED BY <1>1, <1>3, <1>4, <1>5 DEF TypeInv

\* However requests interleave and wherever they fail, the exported directory is
\* a tree: every item is in a directory that is there, and no item is there
\* twice; the rows of xattributes are about paths of requests or an exchange
\* (storage.rs:180-310, db.rs:440-560).
THEOREM TypeCorrect == Spec => []TypeOK
<1>1. TypeInv => TypeOK
  <2> SUFFICES ASSUME TypeInv PROVE TypeOK
    OBVIOUS
  <2>1. Rooted /\ TreeOK /\ RowsOK /\ overlaps \in 0 .. MaxOverlaps
    BY DEF TypeInv, OwnersInv
  <2>2. ASSUME NEW p \in DOMAIN tree
        PROVE  /\ tree[p].id \in Items /\ tree[p].kind \in Kinds
               /\ tree[p].owner \in Users \cup {Server, Orphan}
               /\ IsDir(Front(p))
               /\ \A q \in DOMAIN tree : tree[q].id = tree[p].id => q = p
    <3>1. tree[p].id \in Items /\ tree[p].kind \in Kinds /\ tree[p].owner \in Users \cup {Server, Orphan}
      BY <2>1 DEF TreeOK, Item
    <3>2. IsDir(Front(p))
      <4>1. p \in Path /\ p # <<>>
        BY <2>1 DEF Rooted
      <4> QED BY <2>1, <4>1, FrontIs DEF Rooted
    <3> QED BY <2>1, <3>1, <3>2 DEF Rooted
  <2>3. \A k \in DOMAIN rows : k[1] \in Paths \cup {Exchanging} /\ rows[k] \in Items \cup {NoItem, Left}
    BY <2>1 DEF RowsOK, Keys, Where
  <2> QED BY <2>1, <2>2, <2>3 DEF TypeOK
<1> QED BY <1>1, TypeStart, TypeStep, PTL DEF Spec

----------------------------------------------------------------------------
(* Requests one at a time *)

Swapping(w, p, q) == IF w = p THEN q ELSE IF w = q THEN p ELSE w

\* Where the item is by now that the rows of w were set on.
Home(r, w) ==
    LET a == r.path
        b == r.to
        S == SwapPath(a)
        e == Exchanging
    IN  IF r.at = "move_rows" THEN Swapping(w, a, b)
        ELSE IF r.at = "swap_over" THEN Swapping(w, a, S)
        ELSE IF r.at = "swap_in" THEN Swapping(Swapping(w, a, S), b, a)
        ELSE IF r.at = "rows_out" THEN Swapping(w, a, b)
        ELSE IF r.at = "rows_over" THEN Swapping(Swapping(w, a, e), a, b)
        ELSE IF r.at = "rows_in" THEN Swapping(w, e, b)
        ELSE w

\* The rows of a deleted item are the next to go; a row of no item has no home.
Gone(r, p) == r.at = "remove_all" /\ p = r.path
RowsHome(r) ==
    \A k \in DOMAIN rows : rows[k] \in Items /\ ~Gone(r, k[1]) =>
        Home(r, k[1]) \in DOMAIN tree /\ tree[Home(r, k[1])].id = rows[k]

Exchanges == {"swap_out", "swap_over", "swap_in", "rows_out", "rows_over", "rows_in"}

\* What a request by itself has made of the tree when it gets to a step.
Stage(r) ==
    /\ r.at = "rename" => r.op = "rename" \/ r.to \notin DOMAIN tree
    /\ r.at \in {"remove_all", "move_rows", "swap_over"} => r.path \notin DOMAIN tree
    /\ r.at = "swap_in" => r.to \notin DOMAIN tree
    /\ r.at \in Exchanges \cup {"move_rows"} => r.path # r.to
    /\ r.at \in {"count", "insert"} /\ r.of \in Items => r.path \in DOMAIN tree /\ tree[r.path].id = r.of

Fine(r) == Stage(r) /\ RowsHome(r)

Single ==
    overlaps = 0 =>
        /\ \A s, t \in Tasks : task[s] # Idle /\ task[t] # Idle => s = t
        /\ \A t \in Tasks : \A r \in Asked : task[t] = r => Fine(r)
        /\ Quiet => Fine(Idle)

\* A step of the only request.
Leads(t) == \E y \in Asked \cup {Idle} : task' = [task EXCEPT ![t] = y] /\ Fine(y)'

LEMMA LeadsSingle ==
    ASSUME TasksOK, NEW t \in Tasks, \A s \in Tasks : task[s] # Idle => s = t, Leads(t)
    PROVE  Single'
<1>1. PICK y \in Asked \cup {Idle} : task' = [task EXCEPT ![t] = y] /\ Fine(y)'
  BY DEF Leads
<1>2. task'[t] = y /\ \A s \in Tasks : s # t => task'[s] = Idle
  BY <1>1 DEF TasksOK
<1>3. Idle \notin Asked
  BY DEF Idle, Asked, Places
<1>4. \A s \in Tasks : \A r \in Asked : task'[s] = r => s = t /\ r = y
  BY <1>2, <1>3
<1>5. \A s \in Tasks : \A r \in Asked : task'[s] = r => Fine(r)'
  BY <1>1, <1>4
<1>6. Quiet' => y = Idle
  BY <1>2 DEF Quiet
<1>7. Quiet' => Fine(Idle)'
  BY <1>1, <1>6
<1>8. \A s, x \in Tasks : task'[s] # Idle /\ task'[x] # Idle => s = x
  BY <1>2
<1> QED BY <1>5, <1>7, <1>8 DEF Single

\* It goes on to another step, or ends.
Same(y, r, here) == /\ y.at = here /\ y.op = r.op /\ y.path = r.path /\ y.to = r.to
                    /\ y.name = r.name /\ y.of = r.of

LEMMA ItGoesOn ==
    ASSUME TasksOK, NEW t \in Tasks, NEW r \in Asked, task[t] = r, NEW here \in Places, Goto(t, here),
           \A y \in Asked : Same(y, r, here) => Fine(y)'
    PROVE  Leads(t)
<1>1. r.at # "idle"
  BY DEF Asked, Places
<1>2. PICK y \in Asked : task' = [task EXCEPT ![t] = y] /\ Same(y, r, here)
  BY <1>1, GotoIs DEF Same
<1> QED BY <1>2 DEF Leads

LEMMA ItEnds == ASSUME NEW t \in Tasks, Done(t), Fine(Idle)' PROVE Leads(t)
BY DEF Done, Leads

\* Where no move is half done, every row is at its item.
Resting == {"idle", "asked", "stat", "open", "create", "create_dir", "chown", "delete", "noreplace",
            "rename", "swap_out", "count", "update", "insert", "remove_one"}
AtHome(k) == rows[k] \in Items => k[1] \in DOMAIN tree /\ tree[k[1]].id = rows[k]
RowsRest == \A k \in DOMAIN rows : AtHome(k)

LEMMA FineResting ==
    ASSUME NEW r, r.at \in Resting, Fine(r) PROVE RowsRest
BY DEF Resting, Fine, RowsHome, Home, Gone, RowsRest, AtHome

LEMMA RestingFine ==
    ASSUME NEW r, r.at \in Resting, Stage(r)', RowsRest' PROVE Fine(r)'
BY DEF Resting, Fine, RowsHome, Home, Gone, RowsRest, AtHome

LEMMA StageFree ==
    ASSUME NEW r, r.at \in Resting \ {"rename", "swap_out", "count", "insert"} PROVE Stage(r)'
BY DEF Resting, Stage, Exchanges

LEMMA IdleFine == ASSUME RowsRest' PROVE Fine(Idle)'
<1>1. Idle.at \in Resting \ {"rename", "swap_out", "count", "insert"}
  BY DEF Idle, Resting
<1> QED BY <1>1, StageFree, RestingFine

----------------------------------------------------------------------------
(* Steps that move nothing *)

\* The next request that starts.
LEMMA StartSingle == ASSUME TypeInv, Single, NEW t \in Tasks, Start(t) PROVE Single'
<1>1. TasksOK /\ TreeOK /\ overlaps \in 0 .. MaxOverlaps /\ MaxOverlaps \in Nat
  BY BoundsAssumption DEF TypeInv, OwnersInv
<1>2. Starts(t)
  BY <1>1, StartIs
<1>3. PICK y : task' = [task EXCEPT ![t] = y] /\ Asks(y)
  BY <1>2 DEF Starts
<1> DEFINE others == {s \in Tasks \ {t} : task[s] # Idle}
<1>4. /\ task[t] = Idle /\ UNCHANGED <<tree, rows>>
      /\ overlaps' = overlaps + Cardinality(others)
  BY <1>2 DEF Starts
<1>5. IsFiniteSet(others) /\ Cardinality(others) \in Nat /\ (Cardinality(others) = 0 <=> others = {})
  <2>1. others \in SUBSET Tasks /\ IsFiniteSet(Tasks)
    BY BoundsAssumption
  <2> HIDE DEF others
  <2> QED BY <2>1, FS_Subset, FS_CardinalityType, FS_EmptySet
<1> SUFFICES ASSUME overlaps' = 0 PROVE Single'
  BY DEF Single
<1>6. overlaps = 0 /\ others = {}
  <2> HIDE DEF others
  <2> QED BY <1>1, <1>4, <1>5
<1>7. \A s \in Tasks : task[s] = Idle
  BY <1>4, <1>6
<1>8. Fine(Idle)
  BY <1>6, <1>7 DEF Single, Quiet
<1>9. RowsRest
  <2>1. Idle.at \in Resting
    BY DEF Idle, Resting
  <2> QED BY <1>8, <2>1, FineResting
<1>10. RowsRest'
  BY <1>4, <1>9 DEF RowsRest, AtHome
<1>11. y \in Asked /\ y.at \in Resting
  BY <1>3 DEF Asks, Resting
<1>12. Stage(y)'
  BY <1>3, <1>4, ItemsAssumption DEF Asks, Stage, Exchanges, ItemAt
<1>13. Fine(y)'
  BY <1>10, <1>11, <1>12, RestingFine
<1>14. Leads(t)
  BY <1>3, <1>11, <1>13 DEF Leads
<1> QED BY <1>1, <1>7, <1>14, LeadsSingle

\* Steps that leave no move half done.
LEMMA PlainLeads ==
    ASSUME TypeInv, NEW t \in Tasks, NEW r \in Asked, task[t] = r, Fine(r),
           \/ Stat(t) \/ NoReplace(t) \/ Count(t) \/ Update(t) \/ Open(t) \/ CreateDir(t) \/ Chown(t)
           \/ Insert(t) \/ RemoveOne(t)
    PROVE  Leads(t)
<1> DEFINE p == r.path
<1>1. TasksOK /\ TreeOK
  BY DEF TypeInv, OwnersInv
<1>2. r.at \in Resting
  BY DEF Stat, NoReplace, GoesOn, Count, Update, Open, CreateDir, CreatesDir, Chown, Insert, RemoveOne, At, Resting
<1>3. RowsRest /\ Stage(r)
  BY <1>2, FineResting DEF Fine
<1>4. ASSUME NEW here \in Places \cap Resting, Goto(t, here), RowsRest',
             \A y \in Asked : Same(y, r, here) => Stage(y)'
      PROVE  Leads(t)
  <2>1. \A y \in Asked : Same(y, r, here) => Fine(y)'
    BY <1>4, RestingFine DEF Same
  <2> QED BY <1>1, <1>4, <2>1, ItGoesOn
<1>5. ASSUME NEW here \in (Places \cap Resting) \ {"rename", "swap_out", "count", "insert"},
             Goto(t, here), RowsRest'
      PROVE  Leads(t)
  <2>1. \A y \in Asked : Same(y, r, here) => Stage(y)'
    BY StageFree DEF Same
  <2> QED BY <1>4, <1>5, <2>1
<1>6. Done(t) /\ RowsRest' => Leads(t)
  BY IdleFine, ItEnds
<1>7. UNCHANGED <<tree, rows>> => RowsRest'
  BY <1>3 DEF RowsRest, AtHome
<1>8. CASE Stat(t)
  <2>1. (Goto(t, "open") \/ Goto(t, "create")) /\ UNCHANGED <<tree, rows>>
    BY <1>8 DEF Stat
  <2> QED BY <1>5, <1>7, <2>1 DEF Places, Resting
<1>9. CASE NoReplace(t)
  <2>1. Goto(t, "rename") /\ r.to \notin DOMAIN tree /\ UNCHANGED <<tree, rows>>
    BY <1>9 DEF NoReplace, GoesOn
  <2>2. \A y \in Asked : Same(y, r, "rename") => Stage(y)'
    BY <2>1 DEF Same, Stage, Exchanges
  <2> QED BY <1>4, <1>7, <2>1, <2>2 DEF Places, Resting
<1>10. CASE Count(t)
  <2>1. (Goto(t, "update") \/ Goto(t, "insert")) /\ UNCHANGED <<tree, rows>> /\ r.at = "count"
    BY <1>10 DEF Count, At
  <2>2. \A y \in Asked : Same(y, r, "insert") => Stage(y)'
    BY <1>3, <2>1 DEF Same, Stage, Exchanges
  <2> QED BY <1>4, <1>5, <1>7, <2>1, <2>2 DEF Places, Resting
<1>11. CASE Update(t)
  BY <1>6, <1>7, <1>11 DEF Update
<1>12. CASE Open(t) \/ CreateDir(t)
  <2>1. /\ UNCHANGED rows
        /\ UNCHANGED tree \/ \E kind, owner : Put(p, kind, owner) /\ p \notin DOMAIN tree
    BY <1>12 DEF Open, CreateDir, CreatesDir
  <2>2. Done(t) \/ Goto(t, "chown")
    BY <1>12 DEF Open, CreateDir
  <2>3. ASSUME NEW kind, NEW owner, Put(p, kind, owner), p \notin DOMAIN tree, UNCHANGED rows PROVE RowsRest'
    <3>1. DOMAIN tree' = DOMAIN tree \cup {p} /\ \A q \in DOMAIN tree : tree'[q] = tree[q]
      BY <2>3 DEF Put
    <3> HIDE DEF p
    <3> QED BY <1>3, <2>3, <3>1 DEF RowsRest, AtHome
  <2>4. RowsRest'
    BY <1>7, <2>1, <2>3
  <2> QED BY <1>5, <1>6, <2>2, <2>4 DEF Places, Resting
<1>13. CASE Chown(t)
  <2>1. UNCHANGED rows /\ Done(t) /\ p \in DOMAIN tree /\ tree' = [tree EXCEPT ![p].owner = r.user]
    BY <1>13 DEF Chown
  <2> HIDE DEF p
  <2>2. DOMAIN tree' = DOMAIN tree /\ \A q \in DOMAIN tree : tree'[q].id = tree[q].id
    BY <1>1, <2>1 DEF TreeOK, Item
  <2> QED BY <1>3, <1>6, <2>1, <2>2 DEF RowsRest, AtHome
<1>14. CASE Insert(t)
  <2> DEFINE key == Key(t)
  <2>1. /\ UNCHANGED tree /\ Done(t) /\ r.at = "insert"
        /\ rows' = [k \in DOMAIN rows \cup {key} |-> IF k = key THEN r.of ELSE rows[k]]
    BY <1>14 DEF Insert, At
  <2>2. (r.of \in Items => p \in DOMAIN tree /\ tree[p].id = r.of) /\ key[1] = p
    BY <1>3, <2>1 DEF Stage, Key
  <2> HIDE DEF key, p
  <2> QED BY <1>3, <1>6, <2>1, <2>2 DEF RowsRest, AtHome
<1>15. CASE RemoveOne(t)
  <2>1. UNCHANGED tree /\ Done(t) /\ \E K : rows' = [k \in DOMAIN rows \ K |-> rows[k]]
    BY <1>15 DEF RemoveOne
  <2> QED BY <1>3, <1>6, <2>1 DEF RowsRest, AtHome
<1> QED BY <1>8, <1>9, <1>10, <1>11, <1>12, <1>13, <1>14, <1>15

\* A delete takes the rows of the item after the item.
LEMMA DeleteLeads ==
    ASSUME TypeInv, NEW t \in Tasks, NEW r \in Asked, task[t] = r, Fine(r), Delete(t) \/ RemoveAll(t)
    PROVE  Leads(t)
<1> DEFINE p == r.path
<1>1. TasksOK
  BY DEF TypeInv, OwnersInv
<1>2. CASE Delete(t)
  <2>1. /\ r.at \in Resting /\ UNCHANGED rows /\ Goto(t, "remove_all")
        /\ tree' = [q \in DOMAIN tree \ {p} |-> tree[q]]
    BY <1>2 DEF Delete, RemoveItem, At, Resting
  <2>2. RowsRest
    BY <2>1, FineResting
  <2>3. DOMAIN tree' = DOMAIN tree \ {p} /\ \A q \in DOMAIN tree' : tree'[q] = tree[q]
    BY <2>1
  <2>4. ASSUME NEW y \in Asked, Same(y, r, "remove_all") PROVE Fine(y)'
    <3>1. y.at = "remove_all" /\ y.path = p
      BY <2>4 DEF Same
    <3> HIDE DEF p
    <3>2. Stage(y)'
      BY <2>3, <3>1 DEF Stage, Exchanges
    <3>3. RowsHome(y)'
      BY <2>1, <2>2, <2>3, <3>1 DEF RowsHome, Home, Gone, RowsRest, AtHome
    <3> QED BY <3>2, <3>3 DEF Fine
  <2> QED BY <1>1, <2>1, <2>4, ItGoesOn DEF Places
<1>3. CASE RemoveAll(t)
  <2>1. /\ r.at = "remove_all" /\ Done(t) /\ UNCHANGED tree
        /\ rows' = [k \in DOMAIN rows \ RowsAt(p) |-> rows[k]]
    BY <1>3 DEF RemoveAll, At
  <2>2. \A k \in DOMAIN rows : k[1] # p => AtHome(k)
    BY <2>1 DEF Fine, RowsHome, Home, Gone, AtHome
  <2>3. RowsRest'
    <3> HIDE DEF p
    <3> QED BY <2>1, <2>2 DEF RowsRest, AtHome, RowsAt
  <2> QED BY <2>1, <2>3, IdleFine, ItEnds
<1> QED BY <1>2, <1>3

----------------------------------------------------------------------------
(* A rename by a request that runs alone *)

\* What becomes of a path's items: p's item is at q, others not under p stay,
\* and only the item q had goes.
LEMMA MovedTree ==
    ASSUME Rooted, NEW p, NEW q \in Path \ {<<>>}, Moved(p, q)
    PROVE  /\ p \in Path /\ p \notin DOMAIN tree' /\ q \in DOMAIN tree' /\ tree'[q].id = tree[p].id
           /\ \A r \in DOMAIN tree : r # q /\ ~Within(r, p) => r \in DOMAIN tree' /\ tree'[r] = tree[r]
           /\ \A r \in DOMAIN tree : r # q => tree[r].id \in Ids'
<1>1. /\ p \in DOMAIN tree /\ p \in Path /\ DOMAIN tree \subseteq Path \ {<<>>}
      /\ p # q /\ ~Under(q, p) /\ ~Under(p, q)
  BY DEF Rooted, Moved
<1>2. Within(p, p) /\ Rebased(p, p, q) = q
  BY <1>1, RebasedBack DEF Within
<1>3. q \in DOMAIN tree' /\ tree'[q].id = tree[p].id
  BY <1>1, <1>2 DEF Moved
<1>4. \A r \in DOMAIN tree : r # q /\ ~Within(r, p) => r \in DOMAIN tree' /\ tree'[r] = tree[r]
  BY DEF Moved
<1>5. p \notin DOMAIN tree'
  <2>1. ASSUME NEW r \in DOMAIN tree, Within(r, p) PROVE Rebased(r, p, q) # p
    BY <1>1, <2>1, RebasedBack DEF Within
  <2> QED BY <1>2, <2>1 DEF Moved
<1>6. ASSUME NEW r \in DOMAIN tree, r # q PROVE tree[r].id \in Ids'
  <2>1. CASE Within(r, p)
    <3>1. Rebased(r, p, q) \in DOMAIN tree' /\ tree'[Rebased(r, p, q)].id = tree[r].id
      BY <2>1 DEF Moved
    <3> QED BY <3>1 DEF Ids
  <2>2. CASE ~Within(r, p)
    BY <1>4, <1>6, <2>2 DEF Ids
  <2> QED BY <2>1, <2>2
<1> QED BY <1>1, <1>3, <1>4, <1>5, <1>6

\* A row that was home before p became q is home at the place swapped for its own.
LEMMA HomeMoves ==
    ASSUME Rooted, NEW p, NEW q \in Path \ {<<>>}, Moved(p, q),
           NEW u \in DOMAIN tree, u # q, ~Under(u, p)
    PROVE  Swapping(u, p, q) \in DOMAIN tree' /\ tree'[Swapping(u, p, q)].id = tree[u].id
BY MovedTree DEF Swapping, Within

\* Rows are home after a rename if their places are swapped accordingly.
LEMMA RowsHomeMove ==
    ASSUME TypeInv, NEW t \in Tasks, NEW p \in Path \ {<<>>}, NEW q \in Path \ {<<>>}, p # q,
           NEW next, FsRename(t, p, q, next),
           NEW r, NEW y, RowsHome(r), r.at # "remove_all", y.at # "remove_all",
           \A w : Home(r, w) \in DOMAIN tree /\ ~(w \in DOMAIN tree /\ w = q) /\ w \notin Children(p) =>
                      /\ Home(r, w) # q /\ ~Under(Home(r, w), p)
                      /\ Home(y, w) = Swapping(Home(r, w), p, q)
    PROVE  RowsHome(y)'
<1> SUFFICES ASSUME NEW k \in DOMAIN rows', rows'[k] \in Items
             PROVE  Home(y, k[1]) \in DOMAIN tree' /\ tree'[Home(y, k[1])].id = rows'[k]
  BY DEF RowsHome, Home, Gone
<1>1. Moved(p, q) /\ Rooted
  BY FsRenameIs DEF TypeInv
<1> DEFINE S == (DOMAIN tree \cap {q}) \cup Children(p)
<1>2. k \in DOMAIN rows /\ rows'[k] = rows[k] /\ k[1] \notin S
  <2>1. rows' = Marked(S, Left) /\ Left \notin Items
    BY ItemsAssumption DEF FsRename
  <2> HIDE DEF S
  <2> QED BY <2>1, MarkedIs
<1> DEFINE u == Home(r, k[1])
           v == Home(y, k[1])
<1>3. u \in DOMAIN tree /\ tree[u].id = rows[k]
  BY <1>2 DEF RowsHome, Gone
<1>4. u # q /\ ~Under(u, p) /\ v = Swapping(u, p, q)
  BY <1>2, <1>3
<1> HIDE DEF u, v
<1>5. v \in DOMAIN tree' /\ tree'[v].id = rows[k]
  BY <1>1, <1>3, <1>4, HomeMoves
<1> QED BY <1>2, <1>5 DEF v

----------------------------------------------------------------------------
(* The rename: a to b *)

\* What a rename or an exchange of a and b names.
LEMMA NamedIs ==
    ASSUME NEW a \in Paths, NEW b \in Paths
    PROVE  /\ a \in Path \ {<<>>} /\ b \in Path \ {<<>>} /\ SwapPath(a) \in Path \ {<<>>}
           /\ SwapPath(a) \notin {a, b} /\ Exchanging \notin Path
           /\ ~Under(a, SwapPath(a)) /\ ~Under(b, SwapPath(a)) /\ ~Under(SwapPath(a), a)
           /\ (Under(SwapPath(a), b) => Under(a, b))
<1>1. a \in Path \ {<<>>} /\ b \in Path \ {<<>>}
  BY PathsAre
<1>2. SwapPath(a) \in Path \ {<<>>}
  <2>1. SwapPath(a) \in Path /\ Len(SwapPath(a)) = Len(a) /\ Len(a) # 0
    BY PathsAre
  <2> QED BY <2>1, PathIs
<1>3. Exchanging \notin Path
  BY SwapAssumption DEF Path
<1> QED BY <1>1, <1>2, <1>3, SwapPathIs

LEMMA PlainRenameLeads ==
    ASSUME TypeInv, NEW t \in Tasks, NEW r \in Asked, task[t] = r, CallOK(r), Fine(r), FsRenamePlain(t)
    PROVE  Leads(t)
<1> DEFINE a == r.path
           b == r.to
<1>1. TasksOK /\ Rooted /\ a \in Paths /\ b \in Paths /\ r.at = "rename" /\ a # b
  BY DEF TypeInv, OwnersInv, Asked, FsRenamePlain, At, CallOK, Moving
<1>2. FsRename(t, a, b, "move_rows")
  BY DEF FsRenamePlain
<1>3. a \in Path \ {<<>>} /\ b \in Path \ {<<>>}
  BY <1>1, NamedIs
<1> HIDE DEF a, b
<1>4. Moved(a, b) /\ Goto(t, "move_rows")
  BY <1>1, <1>2, <1>3, FsRenameIs DEF FsRename
<1>5. ASSUME NEW y \in Asked, Same(y, r, "move_rows") PROVE Fine(y)'
  <2>1. y.at = "move_rows" /\ y.path = a /\ y.to = b
    BY <1>5 DEF Same, a, b
  <2>2. Stage(y)'
    BY <1>1, <1>3, <1>4, <2>1, MovedTree DEF Stage, Exchanges
  <2>3. \A w : Home(r, w) = w /\ Home(y, w) = Swapping(w, a, b)
    BY <1>1, <2>1 DEF Home
  <2>4. \A w : w \in DOMAIN tree /\ ~(w \in DOMAIN tree /\ w = b) /\ w \notin Children(a) =>
                   w # b /\ ~Under(w, a)
    BY DEF Children
  <2>5. RowsHome(y)'
    BY <1>1, <1>2, <1>3, <2>1, <2>3, <2>4, RowsHomeMove DEF Fine
  <2> QED BY <2>2, <2>5 DEF Fine
<1> QED BY <1>1, <1>4, <1>5, ItGoesOn DEF Places

----------------------------------------------------------------------------
(* The exchange: a to S, b to a, S to b *)

LEMMA SwapOutLeads ==
    ASSUME TypeInv, NEW t \in Tasks, NEW r \in Asked, task[t] = r, Fine(r),
           r.at = "swap_out", FsRename(t, r.path, SwapPath(r.path), "swap_over")
    PROVE  Leads(t)
<1> DEFINE a == r.path
           b == r.to
           S == SwapPath(a)
<1>1. TasksOK /\ Rooted /\ a \in Paths /\ b \in Paths /\ a # b
  BY DEF TypeInv, OwnersInv, Asked, Fine, Stage, Exchanges
<1>2. a \in Path \ {<<>>} /\ S \in Path \ {<<>>} /\ S # a
  BY <1>1, NamedIs
<1>3. FsRename(t, a, S, "swap_over")
  OBVIOUS
<1> HIDE DEF a, b
<1>4. ASSUME NEW y \in Asked, Same(y, r, "swap_over") PROVE Fine(y)'
  <2>1. y.at = "swap_over" /\ y.path = a /\ y.to = b /\ SwapPath(y.path) = S
    BY <1>4 DEF Same, a, b
  <2> HIDE DEF S
  <2>2. Moved(a, S)
    BY <1>2, <1>3, FsRenameIs
  <2>3. a \notin DOMAIN tree'
    BY <1>1, <1>2, <2>2, MovedTree
  <2>4. Stage(y)'
    BY <1>1, <2>1, <2>3 DEF Stage, Exchanges
  <2>5. \A w : Home(r, w) = w /\ Home(y, w) = Swapping(w, a, S)
    BY <2>1 DEF Home
  <2>6. \A w : w \in DOMAIN tree /\ ~(w \in DOMAIN tree /\ w = S) /\ w \notin Children(a) =>
                   w # S /\ ~Under(w, a)
    BY DEF Children
  <2>7. RowsHome(y)'
    BY <1>2, <1>3, <2>1, <2>5, <2>6, RowsHomeMove DEF Fine
  <2> QED BY <2>4, <2>7 DEF Fine
<1>5. Goto(t, "swap_over")
  BY <1>3 DEF FsRename
<1> QED BY <1>1, <1>4, <1>5, ItGoesOn DEF Places

LEMMA SwapOverLeads ==
    ASSUME TypeInv, NEW t \in Tasks, NEW r \in Asked, task[t] = r, Fine(r),
           r.at = "swap_over", FsRename(t, r.to, r.path, "swap_in")
    PROVE  Leads(t)
<1> DEFINE a == r.path
           b == r.to
           S == SwapPath(a)
<1>1. TasksOK /\ Rooted /\ a \in Paths /\ b \in Paths /\ a # b /\ a \notin DOMAIN tree
  BY DEF TypeInv, OwnersInv, Asked, Fine, Stage, Exchanges
<1>2. /\ a \in Path \ {<<>>} /\ b \in Path \ {<<>>} /\ S # a /\ S # b
      /\ (Under(S, b) => Under(a, b))
  BY <1>1, NamedIs
<1>3. FsRename(t, b, a, "swap_in")
  OBVIOUS
<1>4. \A w : Home(r, w) = Swapping(w, a, S)
  BY DEF Home
<1> HIDE DEF a, b, S
<1>5. Moved(b, a) /\ ~Under(a, b)
  BY <1>1, <1>2, <1>3, FsRenameIs DEF Moved
<1>6. ASSUME NEW y \in Asked, Same(y, r, "swap_in") PROVE Fine(y)'
  <2>1. y.at = "swap_in" /\ y.path = a /\ y.to = b /\ SwapPath(y.path) = S
    BY <1>6 DEF Same, a, b, S
  <2>2. b \notin DOMAIN tree'
    BY <1>1, <1>2, <1>5, MovedTree
  <2>3. Stage(y)'
    BY <1>1, <2>1, <2>2 DEF Stage, Exchanges
  <2>4. ASSUME NEW w, Home(r, w) \in DOMAIN tree, w \notin Children(b)
        PROVE  /\ Home(r, w) # a /\ ~Under(Home(r, w), b)
               /\ Home(y, w) = Swapping(Home(r, w), b, a)
    <3> DEFINE u == Home(r, w)
    <3>1. u = Swapping(w, a, S) /\ Home(y, w) = Swapping(u, b, a)
      BY <1>4, <2>1 DEF Home
    <3>2. u \in DOMAIN tree
      BY <2>4
    <3> HIDE DEF u
    <3>3. u # a /\ (u = S \/ u = w)
      BY <1>1, <3>1, <3>2 DEF Swapping
    <3>4. ~Under(u, b)
      BY <1>2, <1>5, <2>4, <3>2, <3>3 DEF Children
    <3> QED BY <3>1, <3>3, <3>4 DEF u
  <2>5. RowsHome(y)'
    BY <1>1, <1>2, <1>3, <2>1, <2>4, RowsHomeMove DEF Fine
  <2> QED BY <2>3, <2>5 DEF Fine
<1>7. Goto(t, "swap_in")
  BY <1>3 DEF FsRename
<1> QED BY <1>1, <1>6, <1>7, ItGoesOn DEF Places

LEMMA SwapInLeads ==
    ASSUME TypeInv, NEW t \in Tasks, NEW r \in Asked, task[t] = r, Fine(r),
           r.at = "swap_in", FsRename(t, SwapPath(r.path), r.to, "rows_out")
    PROVE  Leads(t)
<1> DEFINE a == r.path
           b == r.to
           S == SwapPath(a)
<1>1. TasksOK /\ Rooted /\ a \in Paths /\ b \in Paths /\ a # b /\ b \notin DOMAIN tree
  BY DEF TypeInv, OwnersInv, Asked, Fine, Stage, Exchanges
<1>2. /\ b \in Path \ {<<>>} /\ S \in Path \ {<<>>} /\ S # a /\ S # b
      /\ ~Under(a, S) /\ ~Under(S, S)
  BY <1>1, NamedIs, UnderOrder
<1>3. FsRename(t, S, b, "rows_out")
  OBVIOUS
<1>4. \A w : Home(r, w) = Swapping(Swapping(w, a, S), b, a)
  BY DEF Home
<1> HIDE DEF a, b, S
<1>5. ASSUME NEW y \in Asked, Same(y, r, "rows_out") PROVE Fine(y)'
  <2>1. y.at = "rows_out" /\ y.path = a /\ y.to = b
    BY <1>5 DEF Same, a, b
  <2>2. Stage(y)'
    BY <1>1, <2>1 DEF Stage, Exchanges
  <2>3. ASSUME NEW w, Home(r, w) \in DOMAIN tree, w \notin Children(S)
        PROVE  /\ Home(r, w) # b /\ ~Under(Home(r, w), S)
               /\ Home(y, w) = Swapping(Home(r, w), S, b)
    <3> DEFINE u == Home(r, w)
    <3>1. u = Swapping(Swapping(w, a, S), b, a) /\ Home(y, w) = Swapping(w, a, b)
      BY <1>4, <2>1 DEF Home
    <3>2. u \in DOMAIN tree
      BY <2>3
    <3> HIDE DEF u
    <3>3. u # b /\ (u = S \/ u = a \/ u = w)
      BY <1>1, <3>1, <3>2 DEF Swapping
    <3>4. ~Under(u, S)
      BY <1>2, <2>3, <3>2, <3>3 DEF Children
    <3>5. Swapping(u, S, b) = Swapping(w, a, b)
      BY <1>1, <1>2, <3>1 DEF Swapping
    <3> QED BY <3>1, <3>3, <3>4, <3>5 DEF u
  <2>4. RowsHome(y)'
    BY <1>1, <1>2, <1>3, <2>1, <2>3, RowsHomeMove DEF Fine
  <2> QED BY <2>2, <2>4 DEF Fine
<1>6. Goto(t, "rows_out")
  BY <1>3 DEF FsRename
<1> QED BY <1>1, <1>5, <1>6, ItGoesOn DEF Places

----------------------------------------------------------------------------
(* The rows after a rename *)

\* The rows of p become those of q, and no other row changes.
LEMMA RowsMoved ==
    ASSUME RowsOK, NEW p, NEW q \in Where, MoveRows(p, q), KeysFree(p, q)
    PROVE  \A k \in DOMAIN rows' : \E l \in DOMAIN rows :
               /\ rows'[k] = rows[l]
               /\ (l[1] = p /\ k[1] = q) \/ (l[1] # p /\ k[1] = l[1])
<1> SUFFICES ASSUME NEW k \in DOMAIN rows'
             PROVE  \E l \in DOMAIN rows :
                        /\ rows'[k] = rows[l]
                        /\ (l[1] = p /\ k[1] = q) \/ (l[1] # p /\ k[1] = l[1])
  OBVIOUS
<1>1. /\ DOMAIN rows' = (DOMAIN rows \ RowsAt(p)) \cup {<<q, l[2]>> : l \in RowsAt(p)}
      /\ \A l \in DOMAIN rows \ RowsAt(p) : rows'[l] = rows[l]
      /\ \A l \in RowsAt(p) : <<q, l[2]>> \notin DOMAIN rows => rows'[<<q, l[2]>>] = rows[l]
  BY RowsMove
<1>2. \A l \in DOMAIN rows : l \in RowsAt(p) <=> l[1] = p
  BY DEF RowsAt
<1>3. CASE k \in DOMAIN rows \ RowsAt(p)
  BY <1>1, <1>2, <1>3
<1>4. ASSUME NEW l \in RowsAt(p), k = <<q, l[2]>> PROVE rows'[k] = rows[l] /\ l \in DOMAIN rows /\ l[1] = p /\ k[1] = q
  <2>1. k[1] = q /\ l \in DOMAIN rows /\ l[1] = p
    BY <1>4 DEF RowsAt
  <2>2. k \notin DOMAIN rows
    BY <1>4 DEF KeysFree
  <2> QED BY <1>1, <1>4, <2>1, <2>2
<1> QED BY <1>1, <1>3, <1>4

\* Rows are home after an UPDATE if their places are what they were; one that
\* is at q already has no home.
LEMMA RowsHomeUpdate ==
    ASSUME RowsOK, NEW p, NEW q \in Where, UpdateRows(p, q),
           NEW r, NEW y, RowsHome(r), r.at # "remove_all", y.at # "remove_all", Home(r, q) \notin DOMAIN tree,
           Home(y, q) = Home(r, p), \A w : w # p /\ w # q => Home(y, w) = Home(r, w)
    PROVE  RowsHome(y)'
<1> SUFFICES ASSUME NEW k \in DOMAIN rows', rows'[k] \in Items
             PROVE  Home(y, k[1]) \in DOMAIN tree' /\ tree'[Home(y, k[1])].id = rows'[k]
  BY DEF RowsHome, Home, Gone
<1>1. MoveRows(p, q) /\ KeysFree(p, q) /\ UNCHANGED tree
  BY DEF UpdateRows
<1>2. PICK l \in DOMAIN rows :
             /\ rows'[k] = rows[l]
             /\ (l[1] = p /\ k[1] = q) \/ (l[1] # p /\ k[1] = l[1])
  BY <1>1, RowsMoved
<1>3. Home(r, l[1]) \in DOMAIN tree /\ tree[Home(r, l[1])].id = rows[l]
  BY <1>2 DEF RowsHome, Gone
<1>4. Home(y, k[1]) = Home(r, l[1])
  BY <1>2, <1>3
<1> QED BY <1>1, <1>2, <1>3, <1>4

LEMMA RowsLead ==
    ASSUME TypeInv, NEW t \in Tasks, NEW r \in Asked, task[t] = r, Fine(r), RenameRows(t) \/ ExchangeRows(t)
    PROVE  Leads(t)
<1> DEFINE a == r.path
           b == r.to
           e == Exchanging
<1>1. TasksOK /\ Rooted /\ RowsOK /\ a \in Paths /\ b \in Paths
  BY DEF TypeInv, OwnersInv, Asked
<1>2. r.at \in {"move_rows", "rows_out", "rows_over", "rows_in"} /\ Stage(r)
  BY DEF RenameRows, ExchangeRows, At, Fine
<1>3. /\ a \in Where /\ b \in Where /\ e \in Where /\ a # b /\ e # a /\ e # b /\ e \notin DOMAIN tree
      /\ r.at = "move_rows" => a \notin DOMAIN tree
  BY <1>1, <1>2, NamedIs DEF Where, Rooted, Stage, Exchanges
<1> HIDE DEF a, b, e
\* The last of the moves leaves every row at its item.
<1>4. ASSUME NEW p, NEW q \in Where, p # q, UpdateRows(p, q), Done(t), Home(r, q) \notin DOMAIN tree,
             Home(r, p) = q, \A w : w # p /\ w # q => Home(r, w) = w
      PROVE  Leads(t)
  <2>1. Idle.at = "idle" /\ \A w : Home(Idle, w) = w
    BY DEF Idle, Home
  <2>2. RowsHome(Idle)'
    <3> HIDE DEF Idle
    <3>1. r.at # "remove_all" /\ Idle.at # "remove_all"
      BY <1>2, <2>1
    <3> QED BY <1>1, <1>4, <2>1, <3>1, RowsHomeUpdate DEF Fine
  <2>3. Stage(Idle)'
    BY DEF Idle, Stage, Exchanges
  <2> QED BY <1>4, <2>2, <2>3, ItEnds DEF Fine
\* The others leave it to the next.
<1>5. ASSUME NEW p, NEW q \in Where, UpdateRows(p, q), NEW here \in {"rows_over", "rows_in"}, Goto(t, here),
             Home(r, q) \notin DOMAIN tree,
             \A y \in Asked : Same(y, r, here) =>
                 Home(y, q) = Home(r, p) /\ \A w : w # p /\ w # q => Home(y, w) = Home(r, w)
      PROVE  Leads(t)
  <2>1. ASSUME NEW y \in Asked, Same(y, r, here) PROVE Fine(y)'
    <3>1. y.at \in {"rows_over", "rows_in"} /\ y.path = a /\ y.to = b
      BY <1>5, <2>1 DEF Same, a, b
    <3>2. Stage(y)'
      BY <1>3, <3>1 DEF Stage, Exchanges
    <3>3. Home(y, q) = Home(r, p) /\ \A w : w # p /\ w # q => Home(y, w) = Home(r, w)
      BY <1>5, <2>1
    <3>4. r.at # "remove_all" /\ y.at # "remove_all"
      BY <1>2, <3>1
    <3>5. RowsHome(y)'
      BY <1>1, <1>5, <3>3, <3>4, RowsHomeUpdate DEF Fine
    <3> QED BY <3>2, <3>5 DEF Fine
  <2> QED BY <1>1, <1>5, <2>1, ItGoesOn DEF Places
<1>6. CASE RenameRows(t)
  <2>1. r.at = "move_rows" /\ UpdateRows(a, b) /\ Done(t)
    BY <1>6 DEF RenameRows, UpdateRows, At, a, b
  <2>2. \A w : Home(r, w) = Swapping(w, a, b)
    BY <2>1 DEF Home, a, b
  <2>3. Home(r, b) \notin DOMAIN tree /\ Home(r, a) = b /\ \A w : w # a /\ w # b => Home(r, w) = w
    BY <1>3, <2>1, <2>2 DEF Swapping
  <2> QED BY <1>3, <1>4, <2>1, <2>3
<1>7. ASSUME r.at = "rows_out", UpdateRows(a, e), Goto(t, "rows_over") PROVE Leads(t)
  <2>1. \A w : Home(r, w) = Swapping(w, a, b)
    BY <1>7 DEF Home, a, b
  <2>2. Home(r, e) \notin DOMAIN tree
    BY <1>3, <2>1 DEF Swapping
  <2>3. ASSUME NEW y \in Asked, Same(y, r, "rows_over")
        PROVE  Home(y, e) = Home(r, a) /\ \A w : w # a /\ w # e => Home(y, w) = Home(r, w)
    <3>1. \A w : Home(y, w) = Swapping(Swapping(w, a, e), a, b)
      BY <2>3 DEF Same, Home, a, b, e
    <3> QED BY <1>3, <2>1, <3>1 DEF Swapping
  <2> QED BY <1>3, <1>5, <1>7, <2>2, <2>3
<1>8. ASSUME r.at = "rows_over", UpdateRows(b, a), Goto(t, "rows_in") PROVE Leads(t)
  <2>1. \A w : Home(r, w) = Swapping(Swapping(w, a, e), a, b)
    BY <1>8 DEF Home, a, b, e
  <2>2. Home(r, a) \notin DOMAIN tree
    BY <1>3, <2>1 DEF Swapping
  <2>3. ASSUME NEW y \in Asked, Same(y, r, "rows_in")
        PROVE  Home(y, a) = Home(r, b) /\ \A w : w # b /\ w # a => Home(y, w) = Home(r, w)
    <3>1. \A w : Home(y, w) = Swapping(w, e, b)
      BY <2>3 DEF Same, Home, b, e
    <3> QED BY <1>3, <2>1, <3>1 DEF Swapping
  <2> QED BY <1>3, <1>5, <1>8, <2>2, <2>3
<1>9. ASSUME r.at = "rows_in", UpdateRows(e, b), Done(t) PROVE Leads(t)
  <2>1. \A w : Home(r, w) = Swapping(w, e, b)
    BY <1>9 DEF Home, b, e
  <2>2. Home(r, b) \notin DOMAIN tree /\ Home(r, e) = b /\ \A w : w # e /\ w # b => Home(r, w) = w
    BY <1>3, <2>1 DEF Swapping
  <2> QED BY <1>3, <1>4, <1>9, <2>2
<1>10. CASE ExchangeRows(t)
  <2>1. \/ r.at = "rows_out" /\ UpdateRows(a, e) /\ Goto(t, "rows_over")
        \/ r.at = "rows_over" /\ UpdateRows(b, a) /\ Goto(t, "rows_in")
        \/ r.at = "rows_in" /\ UpdateRows(e, b) /\ Done(t)
    BY <1>10 DEF ExchangeRows, UpdateRows, At, a, b, e
  <2> QED BY <1>7, <1>8, <1>9, <2>1
<1> QED BY <1>6, <1>10

----------------------------------------------------------------------------
(* The items and their attributes *)

LEMMA OnlyOne ==
    ASSUME Single, overlaps = 0, NEW t \in Tasks, task[t] # Idle
    PROVE  \A s \in Tasks : task[s] # Idle => s = t
BY DEF Single

LEMMA StepSingle == ASSUME TypeInv, Single, NEW t \in Tasks, Step(t) PROVE Single'
<1>1. TasksOK /\ task[t].at # "idle" /\ UNCHANGED overlaps
  BY StepIs DEF TypeInv, OwnersInv
<1>2. task[t] \in Asked /\ task[t] # Idle /\ CallOK(task[t])
  BY <1>1, BusyTask DEF TypeInv, CallsOK
<1> SUFFICES ASSUME overlaps = 0 PROVE Single'
  BY <1>1 DEF Single
<1>3. PICK r \in Asked : r = task[t]
  BY <1>2
<1>4. Fine(r) /\ CallOK(r)
  BY <1>2, <1>3 DEF Single
<1> SUFFICES Leads(t)
  <2>1. \A s \in Tasks : task[s] # Idle => s = t
    BY <1>2, OnlyOne
  <2> QED BY <1>1, <2>1, LeadsSingle
<1>5. CASE \/ Stat(t) \/ NoReplace(t) \/ Count(t) \/ Update(t) \/ Open(t) \/ CreateDir(t) \/ Chown(t)
           \/ Insert(t) \/ RemoveOne(t)
  BY <1>3, <1>4, <1>5, PlainLeads
<1>6. CASE Delete(t) \/ RemoveAll(t)
  BY <1>3, <1>4, <1>6, DeleteLeads
<1>7. CASE FsRenamePlain(t)
  BY <1>3, <1>4, <1>7, PlainRenameLeads
<1>8. CASE Swap(t)
  <2>1. \/ r.at = "swap_out" /\ FsRename(t, r.path, SwapPath(r.path), "swap_over")
        \/ r.at = "swap_over" /\ FsRename(t, r.to, r.path, "swap_in")
        \/ r.at = "swap_in" /\ FsRename(t, SwapPath(r.path), r.to, "rows_out")
    BY <1>3, <1>8 DEF Swap, At
  <2> QED BY <1>3, <1>4, <2>1, SwapOutLeads, SwapOverLeads, SwapInLeads
<1>9. CASE RenameRows(t) \/ ExchangeRows(t)
  BY <1>3, <1>4, <1>9, RowsLead
<1> QED BY <1>5, <1>6, <1>7, <1>8, <1>9 DEF Step

\* What the items have left behind when a step fails is marked, and every other
\* row is where its item is.
LEMMA FailsSingle == ASSUME TypeInv, Single, NEW t \in Tasks, Fails(t) PROVE Single'
<1>1. TasksOK /\ TreeOK /\ Rooted /\ task[t] # Idle /\ UNCHANGED overlaps /\ Done(t)
  BY DEF TypeInv, OwnersInv, Fails
<1>2. task[t] \in Asked
  BY <1>1 DEF TasksOK
<1> SUFFICES ASSUME overlaps = 0 PROVE Single'
  BY <1>1 DEF Single
<1>3. PICK r \in Asked : r = task[t]
  BY <1>2
<1>4. Fine(r)
  BY <1>3 DEF Single
<1> DEFINE a == r.path
           b == r.to
           S == SwapPath(a)
           e == Exchanging
           B == Behind(t)
<1>5. B = CASE r.at \in {"remove_all", "move_rows", "swap_over"} -> {a}
            [] r.at \in {"swap_in", "rows_out"} -> {a, b}
            [] r.at = "rows_over" -> {e, b}
            [] r.at = "rows_in" -> {e}
            [] OTHER -> {}
  BY <1>3 DEF Behind
<1>6. /\ e \notin DOMAIN tree /\ a \in Paths /\ b \in Paths /\ e # a /\ e # b /\ S # a /\ S # b
      /\ r.at \in {"move_rows", "swap_over"} => a \notin DOMAIN tree
      /\ r.at = "swap_in" => b \notin DOMAIN tree
  BY <1>1, <1>4, NamedIs DEF Rooted, Asked, Fine, Stage
<1>7. ASSUME NEW w, w \notin B PROVE ~Gone(r, w) /\ (Home(r, w) = w \/ Home(r, w) \notin DOMAIN tree)
  <2>1. CASE r.at = "remove_all"
    BY <1>5, <1>7, <2>1 DEF Gone, Home
  <2>2. CASE r.at = "move_rows"
    BY <1>5, <1>6, <1>7, <2>2 DEF Gone, Home, Swapping
  <2>3. CASE r.at = "swap_over"
    BY <1>5, <1>6, <1>7, <2>3 DEF Gone, Home, Swapping
  <2>4. CASE r.at = "swap_in"
    BY <1>5, <1>6, <1>7, <2>4 DEF Gone, Home, Swapping
  <2>5. CASE r.at = "rows_out"
    BY <1>5, <1>6, <1>7, <2>5 DEF Gone, Home, Swapping
  <2>6. CASE r.at = "rows_over"
    BY <1>5, <1>6, <1>7, <2>6 DEF Gone, Home, Swapping
  <2>7. CASE r.at = "rows_in"
    BY <1>5, <1>6, <1>7, <2>7 DEF Gone, Home, Swapping
  <2>8. CASE r.at \notin {"remove_all", "move_rows", "swap_over", "swap_in", "rows_out", "rows_over", "rows_in"}
    BY <2>8 DEF Gone, Home
  <2> QED BY <2>1, <2>2, <2>3, <2>4, <2>5, <2>6, <2>7, <2>8
<1>8. rows' = Marked(B, NoItem) /\ NoItem \notin Items
  BY ItemsAssumption DEF Fails
<1>9. DOMAIN tree' = DOMAIN tree /\ \A q \in DOMAIN tree : tree'[q].id = tree[q].id
  BY <1>1, FailsIs
<1> HIDE DEF B
<1>10. ASSUME NEW k \in DOMAIN rows', rows'[k] \in Items PROVE k[1] \in DOMAIN tree' /\ tree'[k[1]].id = rows'[k]
  <2>1. k \in DOMAIN rows /\ rows'[k] = rows[k] /\ k[1] \notin B
    BY <1>8, <1>10, MarkedIs
  <2>2. Home(r, k[1]) \in DOMAIN tree /\ tree[Home(r, k[1])].id = rows[k]
    BY <1>4, <1>7, <1>10, <2>1 DEF Fine, RowsHome
  <2> QED BY <1>7, <1>9, <2>1, <2>2
<1>11. Leads(t)
  <2>1. RowsRest'
    BY <1>10 DEF RowsRest, AtHome
  <2> QED BY <1>1, <2>1, IdleFine, ItEnds
<1>12. \A s \in Tasks : task[s] # Idle => s = t
  BY <1>1, OnlyOne
<1> QED BY <1>1, <1>11, <1>12, LeadsSingle

LEMMA SingleNext == TypeInv /\ Single /\ [Next]_vars => Single'
<1> SUFFICES ASSUME TypeInv, Single, [Next]_vars PROVE Single'
  OBVIOUS
<1>1. CASE UNCHANGED vars
  <2>1. UNCHANGED <<tree, rows, task, overlaps>>
    BY <1>1 DEF vars
  <2>2. ASSUME NEW r, Fine(r) PROVE Fine(r)'
    BY <2>1, <2>2 DEF Fine, Stage, RowsHome, Home, Gone
  <2> QED BY <2>1, <2>2 DEF Single, Quiet
<1>2. CASE Next
  BY <1>2, StartSingle, StepSingle, FailsSingle DEF Next
<1> QED BY <1>1, <1>2

LEMMA SingleStart == Init => Single
<1> SUFFICES ASSUME Init PROVE Single
  OBVIOUS
<1>1. DOMAIN tree = {} /\ DOMAIN rows = {} /\ \A t \in Tasks : task[t] = Idle
  BY DEF Init
<1>2. Idle \notin Asked
  BY DEF Idle, Asked, Places
<1>3. Fine(Idle)
  BY <1>1 DEF Fine, Stage, RowsHome, Idle, Exchanges
<1> QED BY <1>1, <1>2, <1>3 DEF Single

LEMMA SingleCorrect == Spec => [](TypeInv /\ Single)
<1>1. Init => TypeInv /\ Single
  BY TypeStart, SingleStart
<1>2. TypeInv /\ Single /\ [Next]_vars => (TypeInv /\ Single)'
  BY TypeStep, SingleNext
<1> QED BY <1>1, <1>2, PTL DEF Spec

\* As long as requests come one at a time, every extended attribute that was set
\* on an item is, between them, at the path of that item, wherever renames and
\* exchanges have taken it, and gone with a deleted item (storage.rs:180-310,
\* db.rs:440-560), unless a rename has left it behind, replacing its item or
\* moving the directory above, or a request failed before its rows had moved.
THEOREM XattrsFollowRenames == Spec => []XattrsFollow
<1>1. TypeInv /\ Single => XattrsFollow
  <2> SUFFICES ASSUME TypeInv, Single, Quiet, overlaps = 0, NEW k \in DOMAIN rows
               PROVE  rows[k] = Left \/ rows[k] = NoItem \/ rows[k] = ItemAt(k[1])
    BY DEF XattrsFollow, RowFollows
  <2>1. Fine(Idle) /\ Idle.at \in Resting
    BY DEF Single, Idle, Resting
  <2>2. rows[k] \in Items => k[1] \in DOMAIN tree /\ tree[k[1]].id = rows[k]
    BY <2>1, FineResting DEF RowsRest, AtHome
  <2>3. rows[k] \in Items \cup {NoItem, Left}
    BY DEF TypeInv, RowsOK
  <2> QED BY <2>2, <2>3 DEF ItemAt
<1> QED BY <1>1, SingleCorrect, PTL

\* The only items that go are the one a delete names, the one that a plain rename
\* puts another in the place of, and what an exchange that failed halfway had left
\* at its temporary name (storage.rs:180-310): RENAME_NOREPLACE and the later
\* renames of RENAME_EXCHANGE take none, nor does a step that fails, as long as
\* requests come one at a time.
THEOREM ItemsAreConserved == Spec => ItemsConserved
<1> DEFINE Loses(p, t) == \/ At(t, "delete") /\ p = task[t].path
                          \/ At(t, "rename") /\ p = task[t].to /\ task[t].op = "rename"
                          \/ At(t, "swap_out") /\ p = SwapPath(task[t].path)
           Kept == \A p \in DOMAIN tree : tree[p].id \notin Ids' => \E t \in Tasks : Loses(p, t)
<1>1. ASSUME DOMAIN tree \subseteq DOMAIN tree', \A q \in DOMAIN tree : tree'[q].id = tree[q].id PROVE Kept
  BY <1>1 DEF Ids
<1>2. UNCHANGED tree => Kept
  BY <1>1
<1>3. ASSUME TypeInv, Single, NEW t \in Tasks, Step(t), overlaps = 0 PROVE Kept
  <2>1. TasksOK /\ TreeOK /\ Rooted /\ task[t].at # "idle"
    BY <1>3, StepIs DEF TypeInv, OwnersInv
  <2>2. task[t] \in Asked /\ task[t] # Idle /\ CallOK(task[t])
    BY <1>3, <2>1, BusyTask DEF TypeInv, CallsOK
  <2>3. PICK r \in Asked : r = task[t]
    BY <2>2
  <2>4. Stage(r) /\ CallOK(r) /\ r.path \in Paths /\ r.to \in Paths
    BY <1>3, <2>2, <2>3 DEF Single, Asked, Fine
  <2> DEFINE a == r.path
             b == r.to
             S == SwapPath(a)
  <2>5. a \in Path \ {<<>>} /\ b \in Path \ {<<>>} /\ S \in Path \ {<<>>} /\ S # a /\ S # b
    BY <2>4, NamedIs
  <2>6. ASSUME NEW p \in Path \ {<<>>}, NEW q \in Path \ {<<>>}, p # q, NEW next, FsRename(t, p, q, next),
               q \in DOMAIN tree => Loses(q, t)
        PROVE  Kept
    <3>1. \A x \in DOMAIN tree : tree[x].id \notin Ids' => x = q
      BY <1>3, <2>1, <2>6, FsRenameIs, MovedTree
    <3> HIDE DEF Loses
    <3> QED BY <2>6, <3>1
  <2>7. CASE Delete(t)
    <3>1. At(t, "delete") /\ tree' = [q \in DOMAIN tree \ {a} |-> tree[q]]
      BY <2>3, <2>7 DEF Delete, RemoveItem
    <3>2. \A x \in DOMAIN tree : tree[x].id \notin Ids' => x = a
      <4> HIDE DEF a
      <4> QED BY <3>1 DEF Ids
    <3> QED BY <2>3, <3>1, <3>2
  <2>8. CASE FsRenamePlain(t)
    <3>1. r.at = "rename" /\ FsRename(t, a, b, "move_rows")
      BY <2>3, <2>8 DEF FsRenamePlain, At
    <3>2. a # b
      BY <2>4, <3>1 DEF CallOK, Moving
    <3>3. b \in DOMAIN tree => Loses(b, t)
      BY <2>3, <2>4, <3>1 DEF Stage, At
    <3> HIDE DEF a, b
    <3> QED BY <2>5, <2>6, <3>1, <3>2, <3>3
  <2>9. CASE Swap(t)
    <3>1. \/ r.at = "swap_out" /\ FsRename(t, a, S, "swap_over")
          \/ r.at = "swap_over" /\ FsRename(t, b, a, "swap_in")
          \/ r.at = "swap_in" /\ FsRename(t, S, b, "rows_out")
      BY <2>3, <2>9 DEF Swap, At
    <3>2. /\ r.at = "swap_out" => Loses(S, t)
          /\ r.at = "swap_over" => a \notin DOMAIN tree
          /\ r.at = "swap_in" => b \notin DOMAIN tree
      BY <2>3, <2>4 DEF Stage, At
    <3>3. a # b
      BY <2>4, <3>1 DEF Stage, Exchanges
    <3> HIDE DEF a, b, S, Loses, Kept
    <3> QED BY <2>5, <2>6, <3>1, <3>2, <3>3
  <2>10. CASE Open(t) \/ CreateDir(t)
    <3>1. UNCHANGED tree \/ \E p, kind, owner : Put(p, kind, owner) /\ p \notin DOMAIN tree
      BY <2>10 DEF Open, CreateDir, CreatesDir
    <3>2. UNCHANGED tree \/ (DOMAIN tree \subseteq DOMAIN tree' /\ \A q \in DOMAIN tree : tree'[q] = tree[q])
      BY <3>1 DEF Put
    <3> QED BY <1>1, <1>2, <3>2
  <2>11. CASE Chown(t)
    <3>1. a \in DOMAIN tree /\ tree' = [tree EXCEPT ![a].owner = r.user]
      BY <2>3, <2>11 DEF Chown
    <3> HIDE DEF a
    <3>2. DOMAIN tree' = DOMAIN tree /\ \A q \in DOMAIN tree : tree'[q].id = tree[q].id
      BY <2>1, <3>1 DEF TreeOK, Item
    <3> QED BY <1>1, <3>2
  <2>12. CASE \/ Stat(t) \/ NoReplace(t) \/ Count(t) \/ Update(t) \/ Insert(t) \/ RemoveOne(t) \/ RemoveAll(t)
              \/ RenameRows(t) \/ ExchangeRows(t)
    <3>1. UNCHANGED tree
      BY <2>12 DEF Stat, NoReplace, GoesOn, Count, Update, Insert, RemoveOne, RemoveAll,
                   RenameRows, ExchangeRows, UpdateRows
    <3> QED BY <1>2, <3>1
  <2> QED BY <1>3, <2>7, <2>8, <2>9, <2>10, <2>11, <2>12 DEF Step
<1>4. ASSUME TypeInv, Single, [Next]_vars, overlaps = 0 PROVE Kept
  <2>1. CASE UNCHANGED vars
    BY <1>2, <2>1 DEF vars
  <2>2. ASSUME NEW t \in Tasks, Start(t) PROVE Kept
    <3>1. UNCHANGED tree
      BY <1>4, <2>2, StartIs DEF TypeInv, OwnersInv, Starts
    <3> QED BY <1>2, <3>1
  <2>3. ASSUME NEW t \in Tasks, Fails(t) PROVE Kept
    BY <1>1, <1>4, <2>3, FailsIs DEF TypeInv, OwnersInv
  <2>4. ASSUME NEW t \in Tasks, Step(t) PROVE Kept
    BY <1>3, <1>4, <2>4
  <2> HIDE DEF Kept
  <2> QED BY <1>4, <2>1, <2>2, <2>3, <2>4 DEF Next
<1>5. TypeInv /\ Single /\ [Next]_vars => [overlaps = 0 => Kept]_vars
  BY <1>4
<1> QED BY <1>5, SingleCorrect, PTL DEF Spec, ItemsConserved
=============================================================================
