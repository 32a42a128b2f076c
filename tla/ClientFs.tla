------------------------------ MODULE ClientFs ------------------------------
(***************************************************************************)
(* The names of files on their way between the operating system and the    *)
(* server: the handlers of client/src/fuse/unix.rs and fuse/windows.rs, the *)
(* calls of client/src/fs_model.rs they make, the cached directories,      *)
(* links and attributes, and the requests of client/src/network/client.rs  *)
(* with their retries.                                                     *)
(*                                                                         *)
(* A task is one handler under way.  A request has two steps, the server's *)
(* and the client's; either message may be lost, and the server may fail   *)
(* (500), before it has changed anything or after: the rows, the owner and *)
(* the attributes of an item come after its change.  The middleware sends  *)
(* a request again after each of these.  An operation of the cache is part *)
(* of the step that calls it (its critical sections are module Cache);     *)
(* eviction and expiry show as Forget, at any time.  Sizes and data are    *)
(* module FileData, and the flush of a cleanup or a close is part of it.   *)
(***************************************************************************)
EXTENDS Names

CONSTANTS
    Tasks,
    NoEntry,    \* a path the cache does not have
    NoInfo,     \* an entry without attributes, without children, without target
    NoAnswer,   \* no handler is being answered
    Retries,    \* build_with_max_retries
    MaxChanges, \* bound on the changes of the tree and the entries forgotten
    MaxHandles, \* bound on the handles that are open at once
    Scopes      \* bound: adapter, tasks at once, calls, changes, handles, lossiness

ASSUME RetriesAssumption == Retries \in Nat
ASSUME BoundsAssumption == MaxChanges \in Nat /\ MaxHandles \in Nat

VARIABLES
    tree,       \* the items of the server
    cache,      \* FileSystem.cache
    handles,    \* FileSystem.file_handlers, or the Handles given to WinFsp
    task,       \* what each handler does next
    changes,    \* changes of the tree and entries forgotten so far
    untold,     \* history: cached paths that survived a change of their item
    overlapped, \* history: whether two handlers were ever under way together
    scope       \* the scope of this behaviour

track == <<untold, overlapped, scope>>
vars == <<tree, cache, handles, task, changes, track>>

Creations == {"mkdir", "symlink", "create"}
Excused == IF overlapped THEN Paths ELSE untold

----------------------------------------------------------------------------
(* The cache *)

Entry(kind, attrs, more) == [kind |-> kind, attrs |-> attrs, more |-> more]

Either(new, old) == IF new = NoInfo THEN old ELSE new
Merge(old, new) ==
    IF old.kind # new.kind THEN new
    ELSE Entry(old.kind, Either(new.attrs, old.attrs), Either(new.more, old.more))

PutIn(c, p, entry) == [c EXCEPT ![p] = IF @ = NoEntry THEN entry ELSE Merge(@, entry)]

\* Fault: put_new that leaves the parents alone.
PutNewAlone(c, p, entry) == [c EXCEPT ![p] = entry]

PutNew(c, p, entry) ==
    [x \in Paths |-> IF x \in Above[p] THEN NoEntry ELSE IF x = p THEN entry ELSE c[x]]

RemoveFrom(c, p) == [x \in Paths |-> IF x \in Above[p] \cup {p} THEN NoEntry ELSE c[x]]

\* cache_put_attr: the root has no file name and is not cached by it.
PutAttr(c, p, item) == IF p = Root THEN c ELSE PutIn(c, p, Entry(item.kind, item.id, NoInfo))

Cached(S) == {x \in S : cache[x] # NoEntry}

----------------------------------------------------------------------------
(* Requests *)

Idle == [at |-> "idle"]

Request(op, p, q) == [op |-> op, path |-> p, to |-> q]

\* What a call does first: look into the cache, or ask the server at once.
First(op) == CASE op = "stat" -> "attrs" [] op \in {"list", "readlink"} -> "look" [] op \in Mutations -> "send"

\* "todo" are paths whose attributes the call still has to get, "after" what
\* comes next, "then" what the handler does with the answer; "effects" counts
\* how often the server has carried the request out, "lost" the answers to it
\* that did not say what the server did: lost ones, and errors after a change.
Call(r, then) ==
    [at |-> First(r.op), op |-> r.op, path |-> r.path, to |-> r.to, then |-> then,
     todo |-> IF r.op = "stat" THEN <<r.path>> ELSE <<>>, after |-> "answer",
     own |-> NoInfo, result |-> "none", value |-> NoInfo, tries |-> 0, effects |-> 0, lost |-> 0]

Goto(t, next) == task' = [task EXCEPT ![t] = next]
At(t, at) == task[t].at = at

\* Bound: at most scope.tasks handlers at once.
Turn == Cardinality({u \in Tasks : task[u] # Idle}) < scope.tasks

Begin(t, r, then) ==
    /\ task[t] = Idle /\ r.op \in scope.ops /\ Turn
    /\ r.op \in Mutations \/ then = "missing" => changes < scope.changes
    /\ Goto(t, Call(r, then))
    /\ untold' = Cached(untold)
    /\ overlapped' = (overlapped \/ \E u \in Tasks : task[u] # Idle)
    /\ UNCHANGED <<tree, changes, scope>>

Plainly(t, r) == Begin(t, r, "reply") /\ UNCHANGED <<cache, handles>>

\* CURRENT_FH numbers a handle; the model reuses the numbers of closed ones.
Closed == [path |-> Root, delete |-> FALSE, open |-> FALSE]
Open(h) == handles[h].open
Numbers == 1 .. MaxHandles
Room == \E h \in 1 .. scope.handles : ~Open(h)
HandOut(p) ==
    LET free == CHOOSE h \in Numbers : ~Open(h) /\ \A g \in 1 .. h - 1 : Open(g)
    IN  [handles EXCEPT ![free] = [path |-> p, delete |-> FALSE, open |-> TRUE]]
JustOpen(p) ==
    /\ Room /\ Turn
    /\ handles' = HandOut(p)
    /\ UNCHANGED <<tree, cache, task, changes, track>>
SetHandle(h, value) ==
    /\ Open(h) /\ Turn
    /\ handles' = [handles EXCEPT ![h] = value]
    /\ UNCHANGED <<tree, cache, task, changes, track>>

----------------------------------------------------------------------------
(* The handlers of the FUSE adapter *)

Fuse == scope.adapter = "fuse"

\* The kernel and WinFsp resolve a path from the root before they call: they
\* name items in directories they have found, and remove and move such items.
Seen(p) == tree[p] # Absent \/ cache[p] # NoEntry

Lookup(t, p) == Fuse /\ Seen(Up[p]) /\ Plainly(t, Request("stat", p, p))

\* getattr of a file whose path the kernel no longer has.
GetAttr(t, h) == Fuse /\ Open(h) /\ Plainly(t, Request("stat", handles[h].path, handles[h].path))

ReadDir(t, p) == Fuse /\ Seen(p) /\ Plainly(t, Request("list", p, p))
ReadLink(t, p) == Fuse /\ Seen(p) /\ Plainly(t, Request("readlink", p, p))
MkNod(t, p) == Fuse /\ Seen(Up[p]) /\ Plainly(t, Request("create", p, p))
MkDir(t, p) == Fuse /\ Seen(Up[p]) /\ Plainly(t, Request("mkdir", p, p))
Symlink(t, p) == Fuse /\ Seen(Up[p]) /\ Plainly(t, Request("symlink", p, p))
RmDir(t, p) == Fuse /\ Is(tree, p, "dir") /\ Plainly(t, Request("remove", p, p))
Unlink(t, p) == Fuse /\ Seen(p) /\ ~Is(tree, p, "dir") /\ Plainly(t, Request("remove", p, p))

Rename2(t, p, q, op) ==
    /\ Fuse /\ op \in scope.ops /\ task[t] = Idle /\ Seen(p) /\ Seen(Up[q])
    /\ Fits(tree, p, q) /\ (op = "exchange" => Fits(tree, q, p))
    /\ Plainly(t, Request(op, p, q))

\* create_file, then a handle.
CreateAndOpen(t, p) ==
    /\ Fuse /\ Room /\ Seen(Up[p])
    /\ Begin(t, Request("create", p, p), "open") /\ UNCHANGED <<cache, handles>>

\* open without O_TRUNC, and opendir: nothing is asked of the server.
OpenFile(p) == Fuse /\ Is(tree, p, "file") /\ JustOpen(p)
OpenDir(p) == Fuse /\ Is(tree, p, "dir") /\ JustOpen(p)
Release(h) == Fuse /\ SetHandle(h, Closed)

----------------------------------------------------------------------------
(* The callbacks of the WinFSP adapter: a handle keeps the path it was      *)
(* opened with, also when its item is renamed.                             *)

WinFsp == scope.adapter = "winfsp"

Opens(t, r) ==
    /\ WinFsp /\ Room /\ Seen(Up[r.path])
    /\ Begin(t, r, "open") /\ UNCHANGED <<cache, handles>>

WinOpen(t, p) == Opens(t, Request("stat", p, p))

WinStat(t, h) == WinFsp /\ Open(h) /\ Plainly(t, Request("stat", handles[h].path, handles[h].path))
WinList(t, h) == WinFsp /\ Open(h) /\ Plainly(t, Request("list", handles[h].path, handles[h].path))

\* create tests FILE_CREATE and FILE_OPEN_IF, which are numbers, as bits of the
\* options: every directory is made, whatever the disposition, and a file only
\* if it is to be written through.
WinCreateDir(t, p) == Opens(t, Request("mkdir", p, p))
WinCreateLink(t, p) == Opens(t, Request("symlink", p, p))
WinCreateFile(t, p) == Opens(t, Request("create", p, p))
WinCreateNothing(p) == WinFsp /\ Seen(Up[p]) /\ JustOpen(p)

\* write makes the file when its path has no attributes.
WinWrite(t, h) ==
    /\ WinFsp /\ Open(h)
    /\ Begin(t, Request("stat", handles[h].path, handles[h].path), "missing")
    /\ UNCHANGED <<cache, handles>>

WinRename(t, h, q, op) ==
    /\ WinFsp /\ Open(h) /\ Seen(Up[q])
    /\ Fits(tree, handles[h].path, q)
    /\ Plainly(t, Request(op, handles[h].path, q))

SetDelete(h, flag) == WinFsp /\ SetHandle(h, [handles[h] EXCEPT !.delete = flag])

\* cleanup of the last reference to a handle, and its close.  WinFsp gives the
\* name to forget, which is the item's present one, or none; what is removed is
\* the path of the handle.
Cleanup(t, h) ==
    /\ WinFsp /\ Open(h) /\ Turn
    /\ UNCHANGED cache \/ \E name \in Paths : cache' = [cache EXCEPT ![name] = NoEntry]
    /\ LET p == handles[h].path
       IN  IF handles[h].delete
           THEN Begin(t, Request("remove", p, p), "reply")
           ELSE UNCHANGED <<tree, task, changes, track>>
    /\ handles' = [handles EXCEPT ![h] = Closed]

----------------------------------------------------------------------------
(* Answers from the cache *)

Set(c, at, result) == [c EXCEPT !.at = at, !.result = result]
Find(c, at, value) == [Set(c, at, "done") EXCEPT !.value = value]

\* readdir: a cached directory with all its children and their attributes.
Known(p) == p \in Paths /\ cache[p] # NoEntry /\ cache[p].attrs # NoInfo
CachedItem(p) == Item(cache[p].kind, cache[p].attrs)
ListKnown(p) ==
    /\ cache[p] # NoEntry /\ cache[p].kind = "dir" /\ cache[p].more # NoInfo
    /\ \A c \in cache[p].more : Known(c)

\* "." and "..", whose attributes are got before the answer.
Dots(p) == <<p, Up[p]>>

LookList(t) ==
    /\ At(t, "look") /\ task[t].op = "list"
    /\ LET c == task[t]
       IN  Goto(t, IF ListKnown(c.path)
                   THEN [Find(c, "attrs", [x \in cache[c.path].more |-> CachedItem(x)])
                           EXCEPT !.todo = Dots(c.path)]
                   ELSE [c EXCEPT !.at = "send"])
    /\ UNCHANGED <<tree, cache, handles, changes, track>>

LookLink(t) ==
    /\ At(t, "look") /\ task[t].op = "readlink"
    /\ LET c == task[t]
           e == cache[c.path]
       IN  Goto(t, IF e # NoEntry /\ e.kind = "link" /\ e.more # NoInfo
                   THEN Find(c, "answer", e.more) ELSE [c EXCEPT !.at = "send"])
    /\ UNCHANGED <<tree, cache, handles, changes, track>>

\* get_attributes of the first path of todo has found item.
Got(c, item) ==
    [c EXCEPT !.todo = Tail(@), !.at = IF Len(c.todo) > 1 THEN "attrs" ELSE c.after,
              !.result = "done", !.value = IF c.op = "stat" THEN item ELSE @,
              !.own = IF c.after = "store" THEN item.id ELSE @]

LookAttributes(t) ==
    /\ At(t, "attrs")
    /\ LET c == task[t]
           p == Head(c.todo)
       IN  Goto(t, IF Known(p) THEN Got(c, CachedItem(p)) ELSE [c EXCEPT !.at = "ask", !.tries = 0])
    /\ UNCHANGED <<tree, cache, handles, changes, track>>

----------------------------------------------------------------------------
(* Requests and their answers *)

AskAttributes(t) ==
    /\ At(t, "ask")
    /\ LET item == Stat(tree, Head(task[t].todo))
       IN  Goto(t, IF item = Absent THEN Set(task[t], "answer", "refused")
                   ELSE [at |-> "told", item |-> item, call |-> task[t]])
    /\ UNCHANGED <<tree, cache, handles, changes, track>>

ToldAttributes(t) ==
    /\ At(t, "told")
    /\ LET c == task[t].call
       IN  /\ cache' = PutAttr(cache, Head(c.todo), task[t].item)
           /\ Goto(t, Got(c, task[t].item))
    /\ UNCHANGED <<tree, handles, changes, track>>

\* The server looks.
ServeList(t) ==
    /\ At(t, "send") /\ task[t].op = "list"
    /\ LET p == task[t].path
       IN  Goto(t, IF Is(tree, p, "dir") THEN Find(task[t], "reply", List(tree, p))
                   ELSE Set(task[t], "answer", "refused"))
    /\ UNCHANGED <<tree, cache, handles, changes, track>>

ServeLink(t) ==
    /\ At(t, "send") /\ task[t].op = "readlink"
    /\ LET target == Target(tree, task[t].path)
       IN  Goto(t, IF target # Absent THEN Find(task[t], "reply", target)
                   ELSE Set(task[t], "answer", "refused"))
    /\ UNCHANGED <<tree, cache, handles, changes, track>>

\* handle_response: the status tells whether the request was carried out, but
\* for an error of what follows the change: the rows of the item, its owner,
\* its attributes.  Fault: any answer is taken for a success.
OutcomesUnread(changed) == {"done"}
Outcomes(changed) ==
    IF changed = {} THEN {"refused"} ELSE {"done"} \cup (IF scope.lossy THEN {"error"} ELSE {})

\* The server carries the request out or refuses it.
Serve(t) ==
    /\ At(t, "send") /\ task[t].op \in Mutations
    /\ LET c == task[t]
           changed == Trees(tree, c.op, c.path, c.to, changes + 1)
           half == IF c.op = "exchange" THEN HalfExchange(tree, c.path, c.to) ELSE {}
       IN  /\ tree' \in IF changed # {} THEN changed ELSE IF half # {} THEN half ELSE {tree}
           /\ changes' = IF tree' # tree THEN changes + 1 ELSE changes
           /\ \E outcome \in Outcomes(changed) :
                Goto(t, [Set(c, "reply", outcome)
                           EXCEPT !.effects = IF changed \cup half # {} THEN @ + 1 ELSE @,
                                  !.own = IF c.op \in Creations /\ outcome = "done"
                                          THEN tree'[c.path].id ELSE NoInfo])
    /\ UNCHANGED <<cache, handles, track>>

\* An answer that does not say what the server did is one more of them.
Unsaid(c) == IF c.at = "reply" THEN c.lost + 1 ELSE c.lost

\* The middleware sends a request whose answer is lost or a 500 again.
Again(c) == [c EXCEPT !.tries = @ + 1, !.at = IF @ = "ask" THEN "ask" ELSE "send", !.lost = Unsaid(c)]

\* After the last try, and after an answer it does not repeat (the attributes of
\* a new item were not found, the body breaks off), the call has an error.
GiveUp(c) == [Set(c, "answer", "failed") EXCEPT !.lost = Unsaid(c)]

\* A message of the exchange is lost, or the server fails.
Lose(t) ==
    /\ scope.lossy
    /\ task[t].at \in {"send", "ask", "reply", "told"}
    /\ LET c == IF At(t, "told") THEN [task[t].call EXCEPT !.at = "ask"] ELSE task[t]
       IN  \/ c.tries < Retries /\ Goto(t, Again(c))
           \/ Goto(t, GiveUp(c))
    /\ UNCHANGED <<tree, cache, handles, changes, track>>

----------------------------------------------------------------------------
(* What the client makes of an answer *)

\* readdir: the elements are kept until the directory's own attributes are got.
Listed(t) ==
    /\ At(t, "reply") /\ task[t].op = "list"
    /\ Goto(t, [task[t] EXCEPT !.at = "attrs", !.todo = <<task[t].path>>, !.after = "store"])
    /\ UNCHANGED <<tree, cache, handles, changes, track>>

\* Then the directory and every element are put.
StoreList(t) ==
    /\ At(t, "store")
    /\ LET c == task[t]
           elems == c.value
       IN  /\ cache' = [x \in Paths |->
                IF x = c.path THEN PutIn(cache, x, Entry("dir", c.own, DOMAIN elems))[x]
                ELSE IF x \in DOMAIN elems
                THEN PutIn(cache, x, Entry(elems[x].kind, elems[x].id, NoInfo))[x]
                ELSE cache[x]]
           /\ Goto(t, [c EXCEPT !.at = "attrs", !.todo = Dots(c.path), !.after = "answer"])
    /\ UNCHANGED <<tree, handles, changes, track>>

\* read_symlink keeps the target.
StoreLink(t) ==
    /\ At(t, "reply") /\ task[t].op = "readlink"
    /\ cache' = PutIn(cache, task[t].path, Entry("link", NoInfo, task[t].value))
    /\ Goto(t, [task[t] EXCEPT !.at = "answer"])
    /\ UNCHANGED <<tree, handles, changes, track>>

Refused(t) ==
    /\ At(t, "reply") /\ task[t].result = "refused"
    /\ Goto(t, [task[t] EXCEPT !.at = "answer"])
    /\ UNCHANGED <<tree, cache, handles, changes, track>>

\* The answer to a call that was carried out changes the cache.  The items of
\* missed have changed as well, without a word to the cache.
Told(t, newCache, missed) ==
    /\ cache' = newCache
    /\ untold' = missed
    /\ Goto(t, [task[t] EXCEPT !.at = "answer"])
    /\ UNCHANGED <<tree, handles, changes, overlapped, scope>>

IsDone(t, op) == At(t, "reply") /\ task[t].op = op /\ task[t].result = "done"
Made(t, entry) == Told(t, PutNew(cache, task[t].path, entry), untold \ {task[t].path})

MadeFile(t) == IsDone(t, "create") /\ Made(t, Entry("file", task[t].own, NoInfo))
MadeDir(t) == IsDone(t, "mkdir") /\ Made(t, Entry("dir", task[t].own, {}))
MadeLink(t) == IsDone(t, "symlink") /\ Made(t, Entry("link", task[t].own, task[t].own))
Removed(t) == IsDone(t, "remove") /\ Told(t, RemoveFrom(cache, task[t].path), untold)

Exchanged(t) ==
    /\ IsDone(t, "exchange")
    /\ LET p == task[t].path
           q == task[t].to
       IN  Told(t, RemoveFrom(RemoveFrom(cache, p), q), untold \cup Below[p] \cup Below[q])

\* The names of the children move along in the entry, their own entries do not.
Carried(entry, p, q) ==
    IF entry.kind = "dir" /\ entry.more # NoInfo
    THEN [entry EXCEPT !.more = {Rebase(c, p, q) : c \in @}] ELSE entry

\* The item is put under its new name if the cache had it under the old one.
Renamed(t) ==
    /\ IsDone(t, "rename") \/ IsDone(t, "noreplace")
    /\ LET p == task[t].path
           q == task[t].to
           known == cache[p] # NoEntry
           bare == RemoveFrom(cache, p)
           moved == IF known THEN PutNew(bare, q, Carried(cache[p], p, q)) ELSE bare
           target == IF known THEN IF p \in untold THEN {q} ELSE {} ELSE {q, Up[q]}
       IN  Told(t, moved, (untold \ (IF known THEN {q} ELSE {})) \cup Below[p] \cup Below[q] \cup target)

----------------------------------------------------------------------------
(* The end of a call *)

\* Changed on the server although the call was refused or given up.
Unreported(c) ==
    IF c.op \in Mutations /\ c.effects > 0 /\ c.result # "done"
    THEN {c.path, c.to, Up[c.path], Up[c.to]} \cup Below[c.path] \cup Below[c.to]
    ELSE {}

\* The handler gets its answer: it passes it on, hands a handle out, or, the
\* write of WinFSP, creates the file it has not found.
Answer(t) ==
    /\ At(t, "answer")
    /\ LET c == task[t]
           good == c.result = "done"
       IN  /\ untold' = untold \cup Unreported(c)
           /\ handles' = IF c.then = "open" /\ good /\ Room THEN HandOut(c.path) ELSE handles
           /\ Goto(t, IF c.then = "missing" /\ ~good
                       THEN Call(Request("create", c.path, c.path), "reply") ELSE Idle)
    /\ UNCHANGED <<tree, cache, changes, overlapped, scope>>

\* forget, batch_forget, fsyncdir, an eviction or the end of a lease.
Forget(p) ==
    /\ cache[p] # NoEntry /\ changes < scope.changes
    /\ cache' = [cache EXCEPT ![p] = NoEntry]
    /\ changes' = changes + 1
    /\ UNCHANGED <<tree, handles, task, track>>

----------------------------------------------------------------------------
Init ==
    /\ scope \in Scopes
    /\ tree = [p \in Paths |-> IF p = Root THEN Item("dir", 0) ELSE Absent]
    /\ cache = [p \in Paths |-> NoEntry]
    /\ handles = [h \in Numbers |-> Closed]
    /\ task = [t \in Tasks |-> Idle]
    /\ changes = 0 /\ untold = {} /\ overlapped = FALSE

\* What a call under way does next.
Step(t) ==
    \/ LookList(t) \/ LookLink(t) \/ LookAttributes(t)
    \/ AskAttributes(t) \/ ToldAttributes(t)
    \/ ServeList(t) \/ ServeLink(t) \/ Serve(t) \/ Lose(t)
    \/ Listed(t) \/ StoreList(t) \/ StoreLink(t) \/ Refused(t)
    \/ MadeFile(t) \/ MadeDir(t) \/ MadeLink(t) \/ Removed(t)
    \/ Renamed(t) \/ Exchanged(t) \/ Answer(t)

Handler(t) ==
    \/ \E p \in Paths :
         \/ Lookup(t, p) \/ ReadDir(t, p) \/ ReadLink(t, p)
         \/ MkNod(t, p) \/ MkDir(t, p) \/ Symlink(t, p) \/ RmDir(t, p) \/ Unlink(t, p)
         \/ CreateAndOpen(t, p)
         \/ \E q \in Paths, op \in {"rename", "noreplace", "exchange"} : Rename2(t, p, q, op)
    \/ \E h \in Numbers : GetAttr(t, h)

Callback(t) ==
    \/ \E p \in Paths : WinOpen(t, p) \/ WinCreateDir(t, p) \/ WinCreateLink(t, p) \/ WinCreateFile(t, p)
    \/ \E h \in Numbers :
         \/ WinStat(t, h) \/ WinList(t, h) \/ WinWrite(t, h) \/ Cleanup(t, h)
         \/ \E q \in Paths, op \in {"rename", "noreplace"} : WinRename(t, h, q, op)

Next ==
    \/ \E t \in Tasks : Handler(t) \/ Callback(t) \/ Step(t)
    \/ \E p \in Paths : OpenFile(p) \/ OpenDir(p) \/ WinCreateNothing(p) \/ Forget(p)
    \/ \E h \in Numbers : Release(h)
    \/ \E h \in Numbers, flag \in BOOLEAN : SetDelete(h, flag)

Spec == Init /\ [][Next]_vars

----------------------------------------------------------------------------
(* Properties *)

IsItem(item) == item \in [kind : Kinds, id : Nat]
IsEntry(e) ==
    /\ e.attrs \in Nat \cup {NoInfo}
    /\ CASE e.kind = "dir" -> e.more = NoInfo \/ \A x \in e.more : x \in Seq(Components)
         [] e.kind = "link" -> e.more \in Nat \cup {NoInfo}
         [] e.kind = "file" -> e.more = NoInfo
IsCall(c) ==
    /\ c.at \in {"look", "attrs", "ask", "send", "reply", "store", "answer"}
    /\ c.op \in Mutations \cup {"stat", "list", "readlink"}
    /\ c.path \in Paths /\ c.to \in Paths /\ c.then \in {"reply", "open", "missing"}
    /\ \A i \in DOMAIN c.todo : c.todo[i] \in Paths
    /\ c.at \in {"attrs", "ask"} => c.todo # <<>>
    /\ c.own \in Nat \cup {NoInfo} /\ c.tries \in 0 .. Retries
    /\ c.op \in Mutations => c.lost <= c.tries + 1 /\ c.effects <= Retries + 1

\* Every item of the tree lies in a directory that is there, every entry of the
\* cache has the fields of its kind, every handle and call names a path, and no
\* call has been repeated more than Retries times (client.rs:28).
TypeOK ==
    /\ \A p \in Paths : tree[p] # Absent => IsItem(tree[p]) /\ Is(tree, Up[p], "dir")
    /\ \A p \in Paths : cache[p] # NoEntry => IsEntry(cache[p])
    /\ \A h \in Numbers : handles[h].path \in Paths
    /\ \A t \in Tasks : \/ task[t] = Idle
                        \/ At(t, "told") /\ IsItem(task[t].item)
                        \/ IsCall(task[t])
    /\ changes \in Nat /\ untold \subseteq Paths

\* What a handler is told of a change (fs_model.rs:213, 363, 380, 415, 543) is
\* what the server did, as far as its answers say: a call reported done was
\* carried out, one reported refused or given up was not, unless an answer was
\* lost or an error of what follows the change (client.rs:32 sends mkdir, rename
\* and remove again, routes.rs:169, 262), or it was an exchange; and the server
\* has carried it out at most once more than it got such answers.
ReportsTrue ==
    \A t \in Tasks :
        At(t, "answer") /\ task[t].op \in Mutations =>
            LET c == task[t]
            IN  /\ c.result = "done" => c.effects > 0
                /\ c.result # "done" => c.effects = 0 \/ c.lost > 0 \/ c.op = "exchange"
                /\ c.effects <= c.lost + 1

\* One handler at a time, and but for the entries that were never told of a
\* change, the cached name space is the tree of the server: a lookup, a listing
\* and a link read from the cache are what the server would say now, whatever
\* was created, removed, renamed, forgotten, lost, failed or repeated before
\* (fs_model.rs:109-202, 426-445, 565-588).
Given(c) == [op |-> c.op, path |-> c.path, to |-> c.to, result |-> c.result, value |-> c.value]
Answers == {t \in Tasks : At(t, "answer")}
Latest == IF Answers = {} THEN NoAnswer ELSE Given(task[CHOOSE t \in Answers : TRUE])
Service == INSTANCE NameService WITH excused <- Excused, answer <- Latest
Refines == Service!Spec
============================================================================
