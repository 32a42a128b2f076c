-------------------------------- MODULE Access --------------------------------
(***************************************************************************)
(* Who may do what to the items of the exported directory, and their       *)
(* attributes (server/src/routes.rs, storage.rs, attributes.rs), beside    *)
(* the commands that make the accounts.  A request is a task; each system  *)
(* call of its handler is one step, since nothing is locked: what          *)
(* is_allowed has read may have changed when it is acted on.  The items    *)
(* are there all the time (module Store has those that come and go).       *)
(***************************************************************************)
EXTENDS Accounts

CONSTANTS
    Tasks,
    Paths,        \* paths of items
    Top,          \* the path of the exported directory
    Before,       \* a time before 1970
    Given,        \* user ids given to commands, or None
    Groups,       \* group ids given to commands, or None
    MaxChanges,   \* bound on changes of contents
    Instances     \* [users, items, ops, most, asks]: what is there at first, the
                  \* commands, how many of them, and the requests that are made

ASSUME BoundsAssumption == Before \notin Nat /\ MaxChanges \in Nat
ASSUME OptionsAssumption == Given \subseteq Uids \cup {None} /\ Groups \subseteq Nat \cup {None}

VARIABLES
    items,    \* the items: mode, uid, gid, size, atime, mtime, and when their
              \* contents last changed (history)
    request,  \* what each request does next
    clock,    \* the time, which goes on when contents change
    retimed,  \* history: items whose mtime was set since their last change, on
              \* demand or to what it was before a change next to it
    instance

vars == <<users, command, items, request, clock, retimed, instance>>

Modes == 0 .. 511
Times == 0 .. MaxChanges
Item == [mode : Modes, uid : Uids, gid : Nat, size : Nat, atime : Times, mtime : Times,
         changed : Times, dir : BOOLEAN]

\* What is asked of the server.
Option(S) == S \cup {None}
Accesses == [op : {"access"}, path : Paths, mask : SUBSET {"read", "write", "execute"}]
Puts == [op : {"put"}, path : Paths]
Sets == [op : {"set"}, path : Paths, mode : Option(Modes), uid : Option(Uids), gid : Option(Nat),
         size : Option(Nat), atime : Option(Times \cup {Before}), mtime : Option(Times \cup {Before})]

ASSUME InstancesAssumption ==
    \A i \in Instances :
        /\ TableOK(i.users)
        /\ DOMAIN i.items \subseteq Paths /\ i.items \in [DOMAIN i.items -> Item]
        /\ \A p \in DOMAIN i.items : i.items[p].changed = 0 /\ i.items[p].mtime = 0
        /\ \A ask \in i.asks : ask \in Accesses \cup Puts \cup Sets /\ ask.path \in DOMAIN i.items

Root == 0
Ops == {"read", "write", "execute", "owner"}

----------------------------------------------------------------------------
(* Permissions *)

\* try_to_target: what three bits grant, and three times three bits.
Weight == [read |-> 4, write |-> 2, execute |-> 1]
PermissionType(v) == {op \in {"read", "write", "execute"} : (v \div Weight[op]) % 2 = 1}
Permission(mode) ==
    [user |-> PermissionType(mode \div 64), group |-> PermissionType(mode \div 8),
     other |-> PermissionType(mode)]

\* Fault: a group member has what everybody has as well.
IsAllowedByAny(its, u, g, p, op) ==
    LET i == its[p]
        permission == Permission(i.mode)
    IN  \/ p = Top
        \/ u = i.uid /\ op \in permission.user \cup {"owner"}
        \/ g = i.gid /\ op \in permission.group
        \/ op \in permission.other

\* The user's own bits count, or else the group's, or else everybody's.
IsAllowed(its, u, g, p, op) ==
    LET i == its[p]
        permission == Permission(i.mode)
    IN  \/ p = Top
        \/ u = i.uid /\ op \in permission.user \cup {"owner"}
        \/ u # i.uid /\ g = i.gid /\ op \in permission.group
        \/ u # i.uid /\ g # i.gid /\ op \in permission.other

\* What chmod(1) says of the digits of a mode (reference).
Digit == <<{"execute"}, {"write"}, {"write", "execute"}, {"read"}, {"read", "execute"},
           {"read", "write"}, {"read", "write", "execute"}>>
Grants(d) == IF d = 0 THEN {} ELSE Digit[d]
Rights(i, u, g) ==
    IF u = i.uid THEN Grants((i.mode \div 64) % 8) \cup {"owner"}
    ELSE IF g = i.gid THEN Grants((i.mode \div 8) % 8)
    ELSE Grants(i.mode % 8)
RightsAt(its, u, g, p) == IF p = Top THEN Ops ELSE Rights(its[p], u, g)

----------------------------------------------------------------------------
(* Requests *)

Idle == [at |-> "idle"]
At(t, here) == request[t].at = here

\* The history of a request: the rights its user had at some moment since it
\* was made, those it lacked at some moment, what it has changed, and when the
\* contents were changed that it has seen.
Seeing(r, its) ==
    LET rights == RightsAt(its, r.user, r.group, r.path)
    IN  [r EXCEPT !.had = @ \cup rights, !.lacked = @ \cup (Ops \ rights)]

Begin(t, r) ==
    /\ At(t, "idle")
    /\ request' = [request EXCEPT ![t] = Seeing(r, items)]
    /\ UNCHANGED <<users, command, items, clock, retimed, instance>>

\* The caller is an account; its token holds both ids.
Request(u, ask, here) ==
    [at |-> here, user |-> u, group |-> users[u].gid, path |-> ask.path, ask |-> ask,
     atime |-> 0, mtime |-> 0, seen |-> 0, uid |-> None, gid |-> None,
     had |-> {}, lacked |-> {}, did |-> {}]

\* One step of a request that changes nothing others see.
Step(t, next) ==
    /\ request' = [request EXCEPT ![t] = next]
    /\ UNCHANGED <<users, command, items, clock, retimed, instance>>
Proceed(t, here) == Step(t, [request[t] EXCEPT !.at = here])

\* check_permission, and on to the next step or PermissionDenied.
Check(t, op, here) ==
    LET r == request[t]
    IN  Proceed(t, IF IsAllowed(items, r.user, r.group, r.path, op) THEN here ELSE "denied")

\* One step that changes the item, in view of all requests.
Effect(t, here, part, item) ==
    LET its == [items EXCEPT ![request[t].path] = item]
        moved == [request EXCEPT ![t].at = here, ![t].did = @ \cup part]
    IN  /\ items' = its
        /\ request' = [s \in Tasks |-> IF request[s] = Idle THEN Idle ELSE Seeing(moved[s], its)]
        /\ UNCHANGED <<users, command, instance>>

\* The kernel sets the mtime of an item whose contents change.
ChangeContents(t, here, size) ==
    LET p == request[t].path
        now == clock + 1
    IN  /\ clock < MaxChanges
        /\ clock' = now
        /\ retimed' = retimed \ {p}
        /\ Effect(t, here, {"contents"},
                  [items[p] EXCEPT !.size = size, !.mtime = now, !.changed = now])

Answer(t) ==
    /\ request[t].at \in {"done", "denied", "failed", "lost"}
    /\ Step(t, Idle)

----------------------------------------------------------------------------
(* get_permissions: each bit of the mask in turn *)

GetPermissions(t, u, ask) == ask.op = "access" /\ Begin(t, Request(u, ask, "read"))

AskBit(t, op, next) ==
    /\ At(t, op)
    /\ IF op \in request[t].ask.mask THEN Check(t, op, next) ELSE Proceed(t, next)

AskBits(t) ==
    AskBit(t, "read", "write") \/ AskBit(t, "write", "execute") \/ AskBit(t, "execute", "done")

----------------------------------------------------------------------------
(* write_file on a file that is there *)

WriteFile(t, u, ask) == ask.op = "put" /\ Begin(t, Request(u, ask, "put"))
CheckPut(t) == At(t, "put") /\ Check(t, "write", "store")
StorePut(t) == At(t, "store") /\ ChangeContents(t, "done", 1)

----------------------------------------------------------------------------
(* set_attributes: what is asked for is done in this order, and what was done *)
(* stays when a later part is refused                                         *)

AfterSize(ask) == IF ask.mtime # None THEN "may_time" ELSE "stat"
AfterOwner(ask) == IF ask.size # None THEN "may_resize" ELSE AfterSize(ask)
AfterMode(ask) == IF ask.uid # None \/ ask.gid # None THEN "may_own" ELSE AfterOwner(ask)
FirstPart(ask) == IF ask.mode # None THEN "may_mode" ELSE AfterMode(ask)

SetAttributes(t, u, ask) == ask.op = "set" /\ Begin(t, Request(u, ask, FirstPart(ask)))

MayMode(t) == At(t, "may_mode") /\ Check(t, "owner", "chmod")

SetPermissions(t) ==
    LET r == request[t]
    IN  /\ At(t, "chmod")
        /\ Effect(t, AfterMode(r.ask), {"mode"}, [items[r.path] EXCEPT !.mode = r.ask.mode])
        /\ UNCHANGED <<clock, retimed>>

MayOwn(t) == At(t, "may_own") /\ Check(t, "owner", "resolve")

\* What is there already need not be allowed; else only the user 0 gives away,
\* and others may choose a group of theirs: their own.
Resolves(asked, current, r, member) == asked \in {None, current} \/ r.user = Root \/ member
Target(asked, current) == IF asked = current THEN None ELSE asked

Resolve(t) ==
    LET r == request[t]
        item == items[r.path]
        next == [r EXCEPT !.uid = Target(r.ask.uid, item.uid), !.gid = Target(r.ask.gid, item.gid)]
    IN  /\ At(t, "resolve")
        /\ IF ~Resolves(r.ask.uid, item.uid, r, FALSE)
              \/ ~Resolves(r.ask.gid, item.gid, r, r.ask.gid = r.group)
           THEN Proceed(t, "denied")
           ELSE Step(t, [next EXCEPT !.at = IF {next.uid, next.gid} = {None}
                                            THEN AfterOwner(r.ask) ELSE "chown"])

Chown(t) ==
    LET r == request[t]
        item == items[r.path]
        Or(new, old) == IF new = None THEN old ELSE new
    IN  /\ At(t, "chown")
        /\ Effect(t, AfterOwner(r.ask),
                  {part \in {"uid", "gid"} : r[part] # None},
                  [item EXCEPT !.uid = Or(r.uid, @), !.gid = Or(r.gid, @)])
        /\ UNCHANGED <<clock, retimed>>

MayResize(t) == At(t, "may_resize") /\ Check(t, "write", "resize")

\* A directory is not opened for writing.
SetLen(t) ==
    LET r == request[t]
    IN  /\ At(t, "resize")
        /\ IF items[r.path].dir THEN Proceed(t, "failed")
           ELSE ChangeContents(t, AfterSize(r.ask), r.ask.size)

MayTime(t) == At(t, "may_time") /\ Check(t, "write", "stat")

\* Fault: a time that is not asked for is taken for the first one.
StatDefault(t) ==
    LET r == request[t]
        Asked(new) == IF new = None THEN 0 ELSE new
    IN  /\ At(t, "stat")
        /\ IF Before \in {r.ask.atime, r.ask.mtime} THEN Proceed(t, "lost")
           ELSE Step(t, [r EXCEPT !.at = "set_times", !.atime = Asked(r.ask.atime),
                                  !.mtime = Asked(r.ask.mtime), !.seen = items[r.path].changed])

\* The times that are not asked for are set to what they are.  One before 1970
\* does not convert, and the handler panics: its connection is closed.
Stat(t) ==
    LET r == request[t]
        item == items[r.path]
        Asked(new, old) == IF new = None THEN old ELSE new
    IN  /\ At(t, "stat")
        /\ IF Before \in {r.ask.atime, r.ask.mtime} THEN Proceed(t, "lost")
           ELSE Step(t, [r EXCEPT !.at = "set_times", !.atime = Asked(r.ask.atime, item.atime),
                                  !.mtime = Asked(r.ask.mtime, item.mtime),
                                  !.seen = item.changed])

SetFileTimes(t) ==
    LET r == request[t]
        item == items[r.path]
    IN  /\ At(t, "set_times")
        /\ Effect(t, "done", IF r.ask.mtime = None THEN {} ELSE {"mtime"},
                  [item EXCEPT !.atime = r.atime, !.mtime = r.mtime])
        /\ retimed' = IF r.ask.mtime # None \/ r.seen # item.changed
                      THEN retimed \cup {r.path} ELSE retimed
        /\ UNCHANGED clock

----------------------------------------------------------------------------
Init ==
    \E i \in Instances :
        /\ instance = i /\ users = i.users /\ items = i.items
        /\ command = [c \in Commands |-> Waiting]
        /\ request = [t \in Tasks |-> Idle]
        /\ clock = 0 /\ retimed = {}

Commanding(c) ==
    /\ \/ /\ Cardinality({d \in Commands : ~Doing(d, "waiting")}) < instance.most
          /\ \E n \in Names, u \in Given, g \in Groups : StartCommand(c, n, u, g)
          /\ command'[c].op \in instance.ops
       \/ RunCommand(c)
    /\ UNCHANGED <<items, request, clock, retimed, instance>>

Requesting(t) ==
    \E u \in Ids, ask \in instance.asks :
        GetPermissions(t, u, ask) \/ WriteFile(t, u, ask) \/ SetAttributes(t, u, ask)

Serving(t) ==
    \/ AskBits(t) \/ CheckPut(t) \/ StorePut(t)
    \/ MayMode(t) \/ SetPermissions(t) \/ MayOwn(t) \/ Resolve(t) \/ Chown(t)
    \/ MayResize(t) \/ SetLen(t) \/ MayTime(t) \/ Stat(t) \/ SetFileTimes(t)
    \/ Answer(t)

Next ==
    \/ \E c \in Commands : Commanding(c)
    \/ \E t \in Tasks : Requesting(t) \/ Serving(t)

Spec == Init /\ [][Next]_vars

----------------------------------------------------------------------------
(* Properties *)

Busy == {t \in Tasks : request[t] # Idle}

Places == {"read", "write", "execute", "put", "store", "may_mode", "chmod", "may_own", "resolve",
           "chown", "may_resize", "resize", "may_time", "stat", "set_times",
           "done", "denied", "failed", "lost"}
Requests ==
    [at : Places, user : Uids, group : Nat, path : DOMAIN items, ask : Accesses \cup Puts \cup Sets,
     atime : Times, mtime : Times, seen : Times, uid : Option(Uids), gid : Option(Nat),
     had : SUBSET Ops, lacked : SUBSET Ops, did : SUBSET {"mode", "uid", "gid", "contents", "mtime"}]

TypeOK ==
    /\ AccountsTypeOK
    /\ DOMAIN items \subseteq Paths /\ items \in [DOMAIN items -> Item]
    /\ request \in [Tasks -> Requests \cup {Idle}]
    /\ clock \in Times /\ retimed \subseteq DOMAIN items /\ instance \in Instances

\* What a request asks for takes these rights.
Takes(ask) ==
    CASE ask.op = "access" -> ask.mask
      [] ask.op = "put" -> {"write"}
      [] ask.op = "set" ->
           {op \in {"owner"} : {ask.mode, ask.uid, ask.gid} # {None}}
           \cup {op \in {"write"} : {ask.size, ask.mtime} # {None}}

\* What a request has changed its user had the right to change at some moment
\* since it was made, and a group it set is the user's own.
ChangeRightful(r) ==
    /\ r.did \cap {"mode", "uid", "gid"} # {} => "owner" \in r.had
    /\ r.did \cap {"contents", "mtime"} # {} => "write" \in r.had
    /\ "uid" \in r.did => r.user = Root
    /\ "gid" \in r.did => r.user = Root \/ r.ask.gid = r.group

\* An answer is right for some moment of the request: one that grants, for each
\* right it takes, and one that denies, for a right it takes or for a change of
\* owner or group.
AnswerRightful(r) ==
    /\ r.at = "done" => Takes(r.ask) \subseteq r.had
    /\ r.at = "denied" => \/ Takes(r.ask) \cap r.lacked # {}
                          \/ r.user # Root /\ r.ask.op = "set"
                             /\ {r.ask.uid, r.ask.gid} # {None}

\* storage.rs:324 "Allowed only if user is the owner or root", :348 "Only Root
\* can change it", :368 "Allowed only if user has write permissions": however
\* the requests of several users interleave, what each has changed and what it
\* is answered was rightful at some moment since it was made.
Rightful == \A t \in Busy : ChangeRightful(request[t]) /\ AnswerRightful(request[t])

\* write_file and set_attributes, storage.rs:386: between the requests the
\* mtime of an item tells when its contents last changed, unless it was set on
\* demand or a request set it back to what it had read before the change.
MtimeTells ==
    \A p \in DOMAIN items \ retimed : items[p].mtime = items[p].changed
===============================================================================
