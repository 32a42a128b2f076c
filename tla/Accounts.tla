------------------------------- MODULE Accounts -------------------------------
(***************************************************************************)
(* The accounts of the server (server/src/db.rs, commands.rs): the table   *)
(* users, and the commands of the command line that create and change      *)
(* accounts.  Each command is a process of its own, beside the server and  *)
(* the other commands; every statement is one step, and no transaction     *)
(* holds two together.  Passwords are left out.                            *)
(***************************************************************************)
EXTENDS Integers, FiniteSets

CONSTANTS
    Commands,    \* the commands that are run, each once
    Names,       \* user names
    UidModulus,  \* 2^32 for the u32 of a user id
    FirstUid,    \* 1001
    CountLimit,  \* 255, the largest count a u8 reads
    None         \* an option that is not given

ASSUME UidAssumption == UidModulus \in Nat /\ FirstUid \in 0 .. UidModulus - 1
ASSUME NoneAssumption == None \notin Nat /\ CountLimit \in Nat

VARIABLES
    users,   \* the table users: user ids to names and group ids
    command  \* what each command does next, and what it told in the end

Uids == 0 .. UidModulus - 1
Ids == DOMAIN users
NameTaken(n) == \E u \in Ids : users[u].name = n

Doing(c, here) == command[c].at = here
Goto(c, here) == command' = [command EXCEPT ![c].at = here]

\* "given": the user id asked for.  History: "joined", another account was
\* created while the command ran.
Command(op, here, n, u, g) ==
    [op |-> op, at |-> here, name |-> n, given |-> u, uid |-> u, gid |-> g, joined |-> FALSE]
Waiting == Command("none", "waiting", None, None, None)

Run(c, first) == Doing(c, "waiting") /\ command' = [command EXCEPT ![c] = first] /\ UNCHANGED users

----------------------------------------------------------------------------
(* user create *)

CreateUser(c, n, u, g) ==
    Run(c, Command("create", IF u = None THEN "by_name" ELSE "by_uid", n, u, g))

\* user_exists counts by user id and by name, and adds up: either refuses.
CountByUid(c) ==
    /\ Doing(c, "by_uid")
    /\ Goto(c, IF command[c].uid \in Ids THEN "refused" ELSE "by_name")
    /\ UNCHANGED users

CountByName(c) ==
    /\ Doing(c, "by_name")
    /\ Goto(c, IF NameTaken(command[c].name) THEN "refused"
               ELSE IF command[c].given = None THEN "count" ELSE "insert")
    /\ UNCHANGED users

\* The user id is chosen.
Number(c, u) ==
    command' = [command EXCEPT ![c].uid = u, ![c].at = "insert"]

\* COUNT(*) is read as a u8, and a larger one is an error.
Count(c) ==
    /\ Doing(c, "count")
    /\ IF Ids = {} THEN Number(c, FirstUid)
       ELSE Goto(c, IF Cardinality(Ids) > CountLimit THEN "refused" ELSE "max")
    /\ UNCHANGED users

\* Fault: the sum is not kept in 32 bits.
MaximumWide(c) ==
    /\ Doing(c, "max")
    /\ \E last \in Ids : (\A u \in Ids : u <= last) /\ Number(c, last + 1)
    /\ UNCHANGED users

\* max_uid + 1 wraps in a release build and panics in a debug build.
Maximum(c) ==
    /\ Doing(c, "max")
    /\ \E last \in Ids :
         /\ \A u \in Ids : u <= last
         /\ \/ Number(c, (last + 1) % UidModulus)
            \/ last + 1 = UidModulus /\ Goto(c, "refused")
    /\ UNCHANGED users

\* The group id is the user id if it was not given.
Row(x) == [name |-> x.name, gid |-> IF x.gid = None THEN x.uid ELSE x.gid]

\* Every other command is told of the new account (history).
Created(c) ==
    /\ users' = [u \in Ids \cup {command[c].uid} |->
                   IF u = command[c].uid THEN Row(command[c]) ELSE users[u]]
    /\ command' = [d \in Commands |->
                     IF d = c THEN [command[d] EXCEPT !.at = "created"]
                     ELSE [command[d] EXCEPT !.joined = TRUE]]

\* Fault: INSERT OR REPLACE.
InsertReplacing(c) == Doing(c, "insert") /\ Created(c)

\* INSERT: user_id is the primary key, and username is unique.
Insert(c) ==
    /\ Doing(c, "insert")
    /\ IF command[c].uid \in Ids \/ NameTaken(command[c].name)
       THEN Goto(c, "refused") /\ UNCHANGED users
       ELSE Created(c)

----------------------------------------------------------------------------
(* user change-username, change-password, delete *)

ChangeUsername(c, n) == Run(c, Command("rename", "find", n, None, None))
ChangePassword(c, n) == Run(c, Command("password", "find", n, None, None))
DeleteUser(c, n) == Run(c, Command("delete", "find", n, None, None))

\* get_user.
Find(c) ==
    /\ Doing(c, "find")
    /\ \/ /\ ~NameTaken(command[c].name)
          /\ Goto(c, "refused")
       \/ \E u \in Ids :
            /\ users[u].name = command[c].name
            /\ command' = [command EXCEPT ![c].uid = u, ![c].at = "change"]
    /\ UNCHANGED users

\* edit_username, edit_password and delete_user refuse an account that is
\* there ("does not exist!"); for one that is not, UPDATE and DELETE find no row.
Change(c) ==
    /\ Doing(c, "change")
    /\ Goto(c, IF command[c].uid \in Ids THEN "refused" ELSE "changed")
    /\ UNCHANGED users

----------------------------------------------------------------------------
StartCommand(c, n, u, g) ==
    \/ CreateUser(c, n, u, g)
    \/ ChangeUsername(c, n) \/ ChangePassword(c, n) \/ DeleteUser(c, n)

RunCommand(c) ==
    \/ CountByUid(c) \/ CountByName(c) \/ Count(c) \/ Maximum(c) \/ Insert(c)
    \/ Find(c) \/ Change(c)

----------------------------------------------------------------------------
(* Properties *)

Steps == {"waiting", "by_uid", "by_name", "count", "max", "insert", "find", "change",
          "created", "changed", "refused"}
CommandRecords ==
    [op : {"none", "create", "rename", "password", "delete"}, at : Steps, name : Names \cup {None},
     given : Uids \cup {None}, uid : Uids \cup {None}, gid : Nat \cup {None}, joined : BOOLEAN]

\* A name has one account.
TableOK(table) ==
    /\ DOMAIN table \subseteq Uids /\ IsFiniteSet(DOMAIN table)
    /\ table \in [DOMAIN table -> [name : Names, gid : Nat]]
    /\ \A u, w \in DOMAIN table : table[u].name = table[w].name => u = w

AccountsTypeOK ==
    /\ TableOK(users)
    /\ command \in [Commands -> CommandRecords]

\* commands.rs:50 "created successfully with user_id {} and group_id {}":
\* however commands race, what a command was told it created is in the table as
\* told, and no two were told the same account.
ToldIsThere ==
    /\ \A c \in Commands : Doing(c, "created") =>
         command[c].uid \in Ids /\ users[command[c].uid] = Row(command[c])
    /\ \A c, d \in Commands :
         Doing(c, "created") /\ Doing(d, "created") /\ c # d => command[c].uid # command[d].uid

\* db.rs:307 "User with given username or uid already exists!": a create that
\* failed had its name or its user id taken, unless an account was created next
\* to it, the count no longer fits its byte, or the user ids are used up.
Cause(x) ==
    \/ NameTaken(x.name)
    \/ x.given \in Ids
    \/ x.given = None /\ (x.joined \/ Cardinality(Ids) > CountLimit \/ UidModulus - 1 \in Ids)
RefusalHasCause ==
    \A c \in Commands : Doing(c, "refused") /\ command[c].op = "create" => Cause(command[c])

CommandsTellTrue == ToldIsThere /\ RefusalHasCause
===============================================================================
