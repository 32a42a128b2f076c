----------------------------- MODULE AccessProofs -----------------------------
(***************************************************************************)
(* Proofs about accounts and access for every set of accounts, items,      *)
(* commands and requests, and every width of a user id.                    *)
(***************************************************************************)
EXTENDS Access, FiniteSetTheorems, TLAPS

----------------------------------------------------------------------------
(* What the invariant says of one command *)

CommandOK(x) ==
    /\ x \in CommandRecords
    /\ x.at \in {"by_uid", "by_name", "count", "max", "insert"} => x.name \in Names
    /\ x.at \in {"find", "change", "waiting"} => x.op # "create"
    /\ x.at \in {"by_uid", "by_name"} => x.uid = x.given
    /\ x.at = "by_uid" => x.uid \in Uids
    /\ x.at \in {"count", "max"} => x.given = None
    /\ x.at = "insert" =>
         /\ x.uid \in Uids
         /\ x.given # None => x.uid = x.given
         /\ x.given = None /\ x.uid \in Ids => x.joined \/ UidModulus - 1 \in Ids
    /\ x.at = "created" => x.uid \in Ids /\ users[x.uid] = Row(x)
    /\ x.at = "refused" /\ x.op = "create" => Cause(x)

AccountsInv ==
    /\ AccountsTypeOK
    /\ \A c \in Commands : CommandOK(command[c])
    /\ \A c, d \in Commands :
         Doing(c, "created") /\ Doing(d, "created") /\ c # d => command[c].uid # command[d].uid

LEMMA AccountsTell == AccountsInv => CommandsTellTrue
BY DEF AccountsInv, CommandOK, CommandsTellTrue, ToldIsThere, RefusalHasCause, Doing

\* A step of one command that leaves the table alone.
LEMMA OneCommand ==
    ASSUME AccountsInv, NEW c \in Commands, NEW x, CommandOK(x), x.at # "created",
           command' = [command EXCEPT ![c] = x], UNCHANGED users
    PROVE  AccountsInv'
<1>1. x \in CommandRecords /\ command \in [Commands -> CommandRecords]
  BY DEF CommandOK, AccountsInv, AccountsTypeOK
<1>2. command' \in [Commands -> CommandRecords] /\ command'[c] = x
      /\ \A d \in Commands \ {c} : command'[d] = command[d]
  BY <1>1
<1>3. \A d \in Commands : CommandOK(command'[d])
  BY <1>2 DEF AccountsInv
<1>4. (\A d \in Commands : CommandOK(command[d]))'
  BY <1>3 DEF CommandOK, Cause, NameTaken, Ids
<1> QED BY <1>2, <1>4 DEF AccountsInv, AccountsTypeOK, Doing

\* A command that moves on keeps what it was asked.
LEMMA Moved ==
    ASSUME NEW x \in CommandRecords, NEW here \in Steps
    PROVE  LET y == [x EXCEPT !.at = here]
           IN  /\ y \in CommandRecords /\ y.at = here
               /\ y.op = x.op /\ y.name = x.name /\ y.given = x.given /\ y.uid = x.uid
               /\ y.gid = x.gid /\ y.joined = x.joined
BY DEF CommandRecords

\* Moving on and nothing else.
LEMMA GotoStep ==
    ASSUME AccountsInv, NEW c \in Commands, NEW here \in Steps, Goto(c, here), UNCHANGED users,
           here # "created", CommandOK([command[c] EXCEPT !.at = here])
    PROVE  AccountsInv'
<1> DEFINE x == [command[c] EXCEPT !.at = here]
<1>1. command[c] \in CommandRecords
  BY DEF AccountsInv, AccountsTypeOK
<1>2. x.at # "created" /\ command' = [command EXCEPT ![c] = x] /\ CommandOK(x)
  BY <1>1 DEF Goto, CommandRecords
<1> HIDE DEF x
<1> QED BY <1>2, OneCommand

----------------------------------------------------------------------------
(* The steps *)

LEMMA StartStep ==
    ASSUME AccountsInv, NEW c \in Commands, NEW n \in Names,
           NEW u \in Uids \cup {None}, NEW g \in Nat \cup {None}, StartCommand(c, n, u, g)
    PROVE  AccountsInv'
<1>1. PICK x : /\ CommandOK(x) /\ x.at # "created"
               /\ command' = [command EXCEPT ![c] = x] /\ UNCHANGED users
  <2>1. CASE CreateUser(c, n, u, g)
    <3> DEFINE x == [op |-> "create", at |-> IF u = None THEN "by_name" ELSE "by_uid", name |-> n,
                     given |-> u, uid |-> u, gid |-> g, joined |-> FALSE]
    <3>2. command' = [command EXCEPT ![c] = x] /\ UNCHANGED users
      BY <2>1 DEF CreateUser, Run, Command
    <3>3. CommandOK(x) /\ x.at # "created"
      BY DEF CommandOK, CommandRecords, Steps
    <3> QED BY <3>2, <3>3
  <2>2. ASSUME NEW op \in {"rename", "password", "delete"}, Run(c, Command(op, "find", n, None, None))
        PROVE  \E x : /\ CommandOK(x) /\ x.at # "created"
                      /\ command' = [command EXCEPT ![c] = x] /\ UNCHANGED users
    <3> DEFINE x == [op |-> op, at |-> "find", name |-> n, given |-> None, uid |-> None,
                     gid |-> None, joined |-> FALSE]
    <3>1. command' = [command EXCEPT ![c] = x] /\ UNCHANGED users
      BY <2>2 DEF Run, Command
    <3>2. CommandOK(x) /\ x.at # "created"
      BY DEF CommandOK, CommandRecords, Steps
    <3> QED BY <3>1, <3>2
  <2> QED BY <2>1, <2>2 DEF StartCommand, ChangeUsername, ChangePassword, DeleteUser
<1> QED BY <1>1, OneCommand

LEMMA CountByUidStep ==
    ASSUME AccountsInv, NEW c \in Commands, CountByUid(c) PROVE AccountsInv'
<1>1. CommandOK(command[c]) /\ command[c].at = "by_uid"
  BY DEF AccountsInv, CountByUid, Doing
<1>2. PICK here \in {"refused", "by_name"} :
        /\ Goto(c, here) /\ UNCHANGED users
        /\ here = "refused" <=> command[c].uid \in Ids
  BY DEF CountByUid
<1>3. CommandOK([command[c] EXCEPT !.at = here])
  BY <1>1, <1>2 DEF CommandOK, CommandRecords, Steps, Cause
<1> QED BY <1>2, <1>3, GotoStep DEF Steps

LEMMA CountByNameStep ==
    ASSUME AccountsInv, NEW c \in Commands, CountByName(c) PROVE AccountsInv'
<1>1. CommandOK(command[c]) /\ command[c].at = "by_name"
  BY DEF AccountsInv, CountByName, Doing
<1> DEFINE x == command[c]
           here == IF NameTaken(x.name) THEN "refused" ELSE IF x.given = None THEN "count" ELSE "insert"
           y == [x EXCEPT !.at = here]
<1>2. Goto(c, here) /\ UNCHANGED users
  BY DEF CountByName
<1>3. /\ y \in CommandRecords /\ y.at = here
      /\ y.op = x.op /\ y.name = x.name /\ y.given = x.given /\ y.uid = x.uid
      /\ y.gid = x.gid /\ y.joined = x.joined
  <2>1. here \in Steps /\ x \in CommandRecords
    BY <1>1 DEF CommandOK, Steps
  <2> HIDE DEF here, x
  <2> QED BY <2>1, Moved
<1>4. x \in CommandRecords /\ x.name \in Names /\ x.uid = x.given /\ x.given \in Uids \cup {None}
  BY <1>1 DEF CommandOK, CommandRecords
<1>5. here \in {"refused", "count", "insert"}
      /\ (here = "refused" => NameTaken(y.name)) /\ (here = "count" => y.given = None)
      /\ (here = "insert" => y.given # None /\ y.given \in Uids)
  BY <1>3, <1>4
<1>6. CommandOK(y) /\ here \in Steps /\ here # "created"
  <2> HIDE DEF y, x, here
  <2> QED BY <1>3, <1>4, <1>5 DEF CommandOK, Cause, Steps
<1> QED BY <1>2, <1>6, GotoStep

LEMMA CountStep ==
    ASSUME AccountsInv, NEW c \in Commands, Count(c) PROVE AccountsInv'
<1>1. CommandOK(command[c]) /\ command[c].at = "count"
  BY DEF AccountsInv, Count, Doing
<1> DEFINE x == command[c]
<1>2. CASE Ids = {}
  <2> DEFINE y == [x EXCEPT !.uid = FirstUid, !.at = "insert"]
  <2>1. command' = [command EXCEPT ![c] = y] /\ UNCHANGED users
    BY <1>2 DEF Count, Number
  <2>2. FirstUid \in Uids /\ x \in CommandRecords
    BY <1>1, UidAssumption DEF CommandOK, Uids
  <2>3. /\ y \in CommandRecords /\ y.at = "insert" /\ y.uid \in Uids
        /\ y.name = x.name /\ y.given = x.given
    BY <2>2 DEF CommandRecords, Steps
  <2>4. CommandOK(y)
    <3> HIDE DEF y
    <3> QED BY <1>1, <1>2, <2>3 DEF CommandOK
  <2> HIDE DEF y
  <2> QED BY <2>1, <2>3, <2>4, OneCommand
<1>3. CASE Ids # {}
  <2> DEFINE here == IF Cardinality(Ids) > CountLimit THEN "refused" ELSE "max"
             y == [x EXCEPT !.at = here]
  <2>1. Goto(c, here) /\ UNCHANGED users
    BY <1>3 DEF Count
  <2>2. /\ y \in CommandRecords /\ y.at = here /\ y.name = x.name /\ y.given = x.given
    <3>1. here \in Steps /\ x \in CommandRecords
      BY <1>1 DEF CommandOK, Steps
    <3> HIDE DEF here, x
    <3> QED BY <3>1, Moved
  <2>3. here \in {"refused", "max"} /\ (here = "refused" => Cardinality(Ids) > CountLimit)
    OBVIOUS
  <2>4. CommandOK(y) /\ here \in Steps /\ here # "created"
    <3> HIDE DEF y, here
    <3> QED BY <1>1, <2>2, <2>3 DEF CommandOK, Cause, Steps
  <2> QED BY <2>1, <2>4, GotoStep
<1> QED BY <1>2, <1>3

LEMMA MaximumStep ==
    ASSUME AccountsInv, NEW c \in Commands, Maximum(c) PROVE AccountsInv'
<1>1. CommandOK(command[c]) /\ command[c].at = "max"
  BY DEF AccountsInv, Maximum, Doing
<1> DEFINE x == command[c]
<1>2. PICK last \in Ids : /\ \A u \in Ids : u <= last
                          /\ \/ Number(c, (last + 1) % UidModulus)
                             \/ last + 1 = UidModulus /\ Goto(c, "refused")
  BY DEF Maximum
<1>3. Ids \subseteq Uids /\ UidModulus \in Nat /\ x \in CommandRecords /\ UNCHANGED users
  BY <1>1, UidAssumption DEF AccountsInv, AccountsTypeOK, TableOK, CommandOK, Ids, Maximum
<1>4. CASE Number(c, (last + 1) % UidModulus)
  <2> DEFINE u == (last + 1) % UidModulus
             y == [x EXCEPT !.uid = u, !.at = "insert"]
  <2>1. command' = [command EXCEPT ![c] = y]
    BY <1>4 DEF Number
  <2>2. u \in Uids /\ (u \in Ids => UidModulus - 1 \in Ids)
    <3>1. last \in 0 .. UidModulus - 1 /\ UidModulus > 0
      BY <1>3 DEF Uids
    <3>2. CASE last = UidModulus - 1
      <4>1. u = 0
        BY <1>3, <3>1, <3>2, SMT
      <4> QED BY <3>1, <3>2, <4>1 DEF Uids
    <3>3. CASE last < UidModulus - 1
      <4>1. u = last + 1
        BY <1>3, <3>1, <3>3, SMT
      <4>2. last + 1 \notin Ids
        BY <1>2, <3>1
      <4>3. last + 1 \in Uids
        BY <1>3, <3>1, <3>3 DEF Uids
      <4> HIDE DEF u
      <4> QED BY <4>1, <4>2, <4>3
    <3> QED BY <1>3, <3>1, <3>2, <3>3
  <2>3. /\ y \in CommandRecords /\ y.at = "insert" /\ y.uid = u
        /\ y.name = x.name /\ y.given = x.given
    <3> HIDE DEF u
    <3> QED BY <1>3, <2>2 DEF CommandRecords, Steps
  <2>4. CommandOK(y)
    <3> HIDE DEF y, u
    <3> QED BY <1>1, <2>2, <2>3 DEF CommandOK
  <2> HIDE DEF y
  <2> QED BY <1>3, <2>1, <2>3, <2>4, OneCommand
<1>5. CASE last + 1 = UidModulus /\ Goto(c, "refused")
  <2> DEFINE y == [x EXCEPT !.at = "refused"]
  <2>1. y \in CommandRecords /\ y.at = "refused" /\ y.given = x.given
    BY <1>3, Moved DEF Steps
  <2>2. UidModulus - 1 \in Ids
    <3>1. last \in Nat
      BY <1>2, <1>3 DEF Uids
    <3> QED BY <1>2, <1>5, <3>1
  <2>3. CommandOK(y)
    <3> HIDE DEF y
    <3> QED BY <1>1, <2>1, <2>2 DEF CommandOK, Cause
  <2> QED BY <1>3, <1>5, <2>3, GotoStep DEF Steps
<1> QED BY <1>2, <1>4, <1>5

LEMMA FindStep ==
    ASSUME AccountsInv, NEW c \in Commands, Find(c) PROVE AccountsInv'
<1>1. CommandOK(command[c]) /\ command[c].at = "find" /\ UNCHANGED users
  BY DEF AccountsInv, Find, Doing
<1> DEFINE x == command[c]
<1>2. CASE Goto(c, "refused")
  <2> DEFINE y == [x EXCEPT !.at = "refused"]
  <2>1. y \in CommandRecords /\ y.at = "refused" /\ y.op = x.op
    BY <1>1, Moved DEF CommandOK, Steps
  <2>2. CommandOK(y)
    <3> HIDE DEF y
    <3> QED BY <1>1, <2>1 DEF CommandOK
  <2> QED BY <1>1, <1>2, <2>2, GotoStep DEF Steps
<1>3. CASE \E u \in Ids : command' = [command EXCEPT ![c].uid = u, ![c].at = "change"]
  <2>1. PICK u \in Ids : command' = [command EXCEPT ![c].uid = u, ![c].at = "change"]
    BY <1>3
  <2> DEFINE y == [x EXCEPT !.uid = u, !.at = "change"]
  <2>2. command' = [command EXCEPT ![c] = y]
    BY <2>1
  <2>3. u \in Uids /\ x \in CommandRecords
    BY <1>1 DEF AccountsInv, AccountsTypeOK, TableOK, CommandOK, Ids
  <2>4. y \in CommandRecords /\ y.at = "change" /\ y.op = x.op
    BY <2>3 DEF CommandRecords, Steps
  <2>5. CommandOK(y)
    <3> HIDE DEF y
    <3> QED BY <1>1, <2>4 DEF CommandOK
  <2> HIDE DEF y
  <2> QED BY <1>1, <2>2, <2>4, <2>5, OneCommand
<1> QED BY <1>2, <1>3 DEF Find

LEMMA ChangeStep ==
    ASSUME AccountsInv, NEW c \in Commands, Change(c) PROVE AccountsInv'
<1>1. CommandOK(command[c]) /\ command[c].at = "change"
  BY DEF AccountsInv, Change, Doing
<1> DEFINE x == command[c]
<1>2. PICK here \in {"refused", "changed"} : Goto(c, here) /\ UNCHANGED users
  BY DEF Change
<1> DEFINE y == [x EXCEPT !.at = here]
<1>3. y \in CommandRecords /\ y.at = here /\ y.op = x.op
  <2>1. here \in Steps /\ x \in CommandRecords
    BY <1>1, <1>2 DEF CommandOK, Steps
  <2> HIDE DEF x
  <2> QED BY <2>1, Moved
<1>4. CommandOK(y)
  <2> HIDE DEF y
  <2> QED BY <1>1, <1>2, <1>3 DEF CommandOK
<1> QED BY <1>2, <1>4, GotoStep DEF Steps

\* A new account: the table stays right, and what was said of it stays true.
LEMMA Grown ==
    ASSUME TableOK(users), NEW v \in Uids \ Ids, NEW row \in [name : Names, gid : Nat],
           ~NameTaken(row.name),
           users' = [u \in Ids \cup {v} |-> IF u = v THEN row ELSE users[u]]
    PROVE  /\ TableOK(users)'
           /\ Ids' = Ids \cup {v} /\ users'[v] = row /\ \A u \in Ids : users'[u] = users[u]
           /\ \A n : NameTaken(n) => NameTaken(n)'
           /\ Cardinality(Ids) > CountLimit => Cardinality(Ids)' > CountLimit
<1>1. Ids' = Ids \cup {v} /\ users'[v] = row /\ \A u \in Ids : users'[u] = users[u]
  BY DEF Ids
<1>2. Ids \subseteq Uids /\ IsFiniteSet(Ids) /\ users \in [Ids -> [name : Names, gid : Nat]]
      /\ \A u, w \in Ids : users[u].name = users[w].name => u = w
  BY DEF TableOK, Ids
<1>3. IsFiniteSet(Ids \cup {v}) /\ Cardinality(Ids \cup {v}) = Cardinality(Ids) + 1
      /\ Cardinality(Ids) \in Nat
  BY <1>2, FS_AddElement, FS_CardinalityType
<1>4. users' \in [Ids \cup {v} -> [name : Names, gid : Nat]]
  BY <1>2
<1>5. ASSUME NEW u \in Ids \cup {v}, NEW w \in Ids \cup {v}, users'[u].name = users'[w].name
      PROVE  u = w
  BY <1>1, <1>2, <1>5 DEF NameTaken
<1>6. TableOK(users')
  <2>1. DOMAIN users' = Ids \cup {v}
    OBVIOUS
  <2> QED BY <1>2, <1>3, <1>4, <1>5, <2>1 DEF TableOK
<1>7. ASSUME NEW n, NameTaken(n) PROVE NameTaken(n)'
  BY <1>1, <1>7 DEF NameTaken
<1>8. Cardinality(Ids) > CountLimit => Cardinality(Ids)' > CountLimit
  BY <1>1, <1>3, NoneAssumption
<1> QED BY <1>1, <1>6, <1>7, <1>8 DEF TableOK

LEMMA InsertStep ==
    ASSUME AccountsInv, NEW c \in Commands, Insert(c) PROVE AccountsInv'
<1>1. CommandOK(command[c]) /\ command[c].at = "insert"
  BY DEF AccountsInv, Insert, Doing
<1> DEFINE x == command[c]
<1>2. x \in CommandRecords /\ x.name \in Names /\ x.uid \in Uids
  BY <1>1 DEF CommandOK
<1>3. CASE (x.uid \in Ids \/ NameTaken(x.name)) /\ Goto(c, "refused") /\ UNCHANGED users
  <2> DEFINE y == [x EXCEPT !.at = "refused"]
  <2>1. /\ y \in CommandRecords /\ y.at = "refused" /\ y.name = x.name /\ y.given = x.given
        /\ y.uid = x.uid /\ y.joined = x.joined
    BY <1>2, Moved DEF Steps
  <2>2. CommandOK(y)
    <3> HIDE DEF y
    <3> QED BY <1>1, <1>3, <2>1 DEF CommandOK, Cause
  <2> QED BY <1>3, <2>2, GotoStep DEF Steps
<1>4. CASE x.uid \notin Ids /\ ~NameTaken(x.name) /\ Created(c)
  <2> DEFINE y(d) == IF d = c THEN [command[d] EXCEPT !.at = "created"]
                     ELSE [command[d] EXCEPT !.joined = TRUE]
  <2>1. Row(x) \in [name : Names, gid : Nat] /\ Row(x).name = x.name
    BY <1>2 DEF Row, CommandRecords, Uids
  <2>2. users' = [u \in Ids \cup {x.uid} |-> IF u = x.uid THEN Row(x) ELSE users[u]]
    BY <1>4 DEF Created
  <2>3. TableOK(users)
    BY DEF AccountsInv, AccountsTypeOK
  <2>4. /\ TableOK(users)'
        /\ Ids' = Ids \cup {x.uid} /\ users'[x.uid] = Row(x)
        /\ \A u \in Ids : users'[u] = users[u]
        /\ \A n : NameTaken(n) => NameTaken(n)'
        /\ Cardinality(Ids) > CountLimit => Cardinality(Ids)' > CountLimit
    <3> DEFINE row == Row(x)
               v == x.uid
    <3>1. v \in Uids \ Ids /\ row \in [name : Names, gid : Nat] /\ ~NameTaken(row.name)
          /\ users' = [u \in Ids \cup {v} |-> IF u = v THEN row ELSE users[u]]
      BY <1>2, <1>4, <2>1, <2>2
    <3>2. /\ TableOK(users)'
          /\ Ids' = Ids \cup {v} /\ users'[v] = row
          /\ \A u \in Ids : users'[u] = users[u]
          /\ \A n : NameTaken(n) => NameTaken(n)'
          /\ Cardinality(Ids) > CountLimit => Cardinality(Ids)' > CountLimit
      <4> HIDE DEF v, row
      <4> QED BY <2>3, <3>1, Grown
    <3> QED BY <3>2
  <2>5. command' = [d \in Commands |-> y(d)]
    BY <1>4 DEF Created
  <2>6. LET z == command'[c] IN
        z \in CommandRecords /\ z.at = "created" /\ z.uid = x.uid /\ Row(z) = Row(x)
    <3>1. command'[c] = [x EXCEPT !.at = "created"]
      BY <2>5
    <3>2. "created" \in Steps
      BY DEF Steps
    <3> HIDE DEF x
    <3> QED BY <1>2, <3>1, <3>2, Moved DEF Row
  <2>7. ASSUME NEW d \in Commands \ {c}
        PROVE  LET z == command[d]
                   w == command'[d]
               IN  /\ CommandOK(z) /\ w \in CommandRecords /\ w.joined
                   /\ w.op = z.op /\ w.at = z.at /\ w.name = z.name
                   /\ w.given = z.given /\ w.uid = z.uid /\ w.gid = z.gid
    BY <2>5 DEF CommandOK, CommandRecords, AccountsInv
  <2>8. CommandOK(command[c])'
    BY <2>4, <2>6 DEF CommandOK, Row
  <2>9. ASSUME NEW d \in Commands \ {c} PROVE CommandOK(command[d])'
    <3> DEFINE z == command[d]
               w == command'[d]
    <3>1. /\ CommandOK(z) /\ w \in CommandRecords /\ w.joined
          /\ w.op = z.op /\ w.at = z.at /\ w.name = z.name
          /\ w.given = z.given /\ w.uid = z.uid /\ w.gid = z.gid
      BY <2>7
    <3>2. Cause(z) => Cause(command[d])'
      BY <2>4, <3>1 DEF Cause
    <3>3. w.at = "created" => w.uid \in Ids' /\ users'[w.uid] = Row(command[d])'
      BY <2>4, <3>1 DEF CommandOK, Row
    <3>4. w.at = "refused" /\ w.op = "create" => Cause(command[d])'
      BY <3>1, <3>2 DEF CommandOK
    <3> QED BY <2>4, <3>1, <3>3, <3>4 DEF CommandOK
  <2>10. ASSUME NEW d \in Commands, NEW e \in Commands, d # e,
                Doing(d, "created")', Doing(e, "created")'
         PROVE  command'[d].uid # command'[e].uid
    <3>1. \A f \in Commands \ {c} : Doing(f, "created")' =>
             command'[f].uid = command[f].uid /\ command[f].uid \in Ids /\ Doing(f, "created")
      BY <2>7 DEF Doing, CommandOK
    <3> QED BY <1>4, <2>6, <2>10, <3>1 DEF AccountsInv
  <2>11. AccountsTypeOK'
    <3>1. command' \in [Commands -> CommandRecords]
      BY <2>5, <2>6, <2>7
    <3> QED BY <2>4, <3>1 DEF AccountsTypeOK
  <2>12. (\A d \in Commands : CommandOK(command[d]))'
    BY <2>8, <2>9
  <2> QED BY <2>10, <2>11, <2>12 DEF AccountsInv
<1> QED BY <1>3, <1>4 DEF Insert

LEMMA RunCommandStep ==
    ASSUME AccountsInv, NEW c \in Commands, RunCommand(c) PROVE AccountsInv'
BY CountByUidStep, CountByNameStep, CountStep, MaximumStep, InsertStep, FindStep, ChangeStep
   DEF RunCommand

\* What the requests do leaves the accounts alone.
LEMMA AccountsStutter ==
    ASSUME AccountsInv, UNCHANGED <<users, command>> PROVE AccountsInv'
BY DEF AccountsInv, AccountsTypeOK, CommandOK, Cause, NameTaken, Ids, Doing, Row

LEMMA AccountsStart ==
    ASSUME TableOK(users), command = [c \in Commands |-> Waiting] PROVE AccountsInv
<1>1. Waiting \in CommandRecords /\ Waiting.at = "waiting" /\ Waiting.op = "none"
  BY DEF Waiting, Command, CommandRecords, Steps
<1>2. \A c \in Commands : CommandOK(command[c])
  BY <1>1 DEF CommandOK
<1> QED BY <1>1, <1>2 DEF AccountsInv, AccountsTypeOK, Doing

----------------------------------------------------------------------------
(* Permissions *)

\* The three bits of a digit are what chmod says of it.
LEMMA DigitBits ==
    ASSUME NEW v \in Nat, NEW op \in {"read", "write", "execute"}
    PROVE  op \in PermissionType(v) <=> op \in Grants(v % 8)
<1>1. PICK q \in Nat, d \in 0 .. 7 : v = 8 * q + d /\ d = v % 8
  <2>1. v = 8 * (v \div 8) + (v % 8) /\ v \div 8 \in Nat /\ v % 8 \in 0 .. 7
    BY SMT
  <2> QED BY <2>1
<1>2. /\ (v \div 4) % 2 = d \div 4
      /\ (v \div 2) % 2 = (d \div 2) % 2
      /\ (v \div 1) % 2 = d % 2
  BY <1>1, SMT
<1> USE DEF PermissionType, Weight, Grants, Digit
<1>3. CASE d = 0
  BY <1>1, <1>2, <1>3
<1>4. CASE d = 1
  BY <1>1, <1>2, <1>4
<1>5. CASE d = 2
  BY <1>1, <1>2, <1>5
<1>6. CASE d = 3
  BY <1>1, <1>2, <1>6
<1>7. CASE d = 4
  BY <1>1, <1>2, <1>7
<1>8. CASE d = 5
  BY <1>1, <1>2, <1>8
<1>9. CASE d = 6
  BY <1>1, <1>2, <1>9
<1>10. CASE d = 7
  BY <1>1, <1>2, <1>10
<1> QED BY <1>1, <1>3, <1>4, <1>5, <1>6, <1>7, <1>8, <1>9, <1>10

LEMMA DigitGrants ==
    ASSUME NEW d \in 0 .. 7 PROVE Grants(d) \subseteq {"read", "write", "execute"}
<1>1. d = 0 \/ d = 1 \/ d = 2 \/ d = 3 \/ d = 4 \/ d = 5 \/ d = 6 \/ d = 7
  OBVIOUS
<1> QED BY <1>1 DEF Grants, Digit

LEMMA RightsAreOps ==
    ASSUME NEW i \in Item, NEW u, NEW g PROVE Rights(i, u, g) \subseteq Ops
<1>1. i.mode \in Nat
  BY DEF Item, Modes
<1>2. (i.mode \div 64) % 8 \in 0 .. 7 /\ (i.mode \div 8) % 8 \in 0 .. 7 /\ i.mode % 8 \in 0 .. 7
  BY <1>1, SMT
<1> DEFINE a == (i.mode \div 64) % 8
           b == (i.mode \div 8) % 8
           c == i.mode % 8
<1>3. /\ Grants(a) \subseteq {"read", "write", "execute"}
      /\ Grants(b) \subseteq {"read", "write", "execute"}
      /\ Grants(c) \subseteq {"read", "write", "execute"}
  <2> HIDE DEF a, b, c
  <2> SUFFICES ASSUME a \in 0 .. 7, b \in 0 .. 7, c \in 0 .. 7
               PROVE  /\ Grants(a) \subseteq {"read", "write", "execute"}
                      /\ Grants(b) \subseteq {"read", "write", "execute"}
                      /\ Grants(c) \subseteq {"read", "write", "execute"}
    BY <1>2 DEF a, b, c
  <2> QED BY DigitGrants
<1>4. Rights(i, u, g) \in {Grants(a) \cup {"owner"}, Grants(b), Grants(c)}
  BY DEF Rights
<1> HIDE DEF a, b, c
<1> QED BY <1>3, <1>4 DEF Ops

\* is_allowed tells the rights chmod gives.
LEMMA AllowedIsRight ==
    ASSUME NEW its, NEW p, its[p] \in Item, NEW u, NEW g, NEW op \in Ops
    PROVE  IsAllowed(its, u, g, p, op) <=> op \in RightsAt(its, u, g, p)
<1> DEFINE i == its[p]
           a == i.mode \div 64
           b == i.mode \div 8
           c == i.mode
<1>1. a \in Nat /\ b \in Nat /\ c \in Nat
  BY DEF Item, Modes
<1>2. /\ (op \in PermissionType(a) <=> op \in Grants(a % 8))
      /\ (op \in PermissionType(b) <=> op \in Grants(b % 8))
      /\ (op \in PermissionType(c) <=> op \in Grants(c % 8))
  <2> HIDE DEF a, b, c
  <2>1. a % 8 \in 0 .. 7 /\ b % 8 \in 0 .. 7 /\ c % 8 \in 0 .. 7
    BY <1>1, SMT
  <2>2. CASE op = "owner"
    <3>1. op \notin Grants(a % 8) /\ op \notin Grants(b % 8) /\ op \notin Grants(c % 8)
      BY <2>1, <2>2, DigitGrants
    <3> QED BY <2>2, <3>1 DEF PermissionType
  <2>3. CASE op # "owner"
    BY <1>1, <2>3, DigitBits DEF Ops
  <2> QED BY <2>2, <2>3
<1>3. IsAllowed(its, u, g, p, op) <=>
        \/ p = Top
        \/ u = i.uid /\ op \in PermissionType(a) \cup {"owner"}
        \/ u # i.uid /\ g = i.gid /\ op \in PermissionType(b)
        \/ u # i.uid /\ g # i.gid /\ op \in PermissionType(c)
  BY DEF IsAllowed, Permission
<1>4. op \in RightsAt(its, u, g, p) <=>
        \/ p = Top
        \/ u = i.uid /\ op \in Grants(a % 8) \cup {"owner"}
        \/ u # i.uid /\ g = i.gid /\ op \in Grants(b % 8)
        \/ u # i.uid /\ g # i.gid /\ op \in Grants(c % 8)
  BY DEF RightsAt, Rights
<1> HIDE DEF a, b, c
<1> QED BY <1>2, <1>3, <1>4

----------------------------------------------------------------------------
(* What the invariant says of one request *)

PastTime == {"stat", "set_times", "done"}
PastSize == {"may_time"} \cup PastTime
PastOwner == {"may_resize", "resize"} \cup PastSize
PastMode == {"may_own", "resolve", "chown"} \cup PastOwner

\* What the place a request has come to tells of the rights its user had.
SetStage(r) ==
    /\ r.at \in {"may_mode", "chmod"} => r.ask.mode # None
    /\ r.at \in {"may_own", "resolve", "chown"} => r.ask.uid # None \/ r.ask.gid # None
    /\ r.at \in {"may_resize", "resize"} => r.ask.size # None
    /\ r.at = "may_time" => r.ask.mtime # None
    /\ r.at \in {"chmod", "resolve", "chown"} => "owner" \in r.had
    /\ r.at = "resize" => "write" \in r.had
    /\ r.at \in PastMode /\ r.ask.mode # None => "owner" \in r.had
    /\ r.at \in PastOwner /\ (r.ask.uid # None \/ r.ask.gid # None) => "owner" \in r.had
    /\ r.at \in PastSize /\ r.ask.size # None => "write" \in r.had
    /\ r.at \in PastTime /\ r.ask.mtime # None => "write" \in r.had
    /\ r.at = "chown" /\ r.uid # None => r.user = Root
    /\ r.at = "chown" /\ r.gid # None => r.user = Root \/ r.ask.gid = r.group

AccessStage(r) ==
    /\ r.at \in {"write", "execute", "done"} /\ "read" \in r.ask.mask => "read" \in r.had
    /\ r.at \in {"execute", "done"} /\ "write" \in r.ask.mask => "write" \in r.had
    /\ r.at = "done" /\ "execute" \in r.ask.mask => "execute" \in r.had

Stage(r) ==
    /\ r.at \in {"read", "write", "execute"} => r.ask.op = "access"
    /\ r.at \in {"put", "store"} => r.ask.op = "put"
    /\ r.at \in {"may_mode", "chmod", "may_own", "resolve", "chown", "may_resize", "resize",
                 "may_time", "stat", "set_times"} => r.ask.op = "set"
    /\ r.ask.op = "access" => AccessStage(r)
    /\ r.ask.op = "put" /\ r.at \in {"store", "done"} => "write" \in r.had
    /\ r.ask.op = "set" => SetStage(r)

\* A denial is for a right that is taken, or for a change of owner or group.
Denial(r) ==
    r.at = "denied" => \/ Takes(r.ask) \cap r.lacked # {}
                       \/ r.user # Root /\ r.ask.op = "set" /\ (r.ask.uid # None \/ r.ask.gid # None)

Core(r) == r \in Requests /\ Stage(r) /\ Denial(r) /\ ChangeRightful(r)

\* The history of a request holds what its user may do now.
Seen(r, its) ==
    LET rights == RightsAt(its, r.user, r.group, r.path)
    IN  rights \subseteq r.had /\ Ops \ rights \subseteq r.lacked

AccessInv ==
    /\ AccountsInv
    /\ instance \in Instances /\ DOMAIN items = DOMAIN instance.items
    /\ DOMAIN items \subseteq Paths /\ items \in [DOMAIN items -> Item]
    /\ clock \in Times /\ retimed \subseteq DOMAIN items
    /\ request \in [Tasks -> Requests \cup {Idle}]
    /\ \A t \in Tasks : request[t] = Idle \/ (Core(request[t]) /\ Seen(request[t], items))

\* What a request takes.
LEMMA TakesIs ==
    ASSUME NEW r \in Requests
    PROVE  /\ r.ask.op \in {"access", "put", "set"}
           /\ r.ask.op = "access" => Takes(r.ask) = r.ask.mask
                                    /\ r.ask.mask \subseteq {"read", "write", "execute"}
           /\ r.ask.op = "put" => Takes(r.ask) = {"write"}
           /\ r.ask.op = "set" =>
                /\ Takes(r.ask) \subseteq {"owner", "write"}
                /\ "owner" \in Takes(r.ask) <=>
                     r.ask.mode # None \/ r.ask.uid # None \/ r.ask.gid # None
                /\ "write" \in Takes(r.ask) <=> r.ask.size # None \/ r.ask.mtime # None
<1> DEFINE ask == r.ask
<1>1. ask \in Accesses \cup Puts \cup Sets
  BY DEF Requests
<1>2. ask.op \in {"access", "put", "set"} /\ (ask.op = "access" => ask \in Accesses)
  BY <1>1 DEF Accesses, Puts, Sets
<1> HIDE DEF ask
<1>3. CASE ask.op = "access"
  BY <1>2, <1>3 DEF Takes, Accesses, ask
<1>4. CASE ask.op = "put"
  BY <1>2, <1>4 DEF Takes, ask
<1>5. CASE ask.op = "set"
  <2>1. Takes(ask) = {op \in {"owner"} : {ask.mode, ask.uid, ask.gid} # {None}}
                     \cup {op \in {"write"} : {ask.size, ask.mtime} # {None}}
    BY <1>5 DEF Takes
  <2>2. /\ {ask.mode, ask.uid, ask.gid} # {None} <=>
             ask.mode # None \/ ask.uid # None \/ ask.gid # None
        /\ {ask.size, ask.mtime} # {None} <=> ask.size # None \/ ask.mtime # None
    OBVIOUS
  <2> QED BY <1>5, <2>1, <2>2 DEF ask
<1> QED BY <1>2, <1>3, <1>4, <1>5 DEF ask

LEMMA CoreIsRightful ==
    ASSUME NEW r, Core(r) PROVE ChangeRightful(r) /\ AnswerRightful(r)
<1>1. r \in Requests /\ Stage(r) /\ Denial(r) /\ ChangeRightful(r)
  BY DEF Core
<1>2. ASSUME r.at = "done" PROVE Takes(r.ask) \subseteq r.had
  <2>1. CASE r.ask.op = "access"
    BY <1>1, <1>2, <2>1, TakesIs DEF Stage, AccessStage
  <2>2. CASE r.ask.op = "put"
    BY <1>1, <1>2, <2>2, TakesIs DEF Stage
  <2>3. CASE r.ask.op = "set"
    BY <1>1, <1>2, <2>3, TakesIs DEF Stage, SetStage, PastTime, PastSize, PastOwner, PastMode
  <2> QED BY <1>1, <2>1, <2>2, <2>3, TakesIs
<1>3. ASSUME r.at = "denied"
      PROVE  \/ Takes(r.ask) \cap r.lacked # {}
             \/ r.user # Root /\ r.ask.op = "set" /\ {r.ask.uid, r.ask.gid} # {None}
  BY <1>1, <1>3 DEF Denial
<1> QED BY <1>1, <1>2, <1>3 DEF AnswerRightful

\* What a request has seen stays seen.
LEMMA SeeingStep ==
    ASSUME NEW m, Core(m), NEW its \in [DOMAIN items -> Item]
    PROVE  Core(Seeing(m, its)) /\ Seen(Seeing(m, its), its)
<1> DEFINE rights == RightsAt(its, m.user, m.group, m.path)
           y == Seeing(m, its)
<1>1. m \in Requests /\ Stage(m) /\ Denial(m) /\ ChangeRightful(m)
  BY DEF Core
<1>2. rights \subseteq Ops
  <2>1. its[m.path] \in Item
    BY <1>1 DEF Requests
  <2> QED BY <2>1, RightsAreOps DEF RightsAt
<1>3. /\ y.at = m.at /\ y.user = m.user /\ y.group = m.group /\ y.path = m.path /\ y.ask = m.ask
      /\ y.uid = m.uid /\ y.gid = m.gid /\ y.did = m.did
      /\ y.had = m.had \cup rights /\ y.lacked = m.lacked \cup (Ops \ rights)
      /\ y \in Requests
  <2> HIDE DEF rights
  <2>1. y = [m EXCEPT !.had = @ \cup rights, !.lacked = @ \cup (Ops \ rights)]
    BY DEF Seeing, rights
  <2> HIDE DEF y
  <2> QED BY <1>1, <1>2, <2>1 DEF Requests
<1>4. Seen(y, its)
  <2> HIDE DEF y
  <2> QED BY <1>3 DEF Seen
<1> HIDE DEF y, rights
<1>5. Stage(y)
  <2>1. AccessStage(m) => AccessStage(y)
    BY <1>3 DEF AccessStage
  <2>2. SetStage(m) => SetStage(y)
    BY <1>3 DEF SetStage
  <2> QED BY <1>1, <1>3, <2>1, <2>2 DEF Stage
<1>6. Denial(y)
  BY <1>1, <1>3 DEF Denial
<1>7. ChangeRightful(y)
  BY <1>1, <1>3 DEF ChangeRightful
<1> QED BY <1>3, <1>4, <1>5, <1>6, <1>7 DEF Core, y

----------------------------------------------------------------------------
(* Steps of one request *)

\* A request that moves on keeps the rest.
LEMMA MovedOn ==
    ASSUME NEW r \in Requests, NEW here \in Places
    PROVE  LET y == [r EXCEPT !.at = here]
           IN  /\ y \in Requests /\ y.at = here
               /\ y.user = r.user /\ y.group = r.group /\ y.path = r.path /\ y.ask = r.ask
               /\ y.uid = r.uid /\ y.gid = r.gid
               /\ y.had = r.had /\ y.lacked = r.lacked /\ y.did = r.did
BY DEF Requests

\* A busy request.
LEMMA BusyRequest ==
    ASSUME AccessInv, NEW t \in Tasks, request[t].at # "idle"
    PROVE  Core(request[t]) /\ Seen(request[t], items) /\ request[t] \in Requests
           /\ items[request[t].path] \in Item /\ request[t] # Idle
<1>1. Core(request[t]) /\ Seen(request[t], items) /\ request[t] # Idle
  BY DEF AccessInv, Idle
<1>2. request[t] \in Requests
  BY <1>1 DEF Core
<1>3. items[request[t].path] \in Item
  BY <1>2 DEF AccessInv, Requests
<1> QED BY <1>1, <1>2, <1>3

LEMMA OneRequest ==
    ASSUME AccessInv, NEW t \in Tasks, NEW next,
           next = Idle \/ (Core(next) /\ Seen(next, items)), Step(t, next)
    PROVE  AccessInv'
<1>1. request' = [request EXCEPT ![t] = next]
      /\ UNCHANGED <<users, command, items, clock, retimed, instance>>
  BY DEF Step
<1>2. AccountsInv'
  BY <1>1, AccountsStutter DEF AccessInv
<1>3. \A s \in Tasks : request'[s] = Idle \/ (Core(request'[s]) /\ Seen(request'[s], items))
  BY <1>1 DEF AccessInv
<1>4. \A s \in Tasks : request'[s] \in Requests \cup {Idle}
  BY <1>3 DEF Core
<1>5. request' \in [Tasks -> Requests \cup {Idle}]
  BY <1>1, <1>4 DEF AccessInv
<1>6. Requests' = Requests
  BY <1>1 DEF Requests
<1>7. (\A s \in Tasks : request[s] = Idle \/ (Core(request[s]) /\ Seen(request[s], items)))'
  BY <1>1, <1>3, <1>6 DEF Core, Stage, AccessStage, SetStage, Denial, ChangeRightful, Seen
<1> QED BY <1>1, <1>2, <1>5, <1>6, <1>7 DEF AccessInv

LEMMA ProceedStep ==
    ASSUME AccessInv, NEW t \in Tasks, request[t].at # "idle", NEW here \in Places,
           Proceed(t, here), Stage([request[t] EXCEPT !.at = here]),
           Denial([request[t] EXCEPT !.at = here])
    PROVE  AccessInv'
<1> DEFINE r == request[t]
           y == [r EXCEPT !.at = here]
<1>1. Core(r) /\ Seen(r, items) /\ r \in Requests
  BY BusyRequest
<1>2. /\ y \in Requests /\ y.at = here
      /\ y.user = r.user /\ y.group = r.group /\ y.path = r.path /\ y.ask = r.ask
      /\ y.uid = r.uid /\ y.gid = r.gid
      /\ y.had = r.had /\ y.lacked = r.lacked /\ y.did = r.did
  <2> HIDE DEF r
  <2> QED BY <1>1, MovedOn
<1>3. Stage(y) /\ Denial(y) /\ Step(t, y)
  BY DEF Proceed
<1> HIDE DEF y, r
<1>4. ChangeRightful(y)
  BY <1>1, <1>2 DEF Core, ChangeRightful
<1>5. Seen(y, items)
  BY <1>1, <1>2 DEF Seen
<1> QED BY <1>2, <1>3, <1>4, <1>5, OneRequest DEF Core

LEMMA CheckStep ==
    ASSUME AccessInv, NEW t \in Tasks, request[t].at # "idle",
           NEW op \in Ops, op \in Takes(request[t].ask), NEW here \in Places \ {"denied"},
           op \in request[t].had => Stage([request[t] EXCEPT !.at = here]),
           Check(t, op, here)
    PROVE  AccessInv'
<1> DEFINE r == request[t]
<1>1. Core(r) /\ Seen(r, items) /\ r \in Requests /\ items[r.path] \in Item
  BY BusyRequest
<1>2. IsAllowed(items, r.user, r.group, r.path, op) <=> op \in RightsAt(items, r.user, r.group, r.path)
  <2> DEFINE p == r.path
             u == r.user
             g == r.group
  <2>1. items[p] \in Item
    BY <1>1
  <2>2. IsAllowed(items, u, g, p, op) <=> op \in RightsAt(items, u, g, p)
    <3> HIDE DEF p, u, g
    <3> QED BY <2>1, AllowedIsRight
  <2> QED BY <2>2
<1>3. CASE IsAllowed(items, r.user, r.group, r.path, op)
  <2>1. Proceed(t, here)
    BY <1>3 DEF Check
  <2>2. op \in r.had
    BY <1>1, <1>2, <1>3 DEF Seen
  <2>3. [r EXCEPT !.at = here].at = here
    BY <1>1, MovedOn
  <2> QED BY <2>1, <2>2, <2>3, ProceedStep DEF Denial
<1>4. CASE ~IsAllowed(items, r.user, r.group, r.path, op)
  <2> DEFINE y == [r EXCEPT !.at = "denied"]
  <2>1. Proceed(t, "denied")
    BY <1>4 DEF Check
  <2>2. op \in r.lacked
    BY <1>1, <1>2, <1>4 DEF Seen
  <2>3. "denied" \in Places
    BY DEF Places
  <2>4. /\ y.at = "denied" /\ y.ask = r.ask /\ y.lacked = r.lacked
    <3> HIDE DEF r
    <3> QED BY <1>1, <2>3, MovedOn
  <2>5. Stage(y) /\ Denial(y)
    <3> HIDE DEF y
    <3> QED BY <2>2, <2>4
        DEF Stage, AccessStage, SetStage, Denial, PastTime, PastSize, PastOwner, PastMode
  <2> QED BY <2>1, <2>3, <2>5, ProceedStep
<1> QED BY <1>3, <1>4

LEMMA EffectStep ==
    ASSUME AccessInv, NEW t \in Tasks, request[t].at # "idle",
           NEW here, NEW part, NEW item \in Item, Effect(t, here, part, item),
           Core([request[t] EXCEPT !.at = here, !.did = @ \cup part]),
           clock' \in Times, retimed' \subseteq DOMAIN items
    PROVE  AccessInv'
<1> DEFINE r == request[t]
           its == [items EXCEPT ![r.path] = item]
           moved == [request EXCEPT ![t].at = here, ![t].did = @ \cup part]
<1>1. /\ items' = its /\ UNCHANGED <<users, command, instance>>
      /\ request' = [s \in Tasks |-> IF request[s] = Idle THEN Idle ELSE Seeing(moved[s], its)]
  BY DEF Effect
<1>2. its \in [DOMAIN items -> Item] /\ DOMAIN its = DOMAIN items
  BY DEF AccessInv
<1>3. ASSUME NEW s \in Tasks, request[s] # Idle
      PROVE  Core(Seeing(moved[s], its)) /\ Seen(Seeing(moved[s], its), its)
  <2>1. Core(moved[s])
    BY <1>3 DEF AccessInv
  <2> HIDE DEF moved, its
  <2> QED BY <1>2, <2>1, SeeingStep
<1> HIDE DEF its, moved
<1>4. \A s \in Tasks : request'[s] = Idle \/ (Core(request'[s]) /\ Seen(request'[s], its))
  BY <1>1, <1>3
<1>5. Requests' = Requests /\ DOMAIN items' = DOMAIN items
  BY <1>1, <1>2 DEF Requests
<1>6. request' \in [Tasks -> Requests \cup {Idle}]
  <2>1. \A s \in Tasks : request'[s] \in Requests \cup {Idle}
    BY <1>4 DEF Core
  <2> QED BY <1>1, <2>1
<1>7. (\A s \in Tasks : request[s] = Idle \/ (Core(request[s]) /\ Seen(request[s], items)))'
  BY <1>1, <1>4, <1>5 DEF Core, Stage, AccessStage, SetStage, Denial, ChangeRightful, Seen
<1>8. AccountsInv'
  BY <1>1, AccountsStutter DEF AccessInv
<1> QED BY <1>1, <1>2, <1>5, <1>6, <1>7, <1>8 DEF AccessInv

----------------------------------------------------------------------------
(* The steps of the handlers that change nothing others see *)

LEMMA AskBitsStep ==
    ASSUME AccessInv, NEW t \in Tasks, AskBits(t) PROVE AccessInv'
<1>1. PICK op \in {"read", "write", "execute"}, next \in {"write", "execute", "done"} :
        /\ AskBit(t, op, next)
        /\ \/ op = "read" /\ next = "write"
           \/ op = "write" /\ next = "execute"
           \/ op = "execute" /\ next = "done"
  BY DEF AskBits
<1> DEFINE r == request[t]
           y == [r EXCEPT !.at = next]
<1>2. r.at = op /\ r.at # "idle"
  BY <1>1 DEF AskBit, At
<1>3. Core(r) /\ r \in Requests
  BY <1>2, BusyRequest
<1>4. next \in Places \ {"denied"} /\ op \in Ops
  BY DEF Places, Ops
<1>5. y.at = next /\ y.ask = r.ask /\ y.had = r.had
  <2> HIDE DEF r
  <2> QED BY <1>3, <1>4, MovedOn
<1>6. r.ask.op = "access"
  BY <1>1, <1>2, <1>3 DEF Core, Stage
<1>7. (op \in r.ask.mask => op \in r.had) => Stage(y)
  <2> HIDE DEF y, r
  <2> QED BY <1>1, <1>2, <1>3, <1>5, <1>6 DEF Core, Stage, AccessStage
<1>8. CASE op \in r.ask.mask
  <2>1. op \in Takes(r.ask)
    BY <1>3, <1>6, <1>8, TakesIs
  <2>2. Check(t, op, next)
    BY <1>1, <1>8 DEF AskBit
  <2> QED BY <1>2, <1>4, <1>7, <2>1, <2>2, CheckStep
<1>9. CASE op \notin r.ask.mask
  <2>1. Proceed(t, next)
    BY <1>1, <1>9 DEF AskBit
  <2>2. Denial(y)
    BY <1>5 DEF Denial
  <2> QED BY <1>2, <1>4, <1>7, <1>9, <2>1, <2>2, ProceedStep
<1> QED BY <1>8, <1>9

\* A check on the way of a put or of set_attributes.
LEMMA ChecksStep ==
    ASSUME AccessInv, NEW t \in Tasks,
           CheckPut(t) \/ MayMode(t) \/ MayOwn(t) \/ MayResize(t) \/ MayTime(t)
    PROVE  AccessInv'
<1> DEFINE r == request[t]
<1>1. PICK op \in {"owner", "write"}, here \in {"store", "chmod", "resolve", "resize", "stat"} :
        /\ Check(t, op, here)
        /\ \/ r.at = "put" /\ op = "write" /\ here = "store"
           \/ r.at = "may_mode" /\ op = "owner" /\ here = "chmod"
           \/ r.at = "may_own" /\ op = "owner" /\ here = "resolve"
           \/ r.at = "may_resize" /\ op = "write" /\ here = "resize"
           \/ r.at = "may_time" /\ op = "write" /\ here = "stat"
  BY DEF CheckPut, MayMode, MayOwn, MayResize, MayTime, At
<1> DEFINE y == [r EXCEPT !.at = here]
<1>2. r.at # "idle"
  BY <1>1
<1>3. Core(r) /\ r \in Requests
  BY <1>2, BusyRequest
<1>4. here \in Places \ {"denied"} /\ op \in Ops
  BY DEF Places, Ops
<1>5. y.at = here /\ y.ask = r.ask /\ y.had = r.had /\ y.user = r.user /\ y.group = r.group
      /\ y.uid = r.uid /\ y.gid = r.gid
  <2> HIDE DEF r
  <2> QED BY <1>3, <1>4, MovedOn
<1>6. op \in Takes(r.ask)
  <2> HIDE DEF r
  <2> QED BY <1>1, <1>3, TakesIs DEF Core, Stage, SetStage
<1>7. op \in r.had => Stage(y)
  <2> HIDE DEF r, y
  <2>1. CASE here = "store"
    BY <1>1, <1>3, <1>5, <2>1 DEF Core, Stage
  <2>2. CASE here # "store"
    <3>1. y.ask.op = "set" /\ SetStage(r)
      BY <1>1, <1>3, <1>5, <2>2 DEF Core, Stage
    <3>2. op \in r.had => SetStage(y)
      BY <1>1, <1>3, <1>5, <2>2, <3>1 DEF SetStage, PastTime, PastSize, PastOwner, PastMode
    <3> QED BY <1>5, <2>2, <3>1, <3>2 DEF Stage
  <2> QED BY <2>1, <2>2
<1> QED BY <1>1, <1>2, <1>4, <1>6, <1>7, CheckStep

LEMMA ResolveStep ==
    ASSUME AccessInv, NEW t \in Tasks, Resolve(t) PROVE AccessInv'
<1> DEFINE r == request[t]
           item == items[r.path]
           uid == Target(r.ask.uid, item.uid)
           gid == Target(r.ask.gid, item.gid)
           may == /\ Resolves(r.ask.uid, item.uid, r, FALSE)
                  /\ Resolves(r.ask.gid, item.gid, r, r.ask.gid = r.group)
           here == IF {uid, gid} = {None} THEN AfterOwner(r.ask) ELSE "chown"
           y == [r EXCEPT !.uid = uid, !.gid = gid, !.at = here]
<1>1. r.at = "resolve" /\ r.at # "idle"
  BY DEF Resolve, At
<1>2. Core(r) /\ Seen(r, items) /\ r \in Requests /\ item \in Item
  BY <1>1, BusyRequest
<1>3. r.ask.op = "set" /\ r.ask \in Sets
  <2>1. r.ask.op = "set" /\ r.ask \in Accesses \cup Puts \cup Sets
    BY <1>1, <1>2 DEF Core, Stage, Requests
  <2> QED BY <2>1 DEF Accesses, Puts
<1>4. uid \in Option(Uids) /\ gid \in Option(Nat)
  BY <1>3 DEF Target, Sets, Option
<1>5. here \in {"chown", "may_resize", "may_time", "stat"}
      /\ (here = "may_resize" => r.ask.size # None)
      /\ (here = "may_time" => r.ask.size = None /\ r.ask.mtime # None)
      /\ (here = "stat" => r.ask.size = None /\ r.ask.mtime = None)
  BY DEF AfterOwner, AfterSize
<1>6. may => /\ uid # None => r.user = Root
             /\ gid # None => r.user = Root \/ r.ask.gid = r.group
  BY DEF Resolves, Target
<1>7. ~may => r.user # Root /\ (r.ask.uid # None \/ r.ask.gid # None)
  BY DEF Resolves
<1>8. CASE ~may
  <2> DEFINE z == [r EXCEPT !.at = "denied"]
  <2>1. Proceed(t, "denied")
    BY <1>8 DEF Resolve
  <2>2. "denied" \in Places
    BY DEF Places
  <2>3. z.at = "denied" /\ z.ask = r.ask /\ z.user = r.user
    <3> HIDE DEF r
    <3> QED BY <1>2, <2>2, MovedOn
  <2>4. Stage(z) /\ Denial(z)
    <3> HIDE DEF z, may, r
    <3> QED BY <1>3, <1>7, <1>8, <2>3
        DEF Stage, AccessStage, SetStage, Denial, PastTime, PastSize, PastOwner, PastMode
  <2> QED BY <1>1, <2>1, <2>2, <2>4, ProceedStep
<1>9. CASE may
  <2>1. Step(t, y)
    <3> DEFINE next == [r EXCEPT !.uid = uid, !.gid = gid]
    <3>1. next.uid = uid /\ next.gid = gid /\ [next EXCEPT !.at = here] = y
      <4> HIDE DEF uid, gid, here, r
      <4> QED BY <1>2 DEF Requests
    <3>2. Step(t, [next EXCEPT !.at = IF {next.uid, next.gid} = {None}
                                      THEN AfterOwner(r.ask) ELSE "chown"])
      BY <1>9 DEF Resolve
    <3> QED BY <3>1, <3>2
  <2>2. here \in Places
    <3> HIDE DEF here
    <3> QED BY <1>5 DEF Places
  <2>3. /\ y \in Requests /\ y.at = here /\ y.uid = uid /\ y.gid = gid
        /\ y.user = r.user /\ y.group = r.group /\ y.path = r.path /\ y.ask = r.ask
        /\ y.had = r.had /\ y.lacked = r.lacked /\ y.did = r.did
    <3> HIDE DEF uid, gid, here, r
    <3> QED BY <1>2, <1>4, <2>2 DEF Requests
  <2> HIDE DEF y, uid, gid, here, r, may
  <2>4. "owner" \in r.had
    BY <1>1, <1>2, <1>3 DEF Core, Stage, SetStage
  <2>5. SetStage(y)
    <3>1. (r.ask.uid # None \/ r.ask.gid # None)
      BY <1>1, <1>2, <1>3 DEF Core, Stage, SetStage
    <3> QED BY <1>5, <1>6, <1>9, <2>3, <2>4, <3>1
            DEF SetStage, PastTime, PastSize, PastOwner, PastMode
  <2>6. Stage(y) /\ Denial(y)
    BY <1>3, <1>5, <2>3, <2>5 DEF Stage, Denial
  <2>7. Seen(y, items) /\ ChangeRightful(y)
    BY <1>2, <2>3 DEF Core, Seen, ChangeRightful
  <2> QED BY <2>1, <2>3, <2>6, <2>7, OneRequest DEF Core
<1> QED BY <1>8, <1>9

LEMMA StatStep ==
    ASSUME AccessInv, NEW t \in Tasks, Stat(t) PROVE AccessInv'
<1> DEFINE r == request[t]
           item == items[r.path]
           Asked(new, old) == IF new = None THEN old ELSE new
           atime == Asked(r.ask.atime, item.atime)
           mtime == Asked(r.ask.mtime, item.mtime)
           y == [r EXCEPT !.at = "set_times", !.atime = atime, !.mtime = mtime, !.seen = item.changed]
<1>1. r.at = "stat" /\ r.at # "idle"
  BY DEF Stat, At
<1>2. Core(r) /\ Seen(r, items) /\ r \in Requests /\ item \in Item
  BY <1>1, BusyRequest
<1>3. r.ask.op = "set" /\ r.ask \in Sets
  <2>1. r.ask.op = "set" /\ r.ask \in Accesses \cup Puts \cup Sets
    BY <1>1, <1>2 DEF Core, Stage, Requests
  <2> QED BY <2>1 DEF Accesses, Puts
<1>4. CASE Before \in {r.ask.atime, r.ask.mtime}
  <2> DEFINE z == [r EXCEPT !.at = "lost"]
  <2>1. Proceed(t, "lost") /\ "lost" \in Places
    BY <1>4 DEF Stat, Places
  <2>2. z.at = "lost"
    BY <1>2, <2>1, MovedOn
  <2>3. Stage(z) /\ Denial(z)
    <3> HIDE DEF z
    <3> QED BY <2>2
        DEF Stage, AccessStage, SetStage, Denial, PastTime, PastSize, PastOwner, PastMode
  <2> QED BY <1>1, <2>1, <2>3, ProceedStep
<1>5. CASE Before \notin {r.ask.atime, r.ask.mtime}
  <2>1. Step(t, y)
    BY <1>5 DEF Stat
  <2>2. atime \in Times /\ mtime \in Times /\ item.changed \in Times
    BY <1>2, <1>3, <1>5 DEF Sets, Option, Item
  <2>3. /\ y \in Requests /\ y.at = "set_times"
        /\ y.user = r.user /\ y.group = r.group /\ y.path = r.path /\ y.ask = r.ask
        /\ y.uid = r.uid /\ y.gid = r.gid
        /\ y.had = r.had /\ y.lacked = r.lacked /\ y.did = r.did
    <3>1. "set_times" \in Places
      BY DEF Places
    <3> HIDE DEF atime, mtime, r, item
    <3> QED BY <1>2, <2>2, <3>1 DEF Requests
  <2> HIDE DEF y, atime, mtime, r
  <2>4. SetStage(y)
    BY <1>1, <1>2, <1>3, <2>3 DEF Core, Stage, SetStage, PastTime, PastSize, PastOwner, PastMode
  <2>5. Stage(y) /\ Denial(y)
    BY <1>3, <2>3, <2>4 DEF Stage, Denial
  <2>6. Seen(y, items) /\ ChangeRightful(y)
    BY <1>2, <2>3 DEF Core, Seen, ChangeRightful
  <2> QED BY <2>1, <2>3, <2>5, <2>6, OneRequest DEF Core
<1> QED BY <1>4, <1>5

LEMMA AnswerStep ==
    ASSUME AccessInv, NEW t \in Tasks, Answer(t) PROVE AccessInv'
BY OneRequest DEF Answer

LEMMA RequestingStep ==
    ASSUME AccessInv, NEW t \in Tasks, Requesting(t) PROVE AccessInv'
<1>1. PICK u \in Ids, ask \in instance.asks :
        GetPermissions(t, u, ask) \/ WriteFile(t, u, ask) \/ SetAttributes(t, u, ask)
  BY DEF Requesting
<1>2. ask \in Accesses \cup Puts \cup Sets /\ ask.path \in DOMAIN items
  BY InstancesAssumption DEF AccessInv
<1>3. u \in Uids /\ users[u].gid \in Nat
  BY DEF AccessInv, AccountsInv, AccountsTypeOK, TableOK, Ids
<1>4. PICK here : /\ Begin(t, Request(u, ask, here))
                  /\ \/ here = "read" /\ ask.op = "access"
                     \/ here = "put" /\ ask.op = "put"
                     \/ here = FirstPart(ask) /\ ask.op = "set"
  BY <1>1 DEF GetPermissions, WriteFile, SetAttributes
<1> DEFINE y == Request(u, ask, here)
<1>5. /\ here \in {"read", "put", "may_mode", "may_own", "may_resize", "may_time", "stat"}
      /\ here \in {"may_mode", "may_own", "may_resize", "may_time", "stat"} =>
           /\ ask.op = "set"
           /\ here = "may_mode" <=> ask.mode # None
           /\ here = "may_own" => ask.uid # None \/ ask.gid # None
           /\ here \in {"may_resize", "may_time", "stat"} => ask.uid = None /\ ask.gid = None
           /\ here = "may_resize" => ask.size # None
           /\ here \in {"may_time", "stat"} => ask.size = None
           /\ here = "may_time" => ask.mtime # None
           /\ here = "stat" => ask.mtime = None
      /\ here = "read" => ask.op = "access"
      /\ here = "put" => ask.op = "put"
  BY <1>4 DEF FirstPart, AfterMode, AfterOwner, AfterSize
<1>6. here \in Places
  BY <1>5 DEF Places
<1>7. /\ y \in Requests /\ y.at = here /\ y.ask = ask /\ y.did = {} /\ y.had = {}
  <2>1. 0 \in Times
    BY BoundsAssumption DEF Times
  <2> QED BY <1>2, <1>3, <1>6, <2>1 DEF Request, Requests, Option
<1> HIDE DEF y
<1>8. Stage(y)
  BY <1>5, <1>7 DEF Stage, AccessStage, SetStage, PastTime, PastSize, PastOwner, PastMode
<1>9. Denial(y) /\ ChangeRightful(y)
  BY <1>5, <1>7 DEF Denial, ChangeRightful
<1>10. Core(Seeing(y, items)) /\ Seen(Seeing(y, items), items)
  BY <1>7, <1>8, <1>9, SeeingStep DEF Core, AccessInv
<1>11. Step(t, Seeing(y, items))
  BY <1>4 DEF Begin, Step, y
<1> QED BY <1>10, <1>11, OneRequest

----------------------------------------------------------------------------
(* The steps that change an item *)

\* It is Core when what it did is rightful and so is its place.
LEMMA DidStep ==
    ASSUME AccessInv, NEW t \in Tasks, request[t].at # "idle",
           NEW here \in Places \ {"denied"},
           NEW part \in SUBSET {"mode", "uid", "gid", "contents", "mtime"},
           NEW item \in Item, Effect(t, here, part, item),
           clock' \in Times, retimed' \subseteq DOMAIN items,
           Stage([request[t] EXCEPT !.at = here, !.did = @ \cup part]),
           part \cap {"mode", "uid", "gid"} # {} => "owner" \in request[t].had,
           part \cap {"contents", "mtime"} # {} => "write" \in request[t].had,
           "uid" \in part => request[t].user = Root,
           "gid" \in part => request[t].user = Root \/ request[t].ask.gid = request[t].group
    PROVE  AccessInv'
<1> DEFINE r == request[t]
           y == [r EXCEPT !.at = here, !.did = @ \cup part]
<1>1. Core(r) /\ r \in Requests
  BY BusyRequest
<1>2. /\ y \in Requests /\ y.at = here /\ y.did = r.did \cup part
      /\ y.user = r.user /\ y.group = r.group /\ y.ask = r.ask
      /\ y.uid = r.uid /\ y.gid = r.gid /\ y.had = r.had
  <2> HIDE DEF r
  <2> QED BY <1>1 DEF Requests
<1>3. ChangeRightful(y) /\ Denial(y) /\ Stage(y)
  <2>1. Stage(y)
    OBVIOUS
  <2> HIDE DEF y
  <2> QED BY <1>1, <1>2, <2>1 DEF Core, ChangeRightful, Denial
<1>4. Core(y)
  BY <1>2, <1>3 DEF Core
<1> QED BY <1>4, EffectStep

LEMMA SetPermissionsStep ==
    ASSUME AccessInv, NEW t \in Tasks, SetPermissions(t) PROVE AccessInv'
<1> DEFINE r == request[t]
           item == [items[r.path] EXCEPT !.mode = r.ask.mode]
           here == AfterMode(r.ask)
           y == [r EXCEPT !.at = here, !.did = @ \cup {"mode"}]
<1>1. r.at = "chmod" /\ r.at # "idle"
  BY DEF SetPermissions, At
<1>2. Core(r) /\ r \in Requests /\ items[r.path] \in Item
  BY <1>1, BusyRequest
<1>3. r.ask.op = "set" /\ r.ask \in Sets
  <2>1. r.ask.op = "set" /\ r.ask \in Accesses \cup Puts \cup Sets
    BY <1>1, <1>2 DEF Core, Stage, Requests
  <2> QED BY <2>1 DEF Accesses, Puts
<1>4. r.ask.mode # None /\ "owner" \in r.had
  BY <1>1, <1>2, <1>3 DEF Core, Stage, SetStage
<1>5. item \in Item
  BY <1>2, <1>3, <1>4 DEF Item, Sets, Option
<1>6. /\ here \in {"may_own", "may_resize", "may_time", "stat"}
      /\ here = "may_own" => r.ask.uid # None \/ r.ask.gid # None
      /\ here # "may_own" => r.ask.uid = None /\ r.ask.gid = None
      /\ here = "may_resize" => r.ask.size # None
      /\ here \in {"may_time", "stat"} => r.ask.size = None
      /\ here = "may_time" => r.ask.mtime # None
      /\ here = "stat" => r.ask.mtime = None
  BY DEF AfterMode, AfterOwner, AfterSize
<1>7. here \in Places \ {"denied"} /\ {"mode"} \in SUBSET {"mode", "uid", "gid", "contents", "mtime"}
  <2> HIDE DEF here
  <2> QED BY <1>6 DEF Places
<1>8. y.at = here /\ y.ask = r.ask /\ y.had = r.had
  <2> HIDE DEF r, here
  <2> QED BY <1>2, <1>7 DEF Requests
<1>9. Stage(y)
  <2> HIDE DEF y, r, here
  <2> QED BY <1>3, <1>4, <1>6, <1>8
      DEF Stage, AccessStage, SetStage, PastTime, PastSize, PastOwner, PastMode
<1>10. Effect(t, here, {"mode"}, item) /\ UNCHANGED <<clock, retimed>>
  BY DEF SetPermissions
<1>11. clock' \in Times /\ retimed' \subseteq DOMAIN items
  BY <1>10 DEF AccessInv
<1> HIDE DEF here, item
<1> QED BY <1>1, <1>4, <1>5, <1>7, <1>9, <1>10, <1>11, DidStep

LEMMA ChownStep ==
    ASSUME AccessInv, NEW t \in Tasks, Chown(t) PROVE AccessInv'
<1> DEFINE r == request[t]
           Or(new, old) == IF new = None THEN old ELSE new
           item == [items[r.path] EXCEPT !.uid = Or(r.uid, @), !.gid = Or(r.gid, @)]
           here == AfterOwner(r.ask)
           part == {id \in {"uid", "gid"} : r[id] # None}
           y == [r EXCEPT !.at = here, !.did = @ \cup part]
<1>1. r.at = "chown" /\ r.at # "idle"
  BY DEF Chown, At
<1>2. Core(r) /\ r \in Requests /\ items[r.path] \in Item
  BY <1>1, BusyRequest
<1>3. r.ask.op = "set"
  BY <1>1, <1>2 DEF Core, Stage
<1>4. /\ r.ask.uid # None \/ r.ask.gid # None
      /\ "owner" \in r.had
      /\ r.uid # None => r.user = Root
      /\ r.gid # None => r.user = Root \/ r.ask.gid = r.group
      /\ r.uid \in Option(Uids) /\ r.gid \in Option(Nat)
  <2> HIDE DEF r
  <2> QED BY <1>1, <1>2, <1>3 DEF Core, Stage, SetStage, Requests
<1>5. item \in Item
  <2>1. Or(r.uid, items[r.path].uid) \in Uids /\ Or(r.gid, items[r.path].gid) \in Nat
    BY <1>2, <1>4 DEF Item, Option
  <2>2. item = [items[r.path] EXCEPT !.uid = Or(r.uid, items[r.path].uid), !.gid = Or(r.gid, items[r.path].gid)]
    OBVIOUS
  <2> HIDE DEF item, Or
  <2> QED BY <1>2, <2>1, <2>2 DEF Item
<1>6. /\ here \in {"may_resize", "may_time", "stat"}
      /\ here = "may_resize" => r.ask.size # None
      /\ here \in {"may_time", "stat"} => r.ask.size = None
      /\ here = "may_time" => r.ask.mtime # None
      /\ here = "stat" => r.ask.mtime = None
  BY DEF AfterOwner, AfterSize
<1>7. here \in Places \ {"denied"} /\ part \in SUBSET {"mode", "uid", "gid", "contents", "mtime"}
      /\ part \cap {"contents", "mtime"} = {}
  <2> HIDE DEF here
  <2> QED BY <1>6 DEF Places
<1>8. y.at = here /\ y.ask = r.ask /\ y.had = r.had
  <2> HIDE DEF r, here, part
  <2> QED BY <1>2, <1>7 DEF Requests
<1>9. Stage(y)
  <2>1. r.ask.mode # None => "owner" \in r.had
    BY <1>4
  <2> HIDE DEF y, r, here
  <2> QED BY <1>3, <1>4, <1>6, <1>8, <2>1
      DEF Stage, AccessStage, SetStage, PastTime, PastSize, PastOwner, PastMode
<1>10. Effect(t, here, part, item) /\ UNCHANGED <<clock, retimed>>
  BY DEF Chown
<1>11. clock' \in Times /\ retimed' \subseteq DOMAIN items
  BY <1>10 DEF AccessInv
<1>12. ("uid" \in part => r.user = Root) /\ ("gid" \in part => r.user = Root \/ r.ask.gid = r.group)
  <2>1. r["uid"] = r.uid /\ r["gid"] = r.gid
    OBVIOUS
  <2> QED BY <1>4, <2>1
<1> HIDE DEF here, item, part
<1> QED BY <1>1, <1>4, <1>5, <1>7, <1>9, <1>10, <1>11, <1>12, DidStep

\* Both ways contents change.
LEMMA ContentsStep ==
    ASSUME AccessInv, NEW t \in Tasks, NEW here \in Places \ {"denied"}, NEW size \in Nat,
           request[t].at # "idle", ChangeContents(t, here, size), "write" \in request[t].had,
           Stage([request[t] EXCEPT !.at = here, !.did = @ \cup {"contents"}])
    PROVE  AccessInv'
<1> DEFINE p == request[t].path
           now == clock + 1
           item == [items[p] EXCEPT !.size = size, !.mtime = now, !.changed = now]
<1>1. items[p] \in Item
  BY BusyRequest
<1>2. now \in Times
  BY BoundsAssumption DEF ChangeContents, AccessInv, Times
<1>3. item \in Item
  <2> HIDE DEF now
  <2> QED BY <1>1, <1>2 DEF Item
<1>4. clock' \in Times /\ retimed' \subseteq DOMAIN items /\ Effect(t, here, {"contents"}, item)
  BY <1>2 DEF ChangeContents, AccessInv
<1> HIDE DEF item
<1> QED BY <1>3, <1>4, DidStep

LEMMA StorePutStep ==
    ASSUME AccessInv, NEW t \in Tasks, StorePut(t) PROVE AccessInv'
<1> DEFINE r == request[t]
           y == [r EXCEPT !.at = "done", !.did = @ \cup {"contents"}]
<1>1. r.at = "store" /\ r.at # "idle" /\ ChangeContents(t, "done", 1)
  BY DEF StorePut, At
<1>2. Core(r) /\ r \in Requests
  BY <1>1, BusyRequest
<1>3. r.ask.op = "put" /\ "write" \in r.had
  BY <1>1, <1>2 DEF Core, Stage
<1>4. "done" \in Places \ {"denied"}
  BY DEF Places
<1>5. y.at = "done" /\ y.ask = r.ask /\ y.had = r.had
  <2> HIDE DEF r
  <2> QED BY <1>2, <1>4 DEF Requests
<1>6. Stage(y)
  <2> HIDE DEF y, r
  <2> QED BY <1>3, <1>5 DEF Stage
<1> QED BY <1>1, <1>3, <1>4, <1>6, ContentsStep

LEMMA SetLenStep ==
    ASSUME AccessInv, NEW t \in Tasks, SetLen(t) PROVE AccessInv'
<1> DEFINE r == request[t]
           here == AfterSize(r.ask)
           y == [r EXCEPT !.at = here, !.did = @ \cup {"contents"}]
<1>1. r.at = "resize" /\ r.at # "idle"
  BY DEF SetLen, At
<1>2. Core(r) /\ r \in Requests
  BY <1>1, BusyRequest
<1>3. r.ask.op = "set" /\ r.ask \in Sets
  <2>1. r.ask.op = "set" /\ r.ask \in Accesses \cup Puts \cup Sets
    BY <1>1, <1>2 DEF Core, Stage, Requests
  <2> QED BY <2>1 DEF Accesses, Puts
<1>4. "write" \in r.had /\ r.ask.size # None /\ SetStage(r)
  BY <1>1, <1>2, <1>3 DEF Core, Stage, SetStage
<1>5. CASE items[r.path].dir
  <2> DEFINE z == [r EXCEPT !.at = "failed"]
  <2>1. Proceed(t, "failed") /\ "failed" \in Places
    BY <1>5 DEF SetLen, Places
  <2>2. z.at = "failed"
    BY <1>2, <2>1, MovedOn
  <2>3. Stage(z) /\ Denial(z)
    <3> HIDE DEF z
    <3> QED BY <2>2
        DEF Stage, AccessStage, SetStage, Denial, PastTime, PastSize, PastOwner, PastMode
  <2> QED BY <1>1, <2>1, <2>3, ProceedStep
<1>6. CASE ~items[r.path].dir
  <2>1. ChangeContents(t, here, r.ask.size) /\ r.ask.size \in Nat
    BY <1>3, <1>4, <1>6 DEF SetLen, Sets, Option
  <2>2. here \in {"may_time", "stat"} /\ (here = "may_time" => r.ask.mtime # None)
        /\ (here = "stat" => r.ask.mtime = None)
    BY DEF AfterSize
  <2>3. here \in Places \ {"denied"}
    <3> HIDE DEF here
    <3> QED BY <2>2 DEF Places
  <2>4. y.at = here /\ y.ask = r.ask /\ y.had = r.had
    <3> HIDE DEF r, here
    <3> QED BY <1>2, <2>3 DEF Requests
  <2>5. Stage(y)
    <3> HIDE DEF y, r, here
    <3> QED BY <1>1, <1>3, <1>4, <2>2, <2>4
        DEF Stage, AccessStage, SetStage, PastTime, PastSize, PastOwner, PastMode
  <2> HIDE DEF here
  <2> QED BY <1>1, <1>4, <2>1, <2>3, <2>5, ContentsStep
<1> QED BY <1>5, <1>6

LEMMA SetFileTimesStep ==
    ASSUME AccessInv, NEW t \in Tasks, SetFileTimes(t) PROVE AccessInv'
<1> DEFINE r == request[t]
           item == [items[r.path] EXCEPT !.atime = r.atime, !.mtime = r.mtime]
           part == IF r.ask.mtime = None THEN {} ELSE {"mtime"}
           y == [r EXCEPT !.at = "done", !.did = @ \cup part]
<1>1. r.at = "set_times" /\ r.at # "idle"
  BY DEF SetFileTimes, At
<1>2. Core(r) /\ r \in Requests /\ items[r.path] \in Item
  BY <1>1, BusyRequest
<1>3. r.ask.op = "set" /\ SetStage(r)
  BY <1>1, <1>2 DEF Core, Stage
<1>4. item \in Item
  BY <1>2 DEF Item, Requests
<1>5. part \in SUBSET {"mode", "uid", "gid", "contents", "mtime"}
      /\ part \cap {"mode", "uid", "gid"} = {} /\ "uid" \notin part /\ "gid" \notin part
      /\ (part # {} => r.ask.mtime # None)
  OBVIOUS
<1>6. part # {} => "write" \in r.had
  BY <1>1, <1>3, <1>5 DEF SetStage, PastTime
<1>7. "done" \in Places \ {"denied"}
  BY DEF Places
<1>8. y.at = "done" /\ y.ask = r.ask /\ y.had = r.had
  <2> HIDE DEF r, part
  <2> QED BY <1>2, <1>5, <1>7 DEF Requests
<1>9. Stage(y)
  <2> HIDE DEF y, r
  <2> QED BY <1>1, <1>3, <1>8
      DEF Stage, AccessStage, SetStage, PastTime, PastSize, PastOwner, PastMode
<1>10. Effect(t, "done", part, item) /\ clock' = clock
       /\ retimed' \in {retimed, retimed \cup {r.path}}
  BY DEF SetFileTimes
<1>11. clock' \in Times /\ retimed' \subseteq DOMAIN items
  BY <1>2, <1>10 DEF AccessInv, Requests
<1> HIDE DEF item, part
<1> QED BY <1>1, <1>4, <1>5, <1>6, <1>7, <1>9, <1>10, <1>11, DidStep

----------------------------------------------------------------------------
(* The invariant *)

LEMMA CommandingStep ==
    ASSUME AccessInv, NEW c \in Commands, Commanding(c) PROVE AccessInv'
<1>1. AccountsInv /\ UNCHANGED <<items, request, clock, retimed, instance>>
  BY DEF AccessInv, Commanding
<1>2. AccountsInv'
  <2>1. CASE RunCommand(c)
    BY <1>1, <2>1, RunCommandStep
  <2>2. CASE \E n \in Names, u \in Given, g \in Groups : StartCommand(c, n, u, g)
    BY <1>1, <2>2, StartStep, OptionsAssumption
  <2> QED BY <2>1, <2>2 DEF Commanding
<1> QED BY <1>1, <1>2 DEF AccessInv, Requests, Core, Stage, AccessStage, SetStage, Denial,
                          ChangeRightful, Seen

LEMMA AccessStutter ==
    ASSUME AccessInv, UNCHANGED vars PROVE AccessInv'
BY AccountsStutter DEF AccessInv, vars, Requests, Core, Stage, AccessStage, SetStage, Denial,
                       ChangeRightful, Seen

LEMMA AccessStart == Init => AccessInv
<1> SUFFICES ASSUME Init PROVE AccessInv
  OBVIOUS
<1>1. PICK i \in Instances :
        /\ instance = i /\ users = i.users /\ items = i.items
        /\ command = [c \in Commands |-> Waiting] /\ request = [t \in Tasks |-> Idle]
        /\ clock = 0 /\ retimed = {}
  BY DEF Init
<1>2. AccountsInv
  BY <1>1, InstancesAssumption, AccountsStart
<1>3. items \in [DOMAIN items -> Item] /\ DOMAIN items \subseteq Paths
  BY <1>1, InstancesAssumption
<1>4. clock \in Times
  BY <1>1, BoundsAssumption DEF Times
<1> QED BY <1>1, <1>2, <1>3, <1>4 DEF AccessInv

LEMMA AccessStep == AccessInv /\ [Next]_vars => AccessInv'
<1> SUFFICES ASSUME AccessInv, [Next]_vars PROVE AccessInv'
  OBVIOUS
<1>1. CASE \E c \in Commands : Commanding(c)
  BY <1>1, CommandingStep
<1>2. CASE \E t \in Tasks : Requesting(t)
  BY <1>2, RequestingStep
<1>3. CASE \E t \in Tasks : Serving(t)
  BY <1>3, AskBitsStep, ChecksStep, StorePutStep, SetPermissionsStep, ResolveStep, ChownStep,
     SetLenStep, StatStep, SetFileTimesStep, AnswerStep DEF Serving
<1>4. CASE UNCHANGED vars
  BY <1>4, AccessStutter
<1> QED BY <1>1, <1>2, <1>3, <1>4 DEF Next

LEMMA AccessAlways == Spec => []AccessInv
BY AccessStart, AccessStep, PTL DEF Spec

\* TypeOK: every request holds what its handler gives it, and the accounts are
\* a table with one account to a name.
THEOREM TypeCorrect == Spec => []TypeOK
<1>1. AccessInv => TypeOK
  BY DEF AccessInv, TypeOK, AccountsInv
<1> QED BY <1>1, AccessAlways, PTL

\* CommandsTellTrue: however any number of commands race on the table users,
\* what one was told it created is there, no two were told the same, and a
\* create is refused only for a cause.
THEOREM CommandsTellTheTruth == Spec => []CommandsTellTrue
<1>1. AccessInv => CommandsTellTrue
  BY AccountsTell DEF AccessInv
<1> QED BY <1>1, AccessAlways, PTL

\* Rightful: however any number of requests and commands interleave, whatever a
\* request changes and is answered was its user's right at some moment since it
\* was made.
THEOREM AlwaysRightful == Spec => []Rightful
<1>1. AccessInv => Rightful
  BY CoreIsRightful DEF AccessInv, Rightful, Busy
<1> QED BY <1>1, AccessAlways, PTL

----------------------------------------------------------------------------
(* The mtime of an item *)

\* What a request that is about to set the times back has read.
ReadRightly(r) ==
    r.at = "set_times" /\ r.ask.mtime = None =>
        /\ r.seen <= clock
        /\ r.seen = items[r.path].changed /\ r.path \notin retimed => r.mtime = r.seen

MtimeInv ==
    /\ \A p \in DOMAIN items : items[p].changed <= clock
    /\ MtimeTells
    /\ \A t \in Tasks : ReadRightly(request[t])

\* Steps that leave the items alone.
LEMMA MtimeStutter ==
    ASSUME MtimeInv, UNCHANGED <<items, clock, retimed>>,
           \A t \in Tasks : request'[t] = request[t] \/ ReadRightly(request'[t])
    PROVE  MtimeInv'
<1>1. \A t \in Tasks : ReadRightly(request'[t])
  BY DEF MtimeInv
<1>2. (\A t \in Tasks : ReadRightly(request[t]))'
  BY <1>1 DEF ReadRightly
<1> QED BY <1>2 DEF MtimeInv, MtimeTells

LEMMA MtimeProceed ==
    ASSUME MtimeInv, AccessInv, NEW t \in Tasks, NEW next, Step(t, next),
           next.at # "set_times" \/ ReadRightly(next)
    PROVE  MtimeInv'
<1>1. request' = [request EXCEPT ![t] = next] /\ UNCHANGED <<items, clock, retimed>>
  BY DEF Step
<1>2. \A s \in Tasks : request'[s] = request[s] \/ ReadRightly(request'[s])
  BY <1>1 DEF AccessInv, ReadRightly
<1> QED BY <1>1, <1>2, MtimeStutter

\* What an effect leaves to the requests.
LEMMA EffectFields ==
    ASSUME AccessInv, NEW t \in Tasks, request[t].at # "idle", NEW here \in Places \ {"set_times"},
           NEW part, NEW item, Effect(t, here, part, item)
    PROVE  /\ items' = [items EXCEPT ![request[t].path] = item] /\ request[t].path \in DOMAIN items
           /\ \A s \in Tasks : request'[s].at = "set_times" =>
                /\ request[s].at = "set_times" /\ request'[s].ask = request[s].ask
                /\ request'[s].path = request[s].path /\ request'[s].path \in DOMAIN items
                /\ request'[s].seen = request[s].seen /\ request'[s].mtime = request[s].mtime
                /\ request'[s].seen \in Times /\ request'[s].mtime \in Times
<1> DEFINE its == [items EXCEPT ![request[t].path] = item]
           moved == [request EXCEPT ![t].at = here, ![t].did = @ \cup part]
<1>1. /\ items' = its
      /\ request' = [s \in Tasks |-> IF request[s] = Idle THEN Idle ELSE Seeing(moved[s], its)]
  BY DEF Effect
<1>2. request[t].path \in DOMAIN items
  BY BusyRequest DEF Requests
<1>3. ASSUME NEW s \in Tasks, request'[s].at = "set_times"
      PROVE  /\ request[s].at = "set_times" /\ request'[s].ask = request[s].ask
             /\ request'[s].path = request[s].path /\ request'[s].path \in DOMAIN items
             /\ request'[s].seen = request[s].seen /\ request'[s].mtime = request[s].mtime
             /\ request'[s].seen \in Times /\ request'[s].mtime \in Times
  <2>1. request[s] # Idle /\ request'[s] = Seeing(moved[s], its)
    BY <1>1, <1>3 DEF Idle
  <2>2. request[s] \in Requests
    BY <2>1 DEF AccessInv
  <2>3. CASE s = t
    <3> DEFINE y == moved[s]
    <3>1. y.at = here /\ DOMAIN y = DOMAIN request[s]
      BY <2>2, <2>3 DEF AccessInv, Requests
    <3>2. Seeing(y, its).at = here
      <4> HIDE DEF y, its
      <4> QED BY <2>2, <3>1 DEF Seeing, Requests
    <3> QED BY <1>3, <2>1, <3>2
  <2>4. CASE s # t
    <3> DEFINE r == request[s]
    <3>1. moved[s] = r
      BY <2>4 DEF AccessInv
    <3>2. /\ Seeing(r, its).at = r.at /\ Seeing(r, its).ask = r.ask
          /\ Seeing(r, its).path = r.path /\ r.path \in DOMAIN items
          /\ Seeing(r, its).seen = r.seen /\ Seeing(r, its).mtime = r.mtime
          /\ r.seen \in Times /\ r.mtime \in Times
      <4> HIDE DEF its, r
      <4>1. r \in Requests
        BY <2>2 DEF r
      <4> QED BY <4>1 DEF Seeing, Requests
    <3> QED BY <1>3, <2>1, <3>1, <3>2
  <2> QED BY <2>3, <2>4
<1> QED BY <1>1, <1>2, <1>3

\* chmod and chown.
LEMMA MtimeKept ==
    ASSUME MtimeInv, AccessInv, NEW t \in Tasks, request[t].at # "idle",
           NEW here \in Places \ {"set_times"}, NEW part, NEW item \in Item,
           Effect(t, here, part, item), UNCHANGED <<clock, retimed>>,
           item.mtime = items[request[t].path].mtime, item.changed = items[request[t].path].changed
    PROVE  MtimeInv'
<1>1. /\ items' = [items EXCEPT ![request[t].path] = item] /\ request[t].path \in DOMAIN items
      /\ \A s \in Tasks : request'[s].at = "set_times" =>
           /\ request[s].at = "set_times" /\ request'[s].ask = request[s].ask
           /\ request'[s].path = request[s].path /\ request'[s].path \in DOMAIN items
           /\ request'[s].seen = request[s].seen /\ request'[s].mtime = request[s].mtime
  BY EffectFields
<1>2. /\ DOMAIN items' = DOMAIN items
      /\ \A p \in DOMAIN items : items'[p].mtime = items[p].mtime /\ items'[p].changed = items[p].changed
  BY <1>1
<1>3. (\A s \in Tasks : ReadRightly(request[s]))'
  BY <1>1, <1>2 DEF MtimeInv, ReadRightly
<1> QED BY <1>2, <1>3 DEF MtimeInv, MtimeTells

LEMMA MtimeContents ==
    ASSUME MtimeInv, AccessInv, NEW t \in Tasks, request[t].at # "idle",
           NEW here \in Places \ {"set_times"}, NEW size, ChangeContents(t, here, size)
    PROVE  MtimeInv'
<1> DEFINE q == request[t].path
           item == [items[q] EXCEPT !.size = size, !.mtime = clock + 1, !.changed = clock + 1]
<1>1. /\ items' = [items EXCEPT ![q] = item] /\ q \in DOMAIN items
      /\ \A s \in Tasks : request'[s].at = "set_times" =>
           /\ request[s].at = "set_times" /\ request'[s].ask = request[s].ask
           /\ request'[s].path = request[s].path /\ request'[s].path \in DOMAIN items
           /\ request'[s].seen = request[s].seen /\ request'[s].mtime = request[s].mtime
           /\ request'[s].seen \in Times
  BY EffectFields DEF ChangeContents
<1>2. clock' = clock + 1 /\ retimed' = retimed \ {q} /\ clock \in Nat
  BY BoundsAssumption DEF ChangeContents, AccessInv, Times
<1>3. item.mtime = clock + 1 /\ item.changed = clock + 1
  <2>1. items[q] \in Item
    BY BusyRequest
  <2> HIDE DEF q
  <2> QED BY <2>1 DEF Item
<1> HIDE DEF q, item
<1>4. /\ DOMAIN items' = DOMAIN items /\ items'[q].mtime = clock + 1 /\ items'[q].changed = clock + 1
      /\ \A p \in DOMAIN items \ {q} : items'[p] = items[p]
  BY <1>1, <1>3
<1>5. \A p \in DOMAIN items' : items'[p].changed <= clock'
  <2>1. \A p \in DOMAIN items : items[p].changed \in Nat /\ items[p].changed <= clock
    BY DEF MtimeInv, AccessInv, Item, Times
  <2> QED BY <1>2, <1>4, <2>1
<1>6. MtimeTells'
  BY <1>2, <1>4 DEF MtimeInv, MtimeTells
<1>7. ASSUME NEW s \in Tasks, request'[s].at = "set_times", request'[s].ask.mtime = None
      PROVE  /\ request'[s].seen <= clock'
             /\ request'[s].seen = items'[request'[s].path].changed /\ request'[s].path \notin retimed'
                  => request'[s].mtime = request'[s].seen
  <2>1. /\ request[s].seen \in Times /\ request[s].seen <= clock
        /\ request[s].seen = items[request[s].path].changed /\ request[s].path \notin retimed
             => request[s].mtime = request[s].seen
    BY <1>1, <1>7 DEF MtimeInv, ReadRightly
  <2>2. request[s].seen <= clock' /\ request[s].seen # clock + 1
    BY <1>2, <2>1 DEF Times
  <2> QED BY <1>1, <1>2, <1>4, <1>7, <2>1, <2>2
<1>8. (\A s \in Tasks : ReadRightly(request[s]))'
  BY <1>7 DEF ReadRightly
<1> QED BY <1>5, <1>6, <1>8 DEF MtimeInv

LEMMA MtimeStat ==
    ASSUME MtimeInv, AccessInv, NEW t \in Tasks, Stat(t) PROVE MtimeInv'
<1> DEFINE r == request[t]
           item == items[r.path]
           Asked(new, old) == IF new = None THEN old ELSE new
           y == [r EXCEPT !.at = "set_times", !.atime = Asked(r.ask.atime, item.atime),
                          !.mtime = Asked(r.ask.mtime, item.mtime), !.seen = item.changed]
<1>1. r.at = "stat" /\ r.at # "idle"
  BY DEF Stat, At
<1>2. r \in Requests /\ item \in Item /\ r.path \in DOMAIN items
  BY <1>1, BusyRequest DEF Requests
<1>3. CASE Proceed(t, "lost")
  <2>1. [r EXCEPT !.at = "lost"].at = "lost"
    BY <1>2, MovedOn DEF Places
  <2> QED BY <1>3, <2>1, MtimeProceed DEF Proceed
<1>4. CASE Step(t, y)
  <2>1. /\ y.path = r.path /\ y.ask = r.ask /\ y.seen = item.changed
        /\ y.mtime = Asked(r.ask.mtime, item.mtime)
    <3> HIDE DEF r, item, Asked
    <3> QED BY <1>2 DEF Requests
  <2>2. ReadRightly(y)
    <3> HIDE DEF y
    <3> QED BY <1>2, <2>1 DEF ReadRightly, MtimeInv, MtimeTells
  <2> HIDE DEF y
  <2> QED BY <1>4, <2>2, MtimeProceed
<1> QED BY <1>3, <1>4 DEF Stat

LEMMA MtimeSetTimes ==
    ASSUME MtimeInv, AccessInv, NEW t \in Tasks, SetFileTimes(t) PROVE MtimeInv'
<1> DEFINE r == request[t]
           q == r.path
           item == [items[q] EXCEPT !.atime = r.atime, !.mtime = r.mtime]
           part == IF r.ask.mtime = None THEN {} ELSE {"mtime"}
<1>1. r.at = "set_times" /\ r.at # "idle" /\ Effect(t, "done", part, item) /\ clock' = clock
      /\ retimed' = IF r.ask.mtime # None \/ r.seen # items[q].changed
                    THEN retimed \cup {q} ELSE retimed
  BY DEF SetFileTimes, At
<1>2. items[q] \in Item
  BY <1>1, BusyRequest
<1>3. item.mtime = r.mtime /\ item.changed = items[q].changed
  <2> HIDE DEF q
  <2> QED BY <1>2 DEF Item
<1>4. "done" \in Places \ {"set_times"}
  BY DEF Places
<1>5. r.ask.mtime = None /\ r.seen = items[q].changed /\ q \notin retimed => r.mtime = items[q].changed
  BY <1>1 DEF MtimeInv, ReadRightly
<1> HIDE DEF item, part
<1>6. /\ items' = [items EXCEPT ![q] = item] /\ q \in DOMAIN items
      /\ \A s \in Tasks : request'[s].at = "set_times" =>
           /\ request[s].at = "set_times" /\ request'[s].ask = request[s].ask
           /\ request'[s].path = request[s].path /\ request'[s].path \in DOMAIN items
           /\ request'[s].seen = request[s].seen /\ request'[s].mtime = request[s].mtime
  BY <1>1, <1>4, EffectFields
<1> HIDE DEF q
<1>7. /\ DOMAIN items' = DOMAIN items /\ items'[q].mtime = r.mtime
      /\ \A p \in DOMAIN items : items'[p].changed = items[p].changed
      /\ \A p \in DOMAIN items \ {q} : items'[p] = items[p]
  BY <1>3, <1>6
<1>8. retimed \subseteq retimed'
  BY <1>1
<1>9. MtimeTells'
  <2>1. q \notin retimed' => r.mtime = items[q].changed
    BY <1>1, <1>5
  <2> QED BY <1>6, <1>7, <1>8, <2>1 DEF MtimeInv, MtimeTells
<1>10. \A p \in DOMAIN items' : items'[p].changed <= clock'
  BY <1>1, <1>7 DEF MtimeInv
<1>11. (\A s \in Tasks : ReadRightly(request[s]))'
  BY <1>1, <1>6, <1>7, <1>8 DEF MtimeInv, ReadRightly
<1> QED BY <1>9, <1>10, <1>11 DEF MtimeInv

LEMMA MtimeChmod ==
    ASSUME MtimeInv, AccessInv, NEW t \in Tasks, SetPermissions(t) \/ Chown(t) PROVE MtimeInv'
<1> DEFINE r == request[t]
           old == items[r.path]
<1>1. r.at # "idle" /\ UNCHANGED <<clock, retimed>>
  BY DEF SetPermissions, Chown, At
<1>2. r \in Requests /\ old \in Item /\ Core(r)
  BY <1>1, BusyRequest
<1>3. r.ask.op = "set" => r.ask \in Sets
  BY <1>2 DEF Requests, Accesses, Puts
<1>4. CASE SetPermissions(t)
  <2> DEFINE item == [old EXCEPT !.mode = r.ask.mode]
             here == AfterMode(r.ask)
  <2>1. Effect(t, here, {"mode"}, item)
    BY <1>4 DEF SetPermissions
  <2>2. r.ask.mode \in Modes
    BY <1>2, <1>3, <1>4 DEF SetPermissions, At, Core, Stage, SetStage, Sets, Option
  <2>3. item \in Item /\ item.mtime = old.mtime /\ item.changed = old.changed
    <3> HIDE DEF old, r
    <3> QED BY <1>2, <2>2 DEF Item
  <2>4. here \in Places \ {"set_times"}
    BY DEF AfterMode, AfterOwner, AfterSize, Places
  <2> HIDE DEF item, here
  <2> QED BY <1>1, <2>1, <2>3, <2>4, MtimeKept
<1>5. CASE Chown(t)
  <2> DEFINE Or(new, was) == IF new = None THEN was ELSE new
             item == [old EXCEPT !.uid = Or(r.uid, @), !.gid = Or(r.gid, @)]
             here == AfterOwner(r.ask)
  <2>1. Effect(t, here, {id \in {"uid", "gid"} : r[id] # None}, item)
    BY <1>5 DEF Chown
  <2>2. Or(r.uid, old.uid) \in Uids /\ Or(r.gid, old.gid) \in Nat
    BY <1>2 DEF Requests, Item, Option
  <2>3. item \in Item /\ item.mtime = old.mtime /\ item.changed = old.changed
    <3> HIDE DEF old, r, Or
    <3> QED BY <1>2, <2>2 DEF Item
  <2>4. here \in Places \ {"set_times"}
    BY DEF AfterOwner, AfterSize, Places
  <2> HIDE DEF item, here
  <2> QED BY <1>1, <2>1, <2>3, <2>4, MtimeKept
<1> QED BY <1>4, <1>5

\* The steps that move one request on.
LEMMA MtimeProceeds ==
    ASSUME MtimeInv, AccessInv, NEW t \in Tasks, NEW here \in Places \ {"set_times"},
           request[t].at # "idle", Proceed(t, here)
    PROVE  MtimeInv'
<1>1. request[t] \in Requests
  BY BusyRequest
<1>2. [request[t] EXCEPT !.at = here].at = here
  BY <1>1, MovedOn
<1> QED BY <1>2, MtimeProceed DEF Proceed

LEMMA MtimeChecks ==
    ASSUME MtimeInv, AccessInv, NEW t \in Tasks,
           AskBits(t) \/ CheckPut(t) \/ MayMode(t) \/ MayOwn(t) \/ MayResize(t) \/ MayTime(t)
    PROVE  MtimeInv'
<1>1. PICK here \in {"write", "execute", "done", "store", "chmod", "resolve", "resize", "stat", "denied"} :
        request[t].at # "idle" /\ Proceed(t, here)
  BY DEF AskBits, AskBit, CheckPut, MayMode, MayOwn, MayResize, MayTime, Check, At
<1>2. here \in Places \ {"set_times"}
  BY DEF Places
<1> QED BY <1>1, <1>2, MtimeProceeds

LEMMA MtimeResolve ==
    ASSUME MtimeInv, AccessInv, NEW t \in Tasks, Resolve(t) PROVE MtimeInv'
<1> DEFINE r == request[t]
           item == items[r.path]
           next == [r EXCEPT !.uid = Target(r.ask.uid, item.uid), !.gid = Target(r.ask.gid, item.gid)]
           here == IF {next.uid, next.gid} = {None} THEN AfterOwner(r.ask) ELSE "chown"
<1>1. r.at # "idle" /\ (Proceed(t, "denied") \/ Step(t, [next EXCEPT !.at = here]))
  BY DEF Resolve, At
<1>2. CASE Proceed(t, "denied")
  <2>1. "denied" \in Places \ {"set_times"}
    BY DEF Places
  <2> QED BY <1>1, <1>2, <2>1, MtimeProceeds
<1>3. CASE Step(t, [next EXCEPT !.at = here])
  <2>1. here # "set_times"
    BY DEF AfterOwner, AfterSize
  <2>2. "at" \in DOMAIN next
    <3>1. r \in Requests
      BY <1>1, BusyRequest
    <3> QED BY <3>1 DEF Requests
  <2>3. [next EXCEPT !.at = here].at # "set_times"
    <3> HIDE DEF next, here
    <3> QED BY <2>1, <2>2
  <2> HIDE DEF next, here
  <2> QED BY <1>3, <2>3, MtimeProceed
<1> QED BY <1>1, <1>2, <1>3

LEMMA MtimeChanges ==
    ASSUME MtimeInv, AccessInv, NEW t \in Tasks, StorePut(t) \/ SetLen(t) PROVE MtimeInv'
<1>1. request[t].at # "idle"
  BY DEF StorePut, SetLen, At
<1>2. PICK here \in {"done", "may_time", "stat", "failed"} :
        Proceed(t, here) \/ \E size : ChangeContents(t, here, size)
  BY DEF StorePut, SetLen, AfterSize
<1>3. here \in Places \ {"set_times"}
  BY DEF Places
<1> QED BY <1>1, <1>2, <1>3, MtimeProceeds, MtimeContents

LEMMA MtimeAnswer ==
    ASSUME MtimeInv, AccessInv, NEW t \in Tasks, Answer(t) PROVE MtimeInv'
BY MtimeProceed DEF Answer, Idle

LEMMA MtimeRequesting ==
    ASSUME MtimeInv, AccessInv, NEW t \in Tasks, Requesting(t) PROVE MtimeInv'
<1>1. PICK u, ask, here :
        /\ Begin(t, Request(u, ask, here)) /\ here # "set_times"
  BY DEF Requesting, GetPermissions, WriteFile, SetAttributes, FirstPart, AfterMode, AfterOwner, AfterSize
<1> DEFINE y == Request(u, ask, here)
<1>2. y.at = here /\ "at" \in DOMAIN y
  BY DEF Request
<1>3. Seeing(y, items).at # "set_times"
  <2> HIDE DEF y
  <2> QED BY <1>1, <1>2 DEF Seeing
<1>4. Step(t, Seeing(y, items))
  BY <1>1 DEF Begin, Step
<1> HIDE DEF y
<1> QED BY <1>3, <1>4, MtimeProceed

LEMMA MtimeCommanding ==
    ASSUME MtimeInv, NEW c \in Commands, Commanding(c) PROVE MtimeInv'
BY MtimeStutter DEF Commanding

LEMMA MtimeStep == MtimeInv /\ AccessInv /\ [Next]_vars => MtimeInv'
<1> SUFFICES ASSUME MtimeInv, AccessInv, [Next]_vars PROVE MtimeInv'
  OBVIOUS
<1>1. CASE \E c \in Commands : Commanding(c)
  BY <1>1, MtimeCommanding
<1>2. CASE \E t \in Tasks : Requesting(t)
  BY <1>2, MtimeRequesting
<1>3. CASE \E t \in Tasks : Serving(t)
  BY <1>3, MtimeChecks, MtimeResolve, MtimeChmod, MtimeChanges, MtimeStat, MtimeSetTimes, MtimeAnswer
  DEF Serving
<1>4. CASE UNCHANGED vars
  BY <1>4, MtimeStutter DEF vars
<1> QED BY <1>1, <1>2, <1>3, <1>4 DEF Next

LEMMA MtimeStart == Init => MtimeInv
<1> SUFFICES ASSUME Init PROVE MtimeInv
  OBVIOUS
<1>1. PICK i \in Instances :
        items = i.items /\ request = [t \in Tasks |-> Idle] /\ clock = 0 /\ retimed = {}
  BY DEF Init
<1>2. \A p \in DOMAIN items : items[p].changed = 0 /\ items[p].mtime = 0
  BY <1>1, InstancesAssumption
<1>3. \A t \in Tasks : ReadRightly(request[t])
  BY <1>1 DEF ReadRightly, Idle
<1> QED BY <1>1, <1>2, <1>3 DEF MtimeInv, MtimeTells

\* MtimeTells: however many requests interleave, an mtime that was not set on
\* demand, and not set back to what a request had read before a change, is the
\* time of the last change of the contents.
THEOREM MtimeAlwaysTells == Spec => []MtimeTells
<1>1. MtimeInv => MtimeTells
  BY DEF MtimeInv
<1>2. Spec => []MtimeInv
  BY MtimeStart, MtimeStep, AccessAlways, PTL DEF Spec
<1> QED BY <1>1, <1>2, PTL
===============================================================================
