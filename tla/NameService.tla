----------------------------- MODULE NameService -----------------------------
(***************************************************************************)
(* What client/src/fs_model.rs promises of names to its callers: there is  *)
(* one tree, every call changes it in one step or not at all, and every    *)
(* answer is true of the tree at the moment it is given.  There is no      *)
(* cache, no request and no retry here; ClientFs implements it.            *)
(*                                                                         *)
(* The paths in excused are those of which nothing is promised.            *)
(***************************************************************************)
EXTENDS Names

CONSTANT
    NoAnswer    \* no call is being answered

VARIABLES tree, answer, excused

vars == <<tree, answer, excused>>

Init ==
    /\ Is(tree, Root, "dir")
    /\ answer = NoAnswer
    /\ excused \subseteq Paths

\* The identities of the items of a tree.
Ids(t) == {t[p].id : p \in {x \in Paths : t[x] # Absent}}

\* Whether a change can be done does not depend on the identity of the item it
\* makes, which is any number.
Fresh == 0

\* A call that gave up, for want of an answer or with an error of the server,
\* says nothing.  One that was refused says that it cannot be done, any other
\* one its result.
True(a) ==
    a.result # "failed" =>
      /\ a.op = "stat" => (IF a.result = "refused" THEN Absent ELSE a.value) = Stat(tree, a.path)
      /\ a.op = "readlink" => (IF a.result = "refused" THEN Absent ELSE a.value) = Target(tree, a.path)
      /\ a.op = "list" =>
           /\ (a.result = "done") = Is(tree, a.path, "dir")
           /\ a.result = "done" =>
                /\ DOMAIN a.value = DOMAIN List(tree, a.path)
                /\ \A c \in DOMAIN a.value \ excused : a.value[c] = tree[c]
      /\ a.op \in Mutations /\ a.result = "refused" => Trees(tree, a.op, a.path, a.to, Fresh) = {}

\* The answer has been taken.
Taken == UNCHANGED tree /\ answer' = NoAnswer /\ excused' \subseteq Paths

Reply ==
    /\ UNCHANGED tree
    /\ answer' \notin {answer, NoAnswer}
    /\ excused' \subseteq Paths
    /\ answer'.path \in excused \/ True(answer')

Change ==
    /\ UNCHANGED answer
    /\ tree' # tree
    /\ excused' \subseteq Paths
    /\ \E op \in Mutations, p, q \in Paths, id \in Ids(tree') :
         tree' \in Trees(tree, op, p, q, id) \cup HalfExchange(tree, p, q)

Excuse == UNCHANGED <<tree, answer>> /\ excused' \subseteq Paths

Next == Taken \/ Reply \/ Change \/ Excuse

Spec == Init /\ [][Next]_vars
============================================================================
