---------------------------- MODULE ClientFsProofs ----------------------------
(***************************************************************************)
(* Proofs about the names of files, for every set of paths, every tree,    *)
(* number of handlers and number of retries, whichever messages are lost   *)
(* and wherever the server fails: ClientFs is type correct, its reports    *)
(* are true, and it implements NameService.                                *)
(*                                                                         *)
(* Paths and trees come first: what lies above and below a path, what a    *)
(* move does to a path, and that every change leads from a tree to a tree. *)
(* Then StateOK, what the state is always like, preserved step by step,    *)
(* and SingleInv, what the cache and a call under way say of the tree as   *)
(* long as handlers have come one at a time.  The last part maps the steps *)
(* to steps of NameService.                                                *)
(***************************************************************************)
EXTENDS ClientFs, SequenceTheorems, TLAPS

LEMMA PathIsSeq ==
    ASSUME NEW p \in Paths
    PROVE  p \in Seq(Components) /\ Len(p) \in Nat /\ (Len(p) = 0 <=> p = Root)
<1>1. p \in Seq(Components)
  BY PathsAssumption
<1>2. Len(p) \in Nat
  BY <1>1, LenProperties
<1>3. Len(p) = 0 <=> p = Root
  BY <1>1, EmptySeq DEF Root
<1> QED BY <1>1, <1>2, <1>3

LEMMA Prefix ==
    ASSUME NEW p \in Paths, NEW n \in 0 .. Len(p)
    PROVE  /\ SubSeq(p, 1, n) \in Paths /\ Len(SubSeq(p, 1, n)) = n
           /\ \A i \in 1 .. n : SubSeq(p, 1, n)[i] = p[i]
<1>1. SubSeq(p, 1, n) \in Paths
  BY PathsAssumption
<1>2. p \in Seq(Components) /\ Len(p) \in Nat
  BY PathIsSeq
<1>3. \A i \in 1 .. n : p[i] \in Components
  BY <1>2, ElementOfSeq
<1> QED BY <1>1, <1>2, <1>3, SubSeqProperties

LEMMA SamePath ==
    ASSUME NEW p \in Paths, NEW q \in Paths, Len(p) = Len(q), \A i \in 1 .. Len(p) : p[i] = q[i]
    PROVE  p = q
BY PathIsSeq, SeqEqual

\* A path below another agrees with it as far as that goes.
LEMMA BelowIs ==
    ASSUME NEW p \in Paths, NEW x \in Paths
    PROVE  x \in Below[p] <=> Len(p) < Len(x) /\ \A i \in 1 .. Len(p) : x[i] = p[i]
<1>1. Len(x) \in Nat /\ Len(p) \in Nat
  BY PathIsSeq
<1>2. ASSUME Len(p) < Len(x) PROVE SubSeq(x, 1, Len(p)) = p <=> \A i \in 1 .. Len(p) : x[i] = p[i]
  <2>1. Len(p) \in 0 .. Len(x)
    BY <1>1, <1>2
  <2>2. /\ SubSeq(x, 1, Len(p)) \in Paths /\ Len(SubSeq(x, 1, Len(p))) = Len(p)
        /\ \A i \in 1 .. Len(p) : SubSeq(x, 1, Len(p))[i] = x[i]
    BY <2>1, Prefix
  <2> QED BY <2>2, SamePath
<1>3. x \in Below[p] <=> Len(x) > Len(p) /\ SubSeq(x, 1, Len(p)) = p
  BY DEF Below
<1> QED BY <1>1, <1>2, <1>3

LEMMA BelowOrder ==
    ASSUME NEW p \in Paths
    PROVE  /\ p \notin Below[p] /\ Below[p] \subseteq Paths
           /\ Above[p] = {x \in Paths : p \in Below[x]}
           /\ \A x \in Below[p] : p \notin Below[x]
           /\ \A x \in Below[p] : Below[x] \subseteq Below[p]
           /\ \A x, y \in Above[p] : x = y \/ x \in Below[y] \/ y \in Below[x]
<1>1. Below[p] \subseteq Paths /\ Above[p] = {x \in Paths : p \in Below[x]}
  BY DEF Below, Above
<1>2. \A x \in Paths : Below[x] \subseteq Paths
  BY DEF Below
<1>3. p \notin Below[p]
  BY BelowIs, PathIsSeq
<1>4. ASSUME NEW x \in Below[p] PROVE p \notin Below[x] /\ Below[x] \subseteq Below[p]
  <2>1. x \in Paths
    BY <1>1
  <2>2. Len(p) \in Nat /\ Len(x) \in Nat /\ Len(p) < Len(x) /\ \A i \in 1 .. Len(p) : x[i] = p[i]
    BY <2>1, <1>4, BelowIs, PathIsSeq
  <2>3. p \notin Below[x]
    BY <2>1, <2>2, BelowIs
  <2>4. ASSUME NEW y \in Below[x] PROVE y \in Below[p]
    <3>1. y \in Paths /\ Len(y) \in Nat
      BY <1>2, <2>1, <2>4, PathIsSeq
    <3>2. Len(x) < Len(y) /\ \A i \in 1 .. Len(x) : y[i] = x[i]
      BY <2>1, <2>4, <3>1, BelowIs
    <3> QED BY <2>2, <3>1, <3>2, BelowIs
  <2> QED BY <2>3, <2>4
<1>5. ASSUME NEW x \in Above[p], NEW y \in Above[p] PROVE x = y \/ x \in Below[y] \/ y \in Below[x]
  <2>1. x \in Paths /\ y \in Paths /\ Len(x) \in Nat /\ Len(y) \in Nat /\ Len(p) \in Nat
    BY <1>1, PathIsSeq
  <2>2. /\ Len(x) < Len(p) /\ Len(y) < Len(p)
        /\ \A i \in 1 .. Len(x) : p[i] = x[i]
        /\ \A i \in 1 .. Len(y) : p[i] = y[i]
    BY <1>1, <2>1, BelowIs
  <2>3. CASE Len(x) = Len(y)
    BY <2>1, <2>2, <2>3, SamePath
  <2>4. CASE Len(x) < Len(y)
    <3>1. \A i \in 1 .. Len(x) : y[i] = x[i]
      BY <2>1, <2>2, <2>4
    <3> QED BY <2>1, <2>4, <3>1, BelowIs
  <2>5. CASE Len(y) < Len(x)
    <3>1. \A i \in 1 .. Len(y) : x[i] = y[i]
      BY <2>1, <2>2, <2>5
    <3> QED BY <2>1, <2>5, <3>1, BelowIs
  <2> QED BY <2>1, <2>3, <2>4, <2>5
<1> QED BY <1>1, <1>3, <1>4, <1>5

LEMMA UpIs ==
    ASSUME NEW p \in Paths
    PROVE  /\ Up[p] \in Paths /\ (p = Root => Up[p] = Root)
           /\ p # Root => /\ Len(Up[p]) = Len(p) - 1 /\ p \in Below[Up[p]]
                          /\ \A i \in 1 .. Len(p) - 1 : Up[p][i] = p[i]
           /\ p # Root => p # Up[p]
<1>1. Len(p) \in Nat /\ (Len(p) = 0 <=> p = Root) /\ Root \in Paths
  BY PathIsSeq, PathsAssumption
<1>2. CASE p = Root
  BY <1>1, <1>2 DEF Up
<1>3. CASE p # Root
  <2>1. Up[p] = SubSeq(p, 1, Len(p) - 1) /\ Len(p) - 1 \in 0 .. Len(p)
    BY <1>1, <1>3 DEF Up
  <2>2. /\ Up[p] \in Paths /\ Len(Up[p]) = Len(p) - 1
        /\ \A i \in 1 .. Len(p) - 1 : Up[p][i] = p[i]
    BY <2>1, Prefix
  <2>3. p \in Below[Up[p]]
    BY <1>1, <2>2, BelowIs
  <2> QED BY <1>1, <1>3, <2>2, <2>3
<1> QED BY <1>2, <1>3

\* What is below p is in p or in a directory below it.
LEMMA BelowUp ==
    ASSUME NEW p \in Paths, NEW x \in Paths
    PROVE  x \in Below[p] <=> x # Root /\ (Up[x] = p \/ Up[x] \in Below[p])
<1>1. /\ Len(x) \in Nat /\ Len(p) \in Nat /\ (Len(x) = 0 <=> x = Root)
      /\ Up[x] \in Paths /\ Len(Up[x]) \in Nat
  BY PathIsSeq, UpIs
<1>2. ASSUME x \in Below[p] PROVE x # Root /\ (Up[x] = p \/ Up[x] \in Below[p])
  <2>1. x # Root /\ Len(p) < Len(x) /\ \A i \in 1 .. Len(p) : x[i] = p[i]
    BY <1>1, <1>2, BelowIs
  <2>2. Len(Up[x]) = Len(x) - 1 /\ \A i \in 1 .. Len(x) - 1 : Up[x][i] = x[i]
    BY <2>1, UpIs
  <2>3. \A i \in 1 .. Len(p) : Up[x][i] = p[i]
    BY <1>1, <2>1, <2>2
  <2>4. CASE Len(p) = Len(x) - 1
    BY <1>1, <2>1, <2>2, <2>3, <2>4, SamePath
  <2>5. CASE Len(p) < Len(x) - 1
    BY <1>1, <2>1, <2>2, <2>3, <2>5, BelowIs
  <2> QED BY <1>1, <2>1, <2>4, <2>5
<1>3. ASSUME x # Root, Up[x] = p \/ Up[x] \in Below[p] PROVE x \in Below[p]
  <2>1. x \in Below[Up[x]]
    BY <1>3, UpIs
  <2> QED BY <1>1, <1>3, <2>1, BelowOrder
<1> QED BY <1>2, <1>3

LEMMA ChildrenAre ==
    ASSUME NEW p \in Paths
    PROVE  Children[p] = {x \in Paths : x # Root /\ Up[x] = p}
<1> SUFFICES ASSUME NEW x \in Paths
             PROVE  x \in Below[p] /\ Len(x) = Len(p) + 1 <=> x # Root /\ Up[x] = p
  <2>1. Children[p] = {x \in Below[p] : Len(x) = Len(p) + 1} /\ Below[p] \subseteq Paths
    BY BelowOrder DEF Children
  <2> QED BY <2>1
<1>1. /\ Len(x) \in Nat /\ Len(p) \in Nat
      /\ Up[x] \in Paths /\ Len(Up[x]) \in Nat
  BY PathIsSeq, UpIs
<1>2. x # Root => Len(Up[x]) = Len(x) - 1
  BY UpIs
<1>3. Up[x] \in Below[p] => Len(Up[x]) > Len(p)
  BY <1>1, BelowIs
<1> QED BY <1>1, <1>2, <1>3, BelowUp

\* The child of p on the way to what is below it.
LEMMA ChildTowards ==
    ASSUME NEW p \in Paths, NEW x \in Below[p]
    PROVE  \E c \in Children[p] : x = c \/ x \in Below[c]
<1>1. x \in Paths /\ Len(x) \in Nat /\ Len(p) \in Nat
  BY BelowOrder, PathIsSeq
<1>2. Len(p) < Len(x) /\ \A i \in 1 .. Len(p) : x[i] = p[i]
  BY <1>1, BelowIs
<1> DEFINE n == Len(p) + 1
           c == SubSeq(x, 1, n)
<1>3. n \in 0 .. Len(x) /\ n \in Nat
  BY <1>1, <1>2
<1>4. c \in Paths /\ Len(c) = n /\ \A i \in 1 .. n : c[i] = x[i]
  BY <1>1, <1>3, Prefix
<1> HIDE DEF c
<1>5. \A i \in 1 .. Len(p) : c[i] = p[i]
  BY <1>1, <1>2, <1>4
<1>6. c \in Below[p]
  BY <1>1, <1>4, <1>5, BelowIs
<1>7. c \in Children[p]
  BY <1>4, <1>6 DEF Children
<1>8. CASE Len(x) = n
  <2>1. x = c
    BY <1>1, <1>4, <1>8, SamePath
  <2> QED BY <1>7, <2>1
<1>9. CASE n < Len(x)
  <2>1. x \in Below[c]
    BY <1>1, <1>4, <1>9, BelowIs
  <2> QED BY <1>7, <2>1
<1> QED BY <1>1, <1>2, <1>8, <1>9

\* What is below p, and p, with their places below q.
LEMMA RebaseIs ==
    ASSUME NEW p \in Paths, NEW q \in Paths, NEW x \in Paths, x = p \/ x \in Below[p]
    PROVE  /\ Rebase(x, p, q) \in Seq(Components)
           /\ Len(Rebase(x, p, q)) = Len(q) + Len(x) - Len(p)
           /\ \A i \in 1 .. Len(q) : Rebase(x, p, q)[i] = q[i]
           /\ \A i \in Len(q) + 1 .. Len(q) + Len(x) - Len(p) :
                Rebase(x, p, q)[i] = x[i - Len(q) + Len(p)]
<1>1. /\ Len(x) \in Nat /\ Len(p) \in Nat /\ Len(q) \in Nat /\ Len(p) <= Len(x)
      /\ x \in Seq(Components) /\ q \in Seq(Components)
  BY BelowIs, PathIsSeq
<1> DEFINE m == Len(p) + 1
           n == Len(x)
           r == SubSeq(x, m, n)
<1>2. m \in Int /\ n \in Int /\ \A i \in m .. n : x[i] \in Components
  BY <1>1, ElementOfSeq
<1>3. /\ r \in Seq(Components)
      /\ Len(r) = (IF m <= n THEN n - m + 1 ELSE 0)
      /\ \A i \in 1 .. n - m + 1 : r[i] = x[m + i - 1]
  <2> HIDE DEF m, n
  <2> QED BY <1>2, SubSeqProperties
<1>4. Len(r) = n - Len(p) /\ \A i \in 1 .. Len(r) : r[i] = x[Len(p) + i]
  BY <1>1, <1>3
<1> HIDE DEF r
<1>5. /\ q \o r \in Seq(Components)
      /\ Len(q \o r) = Len(q) + Len(r)
      /\ \A i \in 1 .. Len(q) + Len(r) : (q \o r)[i] = IF i <= Len(q) THEN q[i] ELSE r[i - Len(q)]
  BY <1>1, <1>3, ConcatProperties
<1>6. Rebase(x, p, q) = q \o r
  BY DEF Rebase, Rest, r
<1> QED BY <1>1, <1>4, <1>5, <1>6

LEMMA RebaseBack ==
    ASSUME NEW p \in Paths, NEW q \in Paths, NEW x \in Paths, x = p \/ x \in Below[p],
           Rebase(x, p, q) \in Paths
    PROVE  /\ x = p <=> Rebase(x, p, q) = q
           /\ x \in Below[p] => Rebase(x, p, q) \in Below[q]
           /\ Rebase(Rebase(x, p, q), q, p) = x
<1> DEFINE y == Rebase(x, p, q)
<1>1. /\ Len(x) \in Nat /\ Len(p) \in Nat /\ Len(q) \in Nat /\ Len(y) \in Nat
      /\ x \in Seq(Components) /\ q \in Seq(Components)
  BY PathIsSeq
<1>2. Len(p) <= Len(x) /\ (Len(p) = Len(x) => x = p) /\ (x = p => Len(x) = Len(p))
      /\ \A i \in 1 .. Len(p) : x[i] = p[i]
  BY <1>1, BelowIs
<1>3. /\ Len(y) = Len(q) + Len(x) - Len(p)
      /\ \A i \in 1 .. Len(q) : y[i] = q[i]
      /\ \A i \in Len(q) + 1 .. Len(q) + Len(x) - Len(p) : y[i] = x[i - Len(q) + Len(p)]
  BY RebaseIs
<1> HIDE DEF y
<1>4. y \in Paths
  BY DEF y
<1>5. x = p => y = q
  BY <1>1, <1>2, <1>3, <1>4, SamePath
<1>6. x \in Below[p] => y \in Below[q]
  <2> SUFFICES ASSUME x \in Below[p] PROVE y \in Below[q]
    OBVIOUS
  <2>1. Len(p) < Len(x)
    BY BelowIs
  <2> QED BY <1>1, <1>3, <1>4, <2>1, BelowIs
<1>7. y = q => x = p
  BY <1>1, <1>2, <1>3
<1>8. y = q \/ y \in Below[q]
  BY <1>5, <1>6
<1> DEFINE z == Rebase(y, q, p)
<1>9. /\ z \in Seq(Components) /\ Len(z) = Len(p) + Len(y) - Len(q)
      /\ \A i \in 1 .. Len(p) : z[i] = p[i]
      /\ \A i \in Len(p) + 1 .. Len(p) + Len(y) - Len(q) : z[i] = y[i - Len(p) + Len(q)]
  BY <1>4, <1>8, RebaseIs
<1> HIDE DEF z
<1>10. Len(z) = Len(x)
  BY <1>1, <1>3, <1>9
<1>11. ASSUME NEW i \in 1 .. Len(x) PROVE z[i] = x[i]
  <2>1. CASE i \in 1 .. Len(p)
    BY <1>2, <1>9, <2>1
  <2>2. CASE i \in Len(p) + 1 .. Len(x)
    <3> DEFINE j == i - Len(p) + Len(q)
    <3>1. i \in Len(p) + 1 .. Len(p) + Len(y) - Len(q) /\ j \in Len(q) + 1 .. Len(q) + Len(x) - Len(p)
          /\ j - Len(q) + Len(p) = i
      BY <1>1, <1>3, <2>2
    <3>2. z[i] = y[j] /\ y[j] = x[j - Len(q) + Len(p)]
      <4> HIDE DEF j
      <4>1. z[i] = y[i - Len(p) + Len(q)]
        BY <1>9, <3>1
      <4> QED BY <1>3, <3>1, <4>1 DEF j
    <3> QED BY <3>1, <3>2
  <2> QED BY <1>1, <1>11, <2>1, <2>2
<1>12. z = x
  BY <1>1, <1>9, <1>10, <1>11, SeqEqual
<1> QED BY <1>5, <1>6, <1>7, <1>12 DEF y, z

\* Directories move along with what is in them.
LEMMA RebaseUp ==
    ASSUME NEW p \in Paths, NEW q \in Paths, NEW x \in Below[p], Rebase(x, p, q) \in Paths
    PROVE  Rebase(Up[x], p, q) \in Paths /\ Rebase(Up[x], p, q) = Up[Rebase(x, p, q)]
           /\ (Up[x] = p \/ Up[x] \in Below[p])
<1> DEFINE y == Rebase(x, p, q)
           u == Up[x]
           z == Rebase(u, p, q)
<1>1. x \in Paths /\ x # Root /\ u \in Paths /\ (u = p \/ u \in Below[p])
  BY BelowOrder, BelowUp, UpIs
<1>2. /\ Len(x) \in Nat /\ Len(p) \in Nat /\ Len(q) \in Nat /\ Len(y) \in Nat /\ Len(u) \in Nat
      /\ Len(u) = Len(x) - 1 /\ \A i \in 1 .. Len(x) - 1 : u[i] = x[i]
  BY <1>1, PathIsSeq, UpIs
<1>3. Len(p) < Len(x)
  BY <1>1, BelowIs
<1>4. /\ Len(y) = Len(q) + Len(x) - Len(p)
      /\ \A i \in 1 .. Len(q) : y[i] = q[i]
      /\ \A i \in Len(q) + 1 .. Len(q) + Len(x) - Len(p) : y[i] = x[i - Len(q) + Len(p)]
  BY <1>1, RebaseIs
<1>5. /\ z \in Seq(Components) /\ Len(z) = Len(q) + Len(u) - Len(p)
      /\ \A i \in 1 .. Len(q) : z[i] = q[i]
      /\ \A i \in Len(q) + 1 .. Len(q) + Len(u) - Len(p) : z[i] = u[i - Len(q) + Len(p)]
  <2> HIDE DEF u
  <2> QED BY <1>1, RebaseIs
<1>6. y # Root /\ y \in Paths
  BY <1>2, <1>3, <1>4, PathIsSeq
<1>7. Up[y] \in Seq(Components) /\ Len(Up[y]) = Len(y) - 1 /\ \A i \in 1 .. Len(y) - 1 : Up[y][i] = y[i]
  BY <1>6, UpIs, PathIsSeq
<1> HIDE DEF y, u, z
<1>8. Len(z) = Len(Up[y])
  BY <1>2, <1>4, <1>5, <1>7
<1>9. ASSUME NEW i \in 1 .. Len(z) PROVE z[i] = Up[y][i]
  <2>1. i \in 1 .. Len(y) - 1 /\ i \in 1 .. Len(q) + Len(u) - Len(p)
    BY <1>5, <1>7, <1>8, <1>9
  <2>2. Up[y][i] = y[i]
    BY <1>7, <2>1
  <2>3. CASE i \in 1 .. Len(q)
    BY <1>4, <1>5, <2>2, <2>3
  <2>4. CASE i \in Len(q) + 1 .. Len(q) + Len(u) - Len(p)
    <3> DEFINE j == i - Len(q) + Len(p)
    <3>1. j \in 1 .. Len(x) - 1 /\ i \in Len(q) + 1 .. Len(q) + Len(x) - Len(p)
      BY <1>2, <2>4
    <3> HIDE DEF j
    <3>2. z[i] = u[j] /\ u[j] = x[j] /\ y[i] = x[j]
      BY <1>2, <1>4, <1>5, <2>4, <3>1 DEF j
    <3> QED BY <2>2, <3>2
  <2> QED BY <1>2, <2>1, <2>3, <2>4
<1>10. z = Up[y]
  BY <1>5, <1>7, <1>8, <1>9, SeqEqual
<1>11. z \in Paths
  BY <1>6, <1>10, UpIs
<1> QED BY <1>1, <1>10, <1>11 DEF y, u, z

LEMMA RebaseSelf ==
    ASSUME NEW p \in Paths, NEW x \in Paths, x = p \/ x \in Below[p] PROVE Rebase(x, p, p) = x
<1>1. /\ Len(x) \in Nat /\ Len(p) \in Nat /\ Len(p) <= Len(x) /\ x \in Seq(Components)
      /\ \A i \in 1 .. Len(p) : x[i] = p[i]
  BY BelowIs, PathIsSeq
<1> DEFINE y == Rebase(x, p, p)
<1>2. /\ y \in Seq(Components) /\ Len(y) = Len(p) + Len(x) - Len(p)
      /\ \A i \in 1 .. Len(p) : y[i] = p[i]
      /\ \A i \in Len(p) + 1 .. Len(p) + Len(x) - Len(p) : y[i] = x[i - Len(p) + Len(p)]
  BY RebaseIs
<1> HIDE DEF y
<1>3. Len(y) = Len(x) /\ \A i \in 1 .. Len(x) : y[i] = x[i]
  BY <1>1, <1>2
<1>4. y = x
  BY <1>1, <1>2, <1>3, SeqEqual
<1> QED BY <1>4 DEF y

\* What is above something below p, below p itself, moves along.
LEMMA RebaseAbove ==
    ASSUME NEW p \in Paths, NEW q \in Paths, NEW x \in Paths, NEW a \in Paths,
           x \in Below[a], a = p \/ a \in Below[p], Rebase(x, p, q) \in Paths
    PROVE  Rebase(a, p, q) \in Paths /\ Rebase(x, p, q) \in Below[Rebase(a, p, q)]
<1> DEFINE y == Rebase(x, p, q)
           z == Rebase(a, p, q)
           b == SubSeq(y, 1, Len(z))
<1>1. x \in Below[p] /\ y \in Paths
  BY BelowOrder
<1>2. /\ Len(x) \in Nat /\ Len(p) \in Nat /\ Len(q) \in Nat /\ Len(y) \in Nat /\ Len(a) \in Nat
      /\ Len(a) < Len(x) /\ \A i \in 1 .. Len(a) : x[i] = a[i]
  BY PathIsSeq, BelowIs
<1>3. Len(p) <= Len(a)
  BY <1>2, BelowIs
<1>4. /\ Len(y) = Len(q) + Len(x) - Len(p)
      /\ \A i \in 1 .. Len(q) : y[i] = q[i]
      /\ \A i \in Len(q) + 1 .. Len(q) + Len(x) - Len(p) : y[i] = x[i - Len(q) + Len(p)]
  BY <1>1, RebaseIs
<1>5. /\ z \in Seq(Components) /\ Len(z) = Len(q) + Len(a) - Len(p)
      /\ \A i \in 1 .. Len(q) : z[i] = q[i]
      /\ \A i \in Len(q) + 1 .. Len(q) + Len(a) - Len(p) : z[i] = a[i - Len(q) + Len(p)]
  BY RebaseIs
<1> HIDE DEF y, z
<1>6. Len(z) \in 0 .. Len(y) /\ Len(z) < Len(y)
  BY <1>2, <1>3, <1>4, <1>5
<1>7. b \in Paths /\ Len(b) = Len(z) /\ \A i \in 1 .. Len(z) : b[i] = y[i]
  BY <1>1, <1>6, Prefix
<1> HIDE DEF b
<1>8. ASSUME NEW i \in 1 .. Len(z) PROVE z[i] = y[i]
  <2>1. CASE i \in 1 .. Len(q)
    BY <1>4, <1>5, <2>1
  <2>2. CASE i \in Len(q) + 1 .. Len(q) + Len(a) - Len(p)
    <3> DEFINE j == i - Len(q) + Len(p)
    <3>1. j \in 1 .. Len(a) /\ i \in Len(q) + 1 .. Len(q) + Len(x) - Len(p)
      BY <1>2, <1>3, <2>2
    <3> HIDE DEF j
    <3>2. z[i] = a[j] /\ x[j] = a[j] /\ y[i] = x[j]
      BY <1>2, <1>4, <1>5, <2>2, <3>1 DEF j
    <3> QED BY <3>2
  <2> QED BY <1>2, <1>5, <1>8, <2>1, <2>2
<1>9. b = z
  BY <1>5, <1>7, <1>8, SeqEqual, PathIsSeq
<1>10. z \in Paths /\ y \in Below[z]
  BY <1>1, <1>6, <1>7, <1>8, <1>9, BelowIs
<1> QED BY <1>10 DEF y, z

----------------------------------------------------------------------------
(* Trees *)

Items == [kind : Kinds, id : Nat]

TreeOK(t) ==
    /\ t \in [Paths -> Items \cup {Absent}]
    /\ Is(t, Root, "dir")
    /\ \A p \in Paths : t[p] # Absent => \A a \in Above[p] : Is(t, a, "dir")

LEMMA ItemIs ==
    ASSUME NEW kind \in Kinds, NEW id \in Nat
    PROVE  Item(kind, id) \in Items /\ Item(kind, id) # Absent
           /\ Item(kind, id).kind = kind /\ Item(kind, id).id = id
BY AbsentAssumption DEF Item, Items

LEMMA AboveIs ==
    ASSUME NEW p \in Paths
    PROVE  /\ Above[p] = {a \in Paths : p \in Below[a]} /\ Below[p] = {x \in Paths : p \in Above[x]}
           /\ Above[p] = (IF p = Root THEN {} ELSE {Up[p]} \cup Above[Up[p]])
<1>1. Above[p] = {a \in Paths : p \in Below[a]} /\ Below[p] = {x \in Paths : p \in Above[x]}
  BY BelowOrder
<1>2. Up[p] \in Paths /\ Above[Up[p]] = {a \in Paths : Up[p] \in Below[a]}
  BY UpIs, BelowOrder
<1>3. \A a \in Paths : p \in Below[a] <=> p # Root /\ (Up[p] = a \/ Up[p] \in Below[a])
  BY BelowUp
<1> QED BY <1>1, <1>2, <1>3

LEMMA InDir ==
    ASSUME NEW t, TreeOK(t), NEW p \in Paths, t[p] # Absent PROVE Is(t, Up[p], "dir")
<1>1. CASE p = Root
  BY <1>1, UpIs DEF TreeOK
<1>2. CASE p # Root
  BY <1>2, AboveIs DEF TreeOK
<1> QED BY <1>1, <1>2

LEMMA ListIs ==
    ASSUME NEW t, NEW p \in Paths
    PROVE  /\ DOMAIN List(t, p) = {c \in Children[p] : t[c] # Absent}
           /\ \A c \in DOMAIN List(t, p) : List(t, p)[c] = t[c]
BY DEF List

\* There is nothing below a file, a link, an empty directory and no item at all.
LEMMA NothingBelow ==
    ASSUME NEW t, TreeOK(t), NEW p \in Paths, ~Is(t, p, "dir") \/ DOMAIN List(t, p) = {}
    PROVE  \A x \in Below[p] : t[x] = Absent
<1> SUFFICES ASSUME NEW x \in Below[p], t[x] # Absent PROVE FALSE
  OBVIOUS
<1>1. x \in Paths /\ p \in Above[x]
  BY BelowOrder
<1>2. Is(t, p, "dir")
  BY <1>1 DEF TreeOK
<1>3. PICK c \in Children[p] : x = c \/ x \in Below[c]
  BY ChildTowards
<1>4. c \in Paths
  BY ChildrenAre
<1>5. t[c] # Absent
  <2>1. CASE x = c
    BY <2>1
  <2>2. CASE x \in Below[c]
    <3>1. Is(t, c, "dir")
      BY <1>1, <1>4, <2>2, BelowOrder DEF TreeOK
    <3> QED BY <3>1 DEF Is
  <2> QED BY <1>3, <2>1, <2>2
<1>6. c \in DOMAIN List(t, p)
  BY <1>3, <1>5, ListIs
<1> QED BY <1>2, <1>6

LEMMA PutIs ==
    ASSUME NEW t \in [Paths -> Items \cup {Absent}], NEW p \in Paths, NEW item
    PROVE  /\ item \in Items \cup {Absent} => Put(t, p, item) \in [Paths -> Items \cup {Absent}]
           /\ Put(t, p, item)[p] = item /\ \A x \in Paths \ {p} : Put(t, p, item)[x] = t[x]
BY DEF Put

LEMMA PutTree ==
    ASSUME NEW t, TreeOK(t), NEW p \in Paths, Free(t, p), NEW kind \in Kinds, NEW id \in Nat
    PROVE  TreeOK(Put(t, p, Item(kind, id)))
<1> DEFINE u == Put(t, p, Item(kind, id))
<1>1. /\ u \in [Paths -> Items \cup {Absent}] /\ u[p] = Item(kind, id)
      /\ \A x \in Paths \ {p} : u[x] = t[x]
  BY ItemIs, PutIs DEF TreeOK
<1> HIDE DEF u
<1>2. p # Root /\ t[p] = Absent /\ Is(t, Up[p], "dir")
  BY DEF Free
<1>3. Is(u, Root, "dir")
  BY <1>1, <1>2, PathsAssumption DEF TreeOK, Is
<1>4. ASSUME NEW x \in Paths, u[x] # Absent, NEW a \in Above[x] PROVE Is(u, a, "dir")
  <2>1. a \in Paths /\ x \in Below[a]
    BY <1>4, BelowOrder
  <2>2. Is(t, a, "dir")
    <3>1. CASE x = p
      <4>1. a = Up[p] \/ a \in Above[Up[p]]
        BY <1>2, <1>4, <3>1, AboveIs
      <4> QED BY <1>2, <4>1, UpIs DEF TreeOK, Is
    <3>2. CASE x # p
      BY <1>1, <1>4, <3>2 DEF TreeOK
    <3> QED BY <3>1, <3>2
  <2>3. a # p
    BY <1>2, <2>2 DEF Is
  <2> QED BY <1>1, <2>1, <2>2, <2>3 DEF Is
<1>5. TreeOK(u)
  BY <1>1, <1>3, <1>4 DEF TreeOK
<1> QED BY <1>5 DEF u

LEMMA TakeTree ==
    ASSUME NEW t, TreeOK(t), NEW p \in Paths, p # Root, \A x \in Below[p] : t[x] = Absent
    PROVE  TreeOK(Put(t, p, Absent))
<1> DEFINE u == Put(t, p, Absent)
<1>1. u \in [Paths -> Items \cup {Absent}] /\ u[p] = Absent /\ \A x \in Paths \ {p} : u[x] = t[x]
  BY PutIs DEF TreeOK
<1> HIDE DEF u
<1>2. Is(u, Root, "dir")
  BY <1>1, PathsAssumption DEF TreeOK, Is
<1>3. ASSUME NEW x \in Paths, u[x] # Absent, NEW a \in Above[x] PROVE Is(u, a, "dir")
  <2>1. a \in Paths /\ x \in Below[a] /\ x # p /\ t[x] # Absent
    BY <1>1, <1>3, BelowOrder
  <2>2. a # p /\ Is(t, a, "dir")
    BY <1>3, <2>1 DEF TreeOK
  <2> QED BY <1>1, <2>1, <2>2 DEF Is
<1>4. TreeOK(u)
  BY <1>1, <1>2, <1>3 DEF TreeOK
<1> QED BY <1>4 DEF u

LEMMA GoneTree ==
    ASSUME NEW t, TreeOK(t), NEW p \in Paths, p # Root PROVE TreeOK(Gone(t, p))
<1> DEFINE u == Gone(t, p)
<1>1. /\ u \in [Paths -> Items \cup {Absent}]
      /\ \A x \in Paths : u[x] = IF x = p \/ x \in Below[p] THEN Absent ELSE t[x]
  BY DEF Gone, TreeOK
<1> HIDE DEF u
<1>2. Root \in Paths /\ Root \notin Below[p]
  BY PathsAssumption, BelowUp
<1>3. Is(u, Root, "dir")
  BY <1>1, <1>2 DEF TreeOK, Is
<1>4. ASSUME NEW x \in Paths, u[x] # Absent, NEW a \in Above[x] PROVE Is(u, a, "dir")
  <2>1. a \in Paths /\ x \in Below[a] /\ x # p /\ x \notin Below[p] /\ t[x] # Absent
    BY <1>1, <1>4, BelowOrder
  <2>2. a # p /\ a \notin Below[p]
    BY <2>1, BelowOrder
  <2>3. Is(t, a, "dir")
    BY <1>4, <2>1 DEF TreeOK
  <2> QED BY <1>1, <2>1, <2>2, <2>3 DEF Is
<1>5. TreeOK(u)
  BY <1>1, <1>3, <1>4 DEF TreeOK
<1> QED BY <1>5 DEF u

\* What lies at x when the items at and below p have moved to q.
LEMMA MovedIs ==
    ASSUME NEW t, TreeOK(t), NEW p \in Paths, NEW q \in Paths
    PROVE  /\ Moved(t, p, q) \in [Paths -> Items \cup {Absent}]
           /\ Moved(t, p, q)[q] = t[p]
           /\ \A x \in Below[q] : Rebase(x, q, p) \in Paths => Moved(t, p, q)[x] = t[Rebase(x, q, p)]
           /\ \A x \in Below[q] : Rebase(x, q, p) \notin Paths => Moved(t, p, q)[x] = Absent
           /\ \A x \in Paths : x # q /\ x \notin Below[q] =>
                Moved(t, p, q)[x] = IF x = p \/ x \in Below[p] THEN Absent ELSE t[x]
<1> DEFINE u == Moved(t, p, q)
<1>1. u = [x \in Paths |->
        IF x = q \/ x \in Below[q]
        THEN IF Rebase(x, q, p) \in Paths THEN t[Rebase(x, q, p)] ELSE Absent
        ELSE IF x = p \/ x \in Below[p] THEN Absent ELSE t[x]]
  BY DEF Moved
<1> HIDE DEF u
<1>2. q \in Seq(Components) /\ p \in Seq(Components) /\ Below[q] \subseteq Paths
  BY PathIsSeq, BelowOrder
<1>3. Rebase(q, q, p) = p
  <2>1. Len(q) + 1 \in Int /\ Len(q) \in Int /\ Len(q) < Len(q) + 1
    BY PathIsSeq
  <2>2. Rest(q, q) = << >>
    BY <2>1, SubSeqEmpty DEF Rest
  <2> QED BY <1>2, <2>2, ConcatEmptySeq DEF Rebase
<1>4. u \in [Paths -> Items \cup {Absent}]
  BY <1>1 DEF TreeOK
<1>5. u[q] = t[p]
  BY <1>1, <1>3
<1> QED BY <1>1, <1>2, <1>4, <1>5 DEF u

\* What arrives below q has its directories with it.
LEMMA Arrives ==
    ASSUME NEW t, TreeOK(t), NEW p \in Paths, NEW q \in Paths,
           NEW u \in [Paths -> Items \cup {Absent}], u[q] = t[p],
           \A x \in Below[q] : Rebase(x, q, p) \in Paths => u[x] = t[Rebase(x, q, p)],
           \A x \in Below[q] : Rebase(x, q, p) \notin Paths => u[x] = Absent,
           \A a \in Above[q] : Is(u, a, "dir"),
           NEW x \in Paths, x = q \/ x \in Below[q], u[x] # Absent, NEW a \in Above[x]
    PROVE  Is(u, a, "dir")
<1>1. a \in Paths /\ x \in Below[a]
  BY BelowOrder
<1>2. CASE x = q
  BY <1>2
<1>3. CASE x \in Below[q] /\ (a = q \/ a \in Below[q])
  <2>1. Rebase(x, q, p) \in Paths /\ t[Rebase(x, q, p)] # Absent
    BY <1>3
  <2>2. Rebase(a, q, p) \in Paths /\ Rebase(x, q, p) \in Below[Rebase(a, q, p)]
    BY <1>1, <1>3, <2>1, RebaseAbove
  <2>3. Is(t, Rebase(a, q, p), "dir")
    BY <2>1, <2>2, BelowOrder DEF TreeOK
  <2>4. u[a] = t[Rebase(a, q, p)]
    <3>1. CASE a = q
      BY <1>1, <2>2, <3>1, RebaseBack
    <3>2. CASE a \in Below[q]
      BY <2>2, <3>2
    <3> QED BY <1>3, <3>1, <3>2
  <2> QED BY <2>3, <2>4 DEF Is
<1>4. CASE x \in Below[q] /\ a # q /\ a \notin Below[q]
  <2>1. q \in Above[x]
    BY <1>4, BelowOrder
  <2>2. q \in Below[a]
    BY <1>4, <2>1, BelowOrder
  <2>3. a \in Above[q]
    BY <1>1, <2>2, BelowOrder
  <2> QED BY <2>3
<1> QED BY <1>2, <1>3, <1>4

LEMMA MoveTree ==
    ASSUME NEW t, TreeOK(t), NEW p \in Paths, NEW q \in Paths, p # q, CanMove(t, p, q)
    PROVE  TreeOK(Moved(t, p, q)) /\ Moved(t, p, q)[p] = Absent
<1> DEFINE u == Moved(t, p, q)
<1>1. /\ u \in [Paths -> Items \cup {Absent}] /\ u[q] = t[p]
      /\ \A x \in Below[q] : Rebase(x, q, p) \in Paths => u[x] = t[Rebase(x, q, p)]
      /\ \A x \in Below[q] : Rebase(x, q, p) \notin Paths => u[x] = Absent
      /\ \A x \in Paths : x # q /\ x \notin Below[q] =>
            u[x] = IF x = p \/ x \in Below[p] THEN Absent ELSE t[x]
  BY MovedIs
<1> HIDE DEF u
<1>2. /\ p # Root /\ q # Root /\ t[p] # Absent /\ Is(t, Up[q], "dir") /\ q \notin Below[p]
      /\ \/ t[q] = Absent
         \/ Is(t, p, "dir") /\ Is(t, q, "dir") /\ DOMAIN List(t, q) = {}
         \/ ~Is(t, p, "dir") /\ ~Is(t, q, "dir")
  BY DEF CanMove
<1>3. p \notin Below[q]
  BY <1>2, NothingBelow DEF Is
<1>4. u[p] = Absent
  BY <1>1, <1>3
<1>5. Root \in Paths /\ \A x \in Paths : Root \notin Below[x]
  BY PathsAssumption, BelowUp
<1>6. Is(u, Root, "dir")
  BY <1>1, <1>2, <1>5 DEF Is, TreeOK
<1>7. \A a \in Above[q] : Is(u, a, "dir")
  <2> SUFFICES ASSUME NEW a \in Above[q] PROVE Is(u, a, "dir")
    OBVIOUS
  <2>1. a \in Paths /\ q \in Below[a]
    BY BelowOrder
  <2>2. a # q /\ a \notin Below[q] /\ a # p /\ a \notin Below[p]
    BY <1>2, <2>1, BelowOrder
  <2>3. a = Up[q] \/ a \in Above[Up[q]]
    BY <1>2, AboveIs
  <2>4. Is(t, a, "dir")
    BY <1>2, <2>3, UpIs DEF TreeOK, Is
  <2> QED BY <1>1, <2>1, <2>2, <2>4 DEF Is
<1>8. ASSUME NEW x \in Paths, u[x] # Absent, NEW a \in Above[x] PROVE Is(u, a, "dir")
  <2>1. CASE x = q \/ x \in Below[q]
    BY <1>1, <1>7, <1>8, <2>1, Arrives
  <2>2. CASE x # q /\ x \notin Below[q]
    <3>1. x # p /\ x \notin Below[p] /\ t[x] # Absent
      BY <1>1, <1>8, <2>2
    <3>2. a \in Paths /\ x \in Below[a]
      BY <1>8, BelowOrder
    <3>3. a # q /\ a \notin Below[q] /\ a # p /\ a \notin Below[p]
      BY <2>2, <3>1, <3>2, BelowOrder
    <3>4. Is(t, a, "dir")
      BY <1>8, <3>1 DEF TreeOK
    <3> QED BY <1>1, <3>2, <3>3, <3>4 DEF Is
  <2> QED BY <2>1, <2>2
<1>9. TreeOK(u)
  BY <1>1, <1>6, <1>8 DEF TreeOK
<1> QED BY <1>4, <1>9 DEF u

LEMMA ExchangeTree ==
    ASSUME NEW t, TreeOK(t), NEW p \in Paths, NEW q \in Paths, CanExchange(t, p, q),
           NEW u \in Exchange(t, p, q)
    PROVE  /\ TreeOK(u)
           /\ \A x \in Paths \ ({p, q} \cup Below[p] \cup Below[q]) : u[x] = t[x]
<1>1. /\ p # Root /\ q # Root /\ p # q /\ t[p] # Absent /\ t[q] # Absent
      /\ p \notin Below[q] /\ q \notin Below[p]
  BY DEF CanExchange
<1>2. u = [x \in Paths |->
             IF x = p \/ x \in Below[p] THEN Moved(t, q, p)[x] ELSE Moved(t, p, q)[x]]
  BY DEF Exchange
<1>3. ASSUME NEW x \in Paths, x = p \/ x \in Below[p] PROVE x # q /\ x \notin Below[q]
  <2>1. CASE x = p
    BY <1>1, <2>1
  <2>2. CASE x \in Below[p]
    <3>1. x # q
      BY <1>1, <2>2
    <3>2. ASSUME x \in Below[q] PROVE FALSE
      <4>1. p \in Above[x] /\ q \in Above[x]
        BY <2>2, <3>2, BelowOrder
      <4> QED BY <1>1, <4>1, BelowOrder
    <3> QED BY <3>1, <3>2
  <2> QED BY <1>3, <2>1, <2>2
<1>4. \A x \in Below[p] : x \in Paths
  BY BelowOrder
<1>5. \A x \in Below[q] : x \in Paths
  BY BelowOrder
<1>6. /\ u \in [Paths -> Items \cup {Absent}]
      /\ u[p] = t[q] /\ u[q] = t[p]
  BY <1>1, <1>2, <1>3, MovedIs
<1>7. /\ \A x \in Below[p] : Rebase(x, p, q) \in Paths => u[x] = t[Rebase(x, p, q)]
      /\ \A x \in Below[p] : Rebase(x, p, q) \notin Paths => u[x] = Absent
  BY <1>2, <1>4, MovedIs
<1>8. /\ \A x \in Below[q] : Rebase(x, q, p) \in Paths => u[x] = t[Rebase(x, q, p)]
      /\ \A x \in Below[q] : Rebase(x, q, p) \notin Paths => u[x] = Absent
  BY <1>2, <1>3, <1>5, MovedIs
<1>9. \A x \in Paths \ ({p, q} \cup Below[p] \cup Below[q]) : u[x] = t[x]
  BY <1>2, MovedIs
<1>10. Root \in Paths /\ \A x \in Paths : Root \notin Below[x]
  BY PathsAssumption, BelowUp
<1>11. Is(u, Root, "dir")
  BY <1>1, <1>9, <1>10 DEF Is, TreeOK
<1>12. ASSUME NEW r \in {p, q} PROVE \A a \in Above[r] : Is(u, a, "dir")
  <2> SUFFICES ASSUME NEW a \in Above[r] PROVE Is(u, a, "dir")
    OBVIOUS
  <2>1. a \in Paths /\ r \in Below[a]
    BY BelowOrder
  <2>2. a # q /\ a \notin Below[q] /\ a # p /\ a \notin Below[p]
    BY <1>1, <2>1, BelowOrder
  <2>3. Is(t, a, "dir")
    BY <1>1 DEF TreeOK
  <2> QED BY <1>9, <2>1, <2>2, <2>3 DEF Is
<1>13. ASSUME NEW x \in Paths, u[x] # Absent, NEW a \in Above[x] PROVE Is(u, a, "dir")
  <2>1. CASE x = q \/ x \in Below[q]
    BY <1>6, <1>8, <1>12, <1>13, <2>1, Arrives
  <2>2. CASE x = p \/ x \in Below[p]
    BY <1>6, <1>7, <1>12, <1>13, <2>2, Arrives
  <2>3. CASE x # q /\ x \notin Below[q] /\ x # p /\ x \notin Below[p]
    <3>1. t[x] # Absent
      BY <1>9, <1>13, <2>3
    <3>2. a \in Paths /\ x \in Below[a]
      BY <1>13, BelowOrder
    <3>3. a # q /\ a \notin Below[q] /\ a # p /\ a \notin Below[p]
      BY <2>3, <3>2, BelowOrder
    <3>4. Is(t, a, "dir")
      BY <1>13, <3>1 DEF TreeOK
    <3> QED BY <1>9, <3>2, <3>3, <3>4 DEF Is
  <2> QED BY <2>1, <2>2, <2>3
<1> QED BY <1>6, <1>9, <1>11, <1>13 DEF TreeOK

\* The paths a change can change.
Touched(op, p, q) ==
    CASE op \in {"mkdir", "symlink", "create", "remove"} -> {p}
      [] op \in {"rename", "noreplace"} /\ p = q -> {}
      [] op \in {"rename", "noreplace"} /\ p # q -> {p, q} \cup Below[p] \cup Below[q]
      [] op = "exchange" -> {p, q} \cup Below[p] \cup Below[q]

\* A change leads to a tree, and leaves the other paths alone.
LEMMA TreesOK ==
    ASSUME NEW t, TreeOK(t), NEW op \in Mutations, NEW p \in Paths, NEW q \in Paths, NEW id \in Nat,
           NEW u, u \in Trees(t, op, p, q, id) \/ (op = "exchange" /\ u \in HalfExchange(t, p, q))
    PROVE  TreeOK(u) /\ \A x \in Paths \ Touched(op, p, q) : u[x] = t[x]
<1>1. t \in [Paths -> Items \cup {Absent}] /\ Is(t, Root, "dir")
  BY DEF TreeOK
<1>2. ASSUME NEW kind \in Kinds, Free(t, p), u = Put(t, p, Item(kind, id)), op \notin {"rename", "noreplace"}
      PROVE  TreeOK(u) /\ \A x \in Paths \ Touched(op, p, q) : u[x] = t[x]
  <2>1. p \in Touched(op, p, q)
    BY <1>2 DEF Touched, Mutations
  <2> QED BY <1>1, <1>2, <2>1, PutTree, PutIs
<1>3. CASE op = "mkdir"
  <2>1. Free(t, p) /\ u = Put(t, p, Item("dir", id))
    BY <1>3 DEF Trees, MakeDir, Mutations
  <2> QED BY <1>2, <1>3, <2>1 DEF Kinds
<1>4. CASE op = "symlink"
  <2>1. Free(t, p) /\ u = Put(t, p, Item("link", id))
    BY <1>4 DEF Trees, MakeLink, Mutations
  <2> QED BY <1>2, <1>4, <2>1 DEF Kinds
<1>5. CASE op = "create"
  <2>1. u = t \/ (Free(t, p) /\ u = Put(t, p, Item("file", id)))
    BY <1>5 DEF Trees, Touch, Mutations
  <2> QED BY <1>2, <1>5, <2>1 DEF Kinds
<1>6. CASE op = "remove"
  <2>1. p # Root /\ DOMAIN List(t, p) = {} /\ u = Put(t, p, Absent)
    BY <1>6 DEF Trees, Delete, Mutations
  <2>2. TreeOK(u)
    BY <2>1, NothingBelow, TakeTree
  <2>3. p \in Touched(op, p, q)
    BY <1>6 DEF Touched
  <2>4. \A x \in Paths \ {p} : u[x] = t[x]
    BY <1>1, <2>1, PutIs
  <2> QED BY <2>2, <2>3, <2>4
<1>7. CASE op \in {"rename", "noreplace"}
  <2>1. u \in Move(t, p, q)
    BY <1>7 DEF Trees, MoveNoReplace, Mutations
  <2>2. CASE p = q /\ t[p] # Absent
    BY <2>1, <2>2 DEF Move
  <2>3. CASE CanMove(t, p, q) /\ u = Moved(t, p, q) /\ p # q
    <3>1. TreeOK(u)
      BY <2>3, MoveTree
    <3>2. Touched(op, p, q) = {p, q} \cup Below[p] \cup Below[q]
      BY <1>7, <2>3 DEF Touched
    <3> QED BY <2>3, <3>1, <3>2, MovedIs
  <2> QED BY <2>1, <2>2, <2>3 DEF Move, CanMove
<1>8. CASE op = "exchange"
  <2>1. Touched(op, p, q) = {p, q} \cup Below[p] \cup Below[q]
    BY <1>8 DEF Touched
  <2>2. CASE u \in HalfExchange(t, p, q)
    <3>1. p # Root /\ u = Gone(t, p)
      BY <2>2 DEF HalfExchange
    <3>2. TreeOK(u)
      BY <3>1, GoneTree
    <3> QED BY <2>1, <3>1, <3>2 DEF Gone
  <2>3. CASE u \in Exchange(t, p, q)
    <3>1. CanExchange(t, p, q)
      BY <2>3 DEF Exchange
    <3> QED BY <2>1, <2>3, <3>1, ExchangeTree
  <2>4. u \in Exchange(t, p, q) \/ u \in HalfExchange(t, p, q)
    BY <1>8 DEF Trees, Mutations
  <2> QED BY <2>2, <2>3, <2>4
<1> QED BY <1>3, <1>4, <1>5, <1>6, <1>7, <1>8 DEF Mutations

Looking == {"stat", "list", "readlink"}
Results == {"none", "done", "refused", "error", "failed"}
Places == {"look", "attrs", "ask", "send", "reply", "store", "answer"}

\* The fields of a call.
IsRecord(c) ==
    c \in [at : Places, op : Mutations \cup Looking, path : Paths, to : Paths,
           then : {"reply", "open", "missing"}, todo : Seq(Paths), after : {"answer", "store"},
           own : Nat \cup {NoInfo}, result : Results, value : {c.value},
           tries : 0 .. Retries, effects : Nat, lost : Nat]

\* A request that is being sent has been carried out at most once for every
\* answer that did not say so; one that was answered, once more.
Counted(c) ==
    /\ c.at \in {"send", "reply", "answer"}
    /\ c.at = "send" => c.effects <= c.lost
    /\ c.effects <= c.lost + 1 /\ c.lost <= c.tries + 1 /\ c.effects <= c.tries + 1
    /\ c.at # "answer" => c.lost <= c.tries
    /\ c.at # "send" /\ c.result = "done" => c.effects > 0
    /\ c.at = "reply" => c.result \in {"done", "refused", "error"}
    /\ (c.at = "reply" /\ c.result = "refused") \/ (c.at = "answer" /\ c.result # "done") =>
         c.effects = 0 \/ c.lost > 0 \/ c.op = "exchange"

\* A directory that was found, with the items in it.
Elems(v) == DOMAIN v \subseteq Paths /\ \A x \in DOMAIN v : v[x] \in Items

\* A call that only looks.
Looks(c) ==
    /\ c.at \in {"attrs", "ask"} => c.todo # << >>
    /\ c.at = "reply" => c.result = "done"
    /\ c.at = "answer" => c.result \in {"done", "refused", "failed"}
    /\ c.op = "stat" => c.at \in {"attrs", "ask", "answer"} /\ c.after = "answer"
    /\ c.op = "readlink" => /\ c.at \in {"look", "send", "reply", "answer"} /\ c.after = "answer"
                            /\ c.at = "reply" => c.value \in Nat
    /\ c.op = "list" => /\ c.at \in {"look", "send", "reply"} => c.after = "answer"
                        /\ c.at \in {"attrs", "ask", "reply", "store"} => Elems(c.value)

CallOK(c) ==
    /\ IsRecord(c)
    /\ c.op \in Mutations => Counted(c)
    /\ c.op \in Looking => Looks(c)

TaskOK(x) ==
    \/ x = Idle
    \/ x.at = "told" /\ x = [at |-> "told", item |-> x.item, call |-> x.call]
       /\ x.item \in Items /\ CallOK(x.call) /\ x.call.op \in Looking /\ x.call.at = "ask"
    \/ x.at \in Places /\ CallOK(x)

TasksOK == task = [t \in Tasks |-> task[t]] /\ \A t \in Tasks : TaskOK(task[t])

LEMMA Disjoint == Looking \cap Mutations = {}
BY DEF Looking, Mutations

\* The call c goes on as x.
Becomes(x, c, at, todo, after, own, result, value, tries, effects, lost) ==
    x \in [at : {at}, op : {c.op}, path : {c.path}, to : {c.to}, then : {c.then}, todo : {todo},
           after : {after}, own : {own}, result : {result}, value : {value}, tries : {tries},
           effects : {effects}, lost : {lost}]

Moves(x, c, at, todo, after, own, result, value) ==
    Becomes(x, c, at, todo, after, own, result, value, c.tries, c.effects, c.lost)

Turns(x, c, at) == Moves(x, c, at, c.todo, c.after, c.own, c.result, c.value)

Only(t) == task' = [task EXCEPT ![t] = task'[t]]

LEMMA BecomesOK ==
    ASSUME NEW c, IsRecord(c), NEW x, NEW at \in Places, NEW todo \in Seq(Paths),
           NEW after \in {"answer", "store"}, NEW own \in Nat \cup {NoInfo}, NEW result \in Results,
           NEW value, NEW tries \in 0 .. Retries, NEW effects \in Nat, NEW lost \in Nat,
           Becomes(x, c, at, todo, after, own, result, value, tries, effects, lost)
    PROVE  IsRecord(x)
BY DEF IsRecord, Becomes

LEMMA BecomesIs ==
    ASSUME NEW c, NEW x, NEW at, NEW todo, NEW after, NEW own, NEW result, NEW value,
           NEW tries, NEW effects, NEW lost,
           Becomes(x, c, at, todo, after, own, result, value, tries, effects, lost)
    PROVE  /\ x.at = at /\ x.op = c.op /\ x.path = c.path /\ x.to = c.to /\ x.then = c.then
           /\ x.todo = todo /\ x.after = after /\ x.own = own /\ x.result = result /\ x.value = value
           /\ x.tries = tries /\ x.effects = effects /\ x.lost = lost
BY DEF Becomes

LEMMA MovesIs ==
    ASSUME NEW c, NEW x, NEW at, NEW todo, NEW after, NEW own, NEW result, NEW value,
           Moves(x, c, at, todo, after, own, result, value)
    PROVE  /\ x.at = at /\ x.op = c.op /\ x.path = c.path /\ x.to = c.to /\ x.then = c.then
           /\ x.todo = todo /\ x.after = after /\ x.own = own /\ x.result = result /\ x.value = value
           /\ x.tries = c.tries /\ x.effects = c.effects /\ x.lost = c.lost
BY BecomesIs DEF Moves

\* A call that only looks, as it goes on.
LEMMA MovesOK ==
    ASSUME NEW c, IsRecord(c), NEW x, NEW at \in Places, NEW todo \in Seq(Paths),
           NEW after \in {"answer", "store"}, NEW own \in Nat \cup {NoInfo}, NEW result \in Results, NEW value,
           Moves(x, c, at, todo, after, own, result, value)
    PROVE  IsRecord(x)
<1>1. c.tries \in 0 .. Retries /\ c.effects \in Nat /\ c.lost \in Nat
  BY DEF IsRecord
<1> QED BY <1>1, BecomesOK DEF Moves

LEMMA OneTask ==
    ASSUME TasksOK, NEW t \in Tasks, Only(t), TaskOK(task'[t]) PROVE TasksOK'
BY DEF TasksOK, Only

LEMMA GotoOnly ==
    ASSUME TasksOK, NEW t \in Tasks, NEW x, Goto(t, x) PROVE Only(t) /\ task'[t] = x
BY DEF TasksOK, Goto, Only

LEMMA NoTask == TasksOK /\ UNCHANGED task => TasksOK'
BY DEF TasksOK

\* A call at work.
LEMMA CallAt ==
    ASSUME TasksOK, NEW t \in Tasks, task[t].at \notin {"idle", "told"}
    PROVE  CallOK(task[t]) /\ IsRecord(task[t])
BY DEF TasksOK, TaskOK, Idle, CallOK

\* A call that only looks.
LEMMA LookingAt ==
    ASSUME TasksOK, NEW t \in Tasks, task[t].at \in {"look", "attrs", "ask", "store"}
    PROVE  IsRecord(task[t]) /\ task[t].op \in Looking /\ Looks(task[t]) /\ CallOK(task[t])
<1>1. CallOK(task[t])
  BY CallAt
<1> QED BY <1>1 DEF CallOK, Counted, IsRecord

LEMMA LookingOK ==
    ASSUME NEW x, IsRecord(x), x.op \in Looking, Looks(x) PROVE TaskOK(x) /\ CallOK(x)
BY Disjoint DEF TaskOK, CallOK, IsRecord

\* One field or two of a call change.
LEMMA AtOnly ==
    ASSUME NEW c, IsRecord(c), NEW at PROVE Turns([c EXCEPT !.at = at], c, at)
BY DEF IsRecord, Turns, Moves, Becomes

LEMMA SetIs ==
    ASSUME NEW c, IsRecord(c), NEW at, NEW result
    PROVE  Moves(Set(c, at, result), c, at, c.todo, c.after, c.own, result, c.value)
BY DEF IsRecord, Moves, Becomes, Set

LEMMA FindIs ==
    ASSUME NEW c, IsRecord(c), NEW at, NEW value
    PROVE  Moves(Find(c, at, value), c, at, c.todo, c.after, c.own, "done", value)
<1> DEFINE d == Set(c, at, "done")
<1>1. Moves(d, c, at, c.todo, c.after, c.own, "done", c.value)
  BY SetIs
<1> HIDE DEF d
<1>2. Find(c, at, value) = [d EXCEPT !.value = value]
  BY DEF Find, d
<1> QED BY <1>1, <1>2 DEF Moves, Becomes

LEMMA GotIs ==
    ASSUME NEW c, IsRecord(c), NEW item
    PROVE  Moves(Got(c, item), c, IF Len(c.todo) > 1 THEN "attrs" ELSE c.after, Tail(c.todo), c.after,
                 IF c.after = "store" THEN item.id ELSE c.own, "done", IF c.op = "stat" THEN item ELSE c.value)
<1> DEFINE at == IF Len(c.todo) > 1 THEN "attrs" ELSE c.after
           value == IF c.op = "stat" THEN item ELSE c.value
           own == IF c.after = "store" THEN item.id ELSE c.own
           todo == Tail(c.todo)
<1>2. Got(c, item) = [c EXCEPT !.todo = todo, !.at = at, !.result = "done", !.value = value, !.own = own]
  BY DEF Got, IsRecord
<1> HIDE DEF at, value, own, todo
<1>3. Moves(Got(c, item), c, at, todo, c.after, own, "done", value)
  BY <1>2 DEF IsRecord, Moves, Becomes
<1> QED BY <1>3 DEF at, value, own, todo

----------------------------------------------------------------------------
(* What a step does to its call *)

LEMMA LookListIs ==
    ASSUME TasksOK, NEW t \in Tasks, LookList(t)
    PROVE  LET c == task[t]
               p == c.path
           IN  /\ IsRecord(c) /\ Looks(c) /\ c.at = "look" /\ c.op = "list" /\ Only(t)
               /\ UNCHANGED <<tree, cache, handles, changes, track>>
               /\ ListKnown(p) => Moves(task'[t], c, "attrs", Dots(p), c.after, c.own, "done",
                                        [x \in cache[p].more |-> CachedItem(x)])
               /\ ~ListKnown(p) => Turns(task'[t], c, "send")
<1> DEFINE c == task[t]
           value == [x \in cache[c.path].more |-> CachedItem(x)]
           d == Find(c, "attrs", value)
           dots == Dots(c.path)
           x == IF ListKnown(c.path) THEN [d EXCEPT !.todo = dots] ELSE [c EXCEPT !.at = "send"]
<1>1. c.at = "look" /\ c.op = "list" /\ Goto(t, x) /\ UNCHANGED <<tree, cache, handles, changes, track>>
  BY DEF LookList, At
<1>2. IsRecord(c) /\ Looks(c)
  BY <1>1, LookingAt
<1>3. Only(t) /\ task'[t] = x
  BY <1>1, GotoOnly
<1> HIDE DEF c, value
<1>4. Moves(d, c, "attrs", c.todo, c.after, c.own, "done", value)
  BY <1>2, FindIs
<1> HIDE DEF d, dots
<1>5. Moves([d EXCEPT !.todo = dots], c, "attrs", dots, c.after, c.own, "done", value)
  BY <1>4 DEF Moves, Becomes
<1>6. Turns([c EXCEPT !.at = "send"], c, "send")
  BY <1>2, AtOnly
<1> QED BY <1>1, <1>2, <1>3, <1>5, <1>6 DEF c, dots, value

LEMMA LookLinkIs ==
    ASSUME TasksOK, NEW t \in Tasks, LookLink(t)
    PROVE  LET c == task[t]
               e == cache[c.path]
           IN  /\ IsRecord(c) /\ Looks(c) /\ c.at = "look" /\ c.op = "readlink" /\ Only(t)
               /\ UNCHANGED <<tree, cache, handles, changes, track>>
               /\ \/ /\ e # NoEntry /\ e.kind = "link" /\ e.more # NoInfo
                     /\ Moves(task'[t], c, "answer", c.todo, c.after, c.own, "done", e.more)
                  \/ Turns(task'[t], c, "send")
<1> DEFINE c == task[t]
           e == cache[c.path]
           value == e.more
           d == Find(c, "answer", value)
           f == [c EXCEPT !.at = "send"]
<1>1. c.at = "look" /\ c.op = "readlink" /\ UNCHANGED <<tree, cache, handles, changes, track>>
  BY DEF LookLink, At
<1>2. Goto(t, f) \/ (e # NoEntry /\ e.kind = "link" /\ e.more # NoInfo /\ Goto(t, d))
  BY DEF LookLink
<1>3. IsRecord(c) /\ Looks(c)
  BY <1>1, LookingAt
<1>4. Moves(d, c, "answer", c.todo, c.after, c.own, "done", value) /\ Turns(f, c, "send")
  BY <1>3, FindIs, AtOnly
<1>5. Only(t) /\ (task'[t] = f \/ (e # NoEntry /\ e.kind = "link" /\ e.more # NoInfo /\ task'[t] = d))
  BY <1>2, GotoOnly
<1> HIDE DEF d, f
<1> QED BY <1>1, <1>3, <1>4, <1>5

LEMMA LookAttributesIs ==
    ASSUME TasksOK, NEW t \in Tasks, LookAttributes(t)
    PROVE  LET c == task[t]
               p == Head(c.todo)
               item == CachedItem(p)
           IN  /\ IsRecord(c) /\ Looks(c) /\ c.at = "attrs" /\ c.op \in Looking /\ Only(t)
               /\ UNCHANGED <<tree, cache, handles, changes, track>>
               /\ \/ Known(p) /\ Moves(task'[t], c, IF Len(c.todo) > 1 THEN "attrs" ELSE c.after, Tail(c.todo), c.after,
                        IF c.after = "store" THEN item.id ELSE c.own, "done", IF c.op = "stat" THEN item ELSE c.value)
                  \/ Becomes(task'[t], c, "ask", c.todo, c.after, c.own, c.result, c.value, 0, c.effects, c.lost)
<1> DEFINE c == task[t]
           p == Head(c.todo)
           item == CachedItem(p)
           d == Got(c, item)
           f == [c EXCEPT !.at = "ask", !.tries = 0]
<1>1. c.at = "attrs" /\ UNCHANGED <<tree, cache, handles, changes, track>>
  BY DEF LookAttributes, At
<1>2. Goto(t, f) \/ (Known(p) /\ Goto(t, d))
  BY DEF LookAttributes
<1>3. IsRecord(c) /\ Looks(c) /\ c.op \in Looking
  BY <1>1, LookingAt
<1>4. Moves(d, c, IF Len(c.todo) > 1 THEN "attrs" ELSE c.after, Tail(c.todo), c.after,
                  IF c.after = "store" THEN item.id ELSE c.own, "done", IF c.op = "stat" THEN item ELSE c.value)
  BY <1>3, GotIs
<1>5. Becomes(f, c, "ask", c.todo, c.after, c.own, c.result, c.value, 0, c.effects, c.lost)
  <2> HIDE DEF c
  <2> QED BY <1>3 DEF IsRecord, Becomes
<1>6. Only(t) /\ (task'[t] = f \/ (Known(p) /\ task'[t] = d))
  BY <1>2, GotoOnly
<1> HIDE DEF d, f
<1> QED BY <1>1, <1>3, <1>4, <1>5, <1>6

LEMMA AskAttributesIs ==
    ASSUME TasksOK, NEW t \in Tasks, AskAttributes(t)
    PROVE  LET c == task[t]
               item == tree[Head(c.todo)]
           IN  /\ IsRecord(c) /\ Looks(c) /\ CallOK(c) /\ c.at = "ask" /\ c.op \in Looking /\ Only(t)
               /\ UNCHANGED <<tree, cache, handles, changes, track>>
               /\ \/ item = Absent /\ Moves(task'[t], c, "answer", c.todo, c.after, c.own, "refused", c.value)
                  \/ item # Absent /\ task'[t] = [at |-> "told", item |-> item, call |-> c]
<1> DEFINE c == task[t]
           item == tree[Head(c.todo)]
           d == Set(c, "answer", "refused")
           f == [at |-> "told", item |-> item, call |-> c]
<1>1. c.at = "ask" /\ UNCHANGED <<tree, cache, handles, changes, track>>
  BY DEF AskAttributes, At
<1>2. (item # Absent /\ Goto(t, f)) \/ (item = Absent /\ Goto(t, d))
  BY DEF AskAttributes, Stat
<1>3. IsRecord(c) /\ Looks(c) /\ c.op \in Looking /\ CallOK(c)
  BY <1>1, LookingAt
<1>4. Moves(d, c, "answer", c.todo, c.after, c.own, "refused", c.value)
  BY <1>3, SetIs
<1>5. Only(t) /\ ((item # Absent /\ task'[t] = f) \/ (item = Absent /\ task'[t] = d))
  BY <1>2, GotoOnly
<1> HIDE DEF d
<1> QED BY <1>1, <1>3, <1>4, <1>5

LEMMA ToldAttributesIs ==
    ASSUME TasksOK, NEW t \in Tasks, ToldAttributes(t)
    PROVE  LET c == task[t].call
               item == task[t].item
           IN  /\ task[t].at = "told" /\ item \in Items
               /\ IsRecord(c) /\ Looks(c) /\ c.at = "ask" /\ c.op \in Looking /\ Only(t)
               /\ cache' = PutAttr(cache, Head(c.todo), item)
               /\ UNCHANGED <<tree, handles, changes, track>>
               /\ Moves(task'[t], c, IF Len(c.todo) > 1 THEN "attrs" ELSE c.after, Tail(c.todo), c.after,
                        IF c.after = "store" THEN item.id ELSE c.own, "done", IF c.op = "stat" THEN item ELSE c.value)
<1> DEFINE c == task[t].call
           item == task[t].item
           d == Got(c, item)
<1>1. /\ task[t].at = "told" /\ UNCHANGED <<tree, handles, changes, track>> /\ Goto(t, d)
      /\ cache' = PutAttr(cache, Head(c.todo), item)
  BY DEF ToldAttributes, At
<1>2. IsRecord(c) /\ Looks(c) /\ c.op \in Looking /\ c.at = "ask" /\ item \in Items
  BY <1>1 DEF TasksOK, TaskOK, Idle, CallOK, Places
<1>3. Moves(d, c, IF Len(c.todo) > 1 THEN "attrs" ELSE c.after, Tail(c.todo), c.after,
                  IF c.after = "store" THEN item.id ELSE c.own, "done", IF c.op = "stat" THEN item ELSE c.value)
  BY <1>2, GotIs
<1>4. Only(t) /\ task'[t] = d
  BY <1>1, GotoOnly
<1> HIDE DEF d
<1> QED BY <1>1, <1>2, <1>3, <1>4

\* A call that the server looks for.
LEMMA ServesLookIs ==
    ASSUME TasksOK, NEW t \in Tasks, ServeList(t) \/ ServeLink(t)
    PROVE  LET c == task[t]
               p == c.path
               good == IF c.op = "list" THEN Is(tree, p, "dir") ELSE Target(tree, p) # Absent
           IN  /\ IsRecord(c) /\ Looks(c) /\ c.at = "send" /\ c.op \in {"list", "readlink"} /\ Only(t)
               /\ UNCHANGED <<tree, cache, handles, changes, track>>
               /\ \/ good /\ Moves(task'[t], c, "reply", c.todo, c.after, c.own, "done",
                                   IF c.op = "list" THEN List(tree, p) ELSE Target(tree, p))
                  \/ ~good /\ Moves(task'[t], c, "answer", c.todo, c.after, c.own, "refused", c.value)
<1> DEFINE c == task[t]
           p == c.path
           good == IF c.op = "list" THEN Is(tree, p, "dir") ELSE Target(tree, p) # Absent
           value == IF c.op = "list" THEN List(tree, p) ELSE Target(tree, p)
           d == Find(c, "reply", value)
           f == Set(c, "answer", "refused")
<1>1. c.at = "send" /\ c.op \in {"list", "readlink"} /\ UNCHANGED <<tree, cache, handles, changes, track>>
  BY DEF ServeList, ServeLink, At
<1>2. (good /\ Goto(t, d)) \/ (~good /\ Goto(t, f))
  BY DEF ServeList, ServeLink
<1>3. IsRecord(c) /\ Looks(c)
  <2>1. CallOK(c) /\ c.op \in Looking
    BY <1>1, CallAt DEF Looking
  <2> QED BY <2>1 DEF CallOK
<1>4. Moves(d, c, "reply", c.todo, c.after, c.own, "done", value)
      /\ Moves(f, c, "answer", c.todo, c.after, c.own, "refused", c.value)
  BY <1>3, FindIs, SetIs
<1>5. Only(t) /\ ((good /\ task'[t] = d) \/ (~good /\ task'[t] = f))
  BY <1>2, GotoOnly
<1> HIDE DEF d, f
<1> QED BY <1>1, <1>3, <1>4, <1>5

LEMMA ListedIs ==
    ASSUME TasksOK, NEW t \in Tasks, Listed(t)
    PROVE  LET c == task[t]
           IN  /\ IsRecord(c) /\ Looks(c) /\ c.at = "reply" /\ c.op = "list" /\ Only(t)
               /\ UNCHANGED <<tree, cache, handles, changes, track>>
               /\ Moves(task'[t], c, "attrs", <<c.path>>, "store", c.own, c.result, c.value)
<1> DEFINE c == task[t]
           todo == <<c.path>>
           d == [c EXCEPT !.at = "attrs", !.todo = todo, !.after = "store"]
<1>1. c.at = "reply" /\ c.op = "list" /\ UNCHANGED <<tree, cache, handles, changes, track>> /\ Goto(t, d)
  BY DEF Listed, At
<1>2. IsRecord(c) /\ Looks(c)
  <2>1. CallOK(c) /\ c.op \in Looking
    BY <1>1, CallAt DEF Looking
  <2> QED BY <2>1 DEF CallOK
<1>3. Moves(d, c, "attrs", todo, "store", c.own, c.result, c.value)
  <2> HIDE DEF c, todo
  <2> QED BY <1>2 DEF IsRecord, Moves, Becomes
<1>4. Only(t) /\ task'[t] = d
  BY <1>1, GotoOnly
<1> HIDE DEF d
<1> QED BY <1>1, <1>2, <1>3, <1>4

LEMMA StoreListIs ==
    ASSUME TasksOK, NEW t \in Tasks, StoreList(t)
    PROVE  LET c == task[t]
               elems == c.value
           IN  /\ IsRecord(c) /\ Looks(c) /\ c.at = "store" /\ c.op = "list" /\ Only(t)
               /\ UNCHANGED <<tree, handles, changes, track>>
               /\ cache' = [x \in Paths |->
                     IF x = c.path THEN PutIn(cache, x, Entry("dir", c.own, DOMAIN elems))[x]
                     ELSE IF x \in DOMAIN elems
                     THEN PutIn(cache, x, Entry(elems[x].kind, elems[x].id, NoInfo))[x]
                     ELSE cache[x]]
               /\ Moves(task'[t], c, "attrs", Dots(c.path), "answer", c.own, c.result, c.value)
<1> DEFINE c == task[t]
           dots == Dots(c.path)
           d == [c EXCEPT !.at = "attrs", !.todo = dots, !.after = "answer"]
<1>1. c.at = "store" /\ UNCHANGED <<tree, handles, changes, track>> /\ Goto(t, d)
  BY DEF StoreList, At
<1>2. IsRecord(c) /\ Looks(c) /\ c.op = "list"
  <2>1. IsRecord(c) /\ Looks(c) /\ c.op \in Looking
    BY <1>1, LookingAt
  <2> QED BY <1>1, <2>1 DEF Looks, Looking
<1>3. Moves(d, c, "attrs", dots, "answer", c.own, c.result, c.value)
  <2> HIDE DEF c, dots
  <2> QED BY <1>2 DEF IsRecord, Moves, Becomes
<1>4. Only(t) /\ task'[t] = d
  BY <1>1, GotoOnly
<1>5. cache' = [x \in Paths |->
                     IF x = c.path THEN PutIn(cache, x, Entry("dir", c.own, DOMAIN c.value))[x]
                     ELSE IF x \in DOMAIN c.value
                     THEN PutIn(cache, x, Entry(c.value[x].kind, c.value[x].id, NoInfo))[x]
                     ELSE cache[x]]
  BY DEF StoreList
<1> HIDE DEF d
<1> QED BY <1>1, <1>2, <1>3, <1>4, <1>5

LEMMA StoreLinkIs ==
    ASSUME TasksOK, NEW t \in Tasks, StoreLink(t)
    PROVE  LET c == task[t]
           IN  /\ IsRecord(c) /\ Looks(c) /\ c.at = "reply" /\ c.op = "readlink" /\ Only(t)
               /\ UNCHANGED <<tree, handles, changes, track>>
               /\ cache' = PutIn(cache, c.path, Entry("link", NoInfo, c.value))
               /\ Turns(task'[t], c, "answer")
<1> DEFINE c == task[t]
           d == [c EXCEPT !.at = "answer"]
<1>1. /\ c.at = "reply" /\ c.op = "readlink" /\ UNCHANGED <<tree, handles, changes, track>> /\ Goto(t, d)
      /\ cache' = PutIn(cache, c.path, Entry("link", NoInfo, c.value))
  BY DEF StoreLink, At
<1>2. IsRecord(c) /\ Looks(c)
  <2>1. CallOK(c) /\ c.op \in Looking
    BY <1>1, CallAt DEF Looking
  <2> QED BY <2>1 DEF CallOK
<1>3. Turns(d, c, "answer")
  BY <1>2, AtOnly
<1>4. Only(t) /\ task'[t] = d
  BY <1>1, GotoOnly
<1> HIDE DEF d
<1> QED BY <1>1, <1>2, <1>3, <1>4

\* The call is answered.
Learns(t) == MadeFile(t) \/ MadeDir(t) \/ MadeLink(t) \/ Removed(t) \/ Renamed(t) \/ Exchanged(t)

LEMMA AnsweredIs ==
    ASSUME TasksOK, NEW t \in Tasks, Refused(t) \/ Learns(t)
    PROVE  LET c == task[t]
           IN  /\ IsRecord(c) /\ CallOK(c) /\ c.at = "reply" /\ c.op \in Mutations /\ Only(t)
               /\ Turns(task'[t], c, "answer") /\ UNCHANGED <<tree, handles, changes, overlapped, scope>>
               /\ Refused(t) => c.result = "refused" /\ UNCHANGED <<cache, untold>>
               /\ Learns(t) => c.result = "done"
<1> DEFINE c == task[t]
           d == [c EXCEPT !.at = "answer"]
<1>1. c.at = "reply" /\ Goto(t, d) /\ UNCHANGED <<tree, handles, changes, overlapped, scope>>
  BY DEF Refused, Learns, MadeFile, MadeDir, MadeLink, Made, Removed, Renamed, Exchanged, Told, IsDone, At, track
<1>2. IsRecord(c) /\ CallOK(c)
  BY <1>1, CallAt
<1>3. Turns(d, c, "answer")
  BY <1>2, AtOnly
<1>4. Only(t) /\ task'[t] = d
  BY <1>1, GotoOnly
<1>5. Refused(t) => c.result = "refused" /\ UNCHANGED <<cache, untold>>
  BY DEF Refused, track
<1>6. Learns(t) => c.result = "done" /\ c.op \in Mutations
  BY DEF Learns, MadeFile, MadeDir, MadeLink, Removed, Renamed, Exchanged, IsDone, Mutations
<1>7. Refused(t) => c.op \in Mutations
  <2>1. c.op \in Looking => c.result = "done"
    BY <1>1, <1>2 DEF CallOK, Looks
  <2> QED BY <1>2, <1>5, <2>1 DEF IsRecord
<1> HIDE DEF d
<1> QED BY <1>1, <1>2, <1>3, <1>4, <1>5, <1>6, <1>7

LEMMA ServeIs ==
    ASSUME TasksOK, NEW t \in Tasks, Serve(t)
    PROVE  LET c == task[t]
               changed == Trees(tree, c.op, c.path, c.to, changes + 1)
               half == IF c.op = "exchange" THEN HalfExchange(tree, c.path, c.to) ELSE {}
           IN  /\ IsRecord(c) /\ Counted(c) /\ c.at = "send" /\ c.op \in Mutations /\ Only(t)
               /\ tree' \in IF changed # {} THEN changed ELSE IF half # {} THEN half ELSE {tree}
               /\ changes' = IF tree' # tree THEN changes + 1 ELSE changes
               /\ UNCHANGED <<cache, handles, track>>
               /\ \E result \in {"done", "refused", "error"} :
                     /\ result = "refused" <=> changed = {}
                     /\ Becomes(task'[t], c, "reply", c.todo, c.after,
                                IF c.op \in Creations /\ result = "done" THEN tree'[c.path].id ELSE NoInfo,
                                result, c.value, c.tries,
                                IF changed \cup half # {} THEN c.effects + 1 ELSE c.effects, c.lost)
<1> DEFINE c == task[t]
           changed == Trees(tree, c.op, c.path, c.to, changes + 1)
           half == IF c.op = "exchange" THEN HalfExchange(tree, c.path, c.to) ELSE {}
           effects == IF changed \cup half # {} THEN c.effects + 1 ELSE c.effects
<1>1. /\ c.at = "send" /\ c.op \in Mutations /\ UNCHANGED <<cache, handles, track>>
      /\ tree' \in IF changed # {} THEN changed ELSE IF half # {} THEN half ELSE {tree}
      /\ changes' = IF tree' # tree THEN changes + 1 ELSE changes
  BY DEF Serve, At
<1>2. IsRecord(c) /\ Counted(c)
  BY <1>1, CallAt DEF CallOK
<1>3. PICK result \in Outcomes(changed) :
        Goto(t, [Set(c, "reply", result)
                   EXCEPT !.effects = IF changed \cup half # {} THEN @ + 1 ELSE @,
                          !.own = IF c.op \in Creations /\ result = "done" THEN tree'[c.path].id ELSE NoInfo])
  BY DEF Serve
<1>4. result \in {"done", "refused", "error"} /\ (result = "refused" <=> changed = {})
  BY <1>3 DEF Outcomes
<1> DEFINE own == IF c.op \in Creations /\ result = "done" THEN tree'[c.path].id ELSE NoInfo
           d == Set(c, "reply", result)
           x == [d EXCEPT !.effects = effects, !.own = own]
<1>5. Goto(t, x)
  <2>1. d = [c EXCEPT !.at = "reply", !.result = result]
    BY DEF Set
  <2> QED BY <1>2, <1>3, <2>1 DEF IsRecord
<1>6. Only(t) /\ task'[t] = x
  BY <1>5, GotoOnly
<1> HIDE DEF changed, half, effects, own
<1>7. Moves(d, c, "reply", c.todo, c.after, c.own, result, c.value)
  BY <1>2, SetIs
<1> HIDE DEF d, c
<1>8. Becomes(x, c, "reply", c.todo, c.after, own, result, c.value, c.tries, effects, c.lost)
  BY <1>7 DEF Moves, Becomes
<1> HIDE DEF x
<1>9. Becomes(task'[t], c, "reply", c.todo, c.after, own, result, c.value, c.tries, effects, c.lost)
  BY <1>6, <1>8
<1> QED BY <1>1, <1>2, <1>4, <1>6, <1>9 DEF c, changed, half, effects, own

\* A message of call c is lost, or the server fails: it goes on as x.
Loses(x, c) ==
    \/ /\ c.tries < Retries
       /\ Becomes(x, c, IF c.at = "ask" THEN "ask" ELSE "send", c.todo, c.after, c.own, c.result,
                  c.value, c.tries + 1, c.effects, Unsaid(c))
    \/ Becomes(x, c, "answer", c.todo, c.after, c.own, "failed", c.value, c.tries, c.effects, Unsaid(c))

LEMMA AgainIs ==
    ASSUME NEW c, IsRecord(c), NEW x, (c.tries < Retries /\ x = Again(c)) \/ x = GiveUp(c)
    PROVE  Loses(x, c)
<1> DEFINE lost == Unsaid(c)
<1>1. CASE c.tries < Retries /\ x = Again(c)
  <2> DEFINE at == IF c.at = "ask" THEN "ask" ELSE "send"
             tries == c.tries + 1
  <2>1. x = [c EXCEPT !.tries = tries, !.at = at, !.lost = lost]
    BY <1>1 DEF Again, IsRecord
  <2> HIDE DEF at, lost, tries
  <2>2. Becomes(x, c, at, c.todo, c.after, c.own, c.result, c.value, tries, c.effects, lost)
    BY <2>1 DEF IsRecord, Becomes
  <2> QED BY <1>1, <2>2 DEF Loses, at, lost, tries
<1>2. CASE x = GiveUp(c)
  <2> DEFINE d == Set(c, "answer", "failed")
  <2>1. Moves(d, c, "answer", c.todo, c.after, c.own, "failed", c.value)
    BY SetIs
  <2>2. x = [d EXCEPT !.lost = lost]
    BY <1>2 DEF GiveUp
  <2> HIDE DEF d, lost
  <2>3. Becomes(x, c, "answer", c.todo, c.after, c.own, "failed", c.value, c.tries, c.effects, lost)
    BY <2>1, <2>2 DEF Moves, Becomes
  <2> QED BY <2>3 DEF Loses, lost
<1> QED BY <1>1, <1>2

LEMMA LoseIs ==
    ASSUME TasksOK, NEW t \in Tasks, Lose(t)
    PROVE  /\ Only(t) /\ UNCHANGED <<tree, cache, handles, changes, track>>
           /\ \/ /\ task[t].at = "told" /\ task[t].call.at = "ask"
                 /\ IsRecord(task[t].call) /\ Looks(task[t].call) /\ task[t].call.op \in Looking
                 /\ Loses(task'[t], task[t].call)
              \/ task[t].at \in {"send", "ask", "reply"} /\ CallOK(task[t]) /\ Loses(task'[t], task[t])
<1>1. UNCHANGED <<tree, cache, handles, changes, track>> /\ task[t].at \in {"send", "ask", "reply", "told"}
  BY DEF Lose
<1>2. CASE task[t].at = "told"
  <2> DEFINE c == task[t].call
             d == [c EXCEPT !.at = "ask"]
  <2>1. IsRecord(c) /\ Looks(c) /\ c.op \in Looking /\ c.at = "ask"
    BY <1>2 DEF TasksOK, TaskOK, Idle, CallOK, Places
  <2>2. (d.tries < Retries /\ Goto(t, Again(d))) \/ Goto(t, GiveUp(d))
    BY <1>2 DEF Lose, At
  <2>3. d = c
    BY <2>1 DEF IsRecord
  <2>4. Only(t) /\ ((d.tries < Retries /\ task'[t] = Again(d)) \/ task'[t] = GiveUp(d))
    BY <2>2, GotoOnly
  <2>5. Loses(task'[t], c)
    BY <2>1, <2>3, <2>4, AgainIs
  <2> QED BY <1>1, <1>2, <2>1, <2>4, <2>5
<1>3. CASE task[t].at # "told"
  <2> DEFINE c == task[t]
  <2>1. c.at \in {"send", "ask", "reply"} /\ ((c.tries < Retries /\ Goto(t, Again(c))) \/ Goto(t, GiveUp(c)))
    BY <1>1, <1>3 DEF Lose, At
  <2>2. /\ Only(t) /\ CallOK(c) /\ IsRecord(c)
        /\ (c.tries < Retries /\ task'[t] = Again(c)) \/ task'[t] = GiveUp(c)
    BY <2>1, GotoOnly, CallAt
  <2>3. Loses(task'[t], c)
    BY <2>2, AgainIs
  <2> QED BY <1>1, <2>1, <2>2, <2>3
<1> QED BY <1>2, <1>3

----------------------------------------------------------------------------
(* What is kept of the cache *)

\* An entry has the fields of its kind.
EntryOK(e) ==
    /\ e \in [kind : Kinds, attrs : Nat \cup {NoInfo}, more : {e.more}]
    /\ e.kind = "dir" => e.more = NoInfo \/ \A x \in e.more : x \in Seq(Components)
    /\ e.kind = "link" => e.more \in Nat \cup {NoInfo}
    /\ e.kind = "file" => e.more = NoInfo

CacheIs(c) == c = [p \in Paths |-> c[p]] /\ \A p \in Paths : c[p] # NoEntry => EntryOK(c[p])

LEMMA EntryIs ==
    ASSUME NEW kind, NEW attrs, NEW more
    PROVE  /\ Entry(kind, attrs, more) = [kind |-> kind, attrs |-> attrs, more |-> more]
           /\ Entry(kind, attrs, more).kind = kind /\ Entry(kind, attrs, more).attrs = attrs
           /\ Entry(kind, attrs, more).more = more
BY DEF Entry

LEMMA EntryTyped ==
    ASSUME NEW kind \in Kinds, NEW attrs \in Nat \cup {NoInfo}, NEW more,
           kind = "dir" => more = NoInfo \/ \A x \in more : x \in Seq(Components),
           kind = "link" => more \in Nat \cup {NoInfo}, kind = "file" => more = NoInfo
    PROVE  EntryOK(Entry(kind, attrs, more))
BY DEF EntryOK, Entry

LEMMA MergeTyped ==
    ASSUME NEW old, NEW new, EntryOK(old), EntryOK(new) PROVE EntryOK(Merge(old, new))
<1>1. CASE old.kind # new.kind
  BY <1>1 DEF Merge
<1>2. CASE old.kind = new.kind
  <2> DEFINE attrs == Either(new.attrs, old.attrs)
             more == Either(new.more, old.more)
  <2>1. attrs \in {new.attrs, old.attrs} /\ more \in {new.more, old.more}
    BY DEF Either
  <2>2. Merge(old, new) = Entry(old.kind, attrs, more)
    BY <1>2 DEF Merge
  <2> HIDE DEF attrs, more
  <2>3. attrs \in Nat \cup {NoInfo} /\ old.kind \in Kinds
    BY <2>1 DEF EntryOK
  <2>4. /\ old.kind = "dir" => more = NoInfo \/ \A x \in more : x \in Seq(Components)
        /\ old.kind = "link" => more \in Nat \cup {NoInfo}
        /\ old.kind = "file" => more = NoInfo
    BY <1>2, <2>1 DEF EntryOK
  <2> QED BY <2>2, <2>3, <2>4, EntryTyped
<1> QED BY <1>1, <1>2

LEMMA PutInIs ==
    ASSUME NEW c, CacheIs(c), NEW p \in Paths, NEW e
    PROVE  /\ PutIn(c, p, e) = [x \in Paths |-> PutIn(c, p, e)[x]]
           /\ PutIn(c, p, e)[p] = (IF c[p] = NoEntry THEN e ELSE Merge(c[p], e))
           /\ \A x \in Paths \ {p} : PutIn(c, p, e)[x] = c[x]
BY DEF PutIn, CacheIs

LEMMA PutInTyped ==
    ASSUME NEW c, CacheIs(c), NEW p \in Paths, NEW e, EntryOK(e)
    PROVE  CacheIs(PutIn(c, p, e)) /\ EntryOK(PutIn(c, p, e)[p])
<1> DEFINE d == PutIn(c, p, e)
<1>1. /\ d = [x \in Paths |-> d[x]] /\ \A x \in Paths \ {p} : d[x] = c[x]
      /\ d[p] = (IF c[p] = NoEntry THEN e ELSE Merge(c[p], e))
  BY PutInIs
<1>2. c[p] # NoEntry => EntryOK(Merge(c[p], e))
  BY MergeTyped DEF CacheIs
<1> HIDE DEF d
<1>3. EntryOK(d[p])
  BY <1>1, <1>2
<1>4. CacheIs(d)
  BY <1>1, <1>3 DEF CacheIs
<1> QED BY <1>3, <1>4 DEF d

LEMMA PutNewTyped ==
    ASSUME NEW c, CacheIs(c), NEW p \in Paths, NEW e, EntryOK(e) PROVE CacheIs(PutNew(c, p, e))
BY DEF PutNew, CacheIs

LEMMA RemoveTyped ==
    ASSUME NEW c, CacheIs(c), NEW p \in Paths PROVE CacheIs(RemoveFrom(c, p))
BY DEF RemoveFrom, CacheIs

LEMMA PutAttrTyped ==
    ASSUME NEW c, CacheIs(c), NEW p \in Paths, NEW item \in Items PROVE CacheIs(PutAttr(c, p, item))
<1>1. item.kind \in Kinds /\ item.id \in Nat
  BY DEF Items
<1>2. EntryOK(Entry(item.kind, item.id, NoInfo))
  BY <1>1, EntryTyped
<1> QED BY <1>2, PutInTyped DEF PutAttr

LEMMA RebaseTyped ==
    ASSUME NEW p \in Paths, NEW q \in Paths, NEW x \in Seq(Components)
    PROVE  Rebase(x, p, q) \in Seq(Components)
<1>1. q \in Seq(Components) /\ Len(p) \in Nat /\ Len(x) \in Nat
  BY PathIsSeq, LenProperties
<1> DEFINE m == Len(p) + 1
           n == Len(x)
           r == SubSeq(x, m, n)
<1>2. m \in Int /\ n \in Int /\ \A i \in m .. n : x[i] \in Components
  BY <1>1, ElementOfSeq
<1>3. r \in Seq(Components)
  <2> HIDE DEF m, n
  <2> QED BY <1>2, SubSeqProperties
<1>4. q \o r \in Seq(Components)
  <2> HIDE DEF r
  <2> QED BY <1>1, <1>3, ConcatProperties
<1> QED BY <1>4 DEF Rebase, Rest

LEMMA CarriedIs ==
    ASSUME NEW e, EntryOK(e), NEW p, NEW q
    PROVE  Carried(e, p, q) = Entry(e.kind, e.attrs, IF e.kind = "dir" /\ e.more # NoInfo
                                                    THEN {Rebase(c, p, q) : c \in e.more} ELSE e.more)
<1> DEFINE more == {Rebase(c, p, q) : c \in e.more}
<1>1. Carried(e, p, q) = IF e.kind = "dir" /\ e.more # NoInfo THEN [e EXCEPT !.more = more] ELSE e
  BY DEF Carried, EntryOK
<1> HIDE DEF more
<1>2. e = Entry(e.kind, e.attrs, e.more) /\ [e EXCEPT !.more = more] = Entry(e.kind, e.attrs, more)
  BY DEF EntryOK, Entry
<1> QED BY <1>1, <1>2 DEF more

LEMMA CarriedTyped ==
    ASSUME NEW e, EntryOK(e), NEW p \in Paths, NEW q \in Paths PROVE EntryOK(Carried(e, p, q))
<1> DEFINE more == IF e.kind = "dir" /\ e.more # NoInfo THEN {Rebase(c, p, q) : c \in e.more} ELSE e.more
<1>1. Carried(e, p, q) = Entry(e.kind, e.attrs, more)
  BY CarriedIs
<1>2. e.kind \in Kinds /\ e.attrs \in Nat \cup {NoInfo}
  BY DEF EntryOK
<1>3. /\ e.kind = "dir" => more = NoInfo \/ \A x \in more : x \in Seq(Components)
      /\ e.kind = "link" => more \in Nat \cup {NoInfo}
      /\ e.kind = "file" => more = NoInfo
  BY RebaseTyped DEF EntryOK
<1> HIDE DEF more
<1> QED BY <1>1, <1>2, <1>3, EntryTyped

----------------------------------------------------------------------------
(* The fields of the state *)

HandlesOK == handles \in [Numbers -> [path : Paths, delete : BOOLEAN, open : BOOLEAN]]

StateOK ==
    /\ TreeOK(tree) /\ CacheIs(cache) /\ HandlesOK /\ TasksOK
    /\ changes \in Nat /\ untold \subseteq Paths

LEMMA LooksStateOK ==
    ASSUME StateOK, NEW t \in Tasks, Only(t), TaskOK(task'[t]), UNCHANGED <<tree, cache, handles, changes, track>>
    PROVE  StateOK'
<1>1. TasksOK'
  BY OneTask DEF StateOK
<1> QED BY <1>1 DEF StateOK, HandlesOK, track

\* An item of the cache with its attributes.
LEMMA KnownIs ==
    ASSUME StateOK, NEW p, Known(p)
    PROVE  /\ p \in Paths /\ cache[p] # NoEntry /\ EntryOK(cache[p])
           /\ CachedItem(p) \in Items /\ CachedItem(p).id = cache[p].attrs /\ CachedItem(p).kind = cache[p].kind
<1>1. p \in Paths /\ cache[p] # NoEntry /\ EntryOK(cache[p]) /\ cache[p].attrs # NoInfo
  BY DEF Known, StateOK, CacheIs
<1>2. cache[p].kind \in Kinds /\ cache[p].attrs \in Nat
  BY <1>1 DEF EntryOK
<1> QED BY <1>1, <1>2, ItemIs DEF CachedItem

LEMMA DotsIs ==
    ASSUME NEW p \in Paths
    PROVE  /\ Dots(p) \in Seq(Paths) /\ Dots(p) # << >> /\ Len(Dots(p)) = 2 /\ Head(Dots(p)) = p
           /\ \A i \in 1 .. Len(Dots(p)) : Dots(p)[i] \in {p, Up[p]}
<1>1. Up[p] \in Paths
  BY UpIs
<1> HIDE DEF Up
<1> QED BY <1>1 DEF Dots

LEMMA OneIs ==
    ASSUME NEW p \in Paths
    PROVE  <<p>> \in Seq(Paths) /\ <<p>> # << >> /\ Len(<<p>>) = 1 /\ Head(<<p>>) = p
OBVIOUS

LEMMA TodoIs ==
    ASSUME NEW s \in Seq(Paths), s # << >>
    PROVE  /\ Head(s) \in Paths /\ Head(s) = s[1] /\ Tail(s) \in Seq(Paths) /\ Len(s) \in Nat /\ Len(s) > 0
           /\ Len(Tail(s)) = Len(s) - 1 /\ (Len(s) > 1 => Tail(s) # << >>)
           /\ \A i \in 1 .. Len(Tail(s)) : Tail(s)[i] = s[i + 1]
OBVIOUS

LEMMA LookListState == ASSUME StateOK, NEW t \in Tasks, LookList(t) PROVE StateOK'
<1> DEFINE c == task[t]
           p == c.path
           value == [x \in cache[p].more |-> CachedItem(x)]
           x == task'[t]
<1>1. /\ IsRecord(c) /\ Looks(c) /\ c.at = "look" /\ c.op = "list" /\ Only(t)
      /\ UNCHANGED <<tree, cache, handles, changes, track>>
      /\ ListKnown(p) => Moves(x, c, "attrs", Dots(p), c.after, c.own, "done", value)
      /\ ~ListKnown(p) => Turns(x, c, "send")
  BY LookListIs DEF StateOK
<1>2. p \in Paths /\ c.after \in {"answer", "store"} /\ c.own \in Nat \cup {NoInfo} /\ c.result \in Results
      /\ c.todo \in Seq(Paths)
  BY <1>1 DEF IsRecord
<1>3. ListKnown(p) => Elems(value)
  <2> SUFFICES ASSUME ListKnown(p) PROVE \A y \in cache[p].more : y \in Paths /\ CachedItem(y) \in Items
    BY DEF Elems
  <2> QED BY KnownIs DEF ListKnown
<1> HIDE DEF c, p, value, x
<1>4. ASSUME ListKnown(p) PROVE TaskOK(x)
  <2>1. Moves(x, c, "attrs", Dots(p), c.after, c.own, "done", value)
    BY <1>1, <1>4
  <2>2. IsRecord(x)
    <3>1. "attrs" \in Places /\ "done" \in Results /\ Dots(p) \in Seq(Paths)
      BY <1>2, DotsIs DEF Places, Results
    <3> QED BY <1>1, <1>2, <2>1, <3>1, MovesOK
  <2>3. x.at = "attrs" /\ x.op = "list" /\ x.todo = Dots(p) /\ x.value = value
    BY <1>1, <2>1, MovesIs
  <2>4. Looks(x) /\ x.op \in Looking
    BY <1>2, <1>3, <1>4, <2>3, DotsIs DEF Looks, Looking
  <2> QED BY <2>2, <2>4, LookingOK
<1>5. ASSUME ~ListKnown(p) PROVE TaskOK(x)
  <2>1. Moves(x, c, "send", c.todo, c.after, c.own, c.result, c.value)
    BY <1>1, <1>5 DEF Turns
  <2>2. IsRecord(x)
    BY <1>1, <1>2, <2>1, MovesOK DEF Places
  <2>3. x.at = "send" /\ x.op = "list" /\ x.after = c.after
    BY <1>1, <2>1, MovesIs
  <2>4. Looks(x) /\ x.op \in Looking
    BY <1>1, <2>3 DEF Looks, Looking
  <2> QED BY <2>2, <2>4, LookingOK
<1>6. TaskOK(x)
  BY <1>4, <1>5
<1> QED BY <1>1, <1>6, LooksStateOK DEF x

\* The attributes of a path have been got.
LEMMA GotOK ==
    ASSUME NEW c, IsRecord(c), Looks(c), c.op \in Looking, c.at \in {"attrs", "ask"}, NEW item \in Items, NEW x,
           Moves(x, c, IF Len(c.todo) > 1 THEN "attrs" ELSE c.after, Tail(c.todo), c.after,
                 IF c.after = "store" THEN item.id ELSE c.own, "done", IF c.op = "stat" THEN item ELSE c.value)
    PROVE  TaskOK(x)
<1> DEFINE at == IF Len(c.todo) > 1 THEN "attrs" ELSE c.after
           own == IF c.after = "store" THEN item.id ELSE c.own
           value == IF c.op = "stat" THEN item ELSE c.value
           todo == Tail(c.todo)
<1>1. /\ c.todo \in Seq(Paths) /\ c.after \in {"answer", "store"} /\ c.own \in Nat \cup {NoInfo}
      /\ item.id \in Nat /\ c.op \in {"stat", "list"} /\ c.todo # << >>
      /\ c.op = "stat" => c.after = "answer"
      /\ c.op = "list" => Elems(c.value)
  BY DEF IsRecord, Looks, Looking, Items
<1>2. todo \in Seq(Paths) /\ (at = "attrs" => todo # << >>)
  BY <1>1, TodoIs
<1>3. at \in Places /\ own \in Nat \cup {NoInfo} /\ "done" \in Results /\ at \in {"attrs", c.after}
  BY <1>1 DEF Places, Results
<1>4. Moves(x, c, at, todo, c.after, own, "done", value) /\ (c.op = "list" => value = c.value)
  BY <1>1
<1> HIDE DEF at, own, value, todo
<1>5. IsRecord(x)
  BY <1>1, <1>2, <1>3, <1>4, MovesOK
<1>6. x.at = at /\ x.op = c.op /\ x.todo = todo /\ x.after = c.after /\ x.value = value /\ x.result = "done"
  BY <1>4, MovesIs
<1>7. Looks(x) /\ x.op \in Looking
  BY <1>1, <1>2, <1>3, <1>4, <1>6 DEF Looks, Looking
<1> QED BY <1>5, <1>7, LookingOK

LEMMA LookLinkState == ASSUME StateOK, NEW t \in Tasks, LookLink(t) PROVE StateOK'
<1> DEFINE c == task[t]
           e == cache[c.path]
           x == task'[t]
<1>1. /\ IsRecord(c) /\ Looks(c) /\ c.at = "look" /\ c.op = "readlink" /\ Only(t)
      /\ UNCHANGED <<tree, cache, handles, changes, track>>
      /\ \/ Moves(x, c, "answer", c.todo, c.after, c.own, "done", e.more)
         \/ Turns(x, c, "send")
  BY LookLinkIs DEF StateOK
<1>2. c.after \in {"answer", "store"} /\ c.own \in Nat \cup {NoInfo} /\ c.result \in Results
      /\ c.todo \in Seq(Paths) /\ "answer" \in Places /\ "send" \in Places /\ "done" \in Results
  BY <1>1 DEF IsRecord, Places, Results
<1> HIDE DEF c, x
<1>3. IsRecord(x)
  BY <1>1, <1>2, MovesOK DEF Turns
<1>4. x.at \in {"answer", "send"} /\ x.op = "readlink" /\ x.after = c.after /\ (x.at = "answer" => x.result = "done")
  BY <1>1, MovesIs DEF Turns
<1>5. Looks(x) /\ x.op \in Looking
  BY <1>1, <1>4 DEF Looks, Looking
<1>6. TaskOK(x)
  BY <1>3, <1>5, LookingOK
<1> QED BY <1>1, <1>6, LooksStateOK DEF x

LEMMA LookAttributesState == ASSUME StateOK, NEW t \in Tasks, LookAttributes(t) PROVE StateOK'
<1> DEFINE c == task[t]
           p == Head(c.todo)
           item == CachedItem(p)
           x == task'[t]
<1>1. /\ IsRecord(c) /\ Looks(c) /\ c.at = "attrs" /\ c.op \in Looking /\ Only(t)
      /\ UNCHANGED <<tree, cache, handles, changes, track>>
      /\ \/ Known(p) /\ Moves(x, c, IF Len(c.todo) > 1 THEN "attrs" ELSE c.after, Tail(c.todo), c.after,
                        IF c.after = "store" THEN item.id ELSE c.own, "done", IF c.op = "stat" THEN item ELSE c.value)
         \/ Becomes(x, c, "ask", c.todo, c.after, c.own, c.result, c.value, 0, c.effects, c.lost)
  BY LookAttributesIs DEF StateOK
<1> HIDE DEF c, x
<1>2. CASE Becomes(x, c, "ask", c.todo, c.after, c.own, c.result, c.value, 0, c.effects, c.lost)
  <2>1. /\ c.todo \in Seq(Paths) /\ c.after \in {"answer", "store"} /\ c.own \in Nat \cup {NoInfo}
        /\ c.result \in Results /\ c.effects \in Nat /\ c.lost \in Nat /\ "ask" \in Places /\ 0 \in 0 .. Retries
    BY <1>1, RetriesAssumption DEF IsRecord, Places
  <2>2. IsRecord(x)
    BY <1>1, <1>2, <2>1, BecomesOK
  <2>3. x.at = "ask" /\ x.op = c.op /\ x.todo = c.todo /\ x.after = c.after /\ x.value = c.value
    BY <1>2, BecomesIs
  <2>4. Looks(x) /\ x.op \in Looking
    BY <1>1, <2>3 DEF Looks, Looking
  <2>5. TaskOK(x)
    BY <2>2, <2>4, LookingOK
  <2> QED BY <1>1, <2>5, LooksStateOK DEF x
<1>3. CASE Known(p) /\ Moves(x, c, IF Len(c.todo) > 1 THEN "attrs" ELSE c.after, Tail(c.todo), c.after,
                        IF c.after = "store" THEN item.id ELSE c.own, "done", IF c.op = "stat" THEN item ELSE c.value)
  <2>1. item \in Items
    BY <1>3, KnownIs
  <2> HIDE DEF item
  <2>2. TaskOK(x)
    BY <1>1, <1>3, <2>1, GotOK
  <2> QED BY <1>1, <2>2, LooksStateOK DEF x
<1> QED BY <1>1, <1>2, <1>3

LEMMA AskAttributesState == ASSUME StateOK, NEW t \in Tasks, AskAttributes(t) PROVE StateOK'
<1> DEFINE c == task[t]
           item == tree[Head(c.todo)]
           x == task'[t]
<1>1. /\ IsRecord(c) /\ Looks(c) /\ CallOK(c) /\ c.at = "ask" /\ c.op \in Looking /\ Only(t)
      /\ UNCHANGED <<tree, cache, handles, changes, track>>
      /\ \/ item = Absent /\ Moves(x, c, "answer", c.todo, c.after, c.own, "refused", c.value)
         \/ item # Absent /\ x = [at |-> "told", item |-> item, call |-> c]
  BY AskAttributesIs DEF StateOK
<1>2. /\ c.todo \in Seq(Paths) /\ c.todo # << >> /\ c.after \in {"answer", "store"} /\ c.own \in Nat \cup {NoInfo}
      /\ "answer" \in Places /\ "refused" \in Results
      /\ c.op = "stat" => c.after = "answer"
      /\ c.op \in {"stat", "list"}
  BY <1>1 DEF IsRecord, Places, Results, Looks, Looking
<1>3. Head(c.todo) \in Paths
  BY <1>2, TodoIs
<1> HIDE DEF c, x
<1>4. CASE Moves(x, c, "answer", c.todo, c.after, c.own, "refused", c.value)
  <2>1. IsRecord(x)
    BY <1>1, <1>2, <1>4, MovesOK
  <2>2. x.at = "answer" /\ x.op = c.op /\ x.after = c.after /\ x.result = "refused"
    BY <1>4, MovesIs
  <2>3. Looks(x) /\ x.op \in Looking
    BY <1>1, <1>2, <2>2 DEF Looks, Looking
  <2>4. TaskOK(x)
    BY <2>1, <2>3, LookingOK
  <2> QED BY <1>1, <2>4, LooksStateOK DEF x
<1>5. CASE item # Absent /\ x = [at |-> "told", item |-> item, call |-> c]
  <2>1. item \in Items
    BY <1>3, <1>5 DEF StateOK, TreeOK
  <2>2. TaskOK(x)
    <3> HIDE DEF item
    <3> QED BY <1>1, <1>5, <2>1 DEF TaskOK
  <2> QED BY <1>1, <2>2, LooksStateOK DEF x
<1> QED BY <1>1, <1>4, <1>5

LEMMA ToldAttributesState == ASSUME StateOK, NEW t \in Tasks, ToldAttributes(t) PROVE StateOK'
<1> DEFINE c == task[t].call
           item == task[t].item
           x == task'[t]
<1>1. /\ item \in Items /\ IsRecord(c) /\ Looks(c) /\ c.at = "ask" /\ c.op \in Looking /\ Only(t)
      /\ cache' = PutAttr(cache, Head(c.todo), item)
      /\ UNCHANGED <<tree, handles, changes, track>>
      /\ Moves(x, c, IF Len(c.todo) > 1 THEN "attrs" ELSE c.after, Tail(c.todo), c.after,
                        IF c.after = "store" THEN item.id ELSE c.own, "done", IF c.op = "stat" THEN item ELSE c.value)
  BY ToldAttributesIs DEF StateOK
<1> HIDE DEF c, item, x
<1>2. TaskOK(x)
  BY <1>1, GotOK
<1>3. Head(c.todo) \in Paths
  <2>1. c.todo \in Seq(Paths) /\ c.todo # << >>
    BY <1>1 DEF IsRecord, Looks
  <2> QED BY <2>1, TodoIs
<1>4. CacheIs(cache')
  BY <1>1, <1>3, PutAttrTyped DEF StateOK
<1>5. TasksOK'
  BY <1>1, <1>2, OneTask DEF StateOK, x
<1> QED BY <1>1, <1>4, <1>5 DEF StateOK, HandlesOK, CacheIs, track

LEMMA ElemsList ==
    ASSUME NEW u, TreeOK(u), NEW p \in Paths PROVE Elems(List(u, p))
<1>1. DOMAIN List(u, p) = {c \in Children[p] : u[c] # Absent} /\ \A c \in DOMAIN List(u, p) : List(u, p)[c] = u[c]
  BY ListIs
<1>2. \A c \in Children[p] : c \in Paths
  BY ChildrenAre
<1>3. \A y \in Paths : u[y] \in Items \cup {Absent}
  BY DEF TreeOK
<1> QED BY <1>1, <1>2, <1>3 DEF Elems

LEMMA ServesLookState == ASSUME StateOK, NEW t \in Tasks, ServeList(t) \/ ServeLink(t) PROVE StateOK'
<1> DEFINE c == task[t]
           p == c.path
           good == IF c.op = "list" THEN Is(tree, p, "dir") ELSE Target(tree, p) # Absent
           value == IF c.op = "list" THEN List(tree, p) ELSE Target(tree, p)
           x == task'[t]
<1>1. /\ IsRecord(c) /\ Looks(c) /\ c.at = "send" /\ c.op \in {"list", "readlink"} /\ Only(t)
      /\ UNCHANGED <<tree, cache, handles, changes, track>>
      /\ \/ good /\ Moves(x, c, "reply", c.todo, c.after, c.own, "done", value)
         \/ ~good /\ Moves(x, c, "answer", c.todo, c.after, c.own, "refused", c.value)
  BY ServesLookIs DEF StateOK
<1>2. /\ p \in Paths /\ c.todo \in Seq(Paths) /\ c.after = "answer" /\ c.own \in Nat \cup {NoInfo}
      /\ "answer" \in Places /\ "reply" \in Places /\ "refused" \in Results /\ "done" \in Results
  BY <1>1 DEF IsRecord, Places, Results, Looks
<1>3. good => (c.op = "list" => Elems(value)) /\ (c.op = "readlink" => value \in Nat)
  <2>1. ASSUME c.op = "list" PROVE Elems(value)
    BY <1>2, <2>1, ElemsList DEF StateOK
  <2>2. ASSUME c.op = "readlink", good PROVE value \in Nat
    <3>1. tree[p] \in Items \cup {Absent}
      BY <1>2 DEF StateOK, TreeOK
    <3>2. value = Target(tree, p) /\ Target(tree, p) # Absent
      BY <2>2
    <3>3. tree[p] # Absent /\ value = tree[p].id
      BY <3>2 DEF Target, Is
    <3> QED BY <3>1, <3>3 DEF Items
  <2> QED BY <2>1, <2>2
<1> HIDE DEF c, x, good, value
<1>4. IsRecord(x)
  BY <1>1, <1>2, MovesOK
<1>5. /\ x.op = c.op /\ x.after = "answer" /\ x.at \in {"reply", "answer"}
      /\ x.at = "reply" => good /\ x.result = "done" /\ x.value = value
      /\ x.result \in {"done", "refused"}
  BY <1>1, <1>2, MovesIs
<1>6. Looks(x) /\ x.op \in Looking
  BY <1>1, <1>3, <1>5 DEF Looks, Looking
<1>7. TaskOK(x)
  BY <1>4, <1>6, LookingOK
<1> QED BY <1>1, <1>7, LooksStateOK DEF x

LEMMA ListedState == ASSUME StateOK, NEW t \in Tasks, Listed(t) PROVE StateOK'
<1> DEFINE c == task[t]
           todo == <<c.path>>
           x == task'[t]
<1>1. /\ IsRecord(c) /\ Looks(c) /\ c.at = "reply" /\ c.op = "list" /\ Only(t)
      /\ UNCHANGED <<tree, cache, handles, changes, track>>
      /\ Moves(x, c, "attrs", todo, "store", c.own, c.result, c.value)
  BY ListedIs DEF StateOK
<1>2. /\ c.path \in Paths /\ c.own \in Nat \cup {NoInfo} /\ c.result \in Results
      /\ "attrs" \in Places /\ Elems(c.value)
  BY <1>1 DEF IsRecord, Places, Looks
<1>3. todo \in Seq(Paths) /\ todo # << >>
  BY <1>2, OneIs
<1> HIDE DEF c, x, todo
<1>4. IsRecord(x)
  BY <1>1, <1>2, <1>3, MovesOK
<1>5. x.op = "list" /\ x.at = "attrs" /\ x.todo = todo /\ x.value = c.value
  BY <1>1, MovesIs
<1>6. Looks(x) /\ x.op \in Looking
  BY <1>2, <1>3, <1>5 DEF Looks, Looking
<1>7. TaskOK(x)
  BY <1>4, <1>6, LookingOK
<1> QED BY <1>1, <1>7, LooksStateOK DEF x

LEMMA StoreListState == ASSUME StateOK, NEW t \in Tasks, StoreList(t) PROVE StateOK'
<1> DEFINE c == task[t]
           p == c.path
           elems == c.value
           own == Entry("dir", c.own, DOMAIN elems)
           x == task'[t]
<1>1. /\ IsRecord(c) /\ Looks(c) /\ c.at = "store" /\ c.op = "list" /\ Only(t)
      /\ UNCHANGED <<tree, handles, changes, track>>
      /\ cache' = [y \in Paths |->
            IF y = p THEN PutIn(cache, y, own)[y]
            ELSE IF y \in DOMAIN elems
            THEN PutIn(cache, y, Entry(elems[y].kind, elems[y].id, NoInfo))[y]
            ELSE cache[y]]
      /\ Moves(x, c, "attrs", Dots(p), "answer", c.own, c.result, c.value)
  BY StoreListIs DEF StateOK
<1>2. /\ p \in Paths /\ c.own \in Nat \cup {NoInfo} /\ c.result \in Results
      /\ "attrs" \in Places /\ Elems(elems)
  BY <1>1 DEF IsRecord, Places, Looks
<1>3. Dots(p) \in Seq(Paths) /\ Dots(p) # << >>
  BY <1>2, DotsIs
<1>4. EntryOK(own)
  <2>1. \A y \in DOMAIN elems : y \in Seq(Components)
    BY <1>2, PathIsSeq DEF Elems
  <2>2. "dir" \in Kinds
    BY DEF Kinds
  <2> HIDE DEF elems
  <2> QED BY <1>2, <2>1, <2>2, EntryTyped
<1>5. ASSUME NEW y \in DOMAIN elems
      PROVE  EntryOK(Entry(elems[y].kind, elems[y].id, NoInfo))
  <2>1. elems[y].kind \in Kinds /\ elems[y].id \in Nat
    BY <1>2, <1>5 DEF Elems, Items
  <2> QED BY <2>1, EntryTyped
<1> HIDE DEF c, x, p, elems, own
<1>6. CacheIs(cache')
  <2>1. \A y \in DOMAIN elems : y \in Paths
    BY <1>2 DEF Elems
  <2>2. EntryOK(PutIn(cache, p, own)[p])
    BY <1>2, <1>4, PutInTyped DEF StateOK
  <2>3. \A y \in DOMAIN elems : EntryOK(PutIn(cache, y, Entry(elems[y].kind, elems[y].id, NoInfo))[y])
    BY <1>5, <2>1, PutInTyped DEF StateOK
  <2> QED BY <1>1, <2>2, <2>3 DEF CacheIs, StateOK
<1>7. IsRecord(x)
  BY <1>1, <1>2, <1>3, MovesOK
<1>8. x.op = "list" /\ x.at = "attrs" /\ x.todo = Dots(p) /\ x.value = elems
  BY <1>1, MovesIs DEF elems
<1>9. Looks(x) /\ x.op \in Looking
  BY <1>2, <1>3, <1>8 DEF Looks, Looking
<1>10. TasksOK'
  BY <1>1, <1>7, <1>9, LookingOK, OneTask DEF StateOK, x
<1> QED BY <1>1, <1>6, <1>10 DEF StateOK, HandlesOK, CacheIs, track

LEMMA StoreLinkState == ASSUME StateOK, NEW t \in Tasks, StoreLink(t) PROVE StateOK'
<1> DEFINE c == task[t]
           x == task'[t]
<1>1. /\ IsRecord(c) /\ Looks(c) /\ c.at = "reply" /\ c.op = "readlink" /\ Only(t)
      /\ UNCHANGED <<tree, handles, changes, track>>
      /\ cache' = PutIn(cache, c.path, Entry("link", NoInfo, c.value))
      /\ Moves(x, c, "answer", c.todo, c.after, c.own, c.result, c.value)
  BY StoreLinkIs DEF StateOK, Turns
<1>2. /\ c.path \in Paths /\ c.own \in Nat \cup {NoInfo} /\ c.result \in Results /\ c.after = "answer"
      /\ "answer" \in Places /\ c.value \in Nat /\ c.todo \in Seq(Paths) /\ "link" \in Kinds
      /\ c.result = "done"
  BY <1>1 DEF IsRecord, Places, Looks, Kinds
<1> HIDE DEF c, x
<1>3. CacheIs(cache')
  BY <1>1, <1>2, EntryTyped, PutInTyped DEF StateOK
<1>4. IsRecord(x)
  BY <1>1, <1>2, MovesOK
<1>5. x.op = "readlink" /\ x.at = "answer" /\ x.after = c.after /\ x.result = c.result
  BY <1>1, MovesIs
<1>6. Looks(x) /\ x.op \in Looking
  BY <1>2, <1>5 DEF Looks, Looking
<1>7. TasksOK'
  BY <1>1, <1>4, <1>6, LookingOK, OneTask DEF StateOK, x
<1> QED BY <1>1, <1>3, <1>7 DEF StateOK, HandlesOK, CacheIs, track

----------------------------------------------------------------------------
(* A call that changes *)

LEMMA ChangingOK ==
    ASSUME NEW x, IsRecord(x), x.op \in Mutations, Counted(x) PROVE TaskOK(x) /\ CallOK(x)
BY Disjoint DEF TaskOK, CallOK, IsRecord

\* Its answer reaches the cache.
LEMMA LearnsCache ==
    ASSUME StateOK, NEW t \in Tasks, IsRecord(task[t]), Learns(t) PROVE CacheIs(cache') /\ untold' \subseteq Paths
<1> DEFINE c == task[t]
           p == c.path
           q == c.to
<1>1. /\ p \in Paths /\ q \in Paths /\ c.own \in Nat \cup {NoInfo}
      /\ Below[p] \subseteq Paths /\ Below[q] \subseteq Paths /\ Up[q] \in Paths
  BY BelowOrder, UpIs DEF IsRecord
<1>2. CacheIs(cache) /\ untold \subseteq Paths
  BY DEF StateOK
<1>3. "file" \in Kinds /\ "dir" \in Kinds /\ "link" \in Kinds
  BY DEF Kinds
<1>4. CASE MadeFile(t)
  <2>1. cache' = PutNew(cache, p, Entry("file", c.own, NoInfo)) /\ untold' = untold \ {p}
    BY <1>4 DEF MadeFile, Made, Told
  <2>2. EntryOK(Entry("file", c.own, NoInfo))
    <3> HIDE DEF c
    <3> QED BY <1>1, <1>3, EntryTyped
  <2> HIDE DEF c
  <2> QED BY <1>1, <1>2, <2>1, <2>2, PutNewTyped
<1>5. CASE MadeDir(t)
  <2>1. cache' = PutNew(cache, p, Entry("dir", c.own, {})) /\ untold' = untold \ {p}
    BY <1>5 DEF MadeDir, Made, Told
  <2>2. EntryOK(Entry("dir", c.own, {}))
    <3> HIDE DEF c
    <3> QED BY <1>1, <1>3, EntryTyped
  <2> HIDE DEF c
  <2> QED BY <1>1, <1>2, <2>1, <2>2, PutNewTyped
<1>6. CASE MadeLink(t)
  <2>1. cache' = PutNew(cache, p, Entry("link", c.own, c.own)) /\ untold' = untold \ {p}
    BY <1>6 DEF MadeLink, Made, Told
  <2>2. EntryOK(Entry("link", c.own, c.own))
    <3> HIDE DEF c
    <3> QED BY <1>1, <1>3, EntryTyped
  <2> HIDE DEF c
  <2> QED BY <1>1, <1>2, <2>1, <2>2, PutNewTyped
<1>7. CASE Removed(t)
  BY <1>1, <1>2, <1>7, RemoveTyped DEF Removed, Told
<1>8. CASE Exchanged(t)
  <2>1. cache' = RemoveFrom(RemoveFrom(cache, p), q) /\ untold' = untold \cup Below[p] \cup Below[q]
    BY <1>8 DEF Exchanged, Told
  <2>2. CacheIs(RemoveFrom(cache, p))
    BY <1>1, <1>2, RemoveTyped
  <2> HIDE DEF p, q
  <2> QED BY <1>1, <1>2, <2>1, <2>2, RemoveTyped
<1>9. CASE Renamed(t)
  <2> DEFINE known == cache[p] # NoEntry
             bare == RemoveFrom(cache, p)
             moved == IF known THEN PutNew(bare, q, Carried(cache[p], p, q)) ELSE bare
             target == IF known THEN IF p \in untold THEN {q} ELSE {} ELSE {q, Up[q]}
  <2>1. /\ cache' = moved
        /\ untold' = (untold \ (IF known THEN {q} ELSE {})) \cup Below[p] \cup Below[q] \cup target
    BY <1>9 DEF Renamed, Told
  <2>2. target \subseteq Paths
    BY <1>1
  <2>3. CacheIs(bare)
    BY <1>1, <1>2, RemoveTyped
  <2>4. known => EntryOK(Carried(cache[p], p, q))
    BY <1>1, <1>2, CarriedTyped DEF CacheIs
  <2> HIDE DEF p, q, bare, target, known
  <2>5. CacheIs(moved)
    BY <1>1, <2>3, <2>4, PutNewTyped
  <2> HIDE DEF moved
  <2> QED BY <1>1, <1>2, <2>1, <2>2, <2>5
<1> QED BY <1>4, <1>5, <1>6, <1>7, <1>8, <1>9 DEF Learns

LEMMA AnsweredState == ASSUME StateOK, NEW t \in Tasks, Refused(t) \/ Learns(t) PROVE StateOK'
<1> DEFINE c == task[t]
           x == task'[t]
<1>1. /\ IsRecord(c) /\ CallOK(c) /\ c.at = "reply" /\ c.op \in Mutations /\ Only(t)
      /\ Moves(x, c, "answer", c.todo, c.after, c.own, c.result, c.value)
      /\ UNCHANGED <<tree, handles, changes, overlapped, scope>>
      /\ Refused(t) => UNCHANGED <<cache, untold>>
      /\ c.result \in {"done", "refused"}
  BY AnsweredIs DEF StateOK, Turns
<1>2. CacheIs(cache') /\ untold' \subseteq Paths
  BY <1>1, LearnsCache DEF StateOK
<1>3. /\ c.own \in Nat \cup {NoInfo} /\ c.result \in Results /\ c.after \in {"answer", "store"}
      /\ "answer" \in Places /\ c.todo \in Seq(Paths) /\ c.lost \in Nat /\ c.tries \in Nat
  BY <1>1, RetriesAssumption DEF IsRecord, Places
<1> HIDE DEF c, x
<1>4. IsRecord(x)
  BY <1>1, <1>3, MovesOK
<1>5. /\ x.op = c.op /\ x.at = "answer" /\ x.effects = c.effects /\ x.lost = c.lost /\ x.tries = c.tries
      /\ x.result = c.result
  BY <1>1, MovesIs
<1>6. Counted(x)
  BY <1>1, <1>3, <1>5 DEF CallOK, Counted
<1>7. TasksOK'
  BY <1>1, <1>4, <1>5, <1>6, ChangingOK, OneTask DEF StateOK, x
<1> QED BY <1>1, <1>2, <1>7 DEF StateOK, HandlesOK, CacheIs

LEMMA ServeState ==
    ASSUME StateOK, NEW t \in Tasks, Serve(t)
    PROVE  StateOK' /\ \A y \in Paths \ Touched(task[t].op, task[t].path, task[t].to) : tree'[y] = tree[y]
<1> DEFINE c == task[t]
           changed == Trees(tree, c.op, c.path, c.to, changes + 1)
           half == IF c.op = "exchange" THEN HalfExchange(tree, c.path, c.to) ELSE {}
           effects == IF changed \cup half # {} THEN c.effects + 1 ELSE c.effects
           x == task'[t]
<1>1. /\ IsRecord(c) /\ Counted(c) /\ c.at = "send" /\ c.op \in Mutations /\ Only(t)
      /\ tree' \in IF changed # {} THEN changed ELSE IF half # {} THEN half ELSE {tree}
      /\ changes' = IF tree' # tree THEN changes + 1 ELSE changes
      /\ UNCHANGED <<cache, handles, track>>
  BY ServeIs DEF StateOK
<1>0. PICK result \in {"done", "refused", "error"} :
        /\ result = "refused" <=> changed = {}
        /\ Becomes(x, c, "reply", c.todo, c.after,
                   IF c.op \in Creations /\ result = "done" THEN tree'[c.path].id ELSE NoInfo,
                   result, c.value, c.tries, effects, c.lost)
  BY ServeIs DEF StateOK
<1> DEFINE own == IF c.op \in Creations /\ result = "done" THEN tree'[c.path].id ELSE NoInfo
<1>2. c.path \in Paths /\ c.to \in Paths /\ changes + 1 \in Nat
  BY <1>1 DEF IsRecord, StateOK
<1>3. TreeOK(tree') /\ \A y \in Paths \ Touched(c.op, c.path, c.to) : tree'[y] = tree[y]
  <2>1. CASE tree' = tree
    BY <2>1 DEF StateOK
  <2>2. CASE tree' \in changed \/ (c.op = "exchange" /\ tree' \in half)
    <3>1. tree' \in changed \/ (c.op = "exchange" /\ tree' \in HalfExchange(tree, c.path, c.to))
      BY <2>2
    <3>2. TreeOK(tree)
      BY DEF StateOK
    <3> HIDE DEF c
    <3> QED BY <1>1, <1>2, <3>1, <3>2, TreesOK
  <2> QED BY <1>1, <2>1, <2>2
<1>4. own \in Nat \cup {NoInfo}
  <2> SUFFICES ASSUME c.op \in Creations, result = "done" PROVE tree'[c.path].id \in Nat
    OBVIOUS
  <2>1. tree' \in changed
    BY <1>0, <1>1
  <2>2. tree'[c.path] # Absent
    <3> HIDE DEF c
    <3>2. ASSUME NEW kind \in Kinds PROVE Put(tree, c.path, Item(kind, changes + 1))[c.path] # Absent
      BY <1>2, ItemIs, PutIs DEF StateOK, TreeOK
    <3>3. (tree' = tree /\ Is(tree, c.path, "file")) \/ \E kind \in Kinds : tree' = Put(tree, c.path, Item(kind, changes + 1))
      BY <2>1 DEF changed, Trees, MakeDir, MakeLink, Touch, Creations, Kinds
    <3> QED BY <3>2, <3>3 DEF Is
  <2>3. tree'[c.path] \in Items
    BY <1>2, <1>3, <2>2 DEF TreeOK
  <2> QED BY <2>3 DEF Items
<1>5. /\ c.todo \in Seq(Paths) /\ c.after \in {"answer", "store"} /\ c.tries \in 0 .. Retries
      /\ c.effects \in Nat /\ c.lost \in Nat /\ effects \in Nat
      /\ "reply" \in Places /\ result \in Results
  BY <1>0, <1>1 DEF IsRecord, Places, Results
<1>6. /\ c.effects <= c.lost /\ effects <= c.lost + 1 /\ c.lost <= c.tries
      /\ result = "done" => effects > 0
      /\ result = "refused" => effects = 0 \/ c.lost > 0 \/ c.op = "exchange"
  <2>1. c.effects <= c.lost /\ c.lost <= c.tries
    BY <1>1 DEF Counted
  <2>2. effects \in {c.effects, c.effects + 1} /\ (result = "done" => effects = c.effects + 1)
    BY <1>0
  <2>3. result = "refused" /\ c.op # "exchange" => effects = c.effects
    BY <1>0
  <2> HIDE DEF effects, c
  <2>4. effects <= c.lost + 1 /\ (result = "done" => effects > 0)
    BY <1>5, <2>1, <2>2
  <2>5. result = "refused" => effects = 0 \/ c.lost > 0 \/ c.op = "exchange"
    BY <1>5, <2>1, <2>3
  <2> QED BY <2>1, <2>4, <2>5
<1> HIDE DEF c, changed, half, own, effects, x
<1>7. IsRecord(x)
  BY <1>0, <1>1, <1>4, <1>5, BecomesOK DEF own
<1>8. /\ x.op = c.op /\ x.at = "reply" /\ x.effects = effects /\ x.lost = c.lost /\ x.tries = c.tries
      /\ x.result = result
  BY <1>0, BecomesIs
<1>9. Counted(x)
  BY <1>0, <1>5, <1>6, <1>8 DEF Counted
<1>10. TasksOK'
  BY <1>1, <1>7, <1>8, <1>9, ChangingOK, OneTask DEF StateOK, x
<1>11. changes' \in Nat
  BY <1>1, <1>2 DEF StateOK
<1> QED BY <1>1, <1>3, <1>10, <1>11 DEF StateOK, HandlesOK, CacheIs, TreeOK, track, c

LEMMA AgainLooks ==
    ASSUME NEW c, IsRecord(c), Looks(c), c.op \in Looking, c.at \in {"send", "ask", "reply"}, NEW x, Loses(x, c)
    PROVE  TaskOK(x)
<1> DEFINE at == IF c.at = "ask" THEN "ask" ELSE "send"
           lost == Unsaid(c)
           tries == c.tries + 1
<1>1. \/ c.tries < Retries /\ Becomes(x, c, at, c.todo, c.after, c.own, c.result, c.value, tries, c.effects, lost)
      \/ Becomes(x, c, "answer", c.todo, c.after, c.own, "failed", c.value, c.tries, c.effects, lost)
  BY DEF Loses
<1>2. /\ c.todo \in Seq(Paths) /\ c.after \in {"answer", "store"} /\ c.own \in Nat \cup {NoInfo}
      /\ c.tries \in 0 .. Retries /\ c.effects \in Nat /\ lost \in Nat /\ c.result \in Results
      /\ "answer" \in Places /\ at \in Places /\ "failed" \in Results
  BY DEF IsRecord, Places, Results, Unsaid
<1>3. c.tries < Retries => tries \in 0 .. Retries
  BY <1>2, RetriesAssumption
<1>4. at \in {"ask", "send"} /\ (at = "ask" <=> c.at = "ask")
  OBVIOUS
<1> HIDE DEF at, lost, tries
<1>5. IsRecord(x)
  BY <1>1, <1>2, <1>3, BecomesOK
<1>6. /\ x.op = c.op /\ x.at \in {at, "answer"} /\ x.after = c.after /\ x.todo = c.todo /\ x.value = c.value
      /\ x.at = at \/ x.result = "failed"
  BY <1>1, BecomesIs
<1>7. Looks(x)
  BY <1>4, <1>6 DEF Looks, Looking
<1> QED BY <1>5, <1>6, <1>7, LookingOK

LEMMA AgainChanges ==
    ASSUME NEW c, IsRecord(c), Counted(c), c.op \in Mutations, c.at \in {"send", "ask", "reply"}, NEW x, Loses(x, c)
    PROVE  TaskOK(x)
<1> DEFINE at == IF c.at = "ask" THEN "ask" ELSE "send"
           lost == Unsaid(c)
           tries == c.tries + 1
<1>1. \/ c.tries < Retries /\ Becomes(x, c, at, c.todo, c.after, c.own, c.result, c.value, tries, c.effects, lost)
      \/ Becomes(x, c, "answer", c.todo, c.after, c.own, "failed", c.value, c.tries, c.effects, lost)
  BY DEF Loses
<1>2. /\ c.todo \in Seq(Paths) /\ c.after \in {"answer", "store"} /\ c.own \in Nat \cup {NoInfo}
      /\ c.tries \in 0 .. Retries /\ c.effects \in Nat /\ c.lost \in Nat /\ lost \in Nat /\ c.result \in Results
      /\ "answer" \in Places /\ at \in Places /\ "failed" \in Results
  BY DEF IsRecord, Places, Results, Unsaid
<1>3. c.tries < Retries => tries \in 0 .. Retries
  BY <1>2, RetriesAssumption
<1>4. at = "send" /\ c.effects <= lost /\ lost <= tries /\ tries \in Nat
  BY <1>2 DEF Counted, Unsaid
<1> HIDE DEF at, lost, tries
<1>5. IsRecord(x)
  BY <1>1, <1>2, <1>3, BecomesOK
<1>6. CASE Becomes(x, c, at, c.todo, c.after, c.own, c.result, c.value, tries, c.effects, lost)
  <2>1. x.at = at /\ x.op = c.op /\ x.tries = tries /\ x.effects = c.effects /\ x.lost = lost
    BY <1>6, BecomesIs
  <2>2. Counted(x)
    BY <1>2, <1>4, <2>1 DEF Counted
  <2> QED BY <1>5, <2>1, <2>2, ChangingOK
<1>7. CASE Becomes(x, c, "answer", c.todo, c.after, c.own, "failed", c.value, c.tries, c.effects, lost)
  <2>1. /\ x.at = "answer" /\ x.op = c.op /\ x.tries = c.tries /\ x.effects = c.effects /\ x.lost = lost
        /\ x.result = "failed"
    BY <1>7, BecomesIs
  <2>2. tries = c.tries + 1
    BY DEF tries
  <2>3. Counted(x)
    BY <1>2, <1>4, <2>1, <2>2 DEF Counted
  <2> QED BY <1>5, <2>1, <2>3, ChangingOK
<1> QED BY <1>1, <1>6, <1>7

LEMMA LoseState == ASSUME StateOK, NEW t \in Tasks, Lose(t) PROVE StateOK'
<1>1. /\ Only(t) /\ UNCHANGED <<tree, cache, handles, changes, track>>
      /\ \/ /\ task[t].at = "told" /\ task[t].call.at = "ask"
            /\ IsRecord(task[t].call) /\ Looks(task[t].call) /\ task[t].call.op \in Looking
            /\ Loses(task'[t], task[t].call)
         \/ task[t].at \in {"send", "ask", "reply"} /\ CallOK(task[t]) /\ Loses(task'[t], task[t])
  BY LoseIs DEF StateOK
<1>2. CASE task[t].at = "told"
  <2>1. TaskOK(task'[t])
    BY <1>1, <1>2, AgainLooks
  <2> QED BY <1>1, <2>1, LooksStateOK
<1>3. CASE task[t].at # "told"
  <2>1. task[t].op \in Mutations \cup Looking
    BY <1>1, <1>3 DEF CallOK, IsRecord
  <2>2. TaskOK(task'[t])
    BY <1>1, <1>3, <2>1, AgainLooks, AgainChanges DEF CallOK
  <2> QED BY <1>1, <2>2, LooksStateOK
<1> QED BY <1>2, <1>3

----------------------------------------------------------------------------
(* The start and the end of a call *)

LEMMA Ops ==
    /\ {"mkdir", "symlink", "create", "remove", "rename", "noreplace", "exchange"} \subseteq Mutations \cup Looking
    /\ {"stat", "list", "readlink"} \subseteq Mutations \cup Looking
BY DEF Mutations, Looking

LEMMA CallIs ==
    ASSUME NEW op \in Mutations \cup Looking, NEW p \in Paths, NEW q \in Paths, NEW then \in {"reply", "open", "missing"}
    PROVE  LET x == Call(Request(op, p, q), then)
           IN  /\ TaskOK(x) /\ CallOK(x) /\ x.op = op /\ x.path = p /\ x.to = q /\ x.then = then
               /\ x.at = (IF op = "stat" THEN "attrs" ELSE IF op \in Looking THEN "look" ELSE "send")
               /\ x.todo = (IF op = "stat" THEN <<p>> ELSE << >>) /\ x.after = "answer"
               /\ x.result = "none" /\ x.effects = 0 /\ x # Idle
<1> DEFINE x == Call(Request(op, p, q), then)
           first == First(op)
           todo == IF op = "stat" THEN <<p>> ELSE <<>>
<1>1. first = (IF op = "stat" THEN "attrs" ELSE IF op \in Looking THEN "look" ELSE "send")
  BY DEF First, Looking, Mutations
<1> HIDE DEF first
<1>2. x = [at |-> first, op |-> op, path |-> p, to |-> q, then |-> then,
           todo |-> todo, after |-> "answer", own |-> NoInfo, result |-> "none", value |-> NoInfo,
           tries |-> 0, effects |-> 0, lost |-> 0]
  BY DEF Call, Request, first
<1>3. todo \in Seq(Paths) /\ (op = "stat" => todo # << >>)
  BY OneIs
<1>4. first \in Places /\ 0 \in 0 .. Retries /\ first \in {"attrs", "look", "send"} /\ "none" \in Results
  BY <1>1, RetriesAssumption DEF Places, Results
<1> HIDE DEF x, todo
<1>5. IsRecord(x)
  BY <1>2, <1>3, <1>4 DEF IsRecord
<1>6. op \in Mutations => Counted(x)
  BY <1>1, <1>2, Disjoint DEF Counted, Looking
<1>7. op \in Looking => Looks(x)
  BY <1>1, <1>2, <1>3, Disjoint DEF Looks, Looking
<1>8. TaskOK(x) /\ CallOK(x)
  BY <1>2, <1>5, <1>6, <1>7, LookingOK, ChangingOK
<1>9. x # Idle
  BY <1>2, <1>4 DEF Idle
<1> QED BY <1>1, <1>2, <1>8, <1>9 DEF x, todo

\* At most one entry of the cache has been dropped.
Dropped == cache' = cache \/ \E p \in Paths : cache' = [cache EXCEPT ![p] = NoEntry]

\* A handler starts a call.
Starts(t) ==
    /\ Dropped /\ HandlesOK'
    /\ \E op \in Mutations \cup Looking, p, q \in Paths, then \in {"reply", "open", "missing"} :
         /\ Begin(t, Request(op, p, q), then)
         /\ op \in {"rename", "noreplace"} => Fits(tree, p, q)

\* Nothing happens but to the handles and to an entry that is forgotten.
Rests ==
    /\ Dropped /\ HandlesOK' /\ UNCHANGED <<tree, task, track>>
    /\ changes' \in {changes, changes + 1}

LEMMA ClosedOK == Closed \in [path : Paths, delete : BOOLEAN, open : BOOLEAN]
BY PathsAssumption DEF Closed

LEMMA HandOutOK ==
    ASSUME HandlesOK, NEW p \in Paths
    PROVE  HandOut(p) \in [Numbers -> [path : Paths, delete : BOOLEAN, open : BOOLEAN]]
BY DEF HandlesOK, HandOut

LEMMA Starting ==
    ASSUME HandlesOK, NEW t \in Tasks, NEW op \in Mutations \cup Looking, NEW p \in Paths, NEW q \in Paths,
           NEW then \in {"reply", "open", "missing"}, Begin(t, Request(op, p, q), then), UNCHANGED <<cache, handles>>,
           op \in {"rename", "noreplace"} => Fits(tree, p, q)
    PROVE  Starts(t)
BY DEF Starts, HandlesOK, Dropped

LEMMA HandlerIs == ASSUME HandlesOK, NEW t \in Tasks, Handler(t) PROVE Starts(t)
<1>1. ASSUME NEW p \in Paths, Lookup(t, p) \/ ReadDir(t, p) \/ ReadLink(t, p)
      PROVE  Starts(t)
  <2>1. \E op \in {"stat", "list", "readlink"} : Plainly(t, Request(op, p, p))
    BY <1>1 DEF Lookup, ReadDir, ReadLink
  <2> QED BY <2>1, Ops, Starting DEF Plainly
<1>2. ASSUME NEW p \in Paths, MkNod(t, p) \/ MkDir(t, p) \/ Symlink(t, p) \/ RmDir(t, p) \/ Unlink(t, p)
      PROVE  Starts(t)
  <2>1. \E op \in {"create", "mkdir", "symlink", "remove"} : Plainly(t, Request(op, p, p))
    BY <1>2 DEF MkNod, MkDir, Symlink, RmDir, Unlink
  <2> QED BY <2>1, Ops, Starting DEF Plainly
<1>3. ASSUME NEW p \in Paths, CreateAndOpen(t, p) PROVE Starts(t)
  <2>1. Begin(t, Request("create", p, p), "open") /\ UNCHANGED <<cache, handles>>
    BY <1>3 DEF CreateAndOpen
  <2> QED BY <2>1, Ops, Starting
<1>4. ASSUME NEW p \in Paths, NEW q \in Paths, NEW op \in {"rename", "noreplace", "exchange"}, Rename2(t, p, q, op)
      PROVE  Starts(t)
  <2>1. Plainly(t, Request(op, p, q)) /\ op \in Mutations \cup Looking /\ Fits(tree, p, q)
    BY <1>4, Ops DEF Rename2
  <2> QED BY <2>1, Starting DEF Plainly
<1>5. ASSUME NEW h \in Numbers, GetAttr(t, h) PROVE Starts(t)
  <2>1. handles[h].path \in Paths
    BY DEF HandlesOK
  <2>2. Plainly(t, Request("stat", handles[h].path, handles[h].path))
    BY <1>5 DEF GetAttr
  <2> QED BY <2>1, <2>2, Ops, Starting DEF Plainly
<1> QED BY <1>1, <1>2, <1>3, <1>4, <1>5 DEF Handler

LEMMA CallbackIs == ASSUME HandlesOK, NEW t \in Tasks, Callback(t) PROVE Starts(t) \/ Rests
<1>1. ASSUME NEW p \in Paths, WinOpen(t, p) \/ WinCreateDir(t, p) \/ WinCreateLink(t, p) \/ WinCreateFile(t, p)
      PROVE  Starts(t)
  <2>1. /\ UNCHANGED <<cache, handles>>
        /\ \E op \in {"stat", "mkdir", "symlink", "create"} : Begin(t, Request(op, p, p), "open")
    BY <1>1 DEF WinOpen, WinCreateDir, WinCreateLink, WinCreateFile, Opens, Request
  <2> QED BY <2>1, Ops, Starting
<1>2. ASSUME NEW h \in Numbers PROVE handles[h].path \in Paths
  BY DEF HandlesOK
<1>3. ASSUME NEW h \in Numbers, WinStat(t, h) \/ WinList(t, h) PROVE Starts(t)
  <2>1. \E op \in {"stat", "list"} : Plainly(t, Request(op, handles[h].path, handles[h].path))
    BY <1>3 DEF WinStat, WinList
  <2> QED BY <1>2, <2>1, Ops, Starting DEF Plainly
<1>4. ASSUME NEW h \in Numbers, WinWrite(t, h) PROVE Starts(t)
  <2>1. Begin(t, Request("stat", handles[h].path, handles[h].path), "missing") /\ UNCHANGED <<cache, handles>>
    BY <1>4 DEF WinWrite
  <2> QED BY <1>2, <2>1, Ops, Starting
<1>5. ASSUME NEW h \in Numbers, NEW q \in Paths, NEW op \in {"rename", "noreplace"}, WinRename(t, h, q, op)
      PROVE  Starts(t)
  <2>1. Plainly(t, Request(op, handles[h].path, q)) /\ op \in Mutations \cup Looking /\ Fits(tree, handles[h].path, q)
    BY <1>5, Ops DEF WinRename
  <2> QED BY <1>2, <2>1, Starting DEF Plainly
<1>6. ASSUME NEW h \in Numbers, Cleanup(t, h) PROVE Starts(t) \/ Rests
  <2> DEFINE p == handles[h].path
  <2>1. /\ p \in Paths /\ (UNCHANGED cache \/ \E name \in Paths : cache' = [cache EXCEPT ![name] = NoEntry])
        /\ handles' = [handles EXCEPT ![h] = Closed]
        /\ Begin(t, Request("remove", p, p), "reply") \/ UNCHANGED <<tree, task, changes, track>>
    BY <1>2, <1>6 DEF Cleanup
  <2>2. Dropped /\ HandlesOK'
    BY <2>1, ClosedOK DEF HandlesOK, Dropped
  <2>3. CASE Begin(t, Request("remove", p, p), "reply")
    <3> HIDE DEF p
    <3> QED BY <2>1, <2>2, <2>3, Ops DEF Starts
  <2>4. CASE UNCHANGED <<tree, task, changes, track>>
    BY <2>2, <2>4 DEF Rests
  <2> QED BY <2>1, <2>3, <2>4
<1> QED BY <1>1, <1>3, <1>4, <1>5, <1>6 DEF Callback

\* A handle is opened, closed or marked.
LEMMA HandlesIs ==
    ASSUME HandlesOK, UNCHANGED <<tree, cache, task, changes, track>>,
           handles' = handles \/ (\E p \in Paths : handles' = HandOut(p))
             \/ (\E h \in Numbers, x \in [path : Paths, delete : BOOLEAN, open : BOOLEAN] :
                   handles' = [handles EXCEPT ![h] = x])
    PROVE  Rests
<1>1. HandlesOK'
  BY HandOutOK DEF HandlesOK
<1> QED BY <1>1 DEF Rests, Dropped

LEMMA NextIs ==
    ASSUME HandlesOK, [Next]_vars
    PROVE  \/ \E t \in Tasks : Starts(t) \/ Step(t)
           \/ Rests
<1>2. ASSUME NEW p \in Paths, OpenFile(p) \/ OpenDir(p) \/ WinCreateNothing(p) PROVE Rests
  <2>1. JustOpen(p)
    BY <1>2 DEF OpenFile, OpenDir, WinCreateNothing
  <2> QED BY <2>1, HandlesIs DEF JustOpen
<1>3. ASSUME NEW p \in Paths, Forget(p) PROVE Rests
  BY <1>3 DEF Forget, Rests, Dropped, HandlesOK
<1>4. ASSUME NEW h \in Numbers, Release(h) PROVE Rests
  <2>1. handles' = [handles EXCEPT ![h] = Closed] /\ UNCHANGED <<tree, cache, task, changes, track>>
    BY <1>4 DEF Release, SetHandle
  <2> QED BY <2>1, ClosedOK, HandlesIs
<1>5. ASSUME NEW h \in Numbers, NEW flag \in BOOLEAN, SetDelete(h, flag) PROVE Rests
  <2> DEFINE x == [handles[h] EXCEPT !.delete = flag]
  <2>1. handles' = [handles EXCEPT ![h] = x] /\ UNCHANGED <<tree, cache, task, changes, track>>
    BY <1>5 DEF SetDelete, SetHandle
  <2>2. x \in [path : Paths, delete : BOOLEAN, open : BOOLEAN]
    BY DEF HandlesOK
  <2> HIDE DEF x
  <2> QED BY <2>1, <2>2, HandlesIs
<1>6. CASE UNCHANGED vars
  BY <1>6, HandlesIs DEF vars
<1> QED BY <1>2, <1>3, <1>4, <1>5, <1>6, HandlerIs, CallbackIs DEF Next

----------------------------------------------------------------------------

LEMMA DroppedTyped == ASSUME CacheIs(cache), Dropped PROVE CacheIs(cache')
BY DEF CacheIs, Dropped

LEMMA StartsState == ASSUME StateOK, NEW t \in Tasks, Starts(t) PROVE StateOK'
<1>1. PICK op \in Mutations \cup Looking, p \in Paths, q \in Paths, then \in {"reply", "open", "missing"} :
         Begin(t, Request(op, p, q), then)
  BY DEF Starts
<1>2. /\ Goto(t, Call(Request(op, p, q), then)) /\ UNCHANGED <<tree, changes>> /\ untold' = Cached(untold)
  BY <1>1 DEF Begin
<1>3. TasksOK'
  <2> DEFINE x == Call(Request(op, p, q), then)
  <2>1. TaskOK(x)
    BY CallIs
  <2> HIDE DEF x
  <2>2. Goto(t, x)
    BY <1>2 DEF x
  <2> QED BY <2>1, <2>2, GotoOnly, OneTask DEF StateOK
<1>4. CacheIs(cache') /\ HandlesOK'
  BY DroppedTyped DEF Starts, StateOK
<1>5. untold' \subseteq Paths
  BY <1>2 DEF Cached, StateOK
<1> QED BY <1>2, <1>3, <1>4, <1>5 DEF StateOK, CacheIs, TreeOK

LEMMA RestsState == ASSUME StateOK, Rests PROVE StateOK'
<1>1. CacheIs(cache') /\ HandlesOK' /\ UNCHANGED <<tree, task, track>> /\ changes' \in {changes, changes + 1}
  BY DroppedTyped DEF Rests, StateOK
<1>2. TasksOK'
  BY <1>1, NoTask DEF StateOK
<1>3. changes' \in Nat
  BY <1>1 DEF StateOK
<1> QED BY <1>1, <1>2, <1>3 DEF StateOK, CacheIs, TreeOK, track

LEMMA AnswerState == ASSUME StateOK, NEW t \in Tasks, Answer(t) PROVE StateOK'
<1> DEFINE c == task[t]
           r == Call(Request("create", c.path, c.path), "reply")
<1>1. c.at = "answer" /\ UNCHANGED <<tree, cache, changes, overlapped, scope>> /\ untold' = untold \cup Unreported(c)
      /\ handles' \in {HandOut(c.path), handles} /\ (Goto(t, r) \/ Goto(t, Idle))
  BY DEF Answer, At
<1>2. IsRecord(c)
  BY <1>1, CallAt DEF StateOK
<1>3. c.path \in Paths /\ c.to \in Paths
  BY <1>2 DEF IsRecord
<1>4. TaskOK(r) /\ TaskOK(Idle)
  <2>1. "create" \in Mutations \cup Looking /\ "reply" \in {"reply", "open", "missing"}
    BY DEF Mutations
  <2>2. TaskOK(r)
    <3> DEFINE p == c.path
    <3>1. p \in Paths
      BY <1>3
    <3> HIDE DEF p
    <3>2. TaskOK(Call(Request("create", p, p), "reply"))
      BY <2>1, <3>1, CallIs
    <3> QED BY <3>2 DEF p
  <2>3. TaskOK(Idle)
    BY DEF TaskOK
  <2> QED BY <2>2, <2>3
<1> HIDE DEF r
<1>5. TasksOK'
  BY <1>1, <1>4, GotoOnly, OneTask DEF StateOK
<1>6. HandlesOK'
  BY <1>1, <1>3, HandOutOK DEF HandlesOK, StateOK
<1>7. untold' \subseteq Paths
  <2>1. Unreported(c) \subseteq {c.path, c.to, Up[c.path], Up[c.to]} \cup Below[c.path] \cup Below[c.to]
    BY DEF Unreported
  <2>2. Up[c.path] \in Paths /\ Up[c.to] \in Paths /\ Below[c.path] \subseteq Paths /\ Below[c.to] \subseteq Paths
    BY <1>3, UpIs, BelowOrder
  <2> QED BY <1>1, <1>3, <2>1, <2>2 DEF StateOK
<1> QED BY <1>1, <1>5, <1>6, <1>7 DEF StateOK, CacheIs, TreeOK

LEMMA StepState == ASSUME StateOK, NEW t \in Tasks, Step(t) PROVE StateOK'
BY LookListState, LookLinkState, LookAttributesState, AskAttributesState, ToldAttributesState, ServesLookState,
   ServeState, LoseState, ListedState, StoreListState, StoreLinkState, AnsweredState, AnswerState DEF Step, Learns

LEMMA InitState == Init => StateOK
<1> SUFFICES ASSUME Init PROVE StateOK
  OBVIOUS
<1>1. TasksOK /\ CacheIs(cache)
  BY DEF Init, TasksOK, TaskOK, CacheIs
<1>2. HandlesOK
  BY ClosedOK DEF Init, HandlesOK
<1>3. TreeOK(tree)
  <2>1. /\ tree = [p \in Paths |-> IF p = Root THEN Item("dir", 0) ELSE Absent]
        /\ Item("dir", 0) \in Items /\ Item("dir", 0) # Absent /\ Item("dir", 0).kind = "dir"
    BY ItemIs DEF Init, Kinds
  <2>2. Root \in Paths /\ Above[Root] = {}
    BY PathsAssumption, AboveIs
  <2> HIDE DEF Item
  <2> QED BY <2>1, <2>2 DEF TreeOK, Is
<1> QED BY <1>1, <1>2, <1>3 DEF StateOK, Init

\* The tree of the server is a tree, the cache has entries with the fields of
\* their kind, every handle and call is well formed, a request has been carried
\* out at most once more than its answers were lost (client.rs:28), and a call
\* that looks has what it will store (fs_model.rs:109-202).
THEOREM StateInductive == Spec => []StateOK
<1>1. StateOK /\ [Next]_vars => StateOK'
  <2> SUFFICES ASSUME StateOK, [Next]_vars PROVE StateOK'
    OBVIOUS
  <2>1. (\E t \in Tasks : Starts(t) \/ Step(t)) \/ Rests
    BY NextIs DEF StateOK
  <2> QED BY <2>1, StartsState, StepState, RestsState
<1> QED BY <1>1, InitState, PTL DEF Spec

\* Every item of the tree lies in a directory that is there, whatever was made,
\* moved, exchanged or removed and however often a request was repeated
\* (storage.rs behind routes.rs); every entry of the cache has the fields of its
\* kind (fs_model.rs:109-202, 426-445), and no call is tried more than Retries
\* times (client.rs:28).
THEOREM TypeCorrect == Spec => []TypeOK
<1>1. StateOK => TypeOK
  <2> SUFFICES ASSUME StateOK PROVE TypeOK
    OBVIOUS
  <2>1. ASSUME NEW p \in Paths, tree[p] # Absent PROVE IsItem(tree[p]) /\ Is(tree, Up[p], "dir")
    BY <2>1, InDir DEF StateOK, TreeOK, IsItem, Items
  <2>2. ASSUME NEW p \in Paths, cache[p] # NoEntry PROVE IsEntry(cache[p])
    <3>1. EntryOK(cache[p])
      BY <2>2 DEF StateOK, CacheIs
    <3> QED BY <3>1 DEF EntryOK, IsEntry, Kinds
  <2>3. ASSUME NEW h \in Numbers PROVE handles[h].path \in Paths
    BY DEF StateOK, HandlesOK
  <2>4. ASSUME NEW c, CallOK(c) PROVE IsCall(c)
    <3>1. IsRecord(c)
      BY <2>4 DEF CallOK
    <3>2. /\ c.at \in {"look", "attrs", "ask", "send", "reply", "store", "answer"}
          /\ c.op \in Mutations \cup {"stat", "list", "readlink"}
          /\ c.path \in Paths /\ c.to \in Paths /\ c.then \in {"reply", "open", "missing"}
          /\ c.own \in Nat \cup {NoInfo} /\ c.tries \in 0 .. Retries
      BY <3>1 DEF IsRecord, Places, Looking
    <3>3. c.todo \in Seq(Paths) /\ c.effects \in Nat /\ c.lost \in Nat
      BY <3>1 DEF IsRecord
    <3>4. \A i \in DOMAIN c.todo : c.todo[i] \in Paths
      BY <3>3
    <3>5. c.at \in {"attrs", "ask"} => c.todo # << >>
      BY <2>4, <3>2 DEF CallOK, Looks, Counted, Looking
    <3>6. c.op \in Mutations => c.lost <= c.tries + 1 /\ c.effects <= Retries + 1
      BY <2>4, <3>2, <3>3, RetriesAssumption DEF CallOK, Counted
    <3> QED BY <3>2, <3>4, <3>5, <3>6 DEF IsCall
  <2>5. ASSUME NEW t \in Tasks
        PROVE  task[t] = Idle \/ (At(t, "told") /\ IsItem(task[t].item)) \/ IsCall(task[t])
    <3>1. TaskOK(task[t])
      BY DEF StateOK, TasksOK
    <3> QED BY <2>4, <3>1 DEF TaskOK, At, IsItem, Items
  <2> QED BY <2>1, <2>2, <2>3, <2>5 DEF TypeOK, StateOK
<1> QED BY <1>1, StateInductive, PTL

\* What a handler is told of a change of names is what the server did, but for
\* lost answers, errors of what follows the change, and half an exchange
\* (client.rs:32 repeats requests that are not idempotent): for every tree,
\* every number of handlers at once, every number of retries, whichever messages
\* are lost and wherever the server fails.
THEOREM ReportsAreTrue == Spec => []ReportsTrue
<1>1. StateOK => ReportsTrue
  <2> SUFFICES ASSUME StateOK, NEW t \in Tasks, task[t].at = "answer", task[t].op \in Mutations
               PROVE  /\ task[t].result = "done" => task[t].effects > 0
                      /\ task[t].result # "done" =>
                           task[t].effects = 0 \/ task[t].lost > 0 \/ task[t].op = "exchange"
                      /\ task[t].effects <= task[t].lost + 1
    BY DEF ReportsTrue, At
  <2>1. CallOK(task[t])
    BY CallAt DEF StateOK
  <2> QED BY <2>1 DEF CallOK, Counted
<1> QED BY <1>1, StateInductive, PTL

----------------------------------------------------------------------------
(* What the cache has is true, but for what it was not told of *)

Present(t, p) == DOMAIN List(t, p)

\* What entry e has of the item at p is true of it.
Coherent(e, t, p) ==
    /\ Is(t, p, e.kind)
    /\ e.attrs = NoInfo \/ e.attrs = t[p].id
    /\ e.kind = "dir" => e.more = NoInfo \/ e.more = Present(t, p)
    /\ e.kind = "link" => e.more = NoInfo \/ e.more = t[p].id

Around(op, p, q) == Touched(op, p, q) \cup {Up[x] : x \in Touched(op, p, q)}

\* The paths a call has changed without a word to the cache yet.
Pending(c) ==
    IF c.at \in {"send", "reply", "answer"} /\ c.op \in Mutations /\ c.effects > 0
       /\ ~(c.at = "answer" /\ c.result = "done")
    THEN Around(c.op, c.path, c.to) ELSE {}

CacheTrue(e, t, excused) ==
    \A p \in Paths : e[p] # NoEntry /\ p \notin excused => Coherent(e[p], t, p)

\* A directory as it was listed.
ListTrue(c, t, u) ==
    /\ Is(t, c.path, "dir") /\ DOMAIN c.value = Present(t, c.path)
    /\ \A x \in DOMAIN c.value \ u : c.value[x] = t[x]

StatTrue(c, t, u) ==
    /\ c.at \in {"attrs", "ask"} => Len(c.todo) = 1 /\ Head(c.todo) = c.path
    /\ c.at = "answer" /\ c.result = "done" /\ c.path \notin u => c.value = t[c.path]
    /\ c.at = "answer" /\ c.result = "refused" => t[c.path] = Absent

LinkTrue(c, t, u) ==
    /\ c.at = "reply" => Is(t, c.path, "link") /\ c.value = t[c.path].id
    /\ c.at = "answer" /\ c.result = "done" /\ c.path \notin u => c.value = Target(t, c.path)
    /\ c.at = "answer" /\ c.result = "refused" => Target(t, c.path) = Absent

DirTrue(c, t, u) ==
    /\ c.at \in {"reply", "store"} => ListTrue(c, t, u)
    /\ c.at \in {"attrs", "ask"} /\ c.after = "store" =>
         ListTrue(c, t, u) /\ Len(c.todo) = 1 /\ Head(c.todo) = c.path
    /\ c.at = "store" /\ c.path \notin u => c.own = t[c.path].id
    /\ c.at \in {"attrs", "ask"} => \A i \in 1 .. Len(c.todo) : c.todo[i] \in {c.path, Up[c.path]}
    /\ c.at \in {"attrs", "ask"} /\ c.path \notin u => ListTrue(c, t, u)
    /\ c.at = "answer" /\ c.result = "done" /\ c.path \notin u => ListTrue(c, t, u)
    /\ c.at = "answer" /\ c.result = "refused" /\ c.path \notin u => ~Is(t, c.path, "dir")

KindOf(op) == CASE op = "create" -> "file" [] op = "mkdir" -> "dir" [] op = "symlink" -> "link"

\* A creation has made the item; a rename has been carried out or it still fits,
\* and the entry of the item is true of it under its new name.
ChangeTrue(c, t, u, e) ==
    /\ c.at \in {"reply", "answer"} /\ c.result = "refused" => Trees(t, c.op, c.path, c.to, 0) = {}
    /\ c.op \in Creations /\ c.at = "reply" /\ c.result = "done" =>
         /\ Is(t, c.path, KindOf(c.op)) /\ t[c.path].id = c.own
         /\ c.op = "mkdir" => Present(t, c.path) = {}
    /\ c.op \in {"rename", "noreplace"} =>
         /\ c.at \in {"send", "reply"} /\ c.effects = 0 => Fits(t, c.path, c.to)
         /\ c.effects > 0 => c.path = c.to \/ t[c.path] = Absent
         /\ c.at = "reply" /\ c.result = "done" /\ c.path # c.to /\ c.path \notin u /\ e[c.path] # NoEntry
              => Coherent(Carried(e[c.path], c.path, c.to), t, c.to)

CallTrue(c, t, u, e) ==
    /\ c.op = "stat" => StatTrue(c, t, u)
    /\ c.op = "readlink" => LinkTrue(c, t, u)
    /\ c.op = "list" => DirTrue(c, t, u)
    /\ c.op \in Mutations => ChangeTrue(c, t, u, e)

TaskTrue(x, t, u, e) ==
    /\ x.at \in Places => CallTrue(x, t, u, e)
    /\ x.at = "told" => CallTrue(x.call, t, u, e) /\ x.item = t[Head(x.call.todo)]

Alone == \A t, u \in Tasks : task[t] # Idle /\ task[u] # Idle => t = u

SingleInv ==
    overlapped \/ /\ Alone
                  /\ CacheTrue(cache, tree, untold \cup UNION {Pending(task[t]) : t \in Tasks})
                  /\ \A t \in Tasks : TaskTrue(task[t], tree, untold, cache)

LEMMA IdleIs == Pending(Idle) = {} /\ \A t, u, e : TaskTrue(Idle, t, u, e)
BY DEF Idle, Pending, TaskTrue, Places

LEMMA PlacesAre ==
    ASSUME NEW x, x.at \in Places \/ x.at = "told" PROVE x # Idle
BY DEF Idle, Places

\* The only call under way.
LEMMA SingleIs ==
    ASSUME SingleInv, ~overlapped, NEW t \in Tasks, task[t] # Idle
    PROVE  /\ \A u \in Tasks \ {t} : task[u] = Idle
           /\ CacheTrue(cache, tree, untold \cup Pending(task[t]))
           /\ TaskTrue(task[t], tree, untold, cache)
<1>1. \A u \in Tasks \ {t} : task[u] = Idle
  BY DEF SingleInv, Alone
<1>2. UNION {Pending(task[u]) : u \in Tasks} = Pending(task[t])
  BY <1>1, IdleIs
<1> QED BY <1>1, <1>2 DEF SingleInv

LEMMA SingleStep ==
    ASSUME TasksOK, NEW t \in Tasks, Only(t), \A u \in Tasks \ {t} : task[u] = Idle,
           CacheTrue(cache', tree', untold' \cup Pending(task'[t])),
           TaskTrue(task'[t], tree', untold', cache')
    PROVE  SingleInv'
<1>1. \A u \in Tasks \ {t} : task'[u] = Idle
  BY DEF Only, TasksOK
<1>2. Alone'
  BY <1>1 DEF Alone
<1>3. UNION {Pending(task'[u]) : u \in Tasks} = Pending(task'[t])
  BY <1>1, IdleIs
<1>4. \A u \in Tasks : TaskTrue(task'[u], tree', untold', cache')
  BY <1>1, IdleIs
<1> QED BY <1>2, <1>3, <1>4 DEF SingleInv, CacheTrue, TaskTrue

\* A call that looks has changed nothing.
LEMMA NonePending == ASSUME NEW x, x.op \in Looking PROVE Pending(x) = {}
BY Disjoint DEF Pending

----------------------------------------------------------------------------
(* Entries *)

\* The item an entry is about.
LEMMA CoherentItem ==
    ASSUME NEW u, TreeOK(u), NEW p \in Paths, NEW e, Coherent(e, u, p), e.attrs # NoInfo
    PROVE  Item(e.kind, e.attrs) = u[p]
<1>1. u[p] # Absent /\ u[p].kind = e.kind /\ u[p].id = e.attrs
  BY DEF Coherent, Is
<1>2. u[p] \in Items
  BY <1>1 DEF TreeOK
<1> QED BY <1>1, <1>2 DEF Item, Items

LEMMA MergeCoherent ==
    ASSUME NEW u, NEW p, NEW old, NEW new, Coherent(old, u, p), Coherent(new, u, p)
    PROVE  Coherent(Merge(old, new), u, p)
<1>1. old.kind = new.kind
  BY DEF Coherent, Is
<1> DEFINE attrs == Either(new.attrs, old.attrs)
           more == Either(new.more, old.more)
<1>2. attrs \in {new.attrs, old.attrs} /\ more \in {new.more, old.more}
  BY DEF Either
<1>3. Merge(old, new) = Entry(old.kind, attrs, more)
  BY <1>1 DEF Merge
<1> HIDE DEF attrs, more
<1> QED BY <1>1, <1>2, <1>3, EntryIs DEF Coherent

\* A put of what is true.
LEMMA PutInTrue ==
    ASSUME NEW c, CacheIs(c), NEW u, NEW p \in Paths, NEW e, NEW excused, CacheTrue(c, u, excused),
           p \notin excused => Coherent(e, u, p)
    PROVE  /\ CacheTrue(PutIn(c, p, e), u, excused)
           /\ p \notin excused => Coherent(PutIn(c, p, e)[p], u, p)
<1> DEFINE d == PutIn(c, p, e)
<1>1. /\ d[p] = (IF c[p] = NoEntry THEN e ELSE Merge(c[p], e))
      /\ \A x \in Paths \ {p} : d[x] = c[x]
  BY PutInIs
<1> HIDE DEF d
<1>2. p \notin excused => Coherent(d[p], u, p)
  BY <1>1, MergeCoherent DEF CacheTrue
<1>3. CacheTrue(d, u, excused)
  BY <1>1, <1>2 DEF CacheTrue
<1> QED BY <1>2, <1>3 DEF d

LEMMA PutAttrTrue ==
    ASSUME NEW c, CacheIs(c), NEW u, TreeOK(u), NEW p \in Paths, NEW excused, CacheTrue(c, u, excused), u[p] # Absent
    PROVE  CacheTrue(PutAttr(c, p, u[p]), u, excused)
<1> DEFINE e == Entry(u[p].kind, u[p].id, NoInfo)
<1>1. Coherent(e, u, p)
  BY EntryIs DEF Coherent, Is
<1> HIDE DEF e
<1>2. CacheTrue(PutIn(c, p, e), u, excused)
  BY <1>1, PutInTrue
<1> QED BY <1>2 DEF PutAttr, e

\* An entry that is dropped says nothing.
LEMMA DroppedTrue ==
    ASSUME CacheIs(cache), Dropped, NEW u, NEW excused, CacheTrue(cache, u, excused)
    PROVE  CacheTrue(cache', u, excused) /\ \A p \in Paths : cache'[p] \in {cache[p], NoEntry}
<1>1. \A p \in Paths : cache'[p] \in {cache[p], NoEntry}
  BY DEF CacheIs, Dropped
<1> QED BY <1>1 DEF CacheTrue

----------------------------------------------------------------------------
(* A call that looks *)

\* A step that leaves the tree and the cache alone.
LEMMA SingleLooks ==
    ASSUME StateOK, SingleInv, NEW t \in Tasks, Only(t), UNCHANGED <<tree, cache, track>>, task[t] # Idle,
           Pending(task'[t]) = Pending(task[t]),
           CacheTrue(cache, tree, untold \cup Pending(task[t])) /\ TaskTrue(task[t], tree, untold, cache)
             => TaskTrue(task'[t], tree, untold, cache)
    PROVE  SingleInv'
<1>1. CASE overlapped
  BY <1>1 DEF SingleInv, track
<1>2. CASE ~overlapped
  <2>1. /\ \A u \in Tasks \ {t} : task[u] = Idle
        /\ CacheTrue(cache, tree, untold \cup Pending(task[t]))
        /\ TaskTrue(task[t], tree, untold, cache)
    BY <1>2, SingleIs
  <2>2. TasksOK /\ tree' = tree /\ cache' = cache /\ untold' = untold
    BY DEF StateOK, track
  <2>3. /\ CacheTrue(cache', tree', untold' \cup Pending(task'[t]))
        /\ TaskTrue(task'[t], tree', untold', cache')
    BY <2>1, <2>2
  <2> QED BY <2>1, <2>2, <2>3, SingleStep
<1> QED BY <1>1, <1>2

LEMMA LooksTrue ==
    ASSUME NEW x, NEW u, NEW n, NEW e, x.op \in Looking, x.at \in Places,
           x.op = "stat" => StatTrue(x, u, n),
           x.op = "readlink" => LinkTrue(x, u, n),
           x.op = "list" => DirTrue(x, u, n)
    PROVE  TaskTrue(x, u, n, e) /\ CallTrue(x, u, n, e)
BY Disjoint DEF TaskTrue, CallTrue, Places

LEMMA LooksAre ==
    ASSUME NEW x, NEW u, NEW n, NEW e, x.op \in Looking, x.at \in Places, TaskTrue(x, u, n, e) \/ CallTrue(x, u, n, e)
    PROVE  /\ x.op = "stat" => StatTrue(x, u, n)
           /\ x.op = "readlink" => LinkTrue(x, u, n)
           /\ x.op = "list" => DirTrue(x, u, n)
BY DEF TaskTrue, CallTrue, Places

LEMMA LookListSingle == ASSUME StateOK, SingleInv, NEW t \in Tasks, LookList(t) PROVE SingleInv'
<1> DEFINE c == task[t]
           p == c.path
           value == [x \in cache[p].more |-> CachedItem(x)]
           x == task'[t]
<1>1. /\ IsRecord(c) /\ Looks(c) /\ c.at = "look" /\ c.op = "list" /\ Only(t)
      /\ UNCHANGED <<tree, cache, handles, changes, track>>
      /\ ListKnown(p) => Moves(x, c, "attrs", Dots(p), c.after, c.own, "done", value)
      /\ ~ListKnown(p) => Moves(x, c, "send", c.todo, c.after, c.own, c.result, c.value)
  BY LookListIs DEF StateOK, Turns
<1>2. p \in Paths /\ c.after = "answer"
  BY <1>1 DEF IsRecord, Looks
<1>3. c # Idle
  BY <1>1, PlacesAre DEF Places
<1> HIDE DEF c, p, value, x
<1>4. x.op = "list" /\ x.after = "answer" /\ x.path = c.path
  BY <1>1, <1>2, MovesIs
<1>5. Pending(c) = {} /\ Pending(x) = {}
  BY <1>1, <1>4, NonePending DEF Looking
<1>6. CASE ~ListKnown(p)
  <2>1. x.at = "send"
    BY <1>1, <1>6, MovesIs
  <2>2. DirTrue(x, tree, untold)
    BY <2>1 DEF DirTrue
  <2>3. TaskTrue(x, tree, untold, cache)
    BY <1>4, <2>1, <2>2, LooksTrue DEF Looking, Places
  <2> QED BY <1>1, <1>3, <1>5, <2>3, SingleLooks DEF c, x
<1>7. CASE ListKnown(p)
  <2>1. x.at = "attrs" /\ x.todo = Dots(p) /\ x.value = value
    BY <1>1, <1>7, MovesIs
  <2>2. \A i \in 1 .. Len(Dots(p)) : Dots(p)[i] \in {p, Up[p]}
    BY <1>2, DotsIs
  <2>3. ASSUME CacheTrue(cache, tree, untold), p \notin untold PROVE ListTrue(x, tree, untold)
    <3>1. Coherent(cache[p], tree, p) /\ cache[p].kind = "dir" /\ cache[p].more # NoInfo
      BY <1>2, <1>7, <2>3 DEF CacheTrue, ListKnown
    <3>2. Is(tree, p, "dir") /\ cache[p].more = Present(tree, p)
      BY <3>1 DEF Coherent
    <3>3. DOMAIN value = cache[p].more /\ \A y \in cache[p].more : value[y] = CachedItem(y)
      BY DEF value
    <3>4. ASSUME NEW y \in cache[p].more, y \notin untold PROVE value[y] = tree[y]
      <4>1. Known(y)
        BY <1>7, <3>4 DEF ListKnown
      <4>2. y \in Paths /\ Coherent(cache[y], tree, y) /\ cache[y].attrs # NoInfo
        BY <2>3, <3>4, <4>1 DEF Known, CacheTrue
      <4>3. CachedItem(y) = tree[y]
        BY <4>2, CoherentItem DEF CachedItem, StateOK
      <4> QED BY <3>3, <3>4, <4>3
    <3> QED BY <1>4, <2>1, <3>2, <3>3, <3>4 DEF ListTrue, p
  <2>4. ASSUME CacheTrue(cache, tree, untold) PROVE TaskTrue(x, tree, untold, cache)
    <3>1. DirTrue(x, tree, untold)
      BY <1>4, <2>1, <2>2, <2>3, <2>4 DEF DirTrue, p
    <3> QED BY <1>4, <2>1, <3>1, LooksTrue DEF Looking, Places
  <2>5. CacheTrue(cache, tree, untold \cup Pending(c)) => TaskTrue(x, tree, untold, cache)
    BY <1>5, <2>4
  <2> QED BY <1>1, <1>3, <1>5, <2>5, SingleLooks DEF c, x
<1> QED BY <1>6, <1>7

LEMMA LookLinkSingle == ASSUME StateOK, SingleInv, NEW t \in Tasks, LookLink(t) PROVE SingleInv'
<1> DEFINE c == task[t]
           p == c.path
           e == cache[p]
           x == task'[t]
<1>1. /\ IsRecord(c) /\ Looks(c) /\ c.at = "look" /\ c.op = "readlink" /\ Only(t)
      /\ UNCHANGED <<tree, cache, handles, changes, track>>
      /\ \/ /\ e # NoEntry /\ e.kind = "link" /\ e.more # NoInfo
            /\ Moves(x, c, "answer", c.todo, c.after, c.own, "done", e.more)
         \/ Moves(x, c, "send", c.todo, c.after, c.own, c.result, c.value)
  BY LookLinkIs DEF StateOK, Turns
<1>2. p \in Paths
  BY <1>1 DEF IsRecord
<1>3. c # Idle
  BY <1>1, PlacesAre DEF Places
<1> HIDE DEF c, p, x
<1>4. x.op = "readlink" /\ x.path = p
  BY <1>1, MovesIs DEF p
<1>5. Pending(c) = {} /\ Pending(x) = {}
  BY <1>1, <1>4, NonePending DEF Looking
<1>6. CASE Moves(x, c, "send", c.todo, c.after, c.own, c.result, c.value)
  <2>1. x.at = "send"
    BY <1>6, MovesIs
  <2>2. LinkTrue(x, tree, untold)
    BY <2>1 DEF LinkTrue
  <2>3. TaskTrue(x, tree, untold, cache)
    BY <1>4, <2>1, <2>2, LooksTrue DEF Looking, Places
  <2> QED BY <1>1, <1>3, <1>5, <2>3, SingleLooks DEF c, x
<1>7. CASE /\ e # NoEntry /\ e.kind = "link" /\ e.more # NoInfo
           /\ Moves(x, c, "answer", c.todo, c.after, c.own, "done", e.more)
  <2>1. x.at = "answer" /\ x.result = "done" /\ x.value = e.more
    BY <1>7, MovesIs
  <2>2. ASSUME CacheTrue(cache, tree, untold) PROVE TaskTrue(x, tree, untold, cache)
    <3>1. p \notin untold => e.more = Target(tree, p)
      BY <1>2, <1>7, <2>2 DEF CacheTrue, Coherent, Target
    <3>2. LinkTrue(x, tree, untold)
      BY <1>4, <2>1, <3>1 DEF LinkTrue
    <3> QED BY <1>4, <2>1, <3>2, LooksTrue DEF Looking, Places
  <2>3. CacheTrue(cache, tree, untold \cup Pending(c)) => TaskTrue(x, tree, untold, cache)
    BY <1>5, <2>2
  <2> QED BY <1>1, <1>3, <1>5, <2>3, SingleLooks DEF c, x
<1> QED BY <1>1, <1>6, <1>7

\* The attributes of a path have been got: the item that is there.
LEMMA GotTrue ==
    ASSUME NEW c, IsRecord(c), Looks(c), c.op \in Looking, c.at \in {"attrs", "ask"}, NEW item, NEW x,
           Moves(x, c, IF Len(c.todo) > 1 THEN "attrs" ELSE c.after, Tail(c.todo), c.after,
                 IF c.after = "store" THEN item.id ELSE c.own, "done", IF c.op = "stat" THEN item ELSE c.value),
           NEW u, NEW n, NEW e, CallTrue(c, u, n, e), Head(c.todo) \notin n => item = u[Head(c.todo)]
    PROVE  TaskTrue(x, u, n, e) /\ x.op = c.op
<1> DEFINE at == IF Len(c.todo) > 1 THEN "attrs" ELSE c.after
           own == IF c.after = "store" THEN item.id ELSE c.own
           value == IF c.op = "stat" THEN item ELSE c.value
           todo == Tail(c.todo)
<1>1. /\ c.todo \in Seq(Paths) /\ c.after \in {"answer", "store"} /\ c.op \in {"stat", "list"} /\ c.todo # << >>
      /\ c.op = "stat" => c.after = "answer"
  BY DEF IsRecord, Looks, Looking
<1>2. /\ Len(c.todo) \in Nat /\ Len(c.todo) > 0 /\ Head(c.todo) = c.todo[1]
      /\ Len(todo) = Len(c.todo) - 1 /\ \A i \in 1 .. Len(todo) : todo[i] = c.todo[i + 1]
  BY <1>1, TodoIs
<1>3. at \in Places /\ at \in {"attrs", c.after} /\ (Len(c.todo) = 1 => at = c.after)
  <2>1. at \in {"attrs", c.after}
    OBVIOUS
  <2>2. ASSUME Len(c.todo) = 1 PROVE at = c.after
    <3>1. ~(Len(c.todo) > 1)
      BY <2>2
    <3> QED BY <3>1
  <2> HIDE DEF at
  <2> QED BY <1>1, <2>1, <2>2 DEF Places
<1>4. Moves(x, c, at, todo, c.after, own, "done", value)
  OBVIOUS
<1>5. c.op = "stat" => value = item
  OBVIOUS
<1>6. c.op = "list" => value = c.value
  BY DEF Looking
<1>7. c.after = "store" => own = item.id
  OBVIOUS
<1> HIDE DEF at, own, value, todo
<1>8. /\ x.at = at /\ x.op = c.op /\ x.path = c.path /\ x.todo = todo /\ x.after = c.after /\ x.own = own
      /\ x.result = "done" /\ x.value = value
  BY <1>4, MovesIs
<1>9. ASSUME c.op = "stat" PROVE StatTrue(x, u, n)
  <2>1. StatTrue(c, u, n)
    BY <1>9 DEF CallTrue
  <2>2. Len(c.todo) = 1 /\ Head(c.todo) = c.path
    BY <2>1 DEF StatTrue
  <2>3. x.at = "answer"
    BY <1>1, <1>3, <1>8, <1>9, <2>2
  <2> QED BY <1>5, <1>8, <1>9, <2>2, <2>3 DEF StatTrue
<1>10. ASSUME c.op = "list" PROVE DirTrue(x, u, n)
  <2>1. DirTrue(c, u, n)
    BY <1>10 DEF CallTrue
  <2>2. ListTrue(c, u, n) => ListTrue(x, u, n)
    BY <1>6, <1>8, <1>10 DEF ListTrue
  <2>3. CASE c.after = "store"
    <3>1. ListTrue(c, u, n) /\ Len(c.todo) = 1 /\ Head(c.todo) = c.path
      BY <2>1, <2>3 DEF DirTrue
    <3>2. x.at = "store"
      BY <1>3, <1>8, <2>3, <3>1
    <3>3. x.path \notin n => x.own = u[x.path].id
      BY <1>7, <1>8, <2>3, <3>1
    <3> QED BY <2>2, <3>1, <3>2, <3>3 DEF DirTrue
  <2>4. CASE c.after = "answer"
    <3>1. c.path \notin n => ListTrue(c, u, n)
      BY <2>1 DEF DirTrue
    <3>2. \A i \in 1 .. Len(c.todo) : c.todo[i] \in {c.path, Up[c.path]}
      BY <2>1 DEF DirTrue
    <3>3. \A i \in 1 .. Len(x.todo) : x.todo[i] \in {x.path, Up[x.path]}
      BY <1>2, <1>8, <3>2
    <3> QED BY <1>3, <1>8, <2>2, <2>4, <3>1, <3>3 DEF DirTrue
  <2> QED BY <1>1, <2>3, <2>4
<1> QED BY <1>1, <1>3, <1>8, <1>9, <1>10, LooksTrue

LEMMA LookAttributesSingle == ASSUME StateOK, SingleInv, NEW t \in Tasks, LookAttributes(t) PROVE SingleInv'
<1> DEFINE c == task[t]
           p == Head(c.todo)
           item == CachedItem(p)
           x == task'[t]
<1>1. /\ IsRecord(c) /\ Looks(c) /\ c.at = "attrs" /\ c.op \in Looking /\ Only(t)
      /\ UNCHANGED <<tree, cache, handles, changes, track>>
      /\ \/ Known(p) /\ Moves(x, c, IF Len(c.todo) > 1 THEN "attrs" ELSE c.after, Tail(c.todo), c.after,
                        IF c.after = "store" THEN item.id ELSE c.own, "done", IF c.op = "stat" THEN item ELSE c.value)
         \/ Becomes(x, c, "ask", c.todo, c.after, c.own, c.result, c.value, 0, c.effects, c.lost)
  BY LookAttributesIs DEF StateOK
<1>2. c # Idle
  BY <1>1, PlacesAre DEF Places
<1>3. "ask" \in Places /\ "attrs" \in Places
  BY DEF Places
<1> HIDE DEF c, p, x
<1>4. CASE Becomes(x, c, "ask", c.todo, c.after, c.own, c.result, c.value, 0, c.effects, c.lost)
  <2>1. /\ x.at = "ask" /\ x.op = c.op /\ x.todo = c.todo /\ x.after = c.after /\ x.value = c.value /\ x.path = c.path
    BY <1>4, BecomesIs
  <2>2. Pending(c) = {} /\ Pending(x) = {}
    BY <1>1, <2>1, NonePending
  <2>3. ASSUME TaskTrue(c, tree, untold, cache) PROVE TaskTrue(x, tree, untold, cache)
    <3>1. /\ c.op = "stat" => StatTrue(c, tree, untold)
          /\ c.op = "readlink" => LinkTrue(c, tree, untold)
          /\ c.op = "list" => DirTrue(c, tree, untold)
      BY <1>1, <1>3, <2>3, LooksAre
    <3>2. c.op = "stat" => StatTrue(x, tree, untold)
      BY <1>1, <2>1, <3>1 DEF StatTrue
    <3>3. c.op = "readlink" => LinkTrue(x, tree, untold)
      BY <2>1 DEF LinkTrue
    <3>4. c.op = "list" => DirTrue(x, tree, untold)
      BY <1>1, <2>1, <3>1 DEF DirTrue, ListTrue
    <3> QED BY <1>1, <1>3, <2>1, <3>2, <3>3, <3>4, LooksTrue
  <2> QED BY <1>1, <1>2, <2>2, <2>3, SingleLooks DEF c, x
<1>5. CASE Known(p) /\ Moves(x, c, IF Len(c.todo) > 1 THEN "attrs" ELSE c.after, Tail(c.todo), c.after,
                        IF c.after = "store" THEN item.id ELSE c.own, "done", IF c.op = "stat" THEN item ELSE c.value)
  <2>1. x.op = c.op
    BY <1>5, MovesIs
  <2>2. Pending(c) = {} /\ Pending(x) = {}
    BY <1>1, <2>1, NonePending
  <2>3. ASSUME CacheTrue(cache, tree, untold), TaskTrue(c, tree, untold, cache) PROVE TaskTrue(x, tree, untold, cache)
    <3>1. p \in Paths /\ cache[p] # NoEntry /\ cache[p].attrs # NoInfo
      BY <1>5 DEF Known
    <3>2. p \notin untold => item = tree[p]
      BY <2>3, <3>1, CoherentItem DEF CacheTrue, CachedItem, StateOK
    <3>3. CallTrue(c, tree, untold, cache)
      BY <1>1, <1>3, <2>3 DEF TaskTrue
    <3> HIDE DEF item
    <3> QED BY <1>1, <1>5, <3>2, <3>3, GotTrue DEF p
  <2>4. CacheTrue(cache, tree, untold \cup Pending(c)) /\ TaskTrue(c, tree, untold, cache)
          => TaskTrue(x, tree, untold, cache)
    BY <2>2, <2>3
  <2> QED BY <1>1, <1>2, <2>2, <2>4, SingleLooks DEF c, x
<1> QED BY <1>1, <1>4, <1>5

LEMMA AskAttributesSingle == ASSUME StateOK, SingleInv, NEW t \in Tasks, AskAttributes(t) PROVE SingleInv'
<1> DEFINE c == task[t]
           p == Head(c.todo)
           item == tree[p]
           x == task'[t]
<1>1. /\ IsRecord(c) /\ Looks(c) /\ CallOK(c) /\ c.at = "ask" /\ c.op \in Looking /\ Only(t)
      /\ UNCHANGED <<tree, cache, handles, changes, track>>
      /\ \/ item = Absent /\ Moves(x, c, "answer", c.todo, c.after, c.own, "refused", c.value)
         \/ item # Absent /\ x = [at |-> "told", item |-> item, call |-> c]
  BY AskAttributesIs DEF StateOK
<1>2. c # Idle
  BY <1>1, PlacesAre DEF Places
<1>3. "ask" \in Places /\ "answer" \in Places /\ "told" \notin Places
  BY DEF Places
<1>4. c.todo \in Seq(Paths) /\ c.todo # << >> /\ c.path \in Paths /\ c.op \in {"stat", "list"}
      /\ c.after \in {"answer", "store"}
  BY <1>1 DEF IsRecord, Looks, Looking
<1>5. p = c.todo[1] /\ 1 \in 1 .. Len(c.todo) /\ p \in Paths
  BY <1>4, TodoIs
<1> HIDE DEF c, p, x
<1>6. CASE item = Absent /\ Moves(x, c, "answer", c.todo, c.after, c.own, "refused", c.value)
  <2>1. x.at = "answer" /\ x.op = c.op /\ x.result = "refused" /\ x.path = c.path
    BY <1>6, MovesIs
  <2>2. Pending(c) = {} /\ Pending(x) = {}
    BY <1>1, <2>1, NonePending
  <2>3. ASSUME TaskTrue(c, tree, untold, cache) PROVE TaskTrue(x, tree, untold, cache)
    <3>1. /\ c.op = "stat" => StatTrue(c, tree, untold)
          /\ c.op = "list" => DirTrue(c, tree, untold)
      BY <1>1, <1>3, <2>3, LooksAre
    <3>2. c.op = "stat" => StatTrue(x, tree, untold)
      BY <1>1, <1>6, <2>1, <3>1 DEF StatTrue, p
    <3>3. ASSUME c.op = "list", c.path \notin untold PROVE ~Is(tree, c.path, "dir")
      <4>1. p \in {c.path, Up[c.path]}
        BY <1>1, <1>5, <3>1, <3>3 DEF DirTrue
      <4>2. CASE p = c.path
        BY <1>6, <4>2 DEF Is
      <4>3. CASE p = Up[c.path]
        <5>1. ~Is(tree, Up[c.path], "dir")
          BY <1>6, <4>3 DEF Is
        <5>2. tree[c.path] = Absent
          BY <1>4, <5>1, InDir DEF StateOK
        <5> QED BY <5>2 DEF Is
      <4> QED BY <4>1, <4>2, <4>3
    <3>4. c.op = "list" => DirTrue(x, tree, untold)
      BY <2>1, <3>3 DEF DirTrue
    <3> QED BY <1>1, <1>3, <1>4, <2>1, <3>2, <3>4, LooksTrue
  <2> QED BY <1>1, <1>2, <2>2, <2>3, SingleLooks DEF c, x
<1>7. CASE item # Absent /\ x = [at |-> "told", item |-> item, call |-> c]
  <2>1. x.at = "told" /\ x.item = item /\ x.call = c
    BY <1>7
  <2>2. Pending(c) = {}
    BY <1>1, NonePending
  <2>3. Pending(x) = {}
    BY <2>1 DEF Pending
  <2>4. ASSUME TaskTrue(c, tree, untold, cache) PROVE TaskTrue(x, tree, untold, cache)
    <3>1. CallTrue(c, tree, untold, cache)
      BY <1>1, <1>3, <2>4 DEF TaskTrue
    <3> QED BY <1>3, <2>1, <3>1 DEF TaskTrue, p
  <2> QED BY <1>1, <1>2, <2>2, <2>3, <2>4, SingleLooks DEF c, x
<1> QED BY <1>1, <1>6, <1>7

LEMMA ToldAttributesSingle == ASSUME StateOK, SingleInv, NEW t \in Tasks, ToldAttributes(t) PROVE SingleInv'
<1> DEFINE c == task[t].call
           p == Head(c.todo)
           item == task[t].item
           x == task'[t]
<1>1. /\ task[t].at = "told" /\ item \in Items
      /\ IsRecord(c) /\ Looks(c) /\ c.at = "ask" /\ c.op \in Looking /\ Only(t)
      /\ cache' = PutAttr(cache, p, item)
      /\ UNCHANGED <<tree, handles, changes, track>>
      /\ Moves(x, c, IF Len(c.todo) > 1 THEN "attrs" ELSE c.after, Tail(c.todo), c.after,
                        IF c.after = "store" THEN item.id ELSE c.own, "done", IF c.op = "stat" THEN item ELSE c.value)
  BY ToldAttributesIs DEF StateOK
<1>2. CASE overlapped
  BY <1>1, <1>2 DEF SingleInv, track
<1>3. CASE ~overlapped
  <2>1. task[t] # Idle
    BY <1>1, PlacesAre
  <2>2. /\ \A u \in Tasks \ {t} : task[u] = Idle
        /\ CacheTrue(cache, tree, untold \cup Pending(task[t]))
        /\ TaskTrue(task[t], tree, untold, cache)
    BY <1>3, <2>1, SingleIs
  <2>3. Pending(task[t]) = {}
    BY <1>1 DEF Pending
  <2>4. CallTrue(c, tree, untold, cache) /\ item = tree[p]
    BY <1>1, <2>2 DEF TaskTrue, Places
  <2>5. p \in Paths
    <3>1. c.todo \in Seq(Paths) /\ c.todo # << >>
      BY <1>1 DEF IsRecord, Looks
    <3> QED BY <3>1, TodoIs
  <2>6. item # Absent
    BY <1>1, AbsentAssumption DEF Items
  <2> HIDE DEF c, p, item, x
  <2>7. CacheTrue(cache', tree, untold)
    BY <1>1, <2>2, <2>3, <2>4, <2>5, <2>6, PutAttrTrue DEF StateOK
  <2>8. TaskTrue(x, tree, untold, cache') /\ x.op = c.op
    <3>1. CallTrue(c, tree, untold, cache')
      BY <1>1, <2>4, Disjoint DEF CallTrue
    <3>2. Head(c.todo) \notin untold => item = tree[Head(c.todo)]
      BY <2>4 DEF p
    <3>3. c.at \in {"attrs", "ask"}
      BY <1>1
    <3>4. Moves(x, c, IF Len(c.todo) > 1 THEN "attrs" ELSE c.after, Tail(c.todo), c.after,
                IF c.after = "store" THEN item.id ELSE c.own, "done", IF c.op = "stat" THEN item ELSE c.value)
      BY <1>1
    <3>5. IsRecord(c) /\ Looks(c) /\ c.op \in Looking
      BY <1>1
    <3> DEFINE e == cache'
    <3>6. CallTrue(c, tree, untold, e)
      BY <3>1
    <3> HIDE DEF e
    <3>7. TaskTrue(x, tree, untold, e) /\ x.op = c.op
      BY <3>2, <3>3, <3>4, <3>5, <3>6, GotTrue
    <3> QED BY <3>7 DEF e
  <2>9. Pending(x) = {}
    BY <1>1, <2>8, NonePending
  <2>10. tree' = tree /\ untold' = untold
    BY <1>1 DEF track
  <2>11. CacheTrue(cache', tree', untold' \cup Pending(x))
    BY <2>7, <2>9, <2>10
  <2>12. TaskTrue(x, tree', untold', cache')
    BY <2>8, <2>10
  <2> QED BY <1>1, <2>2, <2>11, <2>12, SingleStep DEF x, StateOK
<1> QED BY <1>2, <1>3

LEMMA ServesLookSingle == ASSUME StateOK, SingleInv, NEW t \in Tasks, ServeList(t) \/ ServeLink(t) PROVE SingleInv'
<1> DEFINE c == task[t]
           p == c.path
           good == IF c.op = "list" THEN Is(tree, p, "dir") ELSE Target(tree, p) # Absent
           value == IF c.op = "list" THEN List(tree, p) ELSE Target(tree, p)
           x == task'[t]
<1>1. /\ IsRecord(c) /\ Looks(c) /\ c.at = "send" /\ c.op \in {"list", "readlink"} /\ Only(t)
      /\ UNCHANGED <<tree, cache, handles, changes, track>>
      /\ \/ good /\ Moves(x, c, "reply", c.todo, c.after, c.own, "done", value)
         \/ ~good /\ Moves(x, c, "answer", c.todo, c.after, c.own, "refused", c.value)
  BY ServesLookIs DEF StateOK
<1>2. c # Idle /\ p \in Paths /\ c.op \in Looking
  BY <1>1, PlacesAre DEF Places, IsRecord, Looking
<1>3. "reply" \in Places /\ "answer" \in Places
  BY DEF Places
<1>4. x.op = c.op /\ x.path = c.path
  BY <1>1, MovesIs
<1>5. Pending(c) = {} /\ Pending(x) = {}
  BY <1>2, <1>4, NonePending
<1>6. /\ c.op = "list" => value = List(tree, p) /\ good = Is(tree, p, "dir")
      /\ c.op = "readlink" => value = Target(tree, p) /\ good = (Target(tree, p) # Absent)
  OBVIOUS
<1> HIDE DEF c, p, x, good, value
<1>7. CASE good /\ Moves(x, c, "reply", c.todo, c.after, c.own, "done", value)
  <2>1. x.at = "reply" /\ x.value = value
    BY <1>7, MovesIs
  <2>2. c.op = "list" => DirTrue(x, tree, untold)
    <3>1. \A y \in DOMAIN List(tree, p) : List(tree, p)[y] = tree[y]
      BY <1>2, ListIs
    <3>2. c.op = "list" => ListTrue(x, tree, untold)
      BY <1>4, <1>6, <1>7, <2>1, <3>1 DEF ListTrue, Present, p
    <3> QED BY <2>1, <3>2 DEF DirTrue
  <2>3. c.op = "readlink" => LinkTrue(x, tree, untold)
    <3>1. Target(tree, p) # Absent => Is(tree, p, "link") /\ Target(tree, p) = tree[p].id
      BY DEF Target
    <3> QED BY <1>4, <1>6, <1>7, <2>1, <3>1 DEF LinkTrue, p
  <2>4. TaskTrue(x, tree, untold, cache)
    BY <1>1, <1>2, <1>3, <1>4, <2>1, <2>2, <2>3, LooksTrue
  <2> QED BY <1>1, <1>2, <1>5, <2>4, SingleLooks DEF c, x
<1>8. CASE ~good /\ Moves(x, c, "answer", c.todo, c.after, c.own, "refused", c.value)
  <2>1. x.at = "answer" /\ x.result = "refused"
    BY <1>8, MovesIs
  <2>2. c.op = "list" => DirTrue(x, tree, untold)
    BY <1>4, <1>6, <1>8, <2>1 DEF DirTrue, p
  <2>3. c.op = "readlink" => LinkTrue(x, tree, untold)
    BY <1>4, <1>6, <1>8, <2>1 DEF LinkTrue, p
  <2>4. TaskTrue(x, tree, untold, cache)
    BY <1>1, <1>2, <1>3, <1>4, <2>1, <2>2, <2>3, LooksTrue
  <2> QED BY <1>1, <1>2, <1>5, <2>4, SingleLooks DEF c, x
<1> QED BY <1>1, <1>7, <1>8

LEMMA ListedSingle == ASSUME StateOK, SingleInv, NEW t \in Tasks, Listed(t) PROVE SingleInv'
<1> DEFINE c == task[t]
           todo == <<c.path>>
           x == task'[t]
<1>1. /\ IsRecord(c) /\ Looks(c) /\ c.at = "reply" /\ c.op = "list" /\ Only(t)
      /\ UNCHANGED <<tree, cache, handles, changes, track>>
      /\ Moves(x, c, "attrs", todo, "store", c.own, c.result, c.value)
  BY ListedIs DEF StateOK
<1>2. c # Idle /\ c.path \in Paths /\ c.op \in Looking
  BY <1>1, PlacesAre DEF Places, IsRecord, Looking
<1>3. "reply" \in Places /\ "attrs" \in Places
  BY DEF Places
<1>4. Len(todo) = 1 /\ Head(todo) = c.path /\ \A i \in 1 .. Len(todo) : todo[i] \in {c.path, Up[c.path]}
  <2> HIDE DEF c
  <2> QED BY <1>2
<1> HIDE DEF c, x, todo
<1>5. /\ x.op = c.op /\ x.path = c.path /\ x.at = "attrs" /\ x.todo = todo /\ x.after = "store"
      /\ x.value = c.value
  BY <1>1, MovesIs
<1>6. Pending(c) = {} /\ Pending(x) = {}
  BY <1>2, <1>5, NonePending
<1>7. ASSUME TaskTrue(c, tree, untold, cache) PROVE TaskTrue(x, tree, untold, cache)
  <2>1. DirTrue(c, tree, untold)
    BY <1>1, <1>2, <1>3, <1>7, LooksAre
  <2>2. ListTrue(c, tree, untold)
    BY <1>1, <2>1 DEF DirTrue
  <2>3. ListTrue(x, tree, untold)
    BY <1>5, <2>2 DEF ListTrue
  <2>4. DirTrue(x, tree, untold)
    BY <1>4, <1>5, <2>3 DEF DirTrue
  <2> QED BY <1>1, <1>2, <1>3, <1>5, <2>4, LooksTrue
<1> QED BY <1>1, <1>2, <1>6, <1>7, SingleLooks DEF c, x

\* The listed directory and its elements are put as they are in the tree.
LEMMA StoreListTrue ==
    ASSUME StateOK, NEW c, c.path \in Paths, Elems(c.value), CacheTrue(cache, tree, untold),
           ListTrue(c, tree, untold), c.path \notin untold => c.own = tree[c.path].id,
           cache' = [y \in Paths |->
              IF y = c.path THEN PutIn(cache, y, Entry("dir", c.own, DOMAIN c.value))[y]
              ELSE IF y \in DOMAIN c.value
              THEN PutIn(cache, y, Entry(c.value[y].kind, c.value[y].id, NoInfo))[y]
              ELSE cache[y]]
    PROVE  CacheTrue(cache', tree, untold)
<1> DEFINE own == Entry("dir", c.own, DOMAIN c.value)
           elem(y) == Entry(c.value[y].kind, c.value[y].id, NoInfo)
<1>1. CacheIs(cache) /\ TreeOK(tree)
  BY DEF StateOK
<1>2. c.path \notin untold => Coherent(own, tree, c.path)
  BY EntryIs DEF ListTrue, Coherent
<1>3. ASSUME NEW y \in DOMAIN c.value PROVE y \in Paths /\ (y \notin untold => Coherent(elem(y), tree, y))
  <2>1. y \in Paths /\ c.value[y] \in Items
    BY <1>3 DEF Elems
  <2>2. y \notin untold => tree[y] # Absent /\ c.value[y] = tree[y]
    BY <1>3, <2>1, AbsentAssumption DEF ListTrue, Items
  <2>3. y \notin untold => Coherent(elem(y), tree, y)
    BY <2>2, EntryIs DEF Coherent, Is
  <2> QED BY <2>1, <2>3
<1> HIDE DEF own, elem
<1>4. ASSUME NEW y \in Paths, cache'[y] # NoEntry, y \notin untold PROVE Coherent(cache'[y], tree, y)
  <2>1. CASE y = c.path
    <3>1. cache'[y] = PutIn(cache, y, own)[y]
      BY <2>1 DEF own
    <3> QED BY <1>1, <1>2, <1>4, <2>1, <3>1, PutInTrue
  <2>2. CASE y # c.path /\ y \in DOMAIN c.value
    <3>1. cache'[y] = PutIn(cache, y, elem(y))[y]
      BY <2>2 DEF elem
    <3> QED BY <1>1, <1>3, <1>4, <2>2, <3>1, PutInTrue
  <2>3. CASE y # c.path /\ y \notin DOMAIN c.value
    <3>1. cache'[y] = cache[y]
      BY <2>3
    <3> QED BY <1>4, <3>1 DEF CacheTrue
  <2> QED BY <2>1, <2>2, <2>3
<1> QED BY <1>4 DEF CacheTrue

LEMMA StoreListSingle == ASSUME StateOK, SingleInv, NEW t \in Tasks, StoreList(t) PROVE SingleInv'
<1> DEFINE c == task[t]
           elems == c.value
           x == task'[t]
<1>1. /\ IsRecord(c) /\ Looks(c) /\ c.at = "store" /\ c.op = "list" /\ Only(t)
      /\ UNCHANGED <<tree, handles, changes, track>>
      /\ cache' = [y \in Paths |->
            IF y = c.path THEN PutIn(cache, y, Entry("dir", c.own, DOMAIN elems))[y]
            ELSE IF y \in DOMAIN elems
            THEN PutIn(cache, y, Entry(elems[y].kind, elems[y].id, NoInfo))[y]
            ELSE cache[y]]
      /\ Moves(x, c, "attrs", Dots(c.path), "answer", c.own, c.result, c.value)
  BY StoreListIs DEF StateOK
<1>2. CASE overlapped
  BY <1>1, <1>2 DEF SingleInv, track
<1>3. CASE ~overlapped
  <2>1. c # Idle /\ c.path \in Paths /\ c.op \in Looking /\ Elems(c.value)
    BY <1>1, PlacesAre DEF Places, IsRecord, Looking, Looks
  <2>2. "store" \in Places /\ "attrs" \in Places
    BY DEF Places
  <2>3. /\ \A u \in Tasks \ {t} : task[u] = Idle
        /\ CacheTrue(cache, tree, untold \cup Pending(c))
        /\ TaskTrue(c, tree, untold, cache)
    BY <1>3, <2>1, SingleIs
  <2> HIDE DEF c, x
  <2>4. /\ x.at = "attrs" /\ x.op = c.op /\ x.path = c.path /\ x.todo = Dots(c.path) /\ x.after = "answer"
        /\ x.value = c.value
    BY <1>1, MovesIs
  <2>5. Pending(c) = {} /\ Pending(x) = {}
    BY <2>1, <2>4, NonePending
  <2>6. DirTrue(c, tree, untold)
    BY <1>1, <2>1, <2>2, <2>3, LooksAre
  <2>7. ListTrue(c, tree, untold) /\ (c.path \notin untold => c.own = tree[c.path].id)
    BY <1>1, <2>6 DEF DirTrue
  <2>8. CacheTrue(cache, tree, untold)
    BY <2>3, <2>5
  <2>9. CacheTrue(cache', tree, untold)
    BY <1>1, <2>1, <2>7, <2>8, StoreListTrue
  <2>10. ListTrue(x, tree, untold)
    BY <2>4, <2>7 DEF ListTrue
  <2>11. DirTrue(x, tree, untold)
    BY <2>1, <2>4, <2>10, DotsIs DEF DirTrue
  <2>12. TaskTrue(x, tree, untold, cache')
    BY <1>1, <2>1, <2>2, <2>4, <2>11, LooksTrue
  <2>13. tree' = tree /\ untold' = untold
    BY <1>1 DEF track
  <2>14. CacheTrue(cache', tree', untold' \cup Pending(x)) /\ TaskTrue(x, tree', untold', cache')
    BY <2>5, <2>9, <2>12, <2>13
  <2> QED BY <1>1, <2>3, <2>14, SingleStep DEF x, StateOK
<1> QED BY <1>2, <1>3

LEMMA StoreLinkSingle == ASSUME StateOK, SingleInv, NEW t \in Tasks, StoreLink(t) PROVE SingleInv'
<1> DEFINE c == task[t]
           x == task'[t]
<1>1. /\ IsRecord(c) /\ Looks(c) /\ c.at = "reply" /\ c.op = "readlink" /\ Only(t)
      /\ UNCHANGED <<tree, handles, changes, track>>
      /\ cache' = PutIn(cache, c.path, Entry("link", NoInfo, c.value))
      /\ Moves(x, c, "answer", c.todo, c.after, c.own, c.result, c.value)
  BY StoreLinkIs DEF StateOK, Turns
<1>2. CASE overlapped
  BY <1>1, <1>2 DEF SingleInv, track
<1>3. CASE ~overlapped
  <2>1. c # Idle /\ c.path \in Paths /\ c.op \in Looking /\ c.result = "done"
    BY <1>1, PlacesAre DEF Places, IsRecord, Looking, Looks
  <2>2. "reply" \in Places /\ "answer" \in Places
    BY DEF Places
  <2>3. /\ \A u \in Tasks \ {t} : task[u] = Idle
        /\ CacheTrue(cache, tree, untold \cup Pending(c))
        /\ TaskTrue(c, tree, untold, cache)
    BY <1>3, <2>1, SingleIs
  <2> HIDE DEF c, x
  <2>4. /\ x.at = "answer" /\ x.op = c.op /\ x.path = c.path /\ x.value = c.value /\ x.result = "done"
    BY <1>1, <2>1, MovesIs
  <2>5. Pending(c) = {} /\ Pending(x) = {}
    BY <2>1, <2>4, NonePending
  <2>6. Is(tree, c.path, "link") /\ c.value = tree[c.path].id
    <3>1. LinkTrue(c, tree, untold)
      BY <1>1, <2>1, <2>2, <2>3, LooksAre
    <3> QED BY <1>1, <3>1 DEF LinkTrue
  <2>7. CacheTrue(cache, tree, untold) /\ CacheIs(cache)
    BY <2>3, <2>5 DEF StateOK
  <2>8. Coherent(Entry("link", NoInfo, c.value), tree, c.path)
    BY <2>6, EntryIs DEF Coherent
  <2>9. CacheTrue(cache', tree, untold)
    BY <1>1, <2>1, <2>7, <2>8, PutInTrue
  <2>10. LinkTrue(x, tree, untold)
    BY <2>4, <2>6 DEF LinkTrue, Target
  <2>11. TaskTrue(x, tree, untold, cache')
    BY <1>1, <2>1, <2>2, <2>4, <2>10, LooksTrue
  <2>12. tree' = tree /\ untold' = untold
    BY <1>1 DEF track
  <2>13. CacheTrue(cache', tree', untold' \cup Pending(x)) /\ TaskTrue(x, tree', untold', cache')
    BY <2>5, <2>9, <2>11, <2>12
  <2> QED BY <1>1, <2>3, <2>13, SingleStep DEF x, StateOK
<1> QED BY <1>2, <1>3

----------------------------------------------------------------------------
(* A call that is tried again or given up *)

LEMMA ChangesTrue ==
    ASSUME NEW x, NEW u, NEW n, NEW e, x.op \in Mutations, x.at \in Places, ChangeTrue(x, u, n, e)
    PROVE  TaskTrue(x, u, n, e)
BY Disjoint DEF TaskTrue, CallTrue, Places, Looking, Mutations

LEMMA AgainTrue ==
    ASSUME NEW c, IsRecord(c), c.at \in {"send", "ask", "reply"}, c.op \in Mutations => c.at \in {"send", "reply"},
           c.op \in Looking => Looks(c),
           NEW u, NEW n, NEW e, CallTrue(c, u, n, e), NEW x, Loses(x, c)
    PROVE  TaskTrue(x, u, n, e) /\ Pending(x) = Pending(c)
<1> DEFINE at == IF c.at = "ask" THEN "ask" ELSE "send"
           lost == Unsaid(c)
           tries == c.tries + 1
<1>1. \/ Becomes(x, c, at, c.todo, c.after, c.own, c.result, c.value, tries, c.effects, lost)
      \/ Becomes(x, c, "answer", c.todo, c.after, c.own, "failed", c.value, c.tries, c.effects, lost)
  BY DEF Loses
<1>2. at \in {"send", "ask"} /\ (at = "ask" <=> c.at = "ask")
  OBVIOUS
<1>3. c.op \in Mutations \cup Looking
  BY DEF IsRecord
<1> HIDE DEF at, lost, tries
<1>4. /\ x.op = c.op /\ x.path = c.path /\ x.to = c.to /\ x.effects = c.effects /\ x.value = c.value
      /\ x.todo = c.todo /\ x.after = c.after
      /\ x.at = at \/ (x.at = "answer" /\ x.result = "failed")
  BY <1>1, BecomesIs
<1>5. Pending(x) = Pending(c)
  BY <1>2, <1>4 DEF Pending
<1>6. x.at \in Places
  BY <1>2, <1>4 DEF Places
<1>7. CASE c.op \in Looking
  <2>1. c.op = "stat" => StatTrue(x, u, n)
    BY <1>2, <1>4 DEF CallTrue, StatTrue
  <2>2. c.op = "readlink" => LinkTrue(x, u, n)
    BY <1>2, <1>4 DEF LinkTrue
  <2>3. c.op = "list" => DirTrue(x, u, n)
    <3> SUFFICES ASSUME c.op = "list" PROVE DirTrue(x, u, n)
      OBVIOUS
    <3>1. DirTrue(c, u, n)
      BY DEF CallTrue
    <3>2. CASE x.at = "ask"
      BY <1>2, <1>4, <3>1, <3>2 DEF DirTrue, ListTrue
    <3>3. CASE x.at # "ask"
      <4>1. x.at = "send" \/ (x.at = "answer" /\ x.result = "failed")
        BY <1>2, <1>4, <3>3
      <4> QED BY <4>1 DEF DirTrue
    <3> QED BY <3>2, <3>3
  <2> QED BY <1>4, <1>5, <1>6, <1>7, <2>1, <2>2, <2>3, LooksTrue
<1>8. CASE c.op \in Mutations
  <2>1. ChangeTrue(c, u, n, e)
    BY <1>8 DEF CallTrue
  <2>2. x.at \in {"send", "answer"} /\ (x.at = "answer" => x.result = "failed")
    BY <1>2, <1>4, <1>8
  <2>3. ChangeTrue(x, u, n, e)
    BY <1>4, <1>8, <2>1, <2>2 DEF ChangeTrue
  <2> QED BY <1>4, <1>5, <1>6, <1>8, <2>3, ChangesTrue
<1> QED BY <1>3, <1>7, <1>8

LEMMA LoseSingle == ASSUME StateOK, SingleInv, NEW t \in Tasks, Lose(t) PROVE SingleInv'
<1>1. /\ Only(t) /\ UNCHANGED <<tree, cache, handles, changes, track>>
      /\ \/ /\ task[t].at = "told" /\ task[t].call.at = "ask"
            /\ IsRecord(task[t].call) /\ Looks(task[t].call) /\ task[t].call.op \in Looking
            /\ Loses(task'[t], task[t].call)
         \/ task[t].at \in {"send", "ask", "reply"} /\ CallOK(task[t]) /\ Loses(task'[t], task[t])
  BY LoseIs DEF StateOK
<1>2. CASE task[t].at = "told"
  <2> DEFINE c == task[t].call
  <2>1. task[t] # Idle /\ Pending(task[t]) = {}
    BY <1>2, PlacesAre DEF Pending
  <2>2. Pending(c) = {}
    BY <1>1, <1>2, NonePending
  <2>3. ASSUME TaskTrue(task[t], tree, untold, cache)
        PROVE  TaskTrue(task'[t], tree, untold, cache) /\ Pending(task'[t]) = Pending(c)
    <3>1. CallTrue(c, tree, untold, cache)
      BY <1>2, <2>3 DEF TaskTrue
    <3>2. c.op \notin Mutations
      BY <1>1, <1>2, Disjoint
    <3> HIDE DEF c
    <3> QED BY <1>1, <1>2, <3>1, <3>2, AgainTrue DEF c
  <2>4. Pending(task'[t]) = {}
    <3>1. task'[t].op = c.op
      BY <1>1, <1>2, BecomesIs DEF Loses
    <3> QED BY <1>1, <1>2, <3>1, NonePending
  <2> QED BY <1>1, <2>1, <2>3, <2>4, SingleLooks
<1>3. CASE task[t].at # "told"
  <2> DEFINE c == task[t]
  <2>1. c # Idle /\ c.at \in Places
    BY <1>1, <1>3, PlacesAre DEF Places
  <2>2. IsRecord(c) /\ (c.op \in Mutations => c.at \in {"send", "reply"}) /\ (c.op \in Looking => Looks(c))
    BY <1>1, <1>3 DEF CallOK, Counted
  <2>3. Pending(task'[t]) = Pending(c)
    <3>1. /\ task'[t].op = c.op /\ task'[t].path = c.path /\ task'[t].to = c.to /\ task'[t].effects = c.effects
          /\ task'[t].at \in {"ask", "send"} \/ (task'[t].at = "answer" /\ task'[t].result = "failed")
          /\ c.op \in Mutations => task'[t].at # "ask"
      BY <1>1, <1>3, <2>2, BecomesIs DEF Loses
    <3>2. c.at \in {"send", "ask", "reply"}
      BY <1>1, <1>3
    <3>3. c.op = task'[t].op /\ c.path = task'[t].path /\ c.to = task'[t].to /\ c.effects = task'[t].effects
      BY <3>1
    <3> DEFINE x == task'[t]
    <3> HIDE DEF c, x
    <3> QED BY <2>2, <3>1, <3>2, <3>3 DEF Pending, x
  <2>4. ASSUME TaskTrue(c, tree, untold, cache) PROVE TaskTrue(task'[t], tree, untold, cache)
    <3>1. CallTrue(c, tree, untold, cache)
      BY <2>1, <2>4 DEF TaskTrue
    <3> HIDE DEF c
    <3> QED BY <1>1, <1>3, <2>2, <3>1, AgainTrue DEF c
  <2> QED BY <1>1, <2>1, <2>3, <2>4, SingleLooks
<1> QED BY <1>2, <1>3

----------------------------------------------------------------------------
(* The server carries a request out *)

\* Whether it can does not depend on the identity of a new item.
LEMMA AnyIdentity ==
    ASSUME NEW u, NEW op \in Mutations, NEW p, NEW q, NEW id
    PROVE  Trees(u, op, p, q, id) = {} <=> Trees(u, op, p, q, 0) = {}
<1>1. CASE op \in {"mkdir", "symlink", "create"}
  BY <1>1 DEF Trees, MakeDir, MakeLink, Touch
<1>2. CASE op \in {"remove", "rename", "noreplace", "exchange"}
  BY <1>2 DEF Trees
<1> QED BY <1>1, <1>2 DEF Mutations

LEMMA PresentIs ==
    ASSUME NEW u, NEW p \in Paths PROVE Present(u, p) = {x \in Children[p] : u[x] # Absent}
BY ListIs DEF Present

LEMMA AroundIs ==
    ASSUME NEW op, NEW p \in Paths, NEW q \in Paths, NEW x \in Paths, x \notin Around(op, p, q)
    PROVE  x \notin Touched(op, p, q) /\ \A y \in Children[x] : y \in Paths \ Touched(op, p, q)
<1> DEFINE T == Touched(op, p, q)
<1>1. x \notin T /\ \A y \in T : x # Up[y]
  BY DEF Around
<1>2. \A y \in Children[x] : y \in Paths /\ Up[y] = x
  BY ChildrenAre
<1> HIDE DEF T
<1>3. \A y \in Children[x] : y \notin T
  BY <1>1, <1>2
<1> QED BY <1>1, <1>2, <1>3 DEF T

\* A change says nothing about the paths that are not around it.
LEMMA OutsideTrue ==
    ASSUME NEW op, NEW p \in Paths, NEW q \in Paths, NEW u, NEW n, NEW x \in Paths, x \notin Around(op, p, q),
           \A y \in Paths \ Touched(op, p, q) : n[y] = u[y], NEW e, Coherent(e, u, x)
    PROVE  Coherent(e, n, x)
<1>0. x \notin Touched(op, p, q) /\ \A y \in Children[x] : y \in Paths \ Touched(op, p, q)
  BY AroundIs
<1>1. n[x] = u[x] /\ \A y \in Children[x] : n[y] = u[y]
  <2> DEFINE T == Touched(op, p, q)
  <2> HIDE DEF T
  <2> QED BY <1>0 DEF T
<1>2. Present(n, x) = Present(u, x)
  <2>1. Present(n, x) = {c \in Children[x] : n[c] # Absent} /\ Present(u, x) = {c \in Children[x] : u[c] # Absent}
    BY PresentIs
  <2> QED BY <1>1, <2>1
<1> QED BY <1>1, <1>2 DEF Coherent, Is

LEMMA ChildMoves ==
    ASSUME NEW p \in Paths, NEW q \in Paths, NEW x \in Children[p], Rebase(x, p, q) \in Paths
    PROVE  /\ Rebase(x, p, q) \in Children[q] /\ Rebase(x, p, q) \in Below[q]
           /\ Rebase(Rebase(x, p, q), q, p) = x
<1>1. x \in Paths /\ x # Root /\ Up[x] = p
  BY ChildrenAre
<1>2. x \in Below[p]
  BY <1>1, UpIs
<1>3. Rebase(x, p, q) \in Below[q] /\ Rebase(Rebase(x, p, q), q, p) = x /\ Rebase(p, p, q) = q
  <2>1. Rebase(p, p, q) = q
    <3>1. Rebase(p, p, q) \in Paths
      BY <1>1, <1>2, RebaseUp
    <3> QED BY <3>1, RebaseBack
  <2> QED BY <1>1, <1>2, <2>1, RebaseBack
<1>4. Rebase(x, p, q) # Root
  BY <1>3, BelowUp
<1>5. Up[Rebase(x, p, q)] = q
  BY <1>1, <1>2, <1>3, RebaseUp
<1> QED BY <1>3, <1>4, <1>5, ChildrenAre

\* The entry of an item that fits below its new name is true of it there.
LEMMA CarriedTrue ==
    ASSUME NEW u, TreeOK(u), NEW p \in Paths, NEW q \in Paths, Fits(u, p, q),
           NEW e, EntryOK(e), Coherent(e, u, p)
    PROVE  Coherent(Carried(e, p, q), Moved(u, p, q), q)
<1> DEFINE n == Moved(u, p, q)
<1>1. /\ n[q] = u[p]
      /\ \A y \in Below[q] : Rebase(y, q, p) \in Paths => n[y] = u[Rebase(y, q, p)]
      /\ \A y \in Below[q] : Rebase(y, q, p) \notin Paths => n[y] = Absent
  BY MovedIs
<1> HIDE DEF n
<1>2. Present(u, p) = {x \in Children[p] : u[x] # Absent} /\ Present(n, q) = {y \in Children[q] : n[y] # Absent}
  BY PresentIs
<1>0. \A y \in Children[q] : y \in Paths
  BY ChildrenAre
<1>3. Children[p] \subseteq Below[p] /\ Children[q] \subseteq Below[q]
  BY ChildrenAre, UpIs
<1>4. ASSUME NEW x \in Present(u, p) PROVE Rebase(x, p, q) \in Present(n, q)
  <2>1. x \in Children[p] /\ u[x] # Absent /\ Rebase(x, p, q) \in Paths
    BY <1>2, <1>3 DEF Fits
  <2>2. Rebase(x, p, q) \in Children[q] /\ Rebase(x, p, q) \in Below[q] /\ Rebase(Rebase(x, p, q), q, p) = x
    BY <2>1, ChildMoves
  <2>3. x \in Paths
    BY <2>1, ChildrenAre
  <2> DEFINE y == Rebase(x, p, q)
  <2>4. Rebase(y, q, p) \in Paths => n[y] = u[Rebase(y, q, p)]
    BY <1>1, <2>2
  <2> HIDE DEF y
  <2>5. n[y] = u[x]
    BY <2>2, <2>3, <2>4 DEF y
  <2> QED BY <1>2, <2>1, <2>2, <2>5 DEF y
<1>5. ASSUME NEW y \in Present(n, q) PROVE \E x \in Present(u, p) : y = Rebase(x, p, q)
  <2>1. y \in Children[q] /\ y \in Below[q] /\ n[y] # Absent
    BY <1>2, <1>3
  <2> DEFINE x == Rebase(y, q, p)
  <2>0. x \in Paths => n[y] = u[x]
    BY <1>1, <2>1
  <2>2. x \in Paths /\ u[x] # Absent
    <3>1. x \notin Paths => n[y] = Absent
      BY <1>1, <2>1
    <3> HIDE DEF x
    <3> QED BY <2>0, <2>1, <3>1
  <2>3. x \in Children[p] /\ Rebase(x, p, q) = y
    BY <2>1, <2>2, ChildMoves
  <2> HIDE DEF x
  <2> QED BY <1>2, <2>2, <2>3
<1>6. {Rebase(x, p, q) : x \in Present(u, p)} = Present(n, q)
  BY <1>4, <1>5
<1> DEFINE d == Carried(e, p, q)
           more == IF e.kind = "dir" /\ e.more # NoInfo THEN {Rebase(x, p, q) : x \in e.more} ELSE e.more
<1>7. d.kind = e.kind /\ d.attrs = e.attrs /\ d.more = more
  BY CarriedIs, EntryIs
<1>8. e.kind = "dir" => more = NoInfo \/ more = Present(n, q)
  BY <1>6 DEF Coherent
<1>9. e.kind = "link" => more = e.more
  OBVIOUS
<1> HIDE DEF d, more
<1>10. Coherent(d, n, q)
  BY <1>1, <1>7, <1>8, <1>9 DEF Coherent, Is
<1> QED BY <1>10 DEF d, n

\* An exchange that got half way cannot be carried out any more.
LEMMA HalfRefused ==
    ASSUME NEW u, NEW p \in Paths, NEW q \in Paths, NEW n \in HalfExchange(u, p, q), NEW id
    PROVE  Trees(n, "exchange", p, q, id) = {}
<1>1. n = Gone(u, p)
  BY DEF HalfExchange
<1>2. n[p] = Absent
  BY <1>1 DEF Gone
<1>3. ~CanExchange(n, p, q)
  BY <1>2 DEF CanExchange
<1> QED BY <1>3 DEF Trees, Exchange

\* A creation that is carried out leaves an item of its kind, and a directory that is empty.
LEMMA CreationMakes ==
    ASSUME NEW u, TreeOK(u), NEW op \in Creations, NEW p \in Paths, NEW q, NEW id \in Nat,
           NEW n \in Trees(u, op, p, q, id)
    PROVE  /\ Is(n, p, KindOf(op))
           /\ op = "mkdir" => Present(n, p) = {}
<1>0. u \in [Paths -> Items \cup {Absent}]
  BY DEF TreeOK
<1>1. \/ n = u /\ Is(u, p, "file") /\ op = "create"
      \/ Free(u, p) /\ n = Put(u, p, Item(KindOf(op), id))
  <2>1. CASE op = "mkdir"
    BY <2>1 DEF Trees, MakeDir, KindOf
  <2>2. CASE op = "symlink"
    BY <2>2 DEF Trees, MakeLink, KindOf
  <2>3. CASE op = "create"
    BY <2>3 DEF Trees, Touch, KindOf
  <2> QED BY <2>1, <2>2, <2>3 DEF Creations
<1>2. CASE n = u /\ Is(u, p, "file") /\ op = "create"
  BY <1>2 DEF KindOf
<1>3. CASE Free(u, p) /\ n = Put(u, p, Item(KindOf(op), id))
  <2>1. KindOf(op) \in Kinds
    BY DEF KindOf, Kinds, Creations
  <2>2. n[p] = Item(KindOf(op), id) /\ \A x \in Paths \ {p} : n[x] = u[x]
    BY <1>0, <1>3, PutIs
  <2>3. Is(n, p, KindOf(op))
    BY <2>1, <2>2, ItemIs DEF Is
  <2>4. \A x \in Below[p] : u[x] = Absent
    BY <1>3, NothingBelow DEF Free, Is
  <2>5. Children[p] \subseteq Below[p]
    BY ChildrenAre, UpIs
  <2>6. \A x \in Below[p] : x \in Paths \ {p}
    BY BelowOrder
  <2>7. \A x \in Children[p] : n[x] = Absent
    BY <2>2, <2>4, <2>5, <2>6
  <2>8. Present(n, p) = {}
    BY <2>7, PresentIs
  <2> QED BY <2>3, <2>8
<1> QED BY <1>1, <1>2, <1>3

\* A rename that is carried out moves the item.
LEMMA RenameMoves ==
    ASSUME NEW u, TreeOK(u), NEW op \in {"rename", "noreplace"}, NEW p \in Paths, NEW q \in Paths, NEW id,
           NEW n \in Trees(u, op, p, q, id), p # q
    PROVE  u[p] # Absent /\ n = Moved(u, p, q) /\ n[p] = Absent
<1>1. n \in Move(u, p, q)
  BY DEF Trees, MoveNoReplace
<1>2. CanMove(u, p, q) /\ n = Moved(u, p, q)
  BY <1>1 DEF Move
<1> QED BY <1>2, MoveTree DEF CanMove

\* The rest of the cache is true of the tree after a change.
LEMMA ServedCache ==
    ASSUME CacheIs(cache), NEW op, NEW p \in Paths, NEW q \in Paths, NEW u, NEW n,
           \A y \in Paths \ Touched(op, p, q) : n[y] = u[y], NEW a, NEW b, CacheTrue(cache, u, a),
           a \cup Around(op, p, q) \subseteq b
    PROVE  CacheTrue(cache, n, b)
<1>1. ASSUME NEW x \in Paths, cache[x] # NoEntry, x \notin b PROVE Coherent(cache[x], n, x)
  <2>1. x \notin a /\ x \notin Around(op, p, q)
    BY <1>1
  <2>2. Coherent(cache[x], u, x)
    BY <1>1, <2>1 DEF CacheTrue
  <2> QED BY <2>1, <2>2, OutsideTrue
<1> QED BY <1>1 DEF CacheTrue

\* What is known of a rename once the server has carried it out.
LEMMA RenameTrue ==
    ASSUME NEW u, TreeOK(u), NEW op \in {"rename", "noreplace"}, NEW p \in Paths, NEW q \in Paths, NEW id,
           NEW n \in Trees(u, op, p, q, id), p # q, Fits(u, p, q), CacheIs(cache), NEW a, CacheTrue(cache, u, a),
           p \notin a, cache[p] # NoEntry
    PROVE  Coherent(Carried(cache[p], p, q), n, q)
<1>1. n = Moved(u, p, q)
  BY RenameMoves
<1>2. EntryOK(cache[p]) /\ Coherent(cache[p], u, p)
  BY DEF CacheIs, CacheTrue
<1> QED BY <1>1, <1>2, CarriedTrue

LEMMA ServeSingle == ASSUME StateOK, SingleInv, NEW t \in Tasks, Serve(t) PROVE SingleInv'
<1> DEFINE c == task[t]
           changed == Trees(tree, c.op, c.path, c.to, changes + 1)
           half == IF c.op = "exchange" THEN HalfExchange(tree, c.path, c.to) ELSE {}
           effects == IF changed \cup half # {} THEN c.effects + 1 ELSE c.effects
           x == task'[t]
<1>1. /\ IsRecord(c) /\ Counted(c) /\ c.at = "send" /\ c.op \in Mutations /\ Only(t)
      /\ tree' \in IF changed # {} THEN changed ELSE IF half # {} THEN half ELSE {tree}
      /\ UNCHANGED <<cache, handles, track>>
  BY ServeIs DEF StateOK
<1>0. PICK result \in {"done", "refused", "error"} :
        /\ result = "refused" <=> changed = {}
        /\ Becomes(x, c, "reply", c.todo, c.after,
                   IF c.op \in Creations /\ result = "done" THEN tree'[c.path].id ELSE NoInfo,
                   result, c.value, c.tries, effects, c.lost)
  BY ServeIs DEF StateOK
<1> DEFINE own == IF c.op \in Creations /\ result = "done" THEN tree'[c.path].id ELSE NoInfo
<1>2. /\ c.path \in Paths /\ c.to \in Paths /\ c.effects \in Nat /\ TreeOK(tree) /\ CacheIs(cache) /\ TasksOK
      /\ changes + 1 \in Nat
  BY <1>1 DEF IsRecord, StateOK
<1>3. TreeOK(tree') /\ \A y \in Paths \ Touched(c.op, c.path, c.to) : tree'[y] = tree[y]
  BY ServeState DEF StateOK
<1>4. CASE overlapped
  BY <1>1, <1>4 DEF SingleInv, track
<1>5. CASE ~overlapped
  <2>1. c # Idle /\ cache' = cache /\ untold' = untold
    BY <1>1, PlacesAre DEF Places, track
  <2>2. /\ \A u \in Tasks \ {t} : task[u] = Idle
        /\ CacheTrue(cache, tree, untold \cup Pending(c)) /\ TaskTrue(c, tree, untold, cache)
    BY <1>5, <2>1, SingleIs
  <2>3. ChangeTrue(c, tree, untold, cache)
    BY <1>1, <2>2 DEF TaskTrue, CallTrue, Places
  <2>4. /\ result = "refused" <=> changed = {}
        /\ result = "done" => changed # {}
        /\ changed \cup half = {} => effects = c.effects
        /\ changed \cup half # {} => effects = c.effects + 1
        /\ changed = {} /\ half = {} => tree' = tree
        /\ changed # {} => tree' \in changed
        /\ changed = {} /\ half # {} => tree' \in half /\ c.op = "exchange" /\ half = HalfExchange(tree, c.path, c.to)
        /\ c.op \in Creations /\ result = "done" => own = tree'[c.path].id
    BY <1>0, <1>1
  <2>5. c.op \in Mutations /\ c.at = "send" /\ (c.effects > 0 => Pending(c) = Around(c.op, c.path, c.to))
        /\ (c.effects = 0 => Pending(c) = {})
    BY <1>1 DEF Pending
  <2> HIDE DEF c, changed, half, effects, x
  <2>6. /\ x.op = c.op /\ x.at = "reply" /\ x.effects = effects /\ x.result = result /\ x.own = own
        /\ x.path = c.path /\ x.to = c.to
    BY <1>0, BecomesIs
  <2> HIDE DEF own
  <2>7. Pending(x) = IF effects > 0 THEN Around(c.op, c.path, c.to) ELSE {}
    BY <2>5, <2>6 DEF Pending
  <2>8. CacheTrue(cache', tree', untold' \cup Pending(x))
    <3>1. CASE changed \cup half = {}
      <4>1. tree' = tree /\ effects = c.effects
        BY <2>4, <3>1
      <4>2. Pending(x) = Pending(c)
        BY <1>2, <2>5, <2>7, <4>1
      <4> QED BY <2>1, <2>2, <4>1, <4>2
    <3>2. CASE changed \cup half # {}
      <4>1. Pending(x) = Around(c.op, c.path, c.to) /\ Pending(c) \subseteq Pending(x)
        BY <1>2, <2>4, <2>5, <2>7, <3>2
      <4>2. (untold \cup Pending(c)) \cup Around(c.op, c.path, c.to) \subseteq untold \cup Pending(x)
        BY <4>1
      <4> QED BY <1>2, <1>3, <2>1, <2>2, <4>2, ServedCache
    <3> QED BY <3>1, <3>2
  <2>9. ChangeTrue(x, tree', untold', cache')
    <3>1. ASSUME result = "refused" PROVE Trees(tree', c.op, c.path, c.to, 0) = {}
      <4>1. changed = {}
        BY <2>4, <3>1
      <4>2. CASE half = {}
        BY <2>4, <2>5, <4>1, <4>2, AnyIdentity DEF changed
      <4>3. CASE half # {}
        BY <1>2, <2>4, <4>1, <4>3, HalfRefused
      <4> QED BY <4>2, <4>3
    <3>2. ASSUME c.op \in Creations, result = "done"
          PROVE  Is(tree', c.path, KindOf(c.op)) /\ tree'[c.path].id = own /\ (c.op = "mkdir" => Present(tree', c.path) = {})
      <4>1. changed # {} /\ tree' \in Trees(tree, c.op, c.path, c.to, changes + 1) /\ own = tree'[c.path].id
        BY <2>4, <3>2 DEF changed
      <4> QED BY <1>2, <3>2, <4>1, CreationMakes
    <3>3. ASSUME c.op \in {"rename", "noreplace"}
          PROVE  /\ effects = 0 => Fits(tree', c.path, c.to)
                 /\ effects > 0 => c.path = c.to \/ tree'[c.path] = Absent
                 /\ result = "done" /\ c.path # c.to /\ c.path \notin untold /\ cache[c.path] # NoEntry
                      => Coherent(Carried(cache[c.path], c.path, c.to), tree', c.to)
      <4>1. half = {}
        BY <3>3 DEF half
      <4>2. /\ c.effects = 0 => Fits(tree, c.path, c.to)
            /\ c.effects > 0 => c.path = c.to \/ tree[c.path] = Absent
        BY <2>3, <2>5, <3>3 DEF ChangeTrue
      <4>3. CASE changed = {}
        BY <2>4, <4>1, <4>2, <4>3
      <4>4. CASE changed # {} /\ c.path = c.to
        BY <1>2, <2>4, <4>4
      <4>5. CASE changed # {} /\ c.path # c.to
        <5>1. tree' \in Trees(tree, c.op, c.path, c.to, changes + 1) /\ effects = c.effects + 1
          BY <2>4, <4>5 DEF changed
        <5>2. tree[c.path] # Absent /\ tree'[c.path] = Absent
          BY <1>2, <3>3, <4>5, <5>1, RenameMoves
        <5>3. c.effects = 0
          BY <1>2, <4>2, <4>5, <5>2
        <5>4. CacheTrue(cache, tree, untold)
          BY <2>2, <2>5, <5>3
        <5>5. Fits(tree, c.path, c.to)
          BY <4>2, <5>3
        <5>6. c.path \notin untold /\ cache[c.path] # NoEntry => Coherent(Carried(cache[c.path], c.path, c.to), tree', c.to)
          BY <1>2, <3>3, <4>5, <5>1, <5>4, <5>5, RenameTrue
        <5> QED BY <5>1, <5>2, <5>3, <5>6
      <4> QED BY <4>3, <4>4, <4>5
    <3> QED BY <2>1, <2>6, <3>1, <3>2, <3>3 DEF ChangeTrue
  <2>10. x.op \in Mutations /\ x.at \in Places
    BY <2>5, <2>6 DEF Places
  <2>11. TaskTrue(x, tree', untold', cache')
    BY <2>9, <2>10, ChangesTrue
  <2> QED BY <1>1, <1>2, <2>2, <2>8, <2>11, SingleStep DEF x
<1> QED BY <1>4, <1>5

----------------------------------------------------------------------------
(* The answer reaches the cache *)

\* What is around a change is at, above or below the two paths.
LEMMA UpOrAbove ==
    ASSUME NEW p \in Paths PROVE Up[p] \in Paths /\ (Up[p] = p \/ Up[p] \in Above[p]) /\ Above[p] \subseteq Paths
<1>1. Up[p] \in Paths /\ (p = Root => Up[p] = Root)
  BY UpIs
<1>2. p # Root => Up[p] \in Above[p]
  BY AboveIs
<1>3. Above[p] \subseteq Paths
  BY BelowOrder
<1> QED BY <1>1, <1>2, <1>3

LEMMA AroundOne ==
    ASSUME NEW op \in {"mkdir", "symlink", "create", "remove"}, NEW p \in Paths, NEW q
    PROVE  Around(op, p, q) \subseteq {p} \cup Above[p]
<1>1. Touched(op, p, q) = {p}
  BY DEF Touched
<1> QED BY <1>1, UpOrAbove DEF Around

LEMMA AroundTwo ==
    ASSUME NEW op \in {"rename", "noreplace", "exchange"}, NEW p \in Paths, NEW q \in Paths
    PROVE  /\ Around(op, p, q) \subseteq {p, q, Up[p], Up[q]} \cup Below[p] \cup Below[q]
           /\ op # "exchange" /\ p = q => Around(op, p, q) = {}
<1> DEFINE T == Touched(op, p, q)
<1>1. T \subseteq {p, q} \cup Below[p] \cup Below[q]
  BY DEF Touched
<1>2. ASSUME NEW x \in Below[p] \cup Below[q] PROVE Up[x] \in {p, q} \cup Below[p] \cup Below[q]
  <2>1. x \in Paths
    BY BelowOrder
  <2> QED BY <1>2, <2>1, BelowUp
<1>3. op # "exchange" /\ p = q => T = {}
  BY DEF Touched
<1>4. Around(op, p, q) = T \cup {Up[x] : x \in T}
  BY DEF Around
<1> HIDE DEF T
<1>5. ASSUME NEW x \in T PROVE Up[x] \in {p, q, Up[p], Up[q]} \cup Below[p] \cup Below[q]
  BY <1>1, <1>2, <1>5
<1> QED BY <1>1, <1>3, <1>4, <1>5

LEMMA RemoveKeeps ==
    ASSUME NEW c, NEW p \in Paths, NEW x \in Paths, RemoveFrom(c, p)[x] # NoEntry
    PROVE  x # p /\ x \notin Above[p] /\ RemoveFrom(c, p)[x] = c[x]
BY DEF RemoveFrom

LEMMA PutNewKeeps ==
    ASSUME NEW c, NEW p \in Paths, NEW e, NEW x \in Paths, PutNew(c, p, e)[x] # NoEntry
    PROVE  x \notin Above[p] /\ PutNew(c, p, e)[x] = (IF x = p THEN e ELSE c[x])
BY DEF PutNew

\* The cache before the answer, but for what is around the change.
Behind(c, u, n, t) ==
    \A x \in Paths : c[x] # NoEntry /\ x \notin n /\ x \notin t => Coherent(c[x], u, x)

LEMMA MadeTrue ==
    ASSUME NEW op \in Creations, NEW p \in Paths, NEW q, NEW c, NEW u, NEW n, Behind(c, u, n, Around(op, p, q)),
           NEW e, Coherent(e, u, p)
    PROVE  CacheTrue(PutNew(c, p, e), u, n \ {p})
<1> DEFINE d == PutNew(c, p, e)
<1> SUFFICES ASSUME NEW x \in Paths, d[x] # NoEntry, x \notin n \ {p} PROVE Coherent(d[x], u, x)
  BY DEF CacheTrue
<1>1. x \notin Above[p] /\ d[x] = (IF x = p THEN e ELSE c[x])
  BY PutNewKeeps
<1>2. op \in {"mkdir", "symlink", "create", "remove"}
  BY DEF Creations
<1>3. x # p => x \notin Around(op, p, q)
  BY <1>1, <1>2, AroundOne
<1> HIDE DEF d
<1> QED BY <1>1, <1>3 DEF Behind

LEMMA RemovedTrue ==
    ASSUME NEW p \in Paths, NEW q, NEW c, NEW u, NEW n, Behind(c, u, n, Around("remove", p, q))
    PROVE  CacheTrue(RemoveFrom(c, p), u, n)
<1> DEFINE d == RemoveFrom(c, p)
<1> SUFFICES ASSUME NEW x \in Paths, d[x] # NoEntry, x \notin n PROVE Coherent(d[x], u, x)
  BY DEF CacheTrue
<1>1. x \notin {p} \cup Above[p] /\ d[x] = c[x]
  BY RemoveKeeps
<1>2. x \notin Around("remove", p, q)
  BY <1>1, AroundOne
<1> HIDE DEF d
<1> QED BY <1>1, <1>2 DEF Behind

LEMMA ExchangedTrue ==
    ASSUME NEW p \in Paths, NEW q \in Paths, NEW c, NEW u, NEW n, Behind(c, u, n, Around("exchange", p, q))
    PROVE  CacheTrue(RemoveFrom(RemoveFrom(c, p), q), u, n \cup Below[p] \cup Below[q])
<1> DEFINE b == RemoveFrom(c, p)
           d == RemoveFrom(b, q)
<1> SUFFICES ASSUME NEW x \in Paths, d[x] # NoEntry, x \notin n \cup Below[p] \cup Below[q] PROVE Coherent(d[x], u, x)
  BY DEF CacheTrue
<1>1. x \notin {q} \cup Above[q] /\ d[x] = b[x]
  BY RemoveKeeps
<1>2. x \notin {p} \cup Above[p] /\ b[x] = c[x]
  <2> HIDE DEF d
  <2>1. b[x] # NoEntry
    BY <1>1
  <2> QED BY <2>1, RemoveKeeps
<1>3. x \notin Around("exchange", p, q)
  BY <1>1, <1>2, AroundTwo, UpOrAbove
<1> HIDE DEF d, b
<1> QED BY <1>1, <1>2, <1>3 DEF Behind

\* The item of a path that is carried to itself.
LEMMA CarriedSelf ==
    ASSUME NEW u, NEW p \in Paths, NEW e, EntryOK(e), Coherent(e, u, p) PROVE Coherent(Carried(e, p, p), u, p)
<1>1. Present(u, p) \subseteq Children[p]
  BY PresentIs
<1>2. \A x \in Children[p] : x \in Paths /\ x \in Below[p]
  BY ChildrenAre, UpIs
<1>3. \A x \in Present(u, p) : Rebase(x, p, p) = x
  BY <1>1, <1>2, RebaseSelf
<1>4. {Rebase(x, p, p) : x \in Present(u, p)} = Present(u, p)
  BY <1>3
<1> DEFINE d == Carried(e, p, p)
           more == IF e.kind = "dir" /\ e.more # NoInfo THEN {Rebase(x, p, p) : x \in e.more} ELSE e.more
<1>5. d.kind = e.kind /\ d.attrs = e.attrs /\ d.more = more
  BY CarriedIs, EntryIs
<1>6. e.kind = "dir" => more = NoInfo \/ more = Present(u, p)
  BY <1>4 DEF Coherent
<1>7. e.kind = "link" => more = e.more
  OBVIOUS
<1> HIDE DEF d, more
<1> QED BY <1>5, <1>6, <1>7 DEF Coherent, Is, d

LEMMA RenamedTrue ==
    ASSUME NEW op \in {"rename", "noreplace"}, NEW p \in Paths, NEW q \in Paths, NEW c, CacheIs(c), NEW u, NEW n,
           Behind(c, u, n, Around(op, p, q)),
           p # q /\ p \notin n /\ c[p] # NoEntry => Coherent(Carried(c[p], p, q), u, q)
    PROVE  /\ c[p] # NoEntry => CacheTrue(PutNew(RemoveFrom(c, p), q, Carried(c[p], p, q)), u,
                                          (n \ {q}) \cup Below[p] \cup Below[q] \cup (IF p \in n THEN {q} ELSE {}))
           /\ c[p] = NoEntry => CacheTrue(RemoveFrom(c, p), u, n \cup Below[p] \cup Below[q] \cup {q, Up[q]})
<1> DEFINE b == RemoveFrom(c, p)
           e == Carried(c[p], p, q)
           d == PutNew(b, q, e)
<1>1. ASSUME NEW x \in Paths, b[x] # NoEntry PROVE x \notin {p} \cup Above[p] /\ b[x] = c[x]
  BY <1>1, RemoveKeeps
<1>2. ASSUME NEW x \in Paths, x \notin {p, q} \cup Above[p] \cup Above[q] \cup Below[p] \cup Below[q]
      PROVE  x \notin Around(op, p, q)
  BY <1>2, AroundTwo, UpOrAbove
<1>3. ASSUME c[p] # NoEntry, NEW x \in Paths, d[x] # NoEntry, x \notin Below[p] \cup Below[q],
             x = q => p \notin n, x # q => x \notin n
      PROVE  Coherent(d[x], u, x)
  <2>1. x \notin Above[q] /\ d[x] = (IF x = q THEN e ELSE b[x])
    BY <1>3, PutNewKeeps
  <2>2. CASE x = q /\ p # q
    BY <1>3, <2>1, <2>2
  <2>3. CASE x = q /\ p = q
    <3>1. p \notin Around(op, p, q)
      BY <2>3, AroundTwo
    <3>2. EntryOK(c[p]) /\ Coherent(c[p], u, p)
      BY <1>3, <2>3, <3>1 DEF Behind, CacheIs
    <3>3. Coherent(Carried(c[p], p, p), u, p)
      BY <3>2, CarriedSelf
    <3> QED BY <2>1, <2>3, <3>3
  <2>4. CASE x # q
    <3>1. b[x] # NoEntry /\ d[x] = b[x]
      BY <1>3, <2>1, <2>4
    <3>2. x \notin {p} \cup Above[p] /\ b[x] = c[x]
      BY <1>1, <3>1
    <3>3. x \notin Around(op, p, q)
      BY <1>2, <1>3, <2>1, <2>4, <3>2
    <3> HIDE DEF d, b, e
    <3> QED BY <1>3, <2>4, <3>1, <3>2, <3>3 DEF Behind
  <2> QED BY <2>2, <2>3, <2>4
<1>4. ASSUME c[p] = NoEntry, NEW x \in Paths, b[x] # NoEntry, x \notin n \cup Below[p] \cup Below[q] \cup {q, Up[q]}
      PROVE  Coherent(b[x], u, x)
  <2>1. x \notin {p} \cup Above[p] /\ b[x] = c[x]
    BY <1>1, <1>4
  <2>2. x \notin Around(op, p, q)
    BY <1>4, <2>1, AroundTwo, UpOrAbove
  <2> HIDE DEF b
  <2> QED BY <1>4, <2>1, <2>2 DEF Behind
<1> HIDE DEF d, b, e
<1>5. c[p] # NoEntry => CacheTrue(d, u, (n \ {q}) \cup Below[p] \cup Below[q] \cup (IF p \in n THEN {q} ELSE {}))
  BY <1>3 DEF CacheTrue
<1>6. c[p] = NoEntry => CacheTrue(b, u, n \cup Below[p] \cup Below[q] \cup {q, Up[q]})
  BY <1>4 DEF CacheTrue
<1> QED BY <1>5, <1>6 DEF d, b, e

LEMMA LearnsTrue ==
    ASSUME CacheIs(cache), NEW t \in Tasks, IsRecord(task[t]), task[t].at = "reply", task[t].result = "done", Learns(t),
           ChangeTrue(task[t], tree, untold, cache),
           Behind(cache, tree, untold, Around(task[t].op, task[t].path, task[t].to))
    PROVE  CacheTrue(cache', tree, untold')
<1> DEFINE c == task[t]
           p == c.path
           q == c.to
<1>1. p \in Paths /\ q \in Paths /\ c.own \in Nat \cup {NoInfo}
  BY DEF IsRecord
<1>2. ASSUME c.op \in Creations, NEW more, c.op = "mkdir" => more = {}, c.op = "symlink" => more = c.own
      PROVE  Coherent(Entry(KindOf(c.op), c.own, more), tree, p)
  <2>1. Is(tree, p, KindOf(c.op)) /\ tree[p].id = c.own /\ (c.op = "mkdir" => Present(tree, p) = {})
    BY <1>2 DEF ChangeTrue
  <2>2. /\ KindOf(c.op) = "dir" => c.op = "mkdir"
        /\ KindOf(c.op) = "link" => c.op = "symlink"
    BY <1>2 DEF KindOf, Creations
  <2> HIDE DEF c, p
  <2> QED BY <1>2, <2>1, <2>2, EntryIs DEF Coherent
<1>3. CASE MadeFile(t)
  <2>1. c.op = "create" /\ cache' = PutNew(cache, p, Entry("file", c.own, NoInfo)) /\ untold' = untold \ {p}
    BY <1>3 DEF MadeFile, IsDone, Made, Told
  <2>2. c.op \in Creations /\ KindOf(c.op) = "file"
    BY <2>1 DEF Creations, KindOf
  <2>3. Coherent(Entry("file", c.own, NoInfo), tree, p)
    BY <1>2, <2>1, <2>2
  <2> QED BY <1>1, <2>1, <2>2, <2>3, MadeTrue
<1>4. CASE MadeDir(t)
  <2>1. c.op = "mkdir" /\ cache' = PutNew(cache, p, Entry("dir", c.own, {})) /\ untold' = untold \ {p}
    BY <1>4 DEF MadeDir, IsDone, Made, Told
  <2>2. c.op \in Creations /\ KindOf(c.op) = "dir"
    BY <2>1 DEF Creations, KindOf
  <2>3. Coherent(Entry("dir", c.own, {}), tree, p)
    BY <1>2, <2>1, <2>2
  <2> QED BY <1>1, <2>1, <2>2, <2>3, MadeTrue
<1>5. CASE MadeLink(t)
  <2>1. c.op = "symlink" /\ cache' = PutNew(cache, p, Entry("link", c.own, c.own)) /\ untold' = untold \ {p}
    BY <1>5 DEF MadeLink, IsDone, Made, Told
  <2>2. c.op \in Creations /\ KindOf(c.op) = "link"
    BY <2>1 DEF Creations, KindOf
  <2>3. Coherent(Entry("link", c.own, c.own), tree, p)
    BY <1>2, <2>1, <2>2
  <2> QED BY <1>1, <2>1, <2>2, <2>3, MadeTrue
<1>6. CASE Removed(t)
  <2>1. c.op = "remove" /\ cache' = RemoveFrom(cache, p) /\ untold' = untold
    BY <1>6 DEF Removed, IsDone, Told
  <2> QED BY <1>1, <2>1, RemovedTrue
<1>7. CASE Exchanged(t)
  <2>1. c.op = "exchange" /\ cache' = RemoveFrom(RemoveFrom(cache, p), q) /\ untold' = untold \cup Below[p] \cup Below[q]
    BY <1>7 DEF Exchanged, IsDone, Told
  <2> QED BY <1>1, <2>1, ExchangedTrue
<1>8. CASE Renamed(t)
  <2> DEFINE known == cache[p] # NoEntry
             bare == RemoveFrom(cache, p)
             moved == IF known THEN PutNew(bare, q, Carried(cache[p], p, q)) ELSE bare
             target == IF known THEN IF p \in untold THEN {q} ELSE {} ELSE {q, Up[q]}
  <2>1. /\ cache' = moved /\ c.op \in {"rename", "noreplace"}
        /\ untold' = (untold \ (IF known THEN {q} ELSE {})) \cup Below[p] \cup Below[q] \cup target
    BY <1>8 DEF Renamed, IsDone, Told
  <2>2. p # q /\ p \notin untold /\ cache[p] # NoEntry => Coherent(Carried(cache[p], p, q), tree, q)
    BY <2>1 DEF ChangeTrue
  <2>3. /\ c.op \in {"rename", "noreplace"} /\ p \in Paths /\ q \in Paths
        /\ Behind(cache, tree, untold, Around(c.op, p, q))
    BY <1>1, <2>1
  <2> HIDE DEF p, q, c
  <2>4. CASE known
    <3>1. cache' = PutNew(bare, q, Carried(cache[p], p, q))
      BY <2>1, <2>4
    <3>2. untold' = (untold \ {q}) \cup Below[p] \cup Below[q] \cup (IF p \in untold THEN {q} ELSE {})
      BY <2>1, <2>4
    <3> QED BY <2>2, <2>3, <2>4, <3>1, <3>2, RenamedTrue
  <2>5. CASE ~known
    <3>1. cache' = bare /\ untold' = untold \cup Below[p] \cup Below[q] \cup {q, Up[q]} /\ cache[p] = NoEntry
      BY <2>1, <2>5
    <3> QED BY <2>2, <2>3, <3>1, RenamedTrue
  <2> QED BY <2>4, <2>5
<1> QED BY <1>3, <1>4, <1>5, <1>6, <1>7, <1>8 DEF Learns

LEMMA AnsweredSingle == ASSUME StateOK, SingleInv, NEW t \in Tasks, Refused(t) \/ Learns(t) PROVE SingleInv'
<1> DEFINE c == task[t]
           x == task'[t]
<1>1. /\ IsRecord(c) /\ CallOK(c) /\ c.at = "reply" /\ c.op \in Mutations /\ Only(t)
      /\ Turns(x, c, "answer") /\ UNCHANGED <<tree, overlapped>>
      /\ Refused(t) => c.result = "refused" /\ UNCHANGED <<cache, untold>>
      /\ Learns(t) => c.result = "done"
  BY AnsweredIs DEF StateOK
<1>2. CASE overlapped
  BY <1>1, <1>2 DEF SingleInv
<1>3. CASE ~overlapped
  <2>1. c # Idle
    BY <1>1, PlacesAre DEF Places
  <2>2. /\ \A u \in Tasks \ {t} : task[u] = Idle
        /\ CacheTrue(cache, tree, untold \cup Pending(c)) /\ TaskTrue(c, tree, untold, cache)
    BY <1>3, <2>1, SingleIs
  <2>3. ChangeTrue(c, tree, untold, cache)
    BY <1>1, <2>2 DEF TaskTrue, CallTrue, Places
  <2>4. TasksOK /\ CacheIs(cache) /\ c.effects \in Nat /\ (c.result = "done" => c.effects > 0)
    BY <1>1 DEF StateOK, CallOK, Counted, IsRecord
  <2>5. Pending(c) = IF c.effects > 0 THEN Around(c.op, c.path, c.to) ELSE {}
    BY <1>1 DEF Pending
  <2>6. c.result = "done" => Behind(cache, tree, untold, Around(c.op, c.path, c.to))
    BY <2>2, <2>4, <2>5 DEF CacheTrue, Behind
  <2>7. Learns(t) => CacheTrue(cache', tree, untold')
    <3> SUFFICES ASSUME Learns(t) PROVE CacheTrue(cache', tree, untold')
      OBVIOUS
    <3>1. c.result = "done"
      BY <1>1
    <3> QED BY <1>1, <2>3, <2>4, <2>6, <3>1, LearnsTrue
  <2> HIDE DEF c, x
  <2>8. /\ x.at = "answer" /\ x.op = c.op /\ x.path = c.path /\ x.to = c.to /\ x.result = c.result /\ x.effects = c.effects
        /\ x.own = c.own
    BY <1>1, MovesIs DEF Turns
  <2>9. x.result = "done" => Pending(x) = {}
    BY <2>8 DEF Pending
  <2>10. x.result = "refused" => Pending(x) = Pending(c)
    BY <1>1, <2>5, <2>8 DEF Pending
  <2>11. CacheTrue(cache', tree', untold' \cup Pending(x))
    <3>1. CASE Refused(t)
      BY <1>1, <2>2, <2>8, <2>10, <3>1
    <3>2. CASE Learns(t)
      BY <1>1, <2>7, <2>8, <2>9, <3>2
    <3> QED BY <3>1, <3>2
  <2>12. ChangeTrue(x, tree', untold', cache')
    BY <1>1, <2>3, <2>8 DEF ChangeTrue
  <2>13. x.op \in Mutations /\ x.at \in Places
    BY <1>1, <2>8 DEF Places
  <2>14. TaskTrue(x, tree', untold', cache')
    BY <2>12, <2>13, ChangesTrue
  <2> QED BY <1>1, <2>2, <2>4, <2>11, <2>14, SingleStep DEF x
<1> QED BY <1>2, <1>3

\* A call that has just been made says nothing.
LEMMA CallTrueNew ==
    ASSUME NEW op \in Mutations \cup Looking, NEW p \in Paths, NEW q \in Paths, NEW then \in {"reply", "open", "missing"},
           NEW u, NEW n, NEW e, op \in {"rename", "noreplace"} => Fits(u, p, q)
    PROVE  /\ TaskTrue(Call(Request(op, p, q), then), u, n, e)
           /\ Pending(Call(Request(op, p, q), then)) = {}
<1> DEFINE x == Call(Request(op, p, q), then)
<1>1. /\ x.op = op /\ x.path = p /\ x.to = q
      /\ x.at = (IF op = "stat" THEN "attrs" ELSE IF op \in Looking THEN "look" ELSE "send")
      /\ x.todo = (IF op = "stat" THEN <<p>> ELSE << >>) /\ x.after = "answer" /\ x.effects = 0
  BY CallIs
<1> HIDE DEF x
<1>2. Pending(x) = {}
  BY <1>1 DEF Pending
<1>3. x.at \in Places
  BY <1>1 DEF Places
<1>4. CASE op \in Mutations
  <2>1. op \notin Looking /\ op # "stat"
    BY <1>4, Disjoint DEF Looking
  <2>2. x.at = "send"
    BY <1>1, <2>1
  <2>3. ChangeTrue(x, u, n, e)
    BY <1>1, <2>2 DEF ChangeTrue
  <2>4. TaskTrue(x, u, n, e)
    BY <1>1, <1>3, <1>4, <2>3, ChangesTrue
  <2> QED BY <1>2, <2>4 DEF x
<1>5. CASE op \in Looking
  <2>1. op = "stat" => StatTrue(x, u, n)
    BY <1>1, OneIs DEF StatTrue
  <2>2. op = "readlink" => LinkTrue(x, u, n)
    BY <1>1, <1>5 DEF LinkTrue
  <2>3. op = "list" => DirTrue(x, u, n)
    BY <1>1, <1>5 DEF DirTrue
  <2>4. TaskTrue(x, u, n, e)
    BY <1>1, <1>3, <1>5, <2>1, <2>2, <2>3, LooksTrue
  <2> QED BY <1>2, <2>4 DEF x
<1> QED BY <1>4, <1>5

LEMMA AnswerSingle == ASSUME StateOK, SingleInv, NEW t \in Tasks, Answer(t) PROVE SingleInv'
<1> DEFINE c == task[t]
           r == Call(Request("create", c.path, c.path), "reply")
<1>1. c.at = "answer" /\ UNCHANGED <<tree, cache, changes, overlapped, scope>> /\ untold' = untold \cup Unreported(c)
      /\ (Goto(t, r) \/ Goto(t, Idle))
  BY DEF Answer, At
<1>2. IsRecord(c)
  BY <1>1, CallAt DEF StateOK
<1>3. c.path \in Paths /\ c.to \in Paths /\ TasksOK
  BY <1>2 DEF IsRecord, StateOK
<1>4. CASE overlapped
  BY <1>1, <1>4 DEF SingleInv
<1>5. CASE ~overlapped
  <2>1. c # Idle
    BY <1>1, PlacesAre DEF Places
  <2>2. /\ \A u \in Tasks \ {t} : task[u] = Idle
        /\ CacheTrue(cache, tree, untold \cup Pending(c))
    BY <1>5, <2>1, SingleIs
  <2> HIDE DEF c
  <2>3. Pending(c) \subseteq Unreported(c)
    <3> SUFFICES ASSUME c.op \in Mutations, c.effects > 0, c.result # "done"
                 PROVE  Around(c.op, c.path, c.to) \subseteq Unreported(c)
      BY <1>1 DEF Pending
    <3>1. Unreported(c) = {c.path, c.to, Up[c.path], Up[c.to]} \cup Below[c.path] \cup Below[c.to]
      BY DEF Unreported
    <3>2. CASE c.op \in {"mkdir", "symlink", "create", "remove"}
      <4>1. Touched(c.op, c.path, c.to) = {c.path}
        BY <3>2 DEF Touched
      <4>2. Around(c.op, c.path, c.to) = {c.path, Up[c.path]}
        BY <4>1 DEF Around
      <4> QED BY <3>1, <4>2
    <3>3. CASE c.op \in {"rename", "noreplace", "exchange"}
      BY <1>3, <3>1, <3>3, AroundTwo
    <3> QED BY <3>2, <3>3 DEF Mutations
  <2>4. CacheTrue(cache', tree', untold')
    BY <1>1, <2>2, <2>3 DEF CacheTrue
  <2>5. Only(t) /\ (task'[t] = r \/ task'[t] = Idle)
    <3> HIDE DEF r
    <3> QED BY <1>1, <1>3, GotoOnly
  <2>6. TaskTrue(r, tree', untold', cache') /\ Pending(r) = {}
    <3>1. "create" \in Mutations \cup Looking /\ "reply" \in {"reply", "open", "missing"}
      BY DEF Mutations
    <3> DEFINE p == c.path
    <3>2. p \in Paths
      BY <1>3
    <3> HIDE DEF p
    <3>3. /\ TaskTrue(Call(Request("create", p, p), "reply"), tree', untold', cache')
          /\ Pending(Call(Request("create", p, p), "reply")) = {}
      BY <3>1, <3>2, CallTrueNew
    <3> QED BY <3>3 DEF p
  <2> HIDE DEF r
  <2>7. CacheTrue(cache', tree', untold' \cup Pending(task'[t])) /\ TaskTrue(task'[t], tree', untold', cache')
    BY <2>4, <2>5, <2>6, IdleIs
  <2> QED BY <1>3, <2>2, <2>5, <2>7, SingleStep
<1> QED BY <1>4, <1>5

LEMMA StartsSingle == ASSUME StateOK, SingleInv, NEW t \in Tasks, Starts(t) PROVE SingleInv'
<1>1. PICK op \in Mutations \cup Looking, p \in Paths, q \in Paths, then \in {"reply", "open", "missing"} :
         Begin(t, Request(op, p, q), then) /\ (op \in {"rename", "noreplace"} => Fits(tree, p, q))
  BY DEF Starts
<1> DEFINE x == Call(Request(op, p, q), then)
<1>2. /\ Goto(t, x) /\ UNCHANGED tree /\ untold' = Cached(untold) /\ Dropped
      /\ overlapped' = (overlapped \/ \E u \in Tasks : task[u] # Idle)
  BY <1>1 DEF Begin, Starts
<1>3. TaskTrue(x, tree', untold', cache') /\ Pending(x) = {}
  BY <1>1, <1>2, CallTrueNew
<1> HIDE DEF x
<1>4. CASE overlapped'
  BY <1>4 DEF SingleInv
<1>5. CASE ~overlapped'
  <2>1. ~overlapped /\ \A u \in Tasks : task[u] = Idle
    BY <1>2, <1>5
  <2>2. UNION {Pending(task[u]) : u \in Tasks} = {}
    BY <2>1, IdleIs
  <2>3. CacheTrue(cache, tree, untold)
    BY <2>1, <2>2 DEF SingleInv
  <2>4. CacheIs(cache) /\ TasksOK
    BY DEF StateOK
  <2>5. CacheTrue(cache', tree, untold) /\ \A y \in Paths : cache'[y] \in {cache[y], NoEntry}
    BY <1>2, <2>3, <2>4, DroppedTrue
  <2>6. CacheTrue(cache', tree, untold')
    BY <1>2, <2>5 DEF CacheTrue, Cached
  <2>7. Only(t) /\ task'[t] = x
    BY <1>2, <2>4, GotoOnly
  <2>8. CacheTrue(cache', tree', untold' \cup Pending(task'[t])) /\ TaskTrue(task'[t], tree', untold', cache')
    BY <1>2, <1>3, <2>6, <2>7
  <2> QED BY <2>1, <2>4, <2>7, <2>8, SingleStep
<1> QED BY <1>4, <1>5

\* An entry that is dropped was not needed.
LEMMA ForgottenTrue ==
    ASSUME NEW x, NEW u, NEW n, NEW e, NEW d, \A p \in Paths : d[p] \in {e[p], NoEntry},
           x.at \in Places => IsRecord(x), TaskTrue(x, u, n, e), x.at = "told" => x.call.op \in Looking
    PROVE  TaskTrue(x, u, n, d)
<1>1. ASSUME NEW c, c.op \in Mutations => c.path \in Paths, CallTrue(c, u, n, e) PROVE CallTrue(c, u, n, d)
  <2>1. ASSUME c.op \in Mutations, ChangeTrue(c, u, n, e) PROVE ChangeTrue(c, u, n, d)
    <3>1. d[c.path] # NoEntry => d[c.path] = e[c.path]
      BY <1>1, <2>1
    <3> QED BY <2>1, <3>1 DEF ChangeTrue
  <2> QED BY <1>1, <2>1 DEF CallTrue
<1>2. x.at \in Places => x.path \in Paths
  BY DEF IsRecord
<1> QED BY <1>1, <1>2, Disjoint DEF TaskTrue

LEMMA RestsSingle == ASSUME StateOK, SingleInv, Rests PROVE SingleInv'
<1>1. UNCHANGED <<tree, task, untold, overlapped>> /\ Dropped /\ CacheIs(cache) /\ TasksOK
  BY DEF Rests, track, StateOK
<1>2. CASE overlapped
  BY <1>1, <1>2 DEF SingleInv
<1>3. CASE ~overlapped
  <2> DEFINE excused == untold \cup UNION {Pending(task[t]) : t \in Tasks}
  <2>1. Alone /\ CacheTrue(cache, tree, excused) /\ \A t \in Tasks : TaskTrue(task[t], tree, untold, cache)
    BY <1>3 DEF SingleInv
  <2> HIDE DEF excused
  <2>2. CacheTrue(cache', tree, excused) /\ \A p \in Paths : cache'[p] \in {cache[p], NoEntry}
    BY <1>1, <2>1, DroppedTrue
  <2>3. ASSUME NEW t \in Tasks PROVE TaskTrue(task[t], tree, untold, cache')
    <3>1. /\ task[t].at \in Places => IsRecord(task[t])
          /\ task[t].at = "told" => task[t].call.op \in Looking
      BY <1>1 DEF TasksOK, TaskOK, CallOK, Idle, Places
    <3> QED BY <2>1, <2>2, <3>1, ForgottenTrue
  <2>4. excused' = excused /\ Alone'
    BY <1>1, <2>1 DEF excused, Alone
  <2>5. CacheTrue(cache', tree', untold' \cup UNION {Pending(task'[t]) : t \in Tasks})
    BY <1>1, <2>2 DEF excused
  <2>6. \A t \in Tasks : TaskTrue(task'[t], tree', untold', cache')
    BY <1>1, <2>3
  <2> QED BY <2>4, <2>5, <2>6 DEF SingleInv, CacheTrue, TaskTrue
<1> QED BY <1>2, <1>3

LEMMA InitSingle == Init => SingleInv
BY IdleIs DEF Init, SingleInv, Alone, CacheTrue

\* As long as handlers come one at a time, the cache is true of the tree but for
\* the paths it was not told of, and so is what the call under way has found or
\* made: the listing it will store (fs_model.rs:109-202), the entry a rename will
\* put under the new name (fs_model.rs:426-445), the item a creation was told of.
THEOREM SingleInductive == Spec => [](StateOK /\ SingleInv)
<1>1. StateOK /\ SingleInv /\ [Next]_vars => SingleInv'
  <2> SUFFICES ASSUME StateOK, SingleInv, [Next]_vars PROVE SingleInv'
    OBVIOUS
  <2>1. (\E t \in Tasks : Starts(t) \/ Step(t)) \/ Rests
    BY NextIs DEF StateOK
  <2>2. ASSUME NEW t \in Tasks, Step(t) PROVE SingleInv'
    BY <2>2, LookListSingle, LookLinkSingle, LookAttributesSingle, AskAttributesSingle, ToldAttributesSingle,
       ServesLookSingle, ServeSingle, LoseSingle, ListedSingle, StoreListSingle, StoreLinkSingle, AnsweredSingle,
       AnswerSingle DEF Step, Learns
  <2> QED BY <2>1, <2>2, StartsSingle, RestsSingle
<1> QED BY <1>1, InitSingle, StateInductive, PTL DEF Spec

----------------------------------------------------------------------------
(* The service that ClientFs implements *)

LEMMA ServicePaths ==
    /\ Service!Root = Root /\ Service!Up = Up /\ Service!Below = Below /\ Service!Children = Children
    /\ Service!Mutations = Mutations
BY DEF Service!Root, Root, Service!Up, Up, Service!Below, Below, Service!Children, Children,
       Service!Mutations, Mutations

LEMMA ServiceLooks ==
    ASSUME NEW u, NEW p
    PROVE  /\ \A kind : Service!Is(u, p, kind) = Is(u, p, kind)
           /\ Service!Stat(u, p) = u[p] /\ Service!List(u, p) = List(u, p)
           /\ Service!Target(u, p) = Target(u, p)
BY ServicePaths DEF Service!Is, Is, Service!Stat, Service!List, List, Service!Target, Target

LEMMA ServiceHalf ==
    ASSUME NEW u, NEW p, NEW q PROVE Service!HalfExchange(u, p, q) = HalfExchange(u, p, q)
<1>1. Service!CanExchange(u, p, q) <=> CanExchange(u, p, q)
  BY ServicePaths DEF Service!CanExchange, CanExchange
<1>2. Service!Gone(u, p) = Gone(u, p)
  BY ServicePaths DEF Service!Gone, Gone
<1> QED BY <1>1, <1>2, ServicePaths DEF Service!HalfExchange, HalfExchange

LEMMA ServiceMoves ==
    ASSUME NEW u, NEW p, NEW q
    PROVE  /\ Service!Moved(u, p, q) = Moved(u, p, q)
           /\ Service!Move(u, p, q) = Move(u, p, q)
           /\ Service!MoveNoReplace(u, p, q) = MoveNoReplace(u, p, q)
           /\ Service!Exchange(u, p, q) = Exchange(u, p, q)
<1>1. \A x, a, b : Service!Rebase(x, a, b) = Rebase(x, a, b)
  BY DEF Service!Rebase, Rebase, Service!Rest, Rest
<1>2. \A a, b : Service!Moved(u, a, b) = Moved(u, a, b)
  BY <1>1, ServicePaths DEF Service!Moved, Moved
<1>3. Service!CanMove(u, p, q) <=> CanMove(u, p, q)
  BY ServicePaths, ServiceLooks DEF Service!CanMove, CanMove
<1>4. Service!Move(u, p, q) = Move(u, p, q)
  BY <1>2, <1>3 DEF Service!Move, Move
<1>5. Service!CanExchange(u, p, q) <=> CanExchange(u, p, q)
  BY ServicePaths DEF Service!CanExchange, CanExchange
<1>6. Service!Exchange(u, p, q) = Exchange(u, p, q)
  BY <1>2, <1>5, ServicePaths DEF Service!Exchange, Exchange
<1> QED BY <1>2, <1>4, <1>6 DEF Service!MoveNoReplace, MoveNoReplace

LEMMA ServiceTrees ==
    ASSUME NEW u, NEW op \in Mutations, NEW p, NEW q, NEW id
    PROVE  Service!Trees(u, op, p, q, id) = Trees(u, op, p, q, id)
<1>1. Service!Free(u, p) <=> Free(u, p)
  BY ServicePaths, ServiceLooks DEF Service!Free, Free
<1>2. \A item : Service!Put(u, p, item) = Put(u, p, item)
  BY DEF Service!Put, Put
<1>3. \A kind : Service!Item(kind, id) = Item(kind, id)
  BY DEF Service!Item, Item
<1>4. CASE op \in {"mkdir", "symlink", "create"}
  BY <1>1, <1>2, <1>3, <1>4, ServiceLooks
     DEF Service!Trees, Trees, Service!MakeDir, MakeDir, Service!MakeLink, MakeLink, Service!Touch, Touch
<1>5. CASE op = "remove"
  BY <1>2, <1>5, ServicePaths, ServiceLooks DEF Service!Trees, Trees, Service!Delete, Delete
<1>6. CASE op \in {"rename", "noreplace", "exchange"}
  BY <1>6, ServiceMoves DEF Service!Trees, Trees
<1> QED BY <1>4, <1>5, <1>6 DEF Mutations

LEMMA GivenIs ==
    ASSUME NEW c
    PROVE  /\ Given(c).op = c.op /\ Given(c).path = c.path /\ Given(c).to = c.to
           /\ Given(c).result = c.result /\ Given(c).value = c.value
BY DEF Given

\* What is known of a call that is answered makes its answer true.
LEMMA AnswerTrue ==
    ASSUME NEW c, IsRecord(c), CallOK(c), c.at = "answer", c.path \notin Excused,
           NEW n, n \subseteq Excused, NEW e, CallTrue(c, tree, n, e)
    PROVE  Service!True(Given(c))
<1> DEFINE a == Given(c)
<1>1. a.op = c.op /\ a.path = c.path /\ a.to = c.to /\ a.result = c.result /\ a.value = c.value
  BY GivenIs
<1>2. c.op \in Mutations \cup Looking /\ c.path \notin n
  BY DEF IsRecord
<1>3. c.op \in Looking => c.result \in {"done", "refused", "failed"}
  BY DEF CallOK, Looks
<1> SUFFICES Service!True(a)
  OBVIOUS
<1> HIDE DEF a
<1>0. c.op \in Looking => a.op \notin Service!Mutations
  BY <1>1, Disjoint, ServicePaths
<1>4. CASE c.result = "failed"
  BY <1>1, <1>4 DEF Service!True
<1>5. CASE c.op = "stat" /\ c.result # "failed"
  <2>1. (IF a.result = "refused" THEN Absent ELSE a.value) = tree[a.path]
    BY <1>1, <1>2, <1>3, <1>5 DEF CallTrue, StatTrue, Looking
  <2> QED BY <1>0, <1>1, <1>5, <2>1, ServiceLooks DEF Service!True, Looking
<1>6. CASE c.op = "readlink" /\ c.result # "failed"
  <2>1. (IF a.result = "refused" THEN Absent ELSE a.value) = Target(tree, a.path)
    BY <1>1, <1>2, <1>3, <1>6 DEF CallTrue, LinkTrue, Looking
  <2> QED BY <1>0, <1>1, <1>6, <2>1, ServiceLooks DEF Service!True, Looking
<1>7. CASE c.op = "list" /\ c.result # "failed"
  <2>1. /\ c.result = "done" => ListTrue(c, tree, n)
        /\ c.result = "refused" => ~Is(tree, c.path, "dir")
    BY <1>2, <1>7 DEF CallTrue, DirTrue
  <2>2. /\ (a.result = "done") = Is(tree, a.path, "dir")
        /\ a.result = "done" => DOMAIN a.value = DOMAIN List(tree, a.path)
                                /\ \A x \in DOMAIN a.value \ Excused : a.value[x] = tree[x]
    BY <1>1, <1>3, <1>7, <2>1 DEF ListTrue, Present, Is, Looking
  <2>3. /\ (a.result = "done") = Service!Is(tree, a.path, "dir")
        /\ a.result = "done" => DOMAIN a.value = DOMAIN Service!List(tree, a.path)
                                /\ \A x \in DOMAIN a.value \ Excused : a.value[x] = tree[x]
    <3>1. /\ Service!Is(tree, a.path, "dir") = Is(tree, a.path, "dir")
          /\ Service!List(tree, a.path) = List(tree, a.path)
      BY ServiceLooks
    <3> QED BY <2>2, <3>1
  <2>4. a.op = "list" /\ a.op \notin Service!Mutations
    BY <1>0, <1>1, <1>7 DEF Looking
  <2> QED BY <2>3, <2>4 DEF Service!True
<1>8. CASE c.op \in Mutations /\ c.result # "failed"
  <2>1. c.op \notin {"stat", "list", "readlink"}
    BY <1>8, Disjoint DEF Looking
  <2>2. c.result = "refused" => Trees(tree, c.op, c.path, c.to, 0) = {}
    BY <1>8 DEF CallTrue, ChangeTrue
  <2>3. c.result = "refused" => Service!Trees(tree, c.op, c.path, c.to, Service!Fresh) = {}
    BY <1>8, <2>2, ServiceTrees DEF Service!Fresh
  <2> QED BY <1>1, <1>8, <2>1, <2>3, ServicePaths DEF Service!True
<1> QED BY <1>2, <1>4, <1>5, <1>6, <1>7, <1>8 DEF Looking

\* The call whose answer is the latest one.
LEMMA LatestIs ==
    Latest = NoAnswer \/ \E t \in Tasks : task[t].at = "answer" /\ Latest = Given(task[t])
<1> SUFFICES ASSUME Answers # {} PROVE \E t \in Tasks : task[t].at = "answer" /\ Latest = Given(task[t])
  BY DEF Latest
<1> DEFINE t == CHOOSE t \in Answers : TRUE
<1>1. t \in Answers
  OBVIOUS
<1>2. Latest = Given(task[t])
  BY DEF Latest
<1> HIDE DEF t
<1> QED BY <1>1, <1>2 DEF Answers, At

\* The answers that are left alone.
LEMMA LatestStays ==
    ASSUME Answers' = Answers, \A t \in Answers : task'[t] = task[t] PROVE Latest' = Latest
<1>1. CASE Answers = {}
  BY <1>1 DEF Latest
<1>2. CASE Answers # {}
  <2> DEFINE t == CHOOSE t \in Answers : TRUE
  <2>1. t \in Answers
    BY <1>2
  <2>2. task'[t] = task[t]
    BY <2>1
  <2>3. Latest = Given(task[t]) /\ Latest' = Given(task'[t])
    BY <1>2 DEF Latest
  <2> HIDE DEF t
  <2> QED BY <2>2, <2>3
<1> QED BY <1>1, <1>2

LEMMA OneStays ==
    ASSUME TasksOK, NEW t \in Tasks, Only(t), task[t].at # "answer", task'[t].at # "answer" PROVE Latest' = Latest
<1>1. \A u \in Tasks \ {t} : task'[u] = task[u]
  BY DEF Only, TasksOK
<1>2. Answers' = Answers /\ \A u \in Answers : task'[u] = task[u]
  BY <1>1 DEF Answers, At
<1> QED BY <1>2, LatestStays

----------------------------------------------------------------------------
(* Answers are given one at a time *)

LEMMA StepTrack == ASSUME NEW t \in Tasks, Step(t) PROVE Answer(t) \/ Learns(t) \/ UNCHANGED track
BY DEF Step, Learns, LookList, LookLink, LookAttributes, AskAttributes, ToldAttributes, ServeList, ServeLink, Serve,
       Lose, Listed, StoreList, StoreLink, Refused

LEMMA StepTree == ASSUME NEW t \in Tasks, Step(t) PROVE Serve(t) \/ tree' = tree
BY DEF Step, LookList, LookLink, LookAttributes, AskAttributes, ToldAttributes, ServeList, ServeLink,
       Lose, Listed, StoreList, StoreLink, Refused, MadeFile, MadeDir, MadeLink, Removed, Renamed, Exchanged, Answer,
       Made, Told

LEMMA NotAnswer == Idle.at # "answer"
BY DEF Idle

\* Nobody else has an answer.
LEMMA OnlyAnswer ==
    ASSUME TasksOK, NEW t \in Tasks, Only(t), \A u \in Tasks \ {t} : task[u] = Idle
    PROVE  Latest' \in {NoAnswer, Given(task'[t])} /\ (task'[t].at # "answer" => Latest' = NoAnswer)
<1>1. \A u \in Tasks \ {t} : task'[u] = Idle
  BY DEF Only, TasksOK
<1>2. Answers' = IF task'[t].at = "answer" THEN {t} ELSE {}
  BY <1>1, NotAnswer DEF Answers, At
<1>3. CASE task'[t].at # "answer"
  BY <1>2, <1>3 DEF Latest
<1>4. CASE task'[t].at = "answer"
  <2>1. Answers' = {t}
    BY <1>2, <1>4
  <2>2. (CHOOSE u \in Answers' : TRUE) = t
    BY <2>1
  <2>3. Latest' = Given(task'[CHOOSE u \in Answers' : TRUE])
    BY <2>1 DEF Latest
  <2> QED BY <1>4, <2>2, <2>3
<1> QED BY <1>3, <1>4

\* A new answer is given when nothing else is told, or it is of a change that was done.
SaysDone(u) == Latest' = Given(task'[u]) /\ task'[u].at = "answer" /\ task'[u].op \in Mutations /\ task'[u].result = "done"
Replied ==
    \/ Latest' \in {Latest, NoAnswer}
    \/ overlapped' = overlapped /\ (overlapped \/ untold' = untold \/ \E u \in Tasks : SaysDone(u))

LEMMA NewCall ==
    ASSUME NEW op \in Mutations \cup Looking, NEW p \in Paths, NEW q \in Paths, NEW then \in {"reply", "open", "missing"}
    PROVE  Call(Request(op, p, q), then).at # "answer"
<1>1. Call(Request(op, p, q), then).at = First(op)
  BY DEF Call, Request
<1>2. First(op) # "answer"
  BY DEF First, Mutations, Looking
<1> QED BY <1>1, <1>2

LEMMA StartsReplied == ASSUME StateOK, NEW t \in Tasks, Starts(t) PROVE Latest' = Latest /\ tree' = tree
<1>1. PICK op \in Mutations \cup Looking, p \in Paths, q \in Paths, then \in {"reply", "open", "missing"} :
         Begin(t, Request(op, p, q), then)
  BY DEF Starts
<1> DEFINE x == Call(Request(op, p, q), then)
<1>2. Goto(t, x) /\ task[t] = Idle /\ tree' = tree
  BY <1>1 DEF Begin
<1>3. x.at # "answer"
  BY NewCall
<1> HIDE DEF x
<1>4. Only(t) /\ task'[t] = x
  BY <1>2, GotoOnly DEF StateOK
<1> QED BY <1>2, <1>3, <1>4, OneStays, NotAnswer DEF StateOK

LEMMA RestsReplied == ASSUME Rests PROVE Latest' = Latest /\ tree' = tree
BY LatestStays DEF Rests, Answers, At

LEMMA AnswerReplied == ASSUME StateOK, SingleInv, NEW t \in Tasks, Answer(t) PROVE Replied
<1> DEFINE c == task[t]
           r == Call(Request("create", c.path, c.path), "reply")
<1>1. c.at = "answer" /\ UNCHANGED overlapped /\ (Goto(t, r) \/ Goto(t, Idle))
  BY DEF Answer, At
<1>2. r.at # "answer"
  BY DEF Call, First, Request, Mutations
<1> HIDE DEF r
<1>3. Only(t) /\ task'[t].at # "answer"
  BY <1>1, <1>2, GotoOnly, NotAnswer DEF StateOK
<1>4. CASE overlapped
  BY <1>1, <1>4 DEF Replied
<1>5. CASE ~overlapped
  <2>1. c # Idle
    BY <1>1, NotAnswer
  <2>2. \A u \in Tasks \ {t} : task[u] = Idle
    BY <1>5, <2>1, SingleIs
  <2> QED BY <1>3, <2>2, OnlyAnswer DEF Replied, StateOK
<1> QED BY <1>4, <1>5

LEMMA LearnsReplied == ASSUME StateOK, SingleInv, NEW t \in Tasks, Learns(t) PROVE Replied
<1> DEFINE c == task[t]
           x == task'[t]
<1>1. /\ IsRecord(c) /\ c.at = "reply" /\ c.op \in Mutations /\ Only(t)
      /\ Turns(x, c, "answer") /\ UNCHANGED overlapped /\ c.result = "done"
  BY AnsweredIs DEF StateOK
<1>2. c # Idle
  BY <1>1, PlacesAre DEF Places
<1> HIDE DEF c, x
<1>3. x.at = "answer" /\ x.op = c.op /\ x.result = c.result
  BY <1>1, MovesIs DEF Turns
<1>4. CASE overlapped
  BY <1>1, <1>4 DEF Replied
<1>5. CASE ~overlapped
  <2>1. \A u \in Tasks \ {t} : task[u] = Idle
    BY <1>2, <1>5, SingleIs DEF c
  <2>2. Latest' \in {NoAnswer, Given(x)}
    BY <1>1, <2>1, OnlyAnswer DEF x, StateOK
  <2>3. Latest' = Given(x) => SaysDone(t)
    BY <1>1, <1>3 DEF SaysDone, x
  <2> QED BY <1>1, <2>2, <2>3 DEF Replied
<1> QED BY <1>4, <1>5

LEMMA StepReplied == ASSUME StateOK, SingleInv, NEW t \in Tasks, Step(t) PROVE Replied
<1>1. UNCHANGED track => Replied
  BY DEF track, Replied
<1> QED BY <1>1, StepTrack, AnswerReplied, LearnsReplied

LEMMA ExcusedIs == StateOK => Excused \subseteq Paths
BY DEF StateOK, Excused

\* What a change that was done is told says nothing of the tree.
LEMMA DoneTrue ==
    ASSUME NEW a, a.op \in Mutations, a.result = "done" PROVE Service!True(a)
<1>1. a.op \notin {"stat", "list", "readlink"}
  BY DEF Mutations
<1> QED BY <1>1 DEF Service!True

\* A step that gives an answer.
LEMMA ReplyStep ==
    ASSUME StateOK', SingleInv', Replied, tree' = tree
    PROVE  Service!Next
<1>1. Excused' \subseteq Paths
  BY DEF StateOK, Excused
<1>2. CASE Latest' = Latest
  BY <1>1, <1>2 DEF Service!Next, Service!Excuse
<1>3. CASE Latest' = NoAnswer
  BY <1>1, <1>3 DEF Service!Next, Service!Taken
<1>4. CASE Latest' \notin {Latest, NoAnswer}
  <2> SUFFICES Latest'.path \in Excused \/ Service!True(Latest')
    BY <1>1, <1>4 DEF Service!Next, Service!Reply
  <2>1. PICK u \in Tasks : task'[u].at = "answer" /\ Latest' = Given(task'[u])
    <3>1. (Latest = NoAnswer \/ \E t \in Tasks : task[t].at = "answer" /\ Latest = Given(task[t]))'
      BY LatestIs, PTL
    <3> QED BY <1>4, <3>1
  <2> DEFINE c == task'[u]
  <2>2. CallOK(c) /\ IsRecord(c)
    <3>1. TaskOK(c)
      BY DEF StateOK, TasksOK
    <3> QED BY <2>1, <3>1, NotAnswer DEF TaskOK, CallOK
  <2>3. c.path \in Paths /\ Latest'.path = c.path
    BY <2>1, <2>2, GivenIs DEF IsRecord
  <2>4. CASE overlapped
    BY <2>3, <2>4 DEF Excused
  <2>5. CASE ~overlapped /\ ~overlapped' /\ untold' = untold
    <3>1. TaskTrue(c, tree', untold', cache')
      BY <2>5 DEF SingleInv
    <3>2. CallTrue(c, tree, untold, cache') /\ c.at = "answer"
      BY <2>1, <2>5, <3>1 DEF TaskTrue, Places
    <3>3. Excused = untold
      BY <2>5 DEF Excused
    <3> DEFINE e == cache'
    <3> HIDE DEF c, e
    <3>4. c.path \notin Excused => Service!True(Given(c))
      BY <2>2, <3>2, <3>3, AnswerTrue DEF e
    <3> QED BY <2>1, <2>3, <3>4 DEF c
  <2>6. CASE \E v \in Tasks : SaysDone(v)
    <3>1. PICK v \in Tasks : SaysDone(v)
      BY <2>6
    <3>2. Latest'.op \in Mutations /\ Latest'.result = "done"
      BY <3>1, GivenIs DEF SaysDone
    <3> QED BY <3>2, DoneTrue
  <2> QED BY <1>4, <2>4, <2>5, <2>6 DEF Replied
<1> QED BY <1>2, <1>3, <1>4

\* A step of the server.
LEMMA ChangeStep ==
    ASSUME StateOK, StateOK', NEW t \in Tasks, Serve(t), tree' # tree
    PROVE  Service!Next
<1> DEFINE c == task[t]
           changed == Trees(tree, c.op, c.path, c.to, changes + 1)
           half == IF c.op = "exchange" THEN HalfExchange(tree, c.path, c.to) ELSE {}
<1>1. /\ IsRecord(c) /\ c.at = "send" /\ c.op \in Mutations /\ Only(t)
      /\ tree' \in IF changed # {} THEN changed ELSE IF half # {} THEN half ELSE {tree}
      /\ task'[t].at = "reply"
  BY ServeIs DEF StateOK, Becomes
<1>2. Latest' = Latest
  BY <1>1, OneStays DEF StateOK
<1>3. c.path \in Paths /\ c.to \in Paths /\ changes + 1 \in Nat /\ tree \in [Paths -> Items \cup {Absent}]
  BY <1>1 DEF IsRecord, StateOK, TreeOK
<1>4. tree' \in changed \/ tree' \in HalfExchange(tree, c.path, c.to)
  BY <1>1
<1>5. \A x \in Paths : tree'[x] # Absent => tree'[x].id \in Service!Ids(tree')
  BY DEF Service!Ids
<1>6. \E id \in Service!Ids(tree') :
         tree' \in Trees(tree, c.op, c.path, c.to, id) \cup HalfExchange(tree, c.path, c.to)
  <2>1. CASE tree' \in HalfExchange(tree, c.path, c.to) \/ c.op \notin Creations
    <3>1. Root \in Paths /\ tree'[Root] # Absent
      BY PathsAssumption DEF StateOK, TreeOK, Is
    <3>2. tree'[Root].id \in Service!Ids(tree')
      BY <1>5, <3>1
    <3>3. c.op \notin Creations => \A id : Trees(tree, c.op, c.path, c.to, id) = changed
      <4> HIDE DEF c
      <4> QED BY <1>1 DEF changed, Trees, Creations, Mutations
    <3> QED BY <1>4, <2>1, <3>2, <3>3
  <2>2. CASE tree' \in changed /\ c.op \in Creations
    <3>1. PICK kind \in Kinds : tree' = Put(tree, c.path, Item(kind, changes + 1))
      <4> HIDE DEF c
      <4> QED BY <2>2 DEF changed, Trees, MakeDir, MakeLink, Touch, Creations, Kinds
    <3>2. tree'[c.path] = Item(kind, changes + 1)
      BY <1>3, <3>1, PutIs
    <3>3. tree'[c.path] # Absent /\ tree'[c.path].id = changes + 1
      BY <1>3, <3>2, ItemIs
    <3>4. changes + 1 \in Service!Ids(tree')
      BY <1>3, <1>5, <3>3
    <3> QED BY <2>2, <3>4
  <2> QED BY <1>4, <2>1, <2>2
<1>7. Excused' \subseteq Paths
  BY DEF StateOK, Excused
<1>8. c.op \in Service!Mutations
  BY <1>1, ServicePaths
<1> HIDE DEF c
<1>9. Service!Change
  <2>1. PICK id \in Service!Ids(tree') :
         tree' \in Trees(tree, c.op, c.path, c.to, id) \cup HalfExchange(tree, c.path, c.to)
    BY <1>6
  <2>2. tree' \in Service!Trees(tree, c.op, c.path, c.to, id) \cup Service!HalfExchange(tree, c.path, c.to)
    BY <1>1, <2>1, ServiceTrees, ServiceHalf
  <2> QED BY <1>2, <1>3, <1>7, <1>8, <2>2 DEF Service!Change
<1> QED BY <1>9 DEF Service!Next

\* ClientFs implements NameService: there is one tree, every call changes it in one
\* step or not at all, and every answer given from the cache or from the server
\* is true of it at that moment, but for the paths that were not told of a change
\* and for handlers that were under way together (fs_model.rs:109-202, 426-445,
\* 565-588).
THEOREM NamesImplemented == Spec => Refines
<1>1. Init => Service!Init
  <2> SUFFICES ASSUME Init PROVE Service!Init
    OBVIOUS
  <2>1. StateOK
    BY InitState
  <2>2. Is(tree, Root, "dir") /\ Excused \subseteq Paths
    BY <2>1, ExcusedIs DEF StateOK, TreeOK
  <2>3. Latest = NoAnswer
    BY NotAnswer DEF Init, Latest, Answers, At
  <2>4. Service!Is(tree, Service!Root, "dir")
    BY <2>2, ServicePaths, ServiceLooks
  <2> QED BY <2>2, <2>3, <2>4 DEF Service!Init
<1>2. StateOK /\ SingleInv /\ [Next]_vars /\ StateOK' /\ SingleInv' => [Service!Next]_(Service!vars)
  <2> SUFFICES ASSUME StateOK, SingleInv, [Next]_vars, StateOK', SingleInv' PROVE Service!Next
    OBVIOUS
  <2>1. (\E t \in Tasks : Starts(t) \/ Step(t)) \/ Rests
    BY NextIs DEF StateOK
  <2>2. ASSUME Latest' = Latest, tree' = tree PROVE Service!Next
    BY <2>2, ReplyStep DEF Replied
  <2>3. ASSUME NEW t \in Tasks, Step(t) PROVE Service!Next
    <3>1. CASE tree' = tree
      BY <2>3, <3>1, StepReplied, ReplyStep
    <3>2. CASE tree' # tree
      BY <2>3, <3>2, StepTree, ChangeStep
    <3> QED BY <3>1, <3>2
  <2> QED BY <2>1, <2>2, <2>3, StartsReplied, RestsReplied
<1> QED BY <1>1, <1>2, SingleInductive, PTL DEF Spec, Refines, Service!Spec

==============================================================================
