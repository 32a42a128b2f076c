--------------------------- MODULE PagedFileProofs ---------------------------
(***************************************************************************)
(* Proofs about the pages of a cached file, for every page size, size of   *)
(* the page table, file, read and upload: the table stays within its       *)
(* bound, no byte moves, and what is read from the pages is what the       *)
(* server holds unless bytes were skipped.                                 *)
(***************************************************************************)
EXTENDS PagedFile, SequenceTheorems, FiniteSetTheorems, TLAPS

----------------------------------------------------------------------------
(* Numbers *)

\* The intervals below the members of S are ordered as the members are, and
\* finite sets have a minimal one among them.
LEMMA Minimum ==
    ASSUME NEW S \in SUBSET Nat, S # {} PROVE \E n \in S : \A m \in S : n <= m
<1> DEFINE below(n) == 0 .. n - 1
           sets == {below(n) : n \in S}
           R == StrictSubsetOrdering(Nat)
<1>1. \A n \in S : IsFiniteSet(below(n)) /\ below(n) \in SUBSET Nat
  <2> TAKE n \in S
  <2>1. n \in Int /\ 0 \in Int /\ n - 1 \in Int
    OBVIOUS
  <2> QED BY <2>1, FS_Interval
<1>2. sets \subseteq FiniteSubsetsOf(Nat) /\ sets # {}
  BY <1>1 DEF FiniteSubsetsOf
<1>3. PICK low \in sets : \A other \in sets : <<other, low>> \notin R
  <2> HIDE DEF sets, R
  <2>1. IsWellFoundedOn(R, FiniteSubsetsOf(Nat))
    BY FS_StrictSubsetOrderingWellFounded DEF R
  <2> QED BY <1>2, <2>1, WFMin
<1>4. PICK n \in S : low = below(n)
  OBVIOUS
<1>5. ASSUME NEW m \in S, m < n PROVE FALSE
  <2>1. below(m) \subseteq below(n) /\ m \in below(n) /\ m \notin below(m)
    BY <1>5
  <2>2. <<below(m), below(n)>> \in R
    <3> HIDE DEF below
    <3> QED BY <1>1, <2>1 DEF StrictSubsetOrdering
  <2>3. below(m) \in sets
    OBVIOUS
  <2> HIDE DEF sets, R, below
  <2> QED BY <1>3, <1>4, <2>2, <2>3
<1> QED BY <1>5

LEMMA Place ==
    ASSUME NEW pos \in Nat
    PROVE  /\ pos \div PageSize \in Nat /\ pos % PageSize \in 0 .. PageSize - 1
           /\ pos = (pos \div PageSize) * PageSize + (pos % PageSize)
BY PageSizeAssumption

\* The offset of the first byte of a page.
Base(k) == k * PageSize

LEMMA Bases ==
    ASSUME NEW k \in Nat
    PROVE  /\ Base(k) \in Nat /\ k <= Base(k)
           /\ Base(k + 1) = Base(k) + PageSize
           /\ \A l \in Nat : k < l => Base(k) + PageSize <= Base(l)
<1> USE DEF Base
<1>1. \A d \in Nat : Base(d) \in Nat /\ d <= Base(d)
  BY PageSizeAssumption
<1>2. Base(k + 1) = Base(k) + PageSize
  BY PageSizeAssumption
<1>3. ASSUME NEW l \in Nat, k < l PROVE Base(k) + PageSize <= Base(l)
  <2>1. PICK d \in Nat : l = k + 1 + d
    <3>1. l - k - 1 \in Nat /\ l = k + 1 + (l - k - 1)
      BY <1>3
    <3> QED BY <3>1
  <2>2. Base(l) = Base(k) + PageSize + Base(d)
    BY <2>1, PageSizeAssumption
  <2> QED BY <1>1, <2>2, PageSizeAssumption
<1> QED BY <1>1, <1>2, <1>3

\* The page of an offset is the one whose bytes surround it.
LEMMA PageOfOffset ==
    ASSUME NEW pos \in Nat, NEW k \in Nat
    PROVE  /\ k <= pos \div PageSize <=> Base(k) <= pos
           /\ pos \div PageSize <= k <=> pos < Base(k) + PageSize
           /\ k = pos \div PageSize => pos % PageSize = pos - Base(k)
           /\ pos \div PageSize \in 0 .. pos
<1> DEFINE q == pos \div PageSize
<1>1. q \in Nat /\ pos % PageSize \in 0 .. PageSize - 1 /\ pos = Base(q) + (pos % PageSize)
  BY Place DEF Base
<1>2. /\ Base(k) \in Nat /\ Base(q) \in Nat /\ q <= Base(q)
      /\ k < q => Base(k) + PageSize <= Base(q)
      /\ q < k => Base(q) + PageSize <= Base(k)
      /\ k = q => Base(k) = Base(q)
  BY <1>1, Bases
<1> HIDE DEF q
<1> QED BY <1>1, <1>2, PageSizeAssumption DEF q

----------------------------------------------------------------------------
(* What a cached write does to one page *)

\* The bytes [From, Upto) of page k are the data's, which was written at off.
From(off, k) == PageOffset(off, k)
Upto(off, data, k) == From(off, k) + Len(Chunk(off, data, k))
PagesOf(off, data) == off \div PageSize .. (off + Len(data) - 1) \div PageSize

LEMMA PartOfPage ==
    ASSUME NEW B, NEW data \in Seq(B), data # <<>>, NEW off \in Nat, NEW k \in PagesOf(off, data)
    PROVE  LET c == Chunk(off, data, k)
               o == From(off, k)
               e == Upto(off, data, k)
               base == Base(k)
           IN  /\ k \in Nat /\ base \in Nat /\ o \in Nat /\ e \in Nat /\ o < e /\ e <= PageSize
               /\ o = Greater(off - base, 0)
               /\ e = Lesser(off + Len(data) - base, PageSize)
               /\ c \in Seq(B) /\ Len(c) = e - o
               /\ \A i \in 1 .. e - o : c[i] = data[base + o - off + i]
<1> DEFINE n == Len(data)
           base == Base(k)
           o == Greater(off - base, 0)
           i1 == base + o - off + 1
           i2 == Lesser(n, base + PageSize - off)
           c == SubSeq(data, i1, i2)
<1>1. n \in Nat \ {0}
  BY LenProperties, EmptySeq
<1>2. /\ k \in Nat /\ base \in Nat /\ base <= off + n - 1 /\ off < base + PageSize
      /\ Base(k + 1) = base + PageSize
  <2>1. off + n - 1 \in Nat /\ off \div PageSize \in Nat /\ (off + n - 1) \div PageSize \in Nat
    <3>1. off + n - 1 \in Nat
      BY <1>1
    <3> QED BY <3>1, Place
  <2>2. k \in Nat /\ off \div PageSize <= k /\ k <= (off + n - 1) \div PageSize
    <3> HIDE DEF n
    <3> QED BY <2>1 DEF PagesOf, n
  <2> HIDE DEF n
  <2> QED BY <2>1, <2>2, PageOfOffset, Bases
<1>3. Chunk(off, data, k) = c /\ From(off, k) = o
  <2>1. /\ Chunk(off, data, k) = SubSeq(data, Base(k) + PageOffset(off, k) - off + 1,
                                        Lesser(Len(data), Base(k + 1) - off))
        /\ From(off, k) = PageOffset(off, k) /\ PageOffset(off, k) = Greater(off - Base(k), 0)
    BY DEF Chunk, From, PageOffset, Base
  <2>2. Base(k + 1) - off = base + PageSize - off
    BY <1>2, PageSizeAssumption
  <2> QED BY <2>1, <2>2
<1> HIDE DEF n, base
<1>4. /\ o \in Nat /\ i1 \in 1 .. n /\ i2 \in 1 .. n /\ i1 <= i2
      /\ o + (i2 - i1 + 1) = Lesser(off + n - base, PageSize)
      /\ o < o + (i2 - i1 + 1) /\ o + (i2 - i1 + 1) <= PageSize
  BY <1>1, <1>2, PageSizeAssumption DEF Greater, Lesser
<1>o. o = Greater(off - base, 0)
  OBVIOUS
<1> HIDE DEF o
<1>5. i1 \in Int /\ i2 \in Int /\ \A j \in i1 .. i2 : data[j] \in B
  <2>1. \A j \in 1 .. n : data[j] \in B
    BY ElementOfSeq DEF n
  <2> HIDE DEF i1, i2
  <2> QED BY <1>1, <1>4, <2>1
<1>6. c \in Seq(B) /\ Len(c) = i2 - i1 + 1 /\ \A j \in 1 .. i2 - i1 + 1 : c[j] = data[i1 + j - 1]
  <2> HIDE DEF i1, i2
  <2>1. c \in Seq(B) /\ Len(c) = (IF i1 <= i2 THEN i2 - i1 + 1 ELSE 0)
        /\ \A j \in 1 .. i2 - i1 + 1 : c[j] = data[i1 + j - 1]
    BY <1>5, SubSeqProperties
  <2> QED BY <1>4, <2>1
<1> HIDE DEF c
<1>7. Upto(off, data, k) = o + (i2 - i1 + 1)
  BY <1>3, <1>6 DEF Upto
<1>8. \A j \in 1 .. i2 - i1 + 1 : c[j] = data[base + o - off + j]
  <2> TAKE j \in 1 .. i2 - i1 + 1
  <2>1. i1 + j - 1 = base + o - off + j
    BY <1>2, <1>4
  <2> QED BY <1>6, <2>1
<1> DEFINE m == i2 - i1 + 1
<1>9. m \in Nat
  <2> HIDE DEF i1, i2
  <2> QED BY <1>4
<1> HIDE DEF i1, i2
<1> HIDE DEF m
<1>10. o = Greater(off - base, 0) /\ o + m = Lesser(off + n - base, PageSize)
        /\ o < o + m /\ o + m <= PageSize /\ o + m - o = m /\ o + m \in Nat
  BY <1>4, <1>9, <1>o DEF m
<1>11. c \in Seq(B) /\ Len(c) = m /\ \A j \in 1 .. m : c[j] = data[base + o - off + j]
  BY <1>6, <1>8 DEF m
<1>12. Upto(off, data, k) = o + m
  BY <1>7 DEF m
<1>13. Upto(off, data, k) - From(off, k) = m
  BY <1>3, <1>4, <1>9, <1>12
<1>14. /\ From(off, k) \in Nat /\ Upto(off, data, k) \in Nat
       /\ From(off, k) < Upto(off, data, k) /\ Upto(off, data, k) <= PageSize
       /\ From(off, k) = Greater(off - base, 0) /\ Upto(off, data, k) = Lesser(off + n - base, PageSize)
  BY <1>3, <1>4, <1>10, <1>12
<1>15. /\ Chunk(off, data, k) \in Seq(B) /\ Len(Chunk(off, data, k)) = m
       /\ \A j \in 1 .. m : Chunk(off, data, k)[j] = data[base + From(off, k) - off + j]
  BY <1>3, <1>11
<1> QED BY <1>2, <1>13, <1>14, <1>15 DEF base, n

PageIn(B, page) ==
    /\ page.content \in [0 .. PageSize - 1 -> B]
    /\ page.upto \in 0 .. PageSize /\ page.from \in 0 .. PageSize

Patched(page, w, off, data, k) ==
    /\ \A i \in 0 .. PageSize - 1 :
         w.content[i] = IF From(off, k) <= i /\ i < Upto(off, data, k)
                        THEN data[Base(k) + i - off + 1] ELSE page.content[i]
    /\ w.upto = Greater(page.upto, Upto(off, data, k))
    /\ w.from = Lesser(page.from, From(off, k))

\* PageWrite of bytes that fit.
LEMMA PageWriteIs ==
    ASSUME NEW B, NEW page, PageIn(B, page), NEW o \in Nat, NEW e \in Nat, o < e, e <= PageSize,
           NEW c \in [1 .. e - o -> B]
    PROVE  LET w == PageWrite(page, c, o)
           IN  /\ w.content \in [0 .. PageSize - 1 -> B]
               /\ \A i \in 0 .. PageSize - 1 :
                    w.content[i] = IF o <= i /\ i < e THEN c[i - o + 1] ELSE page.content[i]
               /\ w.upto = Greater(page.upto, e) /\ w.from = Lesser(page.from, o)
               /\ PageIn(B, w)
<1>1. Len(c) = e - o
  BY LenProperties
<1>2. Lesser(o + Len(c), PageSize) = e /\ ~(o > e)
  BY <1>1, PageSizeAssumption DEF Lesser
<1> DEFINE w == PageWrite(page, c, o)
           content == [i \in 0 .. PageSize - 1 |-> IF o <= i /\ i < e THEN c[i - o + 1] ELSE page.content[i]]
<1>3. w.content = content /\ w.upto = Greater(page.upto, e) /\ w.from = Lesser(page.from, o)
  BY <1>2 DEF PageWrite
<1> HIDE DEF w
<1>4. content \in [0 .. PageSize - 1 -> B]
  <2>1. ASSUME NEW i \in 0 .. PageSize - 1
        PROVE  (IF o <= i /\ i < e THEN c[i - o + 1] ELSE page.content[i]) \in B
    <3>1. CASE o <= i /\ i < e
      <4>1. i - o + 1 \in 1 .. e - o
        BY <3>1, PageSizeAssumption
      <4> QED BY <3>1, <4>1
    <3>2. CASE ~(o <= i /\ i < e)
      BY <3>2 DEF PageIn
    <3> QED BY <3>1, <3>2
  <2> QED BY <2>1
<1>5. w.upto \in 0 .. PageSize /\ w.from \in 0 .. PageSize
  BY <1>3, PageSizeAssumption DEF PageIn, Greater, Lesser
<1>6. \A i \in 0 .. PageSize - 1 :
        w.content[i] = IF o <= i /\ i < e THEN c[i - o + 1] ELSE page.content[i]
  BY <1>3
<1> HIDE DEF content
<1> QED BY <1>3, <1>4, <1>5, <1>6 DEF w, PageIn

LEMMA FreshPage ==
    ASSUME NEW B, Zero \in B, NEW data \in Seq(B), data # <<>>, NEW off \in Nat, NEW k \in PagesOf(off, data)
    PROVE  LET fresh == PageWrite(PageOf(NoPages, k), Chunk(off, data, k), PageOffset(off, k))
               o == From(off, k)
               e == Upto(off, data, k)
           IN  /\ fresh.from = o /\ fresh.upto = e
               /\ PageData(fresh) \in [1 .. e - o -> B]
               /\ \A i \in 1 .. e - o : PageData(fresh)[i] = data[Base(k) + o - off + i]
<1> DEFINE c == Chunk(off, data, k)
           o == From(off, k)
           e == Upto(off, data, k)
           fresh == PageWrite(NewPage, c, o)
<1>1. /\ k \in Nat /\ o \in Nat /\ e \in Nat /\ o < e /\ e <= PageSize
      /\ c \in Seq(B) /\ Len(c) = e - o /\ \A i \in 1 .. e - o : c[i] = data[Base(k) + o - off + i]
  BY PartOfPage
<1>2. PageOf(NoPages, k) = NewPage /\ PageOffset(off, k) = o
  BY DEF PageOf, NoPages, From
<1> HIDE DEF c, o, e
<1>3. c \in [1 .. e - o -> B]
  BY <1>1, LenProperties
<1>4. PageIn(B, NewPage) /\ NewPage.upto = 0 /\ NewPage.from = PageSize
  BY PageSizeAssumption DEF PageIn, NewPage
<1>5. /\ fresh.content \in [0 .. PageSize - 1 -> B]
      /\ \A i \in 0 .. PageSize - 1 : o <= i /\ i < e => fresh.content[i] = c[i - o + 1]
      /\ fresh.upto = Greater(0, e) /\ fresh.from = Lesser(PageSize, o)
  BY <1>1, <1>3, <1>4, PageWriteIs
<1>6. fresh.upto = e /\ fresh.from = o
  BY <1>1, <1>5, PageSizeAssumption DEF Greater, Lesser
<1> HIDE DEF fresh
<1>7. PageData(fresh) = [i \in 1 .. e - o |-> fresh.content[o + i - 1]]
  BY <1>6 DEF PageData
<1>8. \A i \in 1 .. e - o : fresh.content[o + i - 1] = c[i]
  <2> TAKE i \in 1 .. e - o
  <2> DEFINE j == o + i - 1
  <2>1. j \in 0 .. PageSize - 1 /\ o <= j /\ j < e /\ j - o + 1 = i
    BY <1>1, PageSizeAssumption
  <2> HIDE DEF j
  <2>2. fresh.content[j] = c[i]
    BY <1>5, <2>1
  <2> QED BY <2>2 DEF j
<1>9. PageData(fresh) \in [1 .. e - o -> B]
  BY <1>3, <1>7, <1>8
<1>10. \A i \in 1 .. e - o : PageData(fresh)[i] = data[Base(k) + o - off + i]
  BY <1>1, <1>7, <1>8
<1> QED BY <1>2, <1>6, <1>9, <1>10 DEF fresh, c, o, e

\* A page of the cache after cache_write_file: the data where it belongs.
LEMMA PagePatched ==
    ASSUME NEW B, Zero \in B, NEW data \in Seq(B), data # <<>>, NEW off \in Nat, NEW k \in PagesOf(off, data),
           NEW page, PageIn(B, page)
    PROVE  LET fresh == PageWrite(PageOf(NoPages, k), Chunk(off, data, k), PageOffset(off, k))
               w == PageWrite(page, PageData(fresh), fresh.from)
           IN  PageIn(B, w) /\ Patched(page, w, off, data, k)
<1> DEFINE fresh == PageWrite(PageOf(NoPages, k), Chunk(off, data, k), PageOffset(off, k))
           o == From(off, k)
           e == Upto(off, data, k)
           c == PageData(fresh)
           w == PageWrite(page, c, o)
<1>1. k \in Nat /\ o \in Nat /\ e \in Nat /\ o < e /\ e <= PageSize
  BY PartOfPage
<1>2. /\ fresh.from = o /\ c \in [1 .. e - o -> B]
      /\ \A i \in 1 .. e - o : c[i] = data[Base(k) + o - off + i]
  BY FreshPage
<1> HIDE DEF fresh, c, o, e
<1>3. /\ \A i \in 0 .. PageSize - 1 :
           w.content[i] = IF o <= i /\ i < e THEN c[i - o + 1] ELSE page.content[i]
      /\ w.upto = Greater(page.upto, e) /\ w.from = Lesser(page.from, o)
      /\ PageIn(B, w)
  BY <1>1, <1>2, PageWriteIs
<1> HIDE DEF w
<1>4. \A i \in 0 .. PageSize - 1 : o <= i /\ i < e => c[i - o + 1] = data[Base(k) + i - off + 1]
  <2> TAKE i \in 0 .. PageSize - 1
  <2> HAVE o <= i /\ i < e
  <2>1. i - o + 1 \in 1 .. e - o /\ Base(k) + o - off + (i - o + 1) = Base(k) + i - off + 1
    BY <1>1, Bases, PageSizeAssumption
  <2> QED BY <1>2, <2>1
<1>5. Patched(page, w, off, data, k)
  BY <1>3, <1>4 DEF Patched, o, e
<1> QED BY <1>2, <1>3, <1>5 DEF w, c, fresh

----------------------------------------------------------------------------
(* What a cached write does to the page table *)

\* The pages P are patched, the others stay.
PagesPatched(old, new, off, data, P) ==
    /\ DOMAIN new = DOMAIN old \cup P
    /\ \A k \in DOMAIN old \ P : new[k] = old[k]
    /\ \A k \in P : Patched(PageOf(old, k), new[k], off, data, k)

PagesIn(B, table) ==
    IsFiniteSet(DOMAIN table) /\ \A k \in DOMAIN table : PageIn(B, table[k])

LEMMA CacheWriteIs ==
    ASSUME NEW B, Zero \in B, NEW data \in Seq(B), data # <<>>, NEW off \in Nat,
           NEW old, PagesIn(B, old), NEW new \in CacheWrite(old, off, data)
    PROVE  \E P \in SUBSET PagesOf(off, data) :
             /\ PagesPatched(old, new, off, data, P) /\ PagesIn(B, new)
             /\ Cardinality(DOMAIN old) <= MaxPages => Cardinality(DOMAIN new) <= MaxPages
             /\ Cardinality(DOMAIN old \cup PagesOf(off, data)) < MaxPages => P = PagesOf(off, data)
<1> DEFINE visited == Visited(NoPages, off, data)
           other == WriteContent(NoPages, off, data)
           span == PagesOf(off, data)
           mine == DOMAIN old
<1>1. IsFiniteSet(span) /\ \A a, b \in Int : IsFiniteSet(a .. b)
  <2>1. Len(data) \in Nat
    BY LenProperties
  <2>2. off \div PageSize \in Int /\ (off + Len(data) - 1) \div PageSize \in Int
    <3>1. off + Len(data) - 1 \in Int
      BY <2>1
    <3> QED BY <3>1, PageSizeAssumption
  <2> QED BY <2>2, FS_Interval DEF PagesOf
<1>2. visited = {k \in span : Cardinality({} \cup (off \div PageSize .. k - 1)) < MaxPages}
  BY DEF Visited, NoPages, PagesOf
<1>3. DOMAIN other = visited
      /\ \A k \in visited : other[k] = PageWrite(PageOf(NoPages, k), Chunk(off, data, k), PageOffset(off, k))
  <2>1. DOMAIN NoPages = {}
    BY DEF NoPages
  <2> QED BY <2>1 DEF WriteContent
<1> HIDE DEF other, visited
<1>4. PICK P \in MergedSets(mine, visited) :
        new = [k \in mine \cup P |->
                 IF k \in P THEN PageWrite(PageOf(old, k), PageData(other[k]), other[k].from) ELSE old[k]]
  BY <1>3 DEF CacheWrite, MergePages, other
<1>5. P \subseteq visited /\ visited \subseteq span
  BY <1>2, <1>4 DEF MergedSets
<1>6. \A k \in P : PageIn(B, PageOf(old, k))
  <2>1. PageIn(B, NewPage)
    BY PageSizeAssumption DEF PageIn, NewPage
  <2> QED BY <2>1 DEF PageOf, PagesIn
<1>7. \A k \in P : PageIn(B, new[k]) /\ Patched(PageOf(old, k), new[k], off, data, k)
  BY <1>3, <1>4, <1>5, <1>6, PagePatched
<1>8. PagesPatched(old, new, off, data, P)
  BY <1>4, <1>7 DEF PagesPatched
<1>9. /\ IsFiniteSet(P) /\ IsFiniteSet(mine \cup P) /\ IsFiniteSet(mine)
      /\ DOMAIN new = mine \cup P
  <2>1. IsFiniteSet(P) /\ IsFiniteSet(mine)
    <3>1. P \in SUBSET span
      BY <1>5
    <3> QED BY <1>1, <3>1, FS_Subset DEF PagesIn
  <2> QED BY <1>4, <2>1, FS_Union
<1>10. PagesIn(B, new)
  BY <1>4, <1>7, <1>9 DEF PagesIn
<1>11. Cardinality(mine) <= MaxPages => Cardinality(DOMAIN new) <= MaxPages
  <2>1. Cardinality(mine \cup P) \in Nat /\ (P = {} => mine \cup P = mine)
    BY <1>9, FS_CardinalityType
  <2> QED BY <1>4, <1>9, <2>1, MaxPagesAssumption DEF MergedSets
<1>12. ASSUME Cardinality(mine \cup span) < MaxPages PROVE P = span
  <2>1. IsFiniteSet(mine \cup span) /\ Cardinality(mine \cup span) \in Nat
    BY <1>1, <1>9, FS_Union, FS_CardinalityType
  <2>2. visited = span
    <3>1. ASSUME NEW k \in span PROVE Cardinality({} \cup (off \div PageSize .. k - 1)) < MaxPages
      <4> DEFINE before == {} \cup (off \div PageSize .. k - 1)
      <4>1. before \in SUBSET (mine \cup span)
        <5>1. off \div PageSize \in Nat /\ k \in Int /\ Len(data) \in Nat
          BY Place, LenProperties DEF PagesOf
        <5>2. (off + Len(data) - 1) \div PageSize \in Int
          <6>1. off + Len(data) - 1 \in Int
            BY <5>1
          <6> QED BY <6>1, PageSizeAssumption
        <5> DEFINE head == off \div PageSize
                   last == (off + Len(data) - 1) \div PageSize
        <5>3. k \in head .. last
          BY DEF PagesOf
        <5> HIDE DEF head, last
        <5>4. head .. k - 1 \subseteq head .. last
          BY <5>1, <5>2, <5>3 DEF head, last
        <5> QED BY <5>4 DEF PagesOf, head, last
      <4> HIDE DEF before
      <4>2. Cardinality(before) <= Cardinality(mine \cup span) /\ IsFiniteSet(before)
        BY <2>1, <4>1, FS_Subset
      <4>3. Cardinality(before) \in Nat
        BY <4>2, FS_CardinalityType
      <4> QED BY <1>12, <2>1, <4>2, <4>3, MaxPagesAssumption DEF before
    <3> QED BY <1>2, <3>1
  <2>3. Cardinality(mine \cup P) < MaxPages
    <3>1. mine \cup P \in SUBSET (mine \cup span)
      BY <1>5
    <3>2. Cardinality(mine \cup P) <= Cardinality(mine \cup span) /\ Cardinality(mine \cup P) \in Nat
      BY <1>9, <2>1, <3>1, FS_Subset, FS_CardinalityType
    <3> QED BY <1>12, <2>1, <3>2, MaxPagesAssumption
  <2> QED BY <1>4, <2>2, <2>3 DEF MergedSets
<1> QED BY <1>5, <1>8, <1>10, <1>11, <1>12

----------------------------------------------------------------------------
(* Reads *)

\* A read returns the valid bytes from its start up to the first invalid one.
LEMMA ReadPagesIs ==
    ASSUME NEW table, NEW off \in Nat, NEW size \in Nat
    PROVE  \E n \in 0 .. size :
             /\ ReadPages(table, off, size) = [i \in 1 .. n |-> ByteAt(table, off + i - 1)]
             /\ \A i \in 0 .. n - 1 : Valid(table, off + i)
             /\ n = size \/ ~Valid(table, off + n)
<1> DEFINE Run(n) == /\ \A i \in 0 .. n - 1 : Valid(table, off + i)
                     /\ n = size \/ ~Valid(table, off + n)
           stops == {m \in 0 .. size : m = size \/ ~Valid(table, off + m)}
<1>1. stops \in SUBSET Nat /\ size \in stops
  OBVIOUS
<1>2. PICK n \in stops : \A m \in stops : n <= m
  <2> HIDE DEF stops
  <2> QED BY <1>1, Minimum
<1>3. n \in 0 .. size /\ Run(n)
  <2>1. ASSUME NEW i \in 0 .. n - 1 PROVE Valid(table, off + i)
    <3>1. i \in 0 .. size /\ i # size /\ ~(n <= i)
      OBVIOUS
    <3> QED BY <1>2, <3>1
  <2> QED BY <2>1
<1> HIDE DEF Run, stops
<1> DEFINE m == CHOOSE x \in 0 .. size : Run(x)
<1>4. m \in 0 .. size /\ Run(m)
  BY <1>3
<1>5. ReadPages(table, off, size) = [i \in 1 .. m |-> ByteAt(table, off + i - 1)]
  BY DEF ReadPages, Run
<1> HIDE DEF m
<1> QED BY <1>4, <1>5 DEF Run

----------------------------------------------------------------------------
(* The pages a write touches *)

LEMMA OffsetsOfPage ==
    ASSUME NEW B, NEW data \in Seq(B), data # <<>>, NEW off \in Nat, NEW k \in PagesOf(off, data),
           NEW i \in 0 .. PageSize - 1
    PROVE  /\ k \in Nat /\ Base(k) \in Nat /\ Base(k) + i \in Nat
           /\ (Base(k) + i) \div PageSize = k /\ (Base(k) + i) % PageSize = i
           /\ From(off, k) <= i /\ i < Upto(off, data, k)
                <=> off <= Base(k) + i /\ Base(k) + i < off + Len(data)
<1>1. /\ k \in Nat /\ Base(k) \in Nat
      /\ From(off, k) = Greater(off - Base(k), 0)
      /\ Upto(off, data, k) = Lesser(off + Len(data) - Base(k), PageSize)
  BY PartOfPage
<1>2. Base(k) + i \in Nat /\ Base(k) <= Base(k) + i /\ Base(k) + i < Base(k) + PageSize
  BY <1>1, PageSizeAssumption
<1> DEFINE pos == Base(k) + i
<1>3. pos \div PageSize = k /\ pos % PageSize = pos - Base(k)
  <2> HIDE DEF pos
  <2>1. k <= pos \div PageSize /\ pos \div PageSize <= k /\ pos \div PageSize \in 0 .. pos
    BY <1>1, <1>2, PageOfOffset DEF pos
  <2>2. pos \div PageSize = k
    BY <1>1, <1>2, <2>1 DEF pos
  <2> QED BY <1>1, <1>2, <2>2, PageOfOffset DEF pos
<1>4. Len(data) \in Nat
  BY LenProperties
<1>5. From(off, k) <= i /\ i < Upto(off, data, k)
        <=> off <= Base(k) + i /\ Base(k) + i < off + Len(data)
  BY <1>1, <1>4, PageSizeAssumption DEF Greater, Lesser
<1> QED BY <1>1, <1>2, <1>3, <1>5

\* The page of every byte of the data.
LEMMA PageOfByte ==
    ASSUME NEW B, NEW data \in Seq(B), data # <<>>, NEW off \in Nat,
           NEW pos \in Nat, off <= pos, pos < off + Len(data)
    PROVE  LET k == pos \div PageSize
               i == pos % PageSize
           IN  k \in PagesOf(off, data) /\ i \in 0 .. PageSize - 1 /\ pos = Base(k) + i
<1> DEFINE k == pos \div PageSize
           i == pos % PageSize
           head == off \div PageSize
           last == (off + Len(data) - 1) \div PageSize
<1>1. k \in Nat /\ i \in 0 .. PageSize - 1 /\ pos = Base(k) + i
  BY Place DEF Base
<1>2. Len(data) \in Nat /\ off + Len(data) - 1 \in Nat
  BY LenProperties
<1>3. head \in Nat /\ last \in Nat
  BY <1>2, Place
<1>4. Base(head) <= off
  BY <1>3, PageOfOffset
<1>5. head <= k
  <2> HIDE DEF head
  <2>1. Base(head) \in Nat
    BY <1>3, Bases
  <2>2. Base(head) <= pos
    BY <1>4, <2>1
  <2> QED BY <1>3, <2>2, PageOfOffset
<1>6. k <= last
  <2>1. Base(k) <= pos
    BY <1>1, PageOfOffset
  <2> HIDE DEF k
  <2>2. Base(k) \in Nat
    BY <1>1, Bases
  <2>3. Base(k) <= off + Len(data) - 1
    BY <1>2, <2>1, <2>2
  <2> QED BY <1>1, <1>2, <2>2, <2>3, PageOfOffset
<1>7. k \in head .. last
  <2> HIDE DEF k, head, last
  <2> QED BY <1>1, <1>3, <1>5, <1>6
<1> QED BY <1>1, <1>7 DEF PagesOf

LEMMA PagesOfBytes ==
    ASSUME NEW B, NEW data \in Seq(B), data # <<>>, NEW off \in Nat
    PROVE  {pos \div PageSize : pos \in off .. off + Len(data) - 1} = PagesOf(off, data)
<1>1. Len(data) \in Nat
  BY LenProperties
<1>2. ASSUME NEW pos \in off .. off + Len(data) - 1 PROVE pos \div PageSize \in PagesOf(off, data)
  <2>1. pos \in Nat /\ off <= pos /\ pos < off + Len(data)
    BY <1>1
  <2> QED BY <2>1, PageOfByte
<1>3. ASSUME NEW k \in PagesOf(off, data)
      PROVE  \E pos \in off .. off + Len(data) - 1 : pos \div PageSize = k
  <2> DEFINE i == From(off, k)
  <2>1. /\ i \in 0 .. PageSize - 1 /\ i < Upto(off, data, k) /\ i <= i
    BY PartOfPage, PageSizeAssumption
  <2> HIDE DEF i
  <2>2. /\ Base(k) + i \in Nat /\ (Base(k) + i) \div PageSize = k
        /\ off <= Base(k) + i /\ Base(k) + i < off + Len(data)
    BY <2>1, OffsetsOfPage DEF i
  <2> DEFINE pos == Base(k) + i
  <2>3. pos \in off .. off + Len(data) - 1
    BY <1>1, <2>2
  <2> QED BY <2>2, <2>3
<1> QED BY <1>2, <1>3

----------------------------------------------------------------------------
(* The inductive invariant *)

Held(k, i) == pages[k].from <= i /\ i < pages[k].upto
PageIndices == 0 .. PageSize - 1

Tagged(file) == \A i \in Offsets : file[i] # Zero /\ file[i].off = i

\* A byte in a page is in its place or a zero, and a zero outside a gap is
\* not inside the valid interval.
InPlace ==
    \A k \in DOMAIN pages : \A i \in PageIndices :
        /\ pages[k].content[i] = Zero \/ pages[k].content[i].off = Base(k) + i
        /\ Held(k, i) /\ pages[k].content[i] = Zero => gapped

Exact ==
    gapped \/ dropped \/
    \A k \in DOMAIN pages : \A i \in PageIndices :
        Held(k, i) => Base(k) + i \in Offsets /\ pages[k].content[i] = server[Base(k) + i]

PagesInv == TypeOK /\ PageTableBounded /\ Tagged(server) /\ InPlace /\ Exact

LEMMA TypedPages == ASSUME TypeOK PROVE PagesIn(Bytes, pages)
<1>1. IsFiniteSet(DOMAIN pages)
  <2>1. FileSize \in Int /\ 0 \in Int
    BY FileSizeAssumption
  <2>2. IsFiniteSet(0 .. FileSize) /\ DOMAIN pages \in SUBSET (0 .. FileSize)
    BY <2>1, FS_Interval DEF TypeOK
  <2> QED BY <2>2, FS_Subset
<1>2. \A k \in DOMAIN pages : PageIn(Bytes, pages[k])
  <2> TAKE k \in DOMAIN pages
  <2>1. /\ pages[k].content \in [PageIndices -> Bytes]
        /\ pages[k].upto \in 0 .. PageSize /\ pages[k].from \in 0 .. PageSize
    BY PageSizeAssumption DEF TypeOK, PageIndices
  <2> QED BY <2>1 DEF PageIn, PageIndices
<1> QED BY <1>1, <1>2 DEF PagesIn

\* A byte that a write makes valid without writing it is in a gap.
LEMMA HullIsOldOrGap ==
    ASSUME TypeOK, NEW data \in Seq(Bytes), data # <<>>, NEW off \in Nat,
           NEW k \in PagesOf(off, data), k \in DOMAIN pages,
           ~LeavesGap(off, Len(data)), NEW i \in PageIndices,
           ~(From(off, k) <= i /\ i < Upto(off, data, k)),
           Lesser(pages[k].from, From(off, k)) <= i, i < Greater(pages[k].upto, Upto(off, data, k))
    PROVE  Held(k, i)
<1> DEFINE o == From(off, k)
           e == Upto(off, data, k)
           span == Span(off, Len(data), k)
<1>1. o \in Nat /\ e \in Nat /\ o < e /\ e <= PageSize
  BY PartOfPage
<1>2. pages[k].from \in Nat /\ pages[k].upto \in Nat
  BY TypedPages, PageSizeAssumption DEF PagesIn, PageIn
<1>3. \A pos \in span : pos % PageSize \in Nat /\ o <= pos % PageSize /\ pos % PageSize < e
  <2> TAKE pos \in span
  <2>1. pos \in Nat /\ pos \div PageSize = k /\ off <= pos /\ pos < off + Len(data)
    BY LenProperties DEF Span
  <2> DEFINE j == pos % PageSize
  <2>2. j \in PageIndices /\ pos = Base(k) + j
    BY <2>1, PageOfByte DEF PageIndices
  <2> HIDE DEF j
  <2>3. From(off, k) <= j /\ j < Upto(off, data, k)
    BY <2>1, <2>2, OffsetsOfPage DEF PageIndices
  <2> QED BY <2>2, <2>3, PageSizeAssumption DEF PageIndices, j
<1>4. span # {}
  <2>1. o \in PageIndices
    BY <1>1, PageSizeAssumption DEF PageIndices
  <2> DEFINE pos == Base(k) + o
  <2>2. pos \in Nat /\ pos \div PageSize = k /\ off <= pos /\ pos < off + Len(data)
    BY <1>1, <2>1, OffsetsOfPage DEF PageIndices
  <2> HIDE DEF pos
  <2>3. pos \in off .. off + Len(data) - 1
    BY <2>2, LenProperties
  <2> QED BY <2>2, <2>3 DEF Span
<1> HIDE DEF o, e, span
<1>5. /\ \E pos \in span : ~(pos % PageSize > pages[k].upto)
      /\ \E pos \in span : ~((pos % PageSize) + 1 < pages[k].from)
  BY <1>4 DEF LeavesGap, span
<1>6. o <= pages[k].upto
  BY <1>1, <1>2, <1>3, <1>5
<1>7. pages[k].from <= e
  BY <1>1, <1>2, <1>3, <1>5
<1>8. /\ ~(o <= i /\ i < e) /\ Lesser(pages[k].from, o) <= i /\ i < Greater(pages[k].upto, e)
      /\ i \in Nat
  BY PageSizeAssumption DEF o, e, PageIndices
<1> QED BY <1>1, <1>2, <1>6, <1>7, <1>8 DEF Held, Lesser, Greater

\* Bytes that were read or written are stored in the pages, and the server
\* has them.
LEMMA StoreKeeps ==
    ASSUME PagesInv, NEW off \in Offsets, NEW len \in 1 .. MaxLen, off + len <= FileSize,
           NEW data \in [1 .. len -> Bytes],
           \A i \in 1 .. len : data[i] # Zero /\ data[i].off = off + i - 1,
           Store(off, data), version' \in 0 .. MaxVersion,
           server' \in [Offsets -> Bytes], Tagged(server'),
           \A i \in Offsets :
             server'[i] = IF off <= i /\ i < off + len THEN data[i - off + 1] ELSE server[i]
    PROVE  PagesInv'
<1> DEFINE span == PagesOf(off, data)
<1>1. /\ off \in Nat /\ len \in Nat \ {0} /\ Zero \in Bytes
      /\ data \in Seq(Bytes) /\ Len(data) = len /\ data # <<>>
  <2>1. off \in Nat /\ len \in Nat \ {0} /\ Zero \in Bytes
    BY FileSizeAssumption DEF Offsets, Bytes
  <2>2. data \in Seq(Bytes) /\ Len(data) = len
    BY <2>1, LenProperties
  <2> QED BY <2>1, <2>2, EmptySeq
<1>2. PagesIn(Bytes, pages) /\ IsFiniteSet(DOMAIN pages)
  BY TypedPages DEF PagesInv, PagesIn
<1>3. PICK P \in SUBSET span :
        /\ PagesPatched(pages, pages', off, data, P) /\ PagesIn(Bytes, pages')
        /\ Cardinality(DOMAIN pages) <= MaxPages => Cardinality(DOMAIN pages') <= MaxPages
        /\ Cardinality(DOMAIN pages \cup span) < MaxPages => P = span
  <2>1. pages' \in CacheWrite(pages, off, data)
    BY DEF Store
  <2> QED BY <1>1, <1>2, <2>1, CacheWriteIs
<1>4. gapped' = (gapped \/ LeavesGap(off, len)) /\ gapped' \in BOOLEAN /\ dropped' \in BOOLEAN
  BY <1>1 DEF Store, PagesInv, TypeOK, LeavesGap
<1>5. /\ dropped => dropped'
      /\ ~dropped' /\ Cardinality(DOMAIN pages \cup span) >= MaxPages =>
           \A j \in 1 .. len : Valid(pages', off + j - 1) /\ ByteAt(pages', off + j - 1) = data[j]
  <2>1. {pos \div PageSize : pos \in off .. off + Len(data) - 1} = span
    BY <1>1, PagesOfBytes
  <2> QED BY <1>1, <2>1 DEF Store, FillsTable
<1>6. DOMAIN pages' = DOMAIN pages \cup P /\ \A k \in DOMAIN pages \ P : pages'[k] = pages[k]
  BY <1>3 DEF PagesPatched
<1>7. ASSUME NEW k \in P
      PROVE  /\ k \in span /\ k \in Nat /\ Base(k) \in Nat /\ From(off, k) \in Nat /\ Upto(off, data, k) \in Nat
             /\ From(off, k) < Upto(off, data, k) /\ Upto(off, data, k) <= PageSize
             /\ \A i \in PageIndices :
                  pages'[k].content[i] = IF From(off, k) <= i /\ i < Upto(off, data, k)
                                         THEN data[Base(k) + i - off + 1]
                                         ELSE PageOf(pages, k).content[i]
             /\ pages'[k].upto = Greater(PageOf(pages, k).upto, Upto(off, data, k))
             /\ pages'[k].from = Lesser(PageOf(pages, k).from, From(off, k))
  <2>1. k \in span
    BY <1>7
  <2>2. /\ k \in Nat /\ Base(k) \in Nat /\ From(off, k) \in Nat /\ Upto(off, data, k) \in Nat
        /\ From(off, k) < Upto(off, data, k) /\ Upto(off, data, k) <= PageSize
    BY <1>1, <2>1, PartOfPage
  <2>3. Patched(PageOf(pages, k), pages'[k], off, data, k)
    BY <1>3, <1>7 DEF PagesPatched
  <2> QED BY <2>1, <2>2, <2>3 DEF Patched, PageIndices
<1>8. ASSUME NEW k \in P, NEW i \in PageIndices
      PROVE  /\ Base(k) + i \in Nat /\ i \in Nat
             /\ From(off, k) <= i /\ i < Upto(off, data, k)
                  <=> off <= Base(k) + i /\ Base(k) + i < off + len
             /\ off <= Base(k) + i /\ Base(k) + i < off + len =>
                  /\ Base(k) + i \in Offsets /\ Base(k) + i - off + 1 \in 1 .. len
                  /\ off + (Base(k) + i - off + 1) - 1 = Base(k) + i
  <2> DEFINE pos == Base(k) + i
  <2>1. /\ pos \in Nat
        /\ From(off, k) <= i /\ i < Upto(off, data, k) <=> off <= pos /\ pos < off + len
    BY <1>1, <1>7, OffsetsOfPage DEF PageIndices
  <2> HIDE DEF pos
  <2>2. ASSUME off <= pos, pos < off + len
        PROVE  pos \in Offsets /\ pos - off + 1 \in 1 .. len /\ off + (pos - off + 1) - 1 = pos
    BY <1>1, <2>1, <2>2, FileSizeAssumption DEF Offsets
  <2>3. i \in Nat
    BY PageSizeAssumption DEF PageIndices
  <2>4. off <= pos /\ pos < off + len =>
          pos \in Offsets /\ pos - off + 1 \in 1 .. len /\ off + (pos - off + 1) - 1 = pos
    BY <2>2
  <2>5. Base(k) \in Nat
    BY <1>7
  <2> QED BY <1>1, <2>1, <2>3, <2>4, <2>5 DEF pos
<1>9. ASSUME NEW k \in P, NEW i \in PageIndices
      PROVE  (off <= Base(k) + i /\ Base(k) + i < off + len) =>
                /\ pages'[k].content[i] = data[Base(k) + i - off + 1]
                /\ pages'[k].content[i] # Zero /\ pages'[k].content[i].off = Base(k) + i
  <2> HAVE off <= Base(k) + i /\ Base(k) + i < off + len
  <2>1. pages'[k].content[i] = data[Base(k) + i - off + 1]
    BY <1>7, <1>8
  <2> DEFINE j == Base(k) + i - off + 1
  <2>2. j \in 1 .. len /\ off + j - 1 = Base(k) + i
    BY <1>8
  <2> HIDE DEF j
  <2>3. data[j] # Zero /\ data[j].off = Base(k) + i
    BY <2>2
  <2> QED BY <2>1, <2>3 DEF j
<1>10. ASSUME NEW k \in P, NEW i \in PageIndices, ~(off <= Base(k) + i /\ Base(k) + i < off + len)
       PROVE  /\ pages'[k].content[i] = PageOf(pages, k).content[i]
              /\ Held(k, i)' /\ ~LeavesGap(off, len) => k \in DOMAIN pages /\ Held(k, i)
  <2>1. ~(From(off, k) <= i /\ i < Upto(off, data, k))
    BY <1>8, <1>10
  <2>2. pages'[k].content[i] = PageOf(pages, k).content[i]
    BY <1>7, <2>1
  <2>3. ASSUME Held(k, i)', ~LeavesGap(off, len) PROVE k \in DOMAIN pages /\ Held(k, i)
    <3>1. /\ Lesser(PageOf(pages, k).from, From(off, k)) <= i
          /\ i < Greater(PageOf(pages, k).upto, Upto(off, data, k))
      BY <1>7, <2>3 DEF Held
    <3>2. CASE k \notin DOMAIN pages
      <4>1. PageOf(pages, k).from = PageSize /\ PageOf(pages, k).upto = 0
        BY <3>2 DEF PageOf, NewPage
      <4> QED BY <1>7, <1>8, <2>1, <3>1, <4>1, PageSizeAssumption DEF Lesser, Greater
    <3>3. CASE k \in DOMAIN pages
      <4>1. PageOf(pages, k) = pages[k]
        BY <3>3 DEF PageOf
      <4> QED BY <1>1, <1>7, <2>1, <2>3, <3>1, <3>3, <4>1, HullIsOldOrGap DEF PagesInv
    <3> QED BY <3>2, <3>3
  <2> QED BY <2>2, <2>3
<1>11. TypeOK'
  <2>1. DOMAIN pages' \subseteq 0 .. FileSize
    <3>1. ASSUME NEW k \in P PROVE k \in 0 .. FileSize
      <4>1. From(off, k) \in PageIndices
        BY <1>7, PageSizeAssumption DEF PageIndices
      <4>2. Base(k) + From(off, k) \in Offsets
        BY <1>7, <1>8, <4>1
      <4>3. k \in Nat /\ Base(k) \in Nat /\ k <= Base(k) /\ From(off, k) \in Nat
        BY <1>7, Bases
      <4> QED BY <4>2, <4>3, FileSizeAssumption DEF Offsets
    <3> QED BY <1>6, <3>1 DEF PagesInv, TypeOK
  <2>2. ASSUME NEW k \in DOMAIN pages'
        PROVE  /\ pages'[k].content \in [0 .. PageSize - 1 -> Bytes]
               /\ pages'[k].upto \in 1 .. PageSize /\ pages'[k].from \in 0 .. pages'[k].upto - 1
    <3>1. CASE k \notin P
      BY <1>6, <3>1 DEF PagesInv, TypeOK
    <3>2. CASE k \in P
      <4>1. PageIn(Bytes, pages'[k])
        BY <1>3 DEF PagesIn
      <4>2. /\ pages'[k].upto >= Upto(off, data, k) /\ pages'[k].from <= From(off, k)
        <5>1. PageOf(pages, k).upto \in Nat /\ PageOf(pages, k).from \in Nat
          BY <1>2, PageSizeAssumption DEF PageOf, NewPage, PagesIn, PageIn
        <5> QED BY <1>7, <3>2, <5>1 DEF Greater, Lesser
      <4>3. From(off, k) < Upto(off, data, k) /\ From(off, k) \in Nat /\ Upto(off, data, k) \in Nat
        BY <1>7, <3>2
      <4> QED BY <4>1, <4>2, <4>3, PageSizeAssumption DEF PageIn
    <3> QED BY <3>1, <3>2
  <2> QED BY <1>4, <2>1, <2>2 DEF TypeOK, Bytes, Offsets
<1>12. PageTableBounded'
  BY <1>3 DEF PagesInv, PageTableBounded
<1>13. InPlace'
  <2> SUFFICES ASSUME NEW k \in DOMAIN pages', NEW i \in PageIndices
               PROVE  /\ pages'[k].content[i] = Zero \/ pages'[k].content[i].off = Base(k) + i
                      /\ Held(k, i)' /\ pages'[k].content[i] = Zero => gapped'
    BY DEF InPlace, PageIndices, Base
  <2>1. CASE k \notin P
    BY <1>4, <1>6, <2>1 DEF PagesInv, InPlace, Held
  <2>2. CASE k \in P /\ (off <= Base(k) + i /\ Base(k) + i < off + len)
    BY <1>9, <2>2
  <2>3. CASE k \in P /\ ~(off <= Base(k) + i /\ Base(k) + i < off + len)
    <3>1. /\ pages'[k].content[i] = PageOf(pages, k).content[i]
          /\ Held(k, i)' /\ ~LeavesGap(off, len) => k \in DOMAIN pages /\ Held(k, i)
      BY <1>10, <2>3
    <3>2. CASE k \in DOMAIN pages
      BY <1>4, <3>1, <3>2 DEF PagesInv, InPlace, PageOf
    <3>3. CASE k \notin DOMAIN pages
      <4>1. PageOf(pages, k).content[i] = Zero
        BY <3>3 DEF PageOf, NewPage, PageIndices
      <4> QED BY <1>4, <3>1, <3>3, <4>1
    <3> QED BY <3>2, <3>3
  <2> QED BY <2>1, <2>2, <2>3
<1>14. Exact'
  <2> SUFFICES ASSUME ~gapped', ~dropped', NEW k \in DOMAIN pages', NEW i \in PageIndices, Held(k, i)'
               PROVE  Base(k) + i \in Offsets /\ pages'[k].content[i] = server'[Base(k) + i]
    BY DEF Exact, PageIndices, Base, Offsets
  <2>1. ~gapped /\ ~dropped /\ ~LeavesGap(off, len)
    BY <1>4, <1>5
  <2>2. ASSUME k \in DOMAIN pages, Held(k, i)
        PROVE  Base(k) + i \in Offsets /\ pages[k].content[i] = server[Base(k) + i]
    BY <2>1, <2>2 DEF PagesInv, Exact
  <2>3. CASE k \in P /\ (off <= Base(k) + i /\ Base(k) + i < off + len)
    <3> DEFINE pos == Base(k) + i
    <3>1. pages'[k].content[i] = data[pos - off + 1] /\ off <= pos /\ pos < off + len
      <4>1. k \in P /\ off <= Base(k) + i /\ Base(k) + i < off + len
        BY <2>3
      <4>2. Base(k) \in Nat /\ i \in Nat
        BY <1>7, <1>8, <4>1
      <4>3. pages'[k].content[i] = data[Base(k) + i - off + 1]
        BY <1>9, <4>1
      <4> QED BY <1>1, <4>1, <4>2, <4>3
    <3>2. pos \in Offsets
      BY <1>8, <2>3
    <3> HIDE DEF pos
    <3>3. pages'[k].content[i] = server'[pos]
      BY <3>1, <3>2
    <3> QED BY <3>2, <3>3 DEF pos
  <2>4. CASE k \in P /\ ~(off <= Base(k) + i /\ Base(k) + i < off + len)
    BY <1>10, <2>1, <2>2, <2>4 DEF PageOf
  <2>5. CASE k \notin P
    <3>1. k \in DOMAIN pages /\ pages'[k] = pages[k] /\ Held(k, i)
      BY <1>6, <2>5 DEF Held
    <3>2. Base(k) + i \in Offsets /\ pages[k].content[i] = server[Base(k) + i]
      BY <2>2, <3>1
    <3> DEFINE pos == Base(k) + i
    <3>3. pos \div PageSize = k /\ pos % PageSize = i
      <4>1. k \in Nat /\ Base(k) \in Nat /\ i \in Nat /\ i < PageSize
        <5>1. k \in 0 .. FileSize /\ i \in 0 .. PageSize - 1
          BY <3>1 DEF PagesInv, TypeOK, PageIndices
        <5>2. k \in Nat /\ i \in Nat /\ i < PageSize
          BY <5>1, FileSizeAssumption, PageSizeAssumption
        <5> QED BY <5>2, Bases
      <4>2. pos \in Nat /\ Base(k) <= pos /\ pos < Base(k) + PageSize /\ pos - Base(k) = i
        BY <4>1, PageSizeAssumption
      <4> HIDE DEF pos
      <4>3. k <= pos \div PageSize /\ pos \div PageSize <= k /\ pos \div PageSize \in Nat
        <5>1. pos \div PageSize \in 0 .. pos
          BY <4>1, <4>2, PageOfOffset
        <5> QED BY <4>1, <4>2, <5>1, PageOfOffset
      <4>4. pos \div PageSize = k
        BY <4>1, <4>3
      <4> QED BY <4>1, <4>2, <4>4, PageOfOffset
    <3> HIDE DEF pos
    <3>4. CASE off <= pos /\ pos < off + len
      <4>1. k \in span /\ pos - off + 1 \in 1 .. len /\ off + (pos - off + 1) - 1 = pos
        <5>1. pos \in Nat
          BY <3>2, FileSizeAssumption DEF Offsets, pos
        <5>2. pos \div PageSize \in span
          BY <1>1, <3>4, <5>1, PageOfByte
        <5> QED BY <1>1, <3>3, <3>4, <5>1, <5>2
      <4>2. Cardinality(DOMAIN pages \cup span) >= MaxPages
        <5>1. IsFiniteSet(span)
          <6>1. (off + Len(data) - 1) \div PageSize \in Int /\ off \div PageSize \in Int
            <7>1. off + Len(data) - 1 \in Int
              BY <1>1
            <7> QED BY <1>1, <7>1, PageSizeAssumption
          <6> QED BY <6>1, FS_Interval DEF PagesOf
        <5> HIDE DEF span
        <5>2. Cardinality(DOMAIN pages \cup span) \in Nat
          BY <1>2, <5>1, FS_Union, FS_CardinalityType
        <5> QED BY <1>3, <2>5, <4>1, <5>2, MaxPagesAssumption
      <4>3. Valid(pages', pos) /\ ByteAt(pages', pos) = data[pos - off + 1]
        <5> DEFINE j == pos - off + 1
        <5>1. j \in 1 .. len /\ off + j - 1 = pos
          BY <4>1
        <5> HIDE DEF j
        <5>2. Valid(pages', off + j - 1) /\ ByteAt(pages', off + j - 1) = data[j]
          BY <1>5, <4>2, <5>1
        <5> QED BY <5>1, <5>2 DEF j
      <4>4. pages'[k].content[i] = data[pos - off + 1]
        BY <3>3, <4>3 DEF ByteAt
      <4> QED BY <3>2, <3>4, <4>4 DEF pos
    <3>5. CASE ~(off <= pos /\ pos < off + len)
      BY <3>1, <3>2, <3>5 DEF pos
    <3> QED BY <3>4, <3>5
  <2> QED BY <2>3, <2>4, <2>5
<1> QED BY <1>11, <1>12, <1>13, <1>14 DEF PagesInv, Tagged, Offsets

LEMMA NoPagesInv ==
    ASSUME DOMAIN pages = {}, gapped \in BOOLEAN, dropped \in BOOLEAN, version \in 0 .. MaxVersion,
           server \in [Offsets -> Bytes], Tagged(server)
    PROVE  PagesInv
BY FS_EmptySet, MaxPagesAssumption DEF PagesInv, TypeOK, PageTableBounded, InPlace, Exact

LEMMA InitPages == Init => PagesInv
<1> SUFFICES ASSUME Init PROVE PagesInv
  OBVIOUS
<1>1. /\ server = [i \in Offsets |-> [off |-> i, version |-> 0]] /\ DOMAIN pages = {}
      /\ version = 0 /\ gapped \in BOOLEAN /\ dropped \in BOOLEAN
  BY DEF Init, NoPages
<1>2. \A i \in Offsets : [off |-> i, version |-> 0] \in [off : Offsets, version : 0 .. MaxVersion]
  BY FileSizeAssumption
<1>3. server \in [Offsets -> Bytes] /\ Tagged(server)
  BY <1>1, <1>2, ZeroAssumption DEF Bytes, Tagged, Offsets
<1>4. version \in 0 .. MaxVersion
  BY <1>1, FileSizeAssumption
<1> QED BY <1>1, <1>3, <1>4, NoPagesInv

LEMMA FillKeeps ==
    ASSUME PagesInv, NEW off \in Offsets, NEW len \in 1 .. MaxLen, Fill(off, len) PROVE PagesInv'
<1> DEFINE data == Slice(server, off, len)
<1>1. off + len <= FileSize /\ Store(off, data) /\ UNCHANGED <<server, version>>
  BY DEF Fill
<1>2. off \in Nat /\ len \in Nat
  BY FileSizeAssumption DEF Offsets
<1>3. \A i \in 1 .. len : data[i] = server[off + i - 1] /\ off + i - 1 \in Offsets
  BY <1>1, <1>2, FileSizeAssumption DEF Slice, Offsets
<1>4. server \in [Offsets -> Bytes] /\ version \in 0 .. MaxVersion /\ Tagged(server)
  BY DEF PagesInv, TypeOK
<1>5. data \in [1 .. len -> Bytes]
  BY <1>3, <1>4 DEF Slice
<1>6. \A i \in 1 .. len : data[i] # Zero /\ data[i].off = off + i - 1
  BY <1>3, <1>4 DEF Tagged
<1>7. ASSUME NEW i \in Offsets, off <= i, i < off + len PROVE data[i - off + 1] = server[i]
  <2>1. i - off + 1 \in 1 .. len /\ off + (i - off + 1) - 1 = i
    BY <1>2, <1>7, FileSizeAssumption DEF Offsets
  <2> DEFINE j == i - off + 1
  <2> HIDE DEF j, data
  <2>2. data[j] = server[i]
    BY <1>3, <2>1 DEF j
  <2> QED BY <2>2 DEF j
<1> HIDE DEF data
<1>8. \A i \in Offsets :
        server'[i] = IF off <= i /\ i < off + len THEN data[i - off + 1] ELSE server[i]
  BY <1>1, <1>7
<1> QED BY <1>1, <1>4, <1>5, <1>6, <1>8, StoreKeeps

LEMMA UploadKeeps ==
    ASSUME PagesInv, NEW off \in Offsets, NEW len \in 1 .. MaxLen, Upload(off, len) PROVE PagesInv'
<1> DEFINE data == [i \in 1 .. len |-> [off |-> off + i - 1, version |-> version']]
<1>1. /\ off + len <= FileSize /\ Store(off, data)
      /\ version < MaxVersion /\ version' = version + 1
      /\ server' = [i \in Offsets |-> IF off <= i /\ i < off + len THEN data[i - off + 1] ELSE server[i]]
  BY DEF Upload
<1>2. off \in Nat /\ len \in Nat
  BY FileSizeAssumption DEF Offsets
<1>3. server \in [Offsets -> Bytes] /\ version' \in 0 .. MaxVersion /\ Tagged(server)
  BY <1>1, FileSizeAssumption DEF PagesInv, TypeOK
<1>4. \A i \in 1 .. len :
        /\ data[i] \in [off : Offsets, version : 0 .. MaxVersion]
        /\ data[i].off = off + i - 1
  <2> TAKE i \in 1 .. len
  <2>1. off + i - 1 \in Offsets
    BY <1>1, <1>2, FileSizeAssumption DEF Offsets
  <2> QED BY <1>3, <2>1
<1>5. data \in [1 .. len -> Bytes] /\ \A i \in 1 .. len : data[i] # Zero
  BY <1>4, ZeroAssumption DEF Bytes, Offsets
<1>6. ASSUME NEW i \in Offsets, off <= i, i < off + len PROVE i - off + 1 \in 1 .. len /\ off + (i - off + 1) - 1 = i
  BY <1>2, <1>6, FileSizeAssumption DEF Offsets
<1> HIDE DEF data
<1>7. \A i \in Offsets :
        server'[i] = IF off <= i /\ i < off + len THEN data[i - off + 1] ELSE server[i]
  BY <1>1
<1>8. ASSUME NEW i \in Offsets PROVE server'[i] \in Bytes /\ server'[i] # Zero /\ server'[i].off = i
  <2>1. CASE off <= i /\ i < off + len
    <3> DEFINE j == i - off + 1
    <3>1. j \in 1 .. len /\ off + j - 1 = i /\ server'[i] = data[j]
      BY <1>6, <1>7, <2>1
    <3> HIDE DEF j
    <3> QED BY <1>4, <1>5, <3>1
  <2>2. CASE ~(off <= i /\ i < off + len)
    BY <1>3, <1>7, <2>2 DEF Tagged
  <2> QED BY <2>1, <2>2
<1>9. server' \in [Offsets -> Bytes] /\ Tagged(server')
  <2>1. server' = [i \in Offsets |-> server'[i]]
    BY <1>1
  <2> QED BY <1>8, <2>1 DEF Tagged
<1> QED BY <1>1, <1>3, <1>4, <1>5, <1>7, <1>9, StoreKeeps

LEMMA NextPages == PagesInv /\ [Next]_vars => PagesInv'
<1> SUFFICES ASSUME PagesInv, [Next]_vars PROVE PagesInv'
  OBVIOUS
<1>1. CASE \E off \in Offsets, len \in 1 .. MaxLen : Fill(off, len) \/ Upload(off, len)
  BY <1>1, FillKeeps, UploadKeeps
<1>2. CASE Forget
  <2>1. DOMAIN pages' = {} /\ gapped' \in BOOLEAN /\ dropped' \in BOOLEAN /\ UNCHANGED <<server, version>>
    BY <1>2 DEF Forget, NoPages
  <2>2. /\ server' \in [Offsets -> Bytes] /\ version' \in 0 .. MaxVersion /\ Tagged(server')
    BY <2>1 DEF PagesInv, TypeOK, Tagged
  <2>3. TypeOK'
    BY <2>1, <2>2 DEF TypeOK, Offsets, Bytes
  <2>4. PageTableBounded' /\ InPlace' /\ Exact'
    BY <2>1, FS_EmptySet, MaxPagesAssumption DEF PageTableBounded, InPlace, Exact
  <2> QED BY <2>2, <2>3, <2>4 DEF PagesInv, Tagged
<1>3. CASE UNCHANGED vars
  BY <1>3 DEF vars, PagesInv, TypeOK, PageTableBounded, Tagged, InPlace, Exact, Held
<1> QED BY <1>1, <1>2, <1>3 DEF Next

LEMMA PagesInvariant == Spec => []PagesInv
BY InitPages, NextPages, PTL DEF Spec

----------------------------------------------------------------------------
(* What a reader of the pages sees *)

\* A valid byte is in a page of the table, at its place there.
LEMMA ValidByte ==
    ASSUME PagesInv, NEW pos \in Nat, Valid(pages, pos)
    PROVE  LET b == ByteAt(pages, pos)
           IN  /\ b = Zero => gapped
               /\ b = Zero \/ b.off = pos
               /\ gapped \/ dropped \/ (pos \in Offsets /\ b = server[pos])
<1> DEFINE k == pos \div PageSize
           i == pos % PageSize
<1>1. k \in Nat /\ i \in PageIndices /\ pos = Base(k) + i
  BY Place DEF Base, PageIndices
<1>2. k \in DOMAIN pages /\ Held(k, i) /\ ByteAt(pages, pos) = pages[k].content[i]
  BY DEF Valid, ByteAt, Held
<1> HIDE DEF k, i
<1> QED BY <1>1, <1>2 DEF PagesInv, InPlace, Exact

LEMMA ReadsInPlace == PagesInv => ReadsKeepOffsets
<1> SUFFICES ASSUME PagesInv, NEW off \in Offsets, NEW size \in 0 .. FileSize - off
             PROVE  LET data == ReadPages(pages, off, size)
                    IN  \A i \in 1 .. Len(data) :
                          IF data[i] = Zero THEN gapped ELSE data[i].off = off + i - 1
  BY DEF ReadsKeepOffsets
<1>1. off \in Nat /\ size \in Nat
  BY FileSizeAssumption DEF Offsets
<1>2. PICK n \in 0 .. size :
        /\ ReadPages(pages, off, size) = [i \in 1 .. n |-> ByteAt(pages, off + i - 1)]
        /\ \A i \in 0 .. n - 1 : Valid(pages, off + i)
  BY <1>1, ReadPagesIs
<1> DEFINE data == ReadPages(pages, off, size)
<1>3. n \in Nat /\ Len(data) = n
  <2>1. n \in Nat
    BY <1>1
  <2> QED BY <1>2, <2>1, LenProperties
<1>4. ASSUME NEW i \in 1 .. n PROVE IF data[i] = Zero THEN gapped ELSE data[i].off = off + i - 1
  <2> DEFINE pos == off + i - 1
  <2>1. pos \in Nat /\ i - 1 \in 0 .. n - 1 /\ off + (i - 1) = pos
    BY <1>1, <1>3
  <2>2. data[i] = ByteAt(pages, pos)
    BY <1>2
  <2> HIDE DEF pos, data
  <2>3. Valid(pages, pos)
    <3>1. Valid(pages, off + (i - 1))
      BY <1>2, <2>1
    <3> QED BY <2>1, <3>1
  <2>4. data[i] = Zero => gapped
    BY <2>1, <2>2, <2>3, ValidByte
  <2>5. data[i] = Zero \/ data[i].off = pos
    BY <2>1, <2>2, <2>3, ValidByte
  <2> QED BY <2>4, <2>5 DEF pos
<1> QED BY <1>3, <1>4

LEMMA ReadsExact == PagesInv => ExactUnlessGapOrFull
<1> SUFFICES ASSUME PagesInv, ~gapped, ~dropped, NEW off \in Offsets, NEW size \in 0 .. FileSize - off
             PROVE  ReadPages(pages, off, size) = Slice(server, off, Len(ReadPages(pages, off, size)))
  BY DEF ExactUnlessGapOrFull
<1>1. off \in Nat /\ size \in Nat
  BY FileSizeAssumption DEF Offsets
<1>2. PICK n \in 0 .. size :
        /\ ReadPages(pages, off, size) = [i \in 1 .. n |-> ByteAt(pages, off + i - 1)]
        /\ \A i \in 0 .. n - 1 : Valid(pages, off + i)
  BY <1>1, ReadPagesIs
<1>3. n \in Nat /\ Len(ReadPages(pages, off, size)) = n
  <2>1. n \in Nat
    BY <1>1
  <2> QED BY <1>2, <2>1, LenProperties
<1>4. ASSUME NEW i \in 1 .. n PROVE ByteAt(pages, off + i - 1) = server[off + i - 1]
  <2> DEFINE pos == off + i - 1
  <2>1. pos \in Nat /\ i - 1 \in 0 .. n - 1 /\ off + (i - 1) = pos
    BY <1>1, <1>3
  <2> HIDE DEF pos
  <2>2. Valid(pages, pos)
    <3>1. Valid(pages, off + (i - 1))
      BY <1>2, <2>1
    <3> QED BY <2>1, <3>1
  <2>3. ByteAt(pages, pos) = server[pos]
    BY <2>1, <2>2, ValidByte
  <2> QED BY <2>3 DEF pos
<1> QED BY <1>2, <1>3, <1>4 DEF Slice

LEMMA WriteReadsBack == PagesInv => RoundTrip
<1> SUFFICES ASSUME PagesInv, NEW off \in Offsets, NEW len \in 1 .. Lesser(MaxLen, FileSize - off),
                    NEW after \in CacheWrite(pages, off, Slice(server, off, len)),
                    Cardinality(DOMAIN pages \cup {pos \div PageSize : pos \in off .. off + len - 1}) < MaxPages
             PROVE  ReadPages(after, off, len) = Slice(server, off, len)
  BY DEF RoundTrip
<1> DEFINE data == Slice(server, off, len)
           span == PagesOf(off, data)
<1>1. off \in Nat /\ len \in Nat \ {0} /\ off + len <= FileSize
  BY FileSizeAssumption DEF Offsets, Lesser
<1>2. /\ data \in Seq(Bytes) /\ Len(data) = len /\ data # <<>> /\ Zero \in Bytes
      /\ DOMAIN data = 1 .. len
  <2>1. \A i \in 1 .. len : off + i - 1 \in Offsets
    BY <1>1, FileSizeAssumption DEF Offsets
  <2>2. data \in [1 .. len -> Bytes]
    BY <2>1 DEF Slice, PagesInv, TypeOK
  <2>3. data \in Seq(Bytes) /\ Len(data) = len
    BY <1>1, <2>2, LenProperties
  <2> QED BY <1>1, <2>2, <2>3, EmptySeq DEF Bytes
<1> HIDE DEF data
<1>3. PagesPatched(pages, after, off, data, span) /\ PagesIn(Bytes, after)
  <2>1. PagesIn(Bytes, pages)
    BY TypedPages DEF PagesInv
  <2>2. {pos \div PageSize : pos \in off .. off + len - 1} = span
    BY <1>1, <1>2, PagesOfBytes
  <2>3. Cardinality(DOMAIN pages \cup span) < MaxPages /\ after \in CacheWrite(pages, off, data)
    BY <2>2 DEF data
  <2> HIDE DEF span
  <2>4. PICK P \in SUBSET span :
          /\ PagesPatched(pages, after, off, data, P) /\ PagesIn(Bytes, after)
          /\ Cardinality(DOMAIN pages \cup span) < MaxPages => P = span
    BY <1>1, <1>2, <2>1, <2>3, CacheWriteIs DEF span
  <2> QED BY <2>3, <2>4
<1>4. ASSUME NEW j \in 1 .. len
      PROVE  Valid(after, off + j - 1) /\ ByteAt(after, off + j - 1) = data[j]
  <2> DEFINE pos == off + j - 1
             k == pos \div PageSize
             i == pos % PageSize
             page == PageOf(pages, k)
  <2>1. pos \in Nat /\ off <= pos /\ pos < off + len /\ pos - off + 1 = j
    BY <1>1
  <2> HIDE DEF pos
  <2>2. k \in span /\ i \in PageIndices /\ pos = Base(k) + i
    BY <1>1, <1>2, <2>1, PageOfByte DEF PageIndices
  <2> HIDE DEF k, i
  <2>3. From(off, k) <= i /\ i < Upto(off, data, k)
    BY <1>1, <1>2, <2>1, <2>2, OffsetsOfPage DEF PageIndices
  <2>4. Patched(page, after[k], off, data, k) /\ k \in DOMAIN after
    BY <1>3, <2>2 DEF PagesPatched
  <2>5. page.from \in Nat /\ page.upto \in Nat
    BY TypedPages, PageSizeAssumption DEF PageOf, NewPage, PagesInv, PagesIn, PageIn
  <2> HIDE DEF page
  <2>6. From(off, k) \in Nat /\ Upto(off, data, k) \in Nat /\ i \in Nat
    <3>1. From(off, k) \in Nat /\ Upto(off, data, k) \in Nat
      BY <1>1, <1>2, <2>2, PartOfPage
    <3> QED BY <2>2, <3>1, PageSizeAssumption DEF PageIndices
  <2>7. after[k].content[i] = data[pos - off + 1]
    <3>1. after[k].content[i] = data[Base(k) + i - off + 1]
      BY <2>2, <2>3, <2>4 DEF Patched, PageIndices
    <3>2. Base(k) \in Nat
      BY <1>1, <1>2, <2>2, OffsetsOfPage DEF PageIndices
    <3>3. Base(k) + i - off + 1 = pos - off + 1
      BY <1>1, <2>2, <2>6, <3>2
    <3> QED BY <3>1, <3>3
  <2>8. after[k].from <= i /\ i < after[k].upto
    BY <2>3, <2>4, <2>5, <2>6 DEF Patched, Lesser, Greater
  <2>9. Valid(after, pos) /\ ByteAt(after, pos) = after[k].content[i]
    BY <2>4, <2>8 DEF Valid, ByteAt, k, i
  <2> QED BY <2>1, <2>7, <2>9 DEF pos
<1>5. PICK n \in 0 .. len :
        /\ ReadPages(after, off, len) = [i \in 1 .. n |-> ByteAt(after, off + i - 1)]
        /\ n = len \/ ~Valid(after, off + n)
  BY <1>1, ReadPagesIs
<1>6. n = len
  <2> SUFFICES ASSUME n # len PROVE FALSE
    OBVIOUS
  <2> DEFINE j == n + 1
  <2>1. j \in 1 .. len /\ off + j - 1 = off + n
    BY <1>1
  <2> HIDE DEF j
  <2>2. Valid(after, off + j - 1)
    BY <1>4, <2>1
  <2> QED BY <1>5, <2>1, <2>2
<1>7. \A j \in 1 .. len : ByteAt(after, off + j - 1) = data[j]
  BY <1>4
<1>8. data = [j \in 1 .. len |-> data[j]]
  BY DEF data, Slice
<1> QED BY <1>5, <1>6, <1>7, <1>8 DEF data

----------------------------------------------------------------------------
(* Theorems *)

\* The pages keep their types: every page of the table has a nonempty valid
\* interval within the page, whatever was read and written.
THEOREM TypeCorrect == Spec => []TypeOK
<1>1. PagesInv => TypeOK
  BY DEF PagesInv
<1> QED BY <1>1, PagesInvariant, PTL

\* write_content and merge never let the page table outgrow MAX_PAGES.
THEOREM TableStaysBounded == Spec => []PageTableBounded
<1>1. PagesInv => PageTableBounded
  BY DEF PagesInv
<1> QED BY <1>1, PagesInvariant, PTL

\* For every page size and every sequence of fills and uploads, File::read
\* returns a byte that was written at the offset it is read from, or a zero of
\* a gap that a write has made valid.
THEOREM NoByteMoves == Spec => []ReadsKeepOffsets
BY PagesInvariant, ReadsInPlace, PTL

\* Unless a write left a gap in a page or found the table full, what File::read
\* returns is what the server holds.
THEOREM ReadsAreExact == Spec => []ExactUnlessGapOrFull
BY PagesInvariant, ReadsExact, PTL

\* With room in the page table, the bytes a cached write stores are the bytes
\* the next read of the same range returns, across any number of pages.
THEOREM WritesReadBack == Spec => []RoundTrip
BY PagesInvariant, WriteReadsBack, PTL
==============================================================================
