----------------------------- MODULE FilePages -----------------------------
(***************************************************************************)
(* The paged content of a cached file (client/src/fs_model/file.rs): a map *)
(* from page numbers to pages, each with one interval [from, upto) of      *)
(* valid bytes.  Pure operators; the loops of the code are written in      *)
(* closed form.                                                            *)
(***************************************************************************)
EXTENDS Integers, Sequences, FiniteSets

CONSTANTS
    PageSize,   \* PAGE_SIZE
    MaxPages,   \* MAX_PAGES = cache.max_size / page_size
    Zero        \* the byte a fresh page holds

ASSUME PageSizeAssumption == PageSize \in Nat \ {0}
ASSUME MaxPagesAssumption == MaxPages \in Nat

Lesser(a, b) == IF a <= b THEN a ELSE b
Greater(a, b) == IF a <= b THEN b ELSE a

----------------------------------------------------------------------------
(* One page *)

NewPage == [content |-> [i \in 0 .. PageSize - 1 |-> Zero],
            upto |-> 0, from |-> PageSize]

\* Fault: a write that marks the page valid up to its end.
PageWriteWhole(page, data, off) ==
    LET real_end == Lesser(off + Len(data), PageSize)
    IN  IF off > real_end THEN page
        ELSE [content |-> [i \in 0 .. PageSize - 1 |->
                             IF off <= i /\ i < real_end THEN data[i - off + 1]
                             ELSE page.content[i]],
              upto |-> PageSize, from |-> Lesser(page.from, off)]

\* Fault: a write that swaps the bounds of the interval it extends.
PageWriteSwapped(page, data, off) ==
    LET real_end == Lesser(off + Len(data), PageSize)
    IN  [page EXCEPT !.upto = Lesser(@, real_end), !.from = Greater(@, off)]

PageWrite(page, data, off) ==
    LET real_end == Lesser(off + Len(data), PageSize)
    IN  IF off > real_end THEN page
        ELSE [content |-> [i \in 0 .. PageSize - 1 |->
                             IF off <= i /\ i < real_end THEN data[i - off + 1]
                             ELSE page.content[i]],
              upto |-> Greater(page.upto, real_end),
              from |-> Lesser(page.from, off)]

----------------------------------------------------------------------------
(* The pages of a file *)

NoPages == [k \in {} |-> NewPage]

PageOf(pages, k) == IF k \in DOMAIN pages THEN pages[k] ELSE NewPage

\* The part of data, written at off, that falls into page k, and its place.
PageOffset(off, k) == Greater(off - k * PageSize, 0)
Chunk(off, data, k) ==
    SubSeq(data, k * PageSize + PageOffset(off, k) - off + 1,
                 Lesser(Len(data), (k + 1) * PageSize - off))

\* File::write_content visits the pages in ascending order and stops at the
\* first one it meets with the page table full, present or not.
Visited(pages, off, data) ==
    LET head == off \div PageSize
        last == (off + Len(data) - 1) \div PageSize
    IN  IF data = <<>> THEN {}
        ELSE {k \in head .. last :
                Cardinality(DOMAIN pages \cup (head .. k - 1)) < MaxPages}

\* Fault: a write that puts every part at the start of its page.
WriteAligned(pages, off, data) ==
    LET visited == Visited(pages, off, data)
    IN  [k \in DOMAIN pages \cup visited |->
           IF k \in visited THEN PageWrite(PageOf(pages, k), Chunk(off, data, k), 0)
           ELSE pages[k]]

WriteContent(pages, off, data) ==
    LET visited == Visited(pages, off, data)
    IN  [k \in DOMAIN pages \cup visited |->
           IF k \in visited
           THEN PageWrite(PageOf(pages, k), Chunk(off, data, k), PageOffset(off, k))
           ELSE pages[k]]

\* Fault: an interval that is open on the left.
ValidAfter(pages, pos) ==
    LET k == pos \div PageSize
    IN  /\ k \in DOMAIN pages
        /\ pages[k].from < pos % PageSize
        /\ pos % PageSize < pages[k].upto

\* File::read returns the bytes from off on up to the first one that is not
\* inside the valid interval of its page.
Valid(pages, pos) ==
    LET k == pos \div PageSize
    IN  /\ k \in DOMAIN pages
        /\ pages[k].from <= pos % PageSize
        /\ pos % PageSize < pages[k].upto
ByteAt(pages, pos) == pages[pos \div PageSize].content[pos % PageSize]

ReadPages(pages, off, size) ==
    LET n == CHOOSE n \in 0 .. size :
               /\ \A i \in 0 .. n - 1 : Valid(pages, off + i)
               /\ n = size \/ ~Valid(pages, off + n)
    IN  [i \in 1 .. n |-> ByteAt(pages, off + i - 1)]

\* Fault: a merge that stops one page late.
MergedSetsLate(mine, other) ==
    {P \in SUBSET other :
        LET total == Cardinality(mine \cup P)
        IN  IF total <= MaxPages THEN P = other
            ELSE P \ mine # {} /\ total = MaxPages + 1}

\* File::merge visits the pages of the other file in HashMap order and stops
\* when its own table is full: the sets of pages it may have taken over.
MergedSets(mine, other) ==
    {P \in SUBSET other :
        LET total == Cardinality(mine \cup P)
        IN  IF total < MaxPages THEN P = other
            ELSE \/ P = {}
                 \/ P \ mine # {} /\ total = MaxPages}

PageData(page) == [i \in 1 .. page.upto - page.from |-> page.content[page.from + i - 1]]

MergePages(pages, other) ==
    {[k \in DOMAIN pages \cup P |->
        IF k \in P THEN PageWrite(PageOf(pages, k), PageData(other[k]), other[k].from)
        ELSE pages[k]] : P \in MergedSets(DOMAIN pages, DOMAIN other)}

\* cache_write_file into a file that is in the cache already.
CacheWrite(pages, off, data) == MergePages(pages, WriteContent(NoPages, off, data))

============================================================================
