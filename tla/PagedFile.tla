----------------------------- MODULE PagedFile -----------------------------
(***************************************************************************)
(* One file of the server and its cached pages.  The two ways data reaches *)
(* the pages, both through cache_write_file: read_file caches what it got  *)
(* from the server, and an upload of the write buffer is cached after the  *)
(* server has taken it.  Bytes carry the offset they belong to, so that a  *)
(* byte that moved can be told.                                            *)
(***************************************************************************)
EXTENDS FilePages

CONSTANTS
    FileSize,   \* bytes of the file on the server
    MaxLen,     \* longest read or upload
    MaxVersion  \* bound on the number of uploads

ASSUME FileSizeAssumption == FileSize \in Nat /\ MaxLen \in Nat /\ MaxVersion \in Nat
ASSUME ZeroAssumption == Zero \notin [off : 0 .. FileSize - 1, version : 0 .. MaxVersion]

VARIABLES
    server,     \* the file on the server, a function on offsets
    pages,      \* its pages in the cache
    version,    \* history: number of uploads so far
    gapped,     \* history: a page was extended over bytes nobody wrote
    dropped     \* history: a full page table made the cache skip bytes

vars == <<server, pages, version, gapped, dropped>>

Offsets == 0 .. FileSize - 1
Bytes == {Zero} \cup [off : Offsets, version : 0 .. MaxVersion]

TypeOK ==
    /\ server \in [Offsets -> Bytes]
    /\ DOMAIN pages \subseteq 0 .. FileSize
    /\ \A k \in DOMAIN pages :
         /\ pages[k].content \in [0 .. PageSize - 1 -> Bytes]
         /\ pages[k].upto \in 1 .. PageSize /\ pages[k].from \in 0 .. pages[k].upto - 1
    /\ version \in 0 .. MaxVersion
    /\ gapped \in BOOLEAN /\ dropped \in BOOLEAN

Init ==
    /\ server = [i \in Offsets |-> [off |-> i, version |-> 0]]
    /\ pages = NoPages
    /\ version = 0
    /\ gapped = FALSE /\ dropped = FALSE

Slice(file, off, len) == [i \in 1 .. len |-> file[off + i - 1]]

\* The bytes of page k that data written at off covers.
Span(off, len, k) == {pos \in off .. off + len - 1 : pos \div PageSize = k}

\* Some page has valid bytes before and the new ones do not touch them.
LeavesGap(off, len) ==
    \E k \in DOMAIN pages :
        LET span == Span(off, len, k)
        IN  /\ span # {}
            /\ \/ \A pos \in span : pos % PageSize > pages[k].upto
               \/ \A pos \in span : (pos % PageSize) + 1 < pages[k].from

\* The pages of these bytes fill the table.
FillsTable(off, len) ==
    Cardinality(DOMAIN pages \cup {pos \div PageSize : pos \in off .. off + len - 1}) >= MaxPages

Store(off, data) ==
    /\ pages' \in CacheWrite(pages, off, data)
    /\ gapped' = (gapped \/ LeavesGap(off, Len(data)))
    /\ dropped' = \/ dropped
                  \/ /\ FillsTable(off, Len(data))
                     /\ \E i \in 1 .. Len(data) :
                          LET pos == off + i - 1
                          IN  ~Valid(pages', pos) \/ ByteAt(pages', pos) # data[i]

\* FileSystem::read_file, the part that caches what the server sent.
Fill(off, len) ==
    /\ off + len <= FileSize
    /\ Store(off, Slice(server, off, len))
    /\ UNCHANGED <<server, version>>

\* An upload of the write buffer: first the server, then the cached pages.
Upload(off, len) ==
    /\ off + len <= FileSize
    /\ version < MaxVersion
    /\ version' = version + 1
    /\ LET data == [i \in 1 .. len |-> [off |-> off + i - 1, version |-> version']]
       IN  /\ server' = [i \in Offsets |-> IF off <= i /\ i < off + len
                                           THEN data[i - off + 1] ELSE server[i]]
           /\ Store(off, data)

\* The entry expires, is evicted or invalidated.
Forget ==
    /\ pages # NoPages
    /\ pages' = NoPages
    /\ gapped' = FALSE /\ dropped' = FALSE
    /\ UNCHANGED <<server, version>>

Next ==
    \/ \E off \in Offsets, len \in 1 .. MaxLen : Fill(off, len) \/ Upload(off, len)
    \/ Forget

Spec == Init /\ [][Next]_vars

----------------------------------------------------------------------------
(* Properties *)

\* The page table never outgrows MAX_PAGES (config: cache.max_size bytes).
PageTableBounded == Cardinality(DOMAIN pages) <= MaxPages

\* File::read never moves a byte: whatever the chunks the pages were filled
\* from, the byte returned for an offset is one that was at that offset, or a
\* zero of a gap.
ReadsKeepOffsets ==
    \A off \in Offsets : \A size \in 0 .. FileSize - off :
        LET data == ReadPages(pages, off, size)
        IN  \A i \in 1 .. Len(data) :
               IF data[i] = Zero THEN gapped ELSE data[i].off = off + i - 1

\* Gaps and a full page table are the only ways for a cached file to disagree
\* with the server: without either, every read from the cache returns exactly
\* what the server holds.
ExactUnlessGapOrFull ==
    gapped \/ dropped \/
    \A off \in Offsets : \A size \in 0 .. FileSize - off :
        LET data == ReadPages(pages, off, size)
        IN  data = Slice(server, off, Len(data))

\* What a cached write stores comes back when there is room for its pages: a
\* read of the same range returns the data, across page boundaries, whatever
\* was cached before.
RoundTrip ==
    \A off \in Offsets : \A len \in 1 .. Lesser(MaxLen, FileSize - off) :
        LET data == Slice(server, off, len)
            span == {pos \div PageSize : pos \in off .. off + len - 1}
        IN  (Cardinality(DOMAIN pages \cup span) < MaxPages) =>
               \A after \in CacheWrite(pages, off, data) : ReadPages(after, off, len) = data

============================================================================
