------------------------------ MODULE FileData ------------------------------
(***************************************************************************)
(* The data of files on their way between the kernel and the server        *)
(* (client/src/fs_model.rs and rw_buffer.rs): one write buffer and one     *)
(* read buffer shared by all requests, the cached pages and size of each   *)
(* file, and the files of the server.                                      *)
(*                                                                         *)
(* A request is a task; the code gives up the processor at every .await,   *)
(* so each critical section, each effect on the server and each step taken *)
(* on a response is one action.  A request whose answer is lost, or is a   *)
(* server error, is sent again, and the server does it once more.  A byte  *)
(* is tagged with the path, the offset and the number of the write that    *)
(* produced it.                                                            *)
(*                                                                         *)
(* The eviction and the expiry of cache entries (module Cache) show here   *)
(* as Forget, at any time; so does the kernel's forget.  The TTL of the    *)
(* read buffer shows as a miss, at any time.                               *)
(***************************************************************************)
EXTENDS FilePages

CONSTANTS
    Tasks, Files,
    Absent,     \* a file the server does not have
    NoEntry,    \* a file the cache does not have
    NoSize,     \* a cache entry without attributes
    NoPath,     \* PathBuf::new(), the path of a clean buffer
    Capacity,   \* fs.buffer_size, of both buffers
    Lossy,      \* whether requests to the server may fail, be repeated or be given up
    MaxSize,    \* bound on the size of a file
    Scopes      \* bound: the requests the kernel makes, on which files, how
                \* long reads and writes are and how many writes there are

ASSUME CapacityAssumption == Capacity \in Nat \ {0}
ASSUME LossyAssumption == Lossy \in BOOLEAN
ASSUME ScopeAssumption ==
    /\ MaxSize \in Nat
    /\ \A s \in Scopes : s.files \subseteq Files /\ s.len \in Nat /\ s.writes \in Nat
ASSUME NoPathAssumption == NoPath \notin Files
ASSUME ZeroAssumption == Zero \notin [path : Files, off : Nat, id : Nat]
ASSUME AbsentAssumption == Absent \notin Seq([path : Files, off : Nat, id : Nat] \cup {Zero})

VARIABLES
    disk,       \* the files of the server: Absent or a sequence of bytes
    wbuf,       \* FileSystem.write_buffer
    rbuf,       \* FileSystem.read_buffer
    cache,      \* FileSystem.cache, the File entries
    task,       \* what each request does next
    accepted,   \* history: bytes taken into the write buffer
    applied,    \* history: bytes the server has written
    failed,     \* history: bytes whose upload was reported as an error
    erased,     \* history: bytes accepted for a file before it was removed
    synced,     \* history: bytes a successful fsync vouched for
    lastRead,   \* history: the latest answer to a read
    names,      \* history: the names the data of each path was written under
    aged,       \* history: the file of the read buffer has changed since its fill
    untold,     \* history: files whose cached pages may have survived a change
    scope       \* the scope of this behaviour

client == <<wbuf, rbuf, cache>>
history == <<accepted, applied, failed, erased, synced>>
track == <<names, aged, untold, scope>>
vars == <<disk, client, task, history, lastRead, track>>

Offsets == 0 .. MaxSize - 1
Data == [path : Files, off : Offsets, id : 0 .. scope.writes]
Buffer(size) == [path : Files \cup {NoPath}, offset : 0 .. MaxSize,
                 data : UNION {[1 .. n -> Data \cup {Zero}] : n \in 0 .. size}]

Content(seq) == {seq[i] : i \in DOMAIN seq} \ {Zero}
Uploads(t) == IF task[t].at \in {"upload", "uploaded"} THEN task[t].queue ELSE <<>>
BytesOf(queue) == UNION {Content(queue[i].data) : i \in DOMAIN queue}
InCall(t) == IF task[t].at \in {"upload", "uploaded"} THEN {task[t].call} ELSE {}
Acknowledged == {b \in accepted : \A t \in Tasks : b.id \notin InCall(t)}
Pending == Content(wbuf.data) \cup UNION {BytesOf(Uploads(t)) : t \in Tasks}
Awaited == UNION {IF task[t].at = "uploaded" THEN Content(Head(Uploads(t)).data) ELSE {} : t \in Tasks}

----------------------------------------------------------------------------
(* The two buffers *)

CleanBuffer == [path |-> NoPath, offset |-> 0, data |-> <<>>]

IsAppending(buf, p, off) == buf.path = p /\ buf.offset + Len(buf.data) = off

\* Fault: a buffer that is full one byte late.
IsOverfull(buf) == Len(buf.data) > Capacity

IsFull(buf) == Len(buf.data) >= Capacity

BufferWrite(buf, p, off, data) ==
    IF IsAppending(buf, p, off)
    THEN [buf EXCEPT !.data = @ \o SubSeq(data, 1, Lesser(Len(data), Capacity - Len(@)))]
    ELSE [path |-> p, offset |-> off, data |-> SubSeq(data, 1, Lesser(Len(data), Capacity))]

\* Fault: a read buffer that does not look at the path.
BufferReadAny(buf, p, off, size) ==
    IF off < buf.offset \/ off >= buf.offset + Len(buf.data)
    THEN <<>>
    ELSE SubSeq(buf.data, off - buf.offset + 1, Lesser(off - buf.offset + size, Len(buf.data)))

BufferRead(buf, p, off, size) ==
    IF p # buf.path \/ off < buf.offset \/ off >= buf.offset + Len(buf.data)
    THEN <<>>
    ELSE SubSeq(buf.data, off - buf.offset + 1, Lesser(off - buf.offset + size, Len(buf.data)))

----------------------------------------------------------------------------
(* The server's files and the cache entries *)

At(seq, i) == IF i <= Len(seq) THEN seq[i] ELSE Zero

\* Fault: a write that truncates the file it opens.
OverwriteTruncating(file, off, data) ==
    LET old == IF file = Absent THEN <<>> ELSE file
    IN  [i \in 1 .. off + Len(data) |-> IF off < i THEN data[i - off] ELSE At(old, i)]

\* Fault: a write one byte too far.
OverwriteLate(file, off, data) ==
    LET old == IF file = Absent THEN <<>> ELSE file
    IN  [i \in 1 .. Greater(Len(old), off + Len(data) + 1) |->
           IF off + 1 < i /\ i <= off + 1 + Len(data) THEN data[i - off - 1] ELSE At(old, i)]

\* Storage::write_file: create, seek, write; what lies between is a hole.
Overwrite(file, off, data) ==
    LET old == IF file = Absent THEN <<>> ELSE file
        size == Greater(Len(old), IF data = <<>> THEN 0 ELSE off + Len(data))
    IN  [i \in 1 .. size |-> IF off < i /\ i <= off + Len(data) THEN data[i - off] ELSE At(old, i)]

SetLen(file, size) == [i \in 1 .. size |-> At(file, i)]

\* Fault: a cache_write_file that keeps a present file's pages.
CacheWriteNew(p, off, data, inv) ==
    cache' = IF cache[p] # NoEntry THEN cache
             ELSE [cache EXCEPT ![p] =
                     [size |-> NoSize, pages |-> WriteContent(NoPages, off, data)]]

\* cache_write_file with invalidate_attributes = inv.
CacheWriteFile(p, off, data, inv) ==
    IF cache[p] = NoEntry
    THEN cache' = [cache EXCEPT ![p] =
           [size |-> NoSize, pages |-> WriteContent(NoPages, off, data)]]
    ELSE \E pages \in CacheWrite(cache[p].pages, off, data) :
           cache' = [cache EXCEPT ![p] =
             [size |-> IF inv THEN NoSize ELSE @.size, pages |-> pages]]

\* cache_put_attr: the pages of a present entry stay.
CachePutAttr(p, size) ==
    cache' = [cache EXCEPT ![p] =
                [size |-> size, pages |-> IF @ = NoEntry THEN NoPages ELSE @.pages]]

----------------------------------------------------------------------------
Idle == [at |-> "idle"]
Ready(t, request) == task[t] = Idle /\ request \in scope.requests
Goto(t, next) == task' = [task EXCEPT ![t] = next]

\* The request is sent again: the client has no answer to it, or a 5xx.
Again(t, at) == Lossy /\ task[t].at = at

\* The file of the read buffer is no longer what the buffer was filled from.
Ages == IF rbuf.path \in Files /\ disk'[rbuf.path] # disk[rbuf.path] THEN aged' = TRUE
        ELSE UNCHANGED aged

\* "call" is the number of the write that makes the uploads, 0 for a flush;
\* "after" is what is left to do once they are done.
Upload(queue, call, after) ==
    IF queue # <<>> THEN [at |-> "upload", queue |-> queue, call |-> call, after |-> after]
    ELSE after

InitFile(p) == [i \in 1 .. MaxSize |-> [path |-> p, off |-> i - 1, id |-> 0]]

Init ==
    /\ \E s \in Scopes : \E present \in SUBSET s.files :
         /\ scope = s
         /\ disk = [p \in Files |-> IF p \in present THEN InitFile(p) ELSE Absent]
    /\ wbuf = CleanBuffer /\ rbuf = CleanBuffer
    /\ cache = [p \in Files |-> NoEntry]
    /\ task = [t \in Tasks |-> Idle]
    /\ accepted = {} /\ applied = {} /\ failed = {} /\ erased = {} /\ synced = {}
    /\ lastRead = [data |-> <<>>, off |-> 0, path |-> NoPath, floor |-> <<>>]
    /\ names = [p \in Files |-> {p}] /\ aged = FALSE /\ untold = {}

----------------------------------------------------------------------------
(* Writing: write_file, flush_write_buffer and the uploads they start *)

Writes == CHOOSE n \in 0 .. scope.writes :
            /\ \A b \in accepted : b.id <= n
            /\ n = 0 \/ \E b \in accepted : b.id = n

\* write_file, the part under the write_buffer lock.
WriteFile(t, p, off, len) ==
    /\ Ready(t, "write")
    /\ Writes < scope.writes /\ off + len <= MaxSize
    /\ LET data == [i \in 1 .. len |-> [path |-> p, off |-> off + i - 1, id |-> Writes + 1]]
           appending == IsAppending(wbuf, p, off)
           pushed == IF appending \/ wbuf.data = <<>> THEN <<>> ELSE <<wbuf>>
           buffered == BufferWrite(IF appending THEN wbuf ELSE CleanBuffer, p, off, data)
           full == IsFull(buffered)
       IN  /\ wbuf' = IF full THEN CleanBuffer ELSE buffered
           /\ accepted' = accepted \cup (Content(data) \cap Content(buffered.data))
           /\ Goto(t, Upload(IF full THEN Append(pushed, buffered) ELSE pushed, Writes + 1, Idle))
    /\ UNCHANGED <<disk, rbuf, cache, applied, failed, erased, synced, lastRead, track>>

\* Fault: a flush that does not clean the buffer.
TakeBufferKeeping(t, after) ==
    /\ Goto(t, Upload(IF wbuf.data = <<>> THEN <<>> ELSE <<wbuf>>, 0, after))
    /\ UNCHANGED <<disk, wbuf, rbuf, cache, history, lastRead, track>>

\* flush_write_buffer takes whatever the buffer holds, of whichever file.
TakeBuffer(t, after) ==
    /\ Goto(t, Upload(IF wbuf.data = <<>> THEN <<>> ELSE <<wbuf>>, 0, after))
    /\ wbuf' = IF wbuf.data = <<>> THEN wbuf ELSE CleanBuffer
    /\ UNCHANGED <<disk, rbuf, cache, history, lastRead, track>>

Flush(t) == Ready(t, "flush") /\ wbuf.data # <<>> /\ TakeBuffer(t, Idle)

\* Fault: an fsync that only invalidates.
FsyncInvalidating(t, p) ==
    /\ Ready(t, "fsync")
    /\ Goto(t, [at |-> "invalidate", path |-> p, due |-> {b \in Acknowledged : b.path = p}])
    /\ UNCHANGED <<disk, client, history, lastRead, track>>

\* fsync: flush, then invalidate the cached file.
Fsync(t, p) ==
    /\ Ready(t, "fsync")
    /\ TakeBuffer(t, [at |-> "invalidate", path |-> p,
                      due |-> {b \in Acknowledged : b.path = p}])

\* The server writes the first upload of the queue, whenever it is sent.
ServerWrite(t) ==
    /\ task[t].at = "upload" \/ Again(t, "uploaded")
    /\ LET u == Head(task[t].queue)
       IN  /\ disk' = [disk EXCEPT ![u.path] = Overwrite(@, u.offset, u.data)]
           /\ applied' = applied \cup Content(u.data)
    /\ Ages
    /\ Goto(t, [task[t] EXCEPT !.at = "uploaded"])
    /\ UNCHANGED <<client, accepted, failed, erased, synced, lastRead, names, untold, scope>>

\* With the pages of these bytes the table of a present file is full, and
\* pages that are there already may keep what they have.
FillsTable(p, off, data) ==
    /\ cache[p] # NoEntry
    /\ Cardinality(DOMAIN cache[p].pages \cup
                   off \div PageSize .. (off + Len(data) - 1) \div PageSize) >= MaxPages

\* Its response arrives: cache_write_file, then the next upload.
Uploaded(t) ==
    /\ task[t].at = "uploaded"
    /\ LET u == Head(task[t].queue)
       IN  /\ CacheWriteFile(u.path, u.offset, u.data, TRUE)
           /\ untold' = IF FillsTable(u.path, u.offset, u.data) THEN untold \cup {u.path} ELSE untold
    /\ Goto(t, Upload(Tail(task[t].queue), task[t].call, task[t].after))
    /\ UNCHANGED <<disk, wbuf, rbuf, history, lastRead, names, aged, scope>>

\* The request is given up, before or after the server wrote: `?` drops the rest.
UploadFails(t) ==
    /\ Lossy
    /\ task[t].at \in {"upload", "uploaded"}
    /\ failed' = failed \cup BytesOf(task[t].queue)
    /\ LET p == Head(task[t].queue).path
       IN  untold' = IF task[t].at = "uploaded" /\ cache[p] # NoEntry THEN untold \cup {p} ELSE untold
    /\ Goto(t, Idle)
    /\ UNCHANGED <<disk, client, accepted, applied, erased, synced, lastRead, names, aged, scope>>

FsyncInvalidate(t) ==
    /\ task[t].at = "invalidate"
    /\ cache' = [cache EXCEPT ![task[t].path] = NoEntry]
    /\ synced' = synced \cup task[t].due
    /\ untold' = untold \ {task[t].path}
    /\ Goto(t, Idle)
    /\ UNCHANGED <<disk, wbuf, rbuf, accepted, applied, failed, erased, lastRead, names, aged, scope>>

----------------------------------------------------------------------------
(* Reading: read_file *)

\* The latest of the writes in bytes for one byte of a file, 0 if there is none.
Latest(bytes, p, off) ==
    LET ids == {b.id : b \in {c \in bytes : c.path = p /\ c.off = off}}
    IN  IF ids = {} THEN 0 ELSE CHOOSE i \in ids : \A j \in ids : j <= i

Reading(at, r) == [r EXCEPT !.at = at]

Answer(t, r, data) ==
    /\ lastRead' = [path |-> r.path, off |-> r.off, data |-> data, floor |-> r.floor]
    /\ Goto(t, Idle)

\* get_attributes: the cached size answers a read beyond the end at once.
ReadFile(t, p, off, size) ==
    /\ Ready(t, "read")
    /\ LET r == [at |-> "lookup", path |-> p, off |-> off, size |-> size,
                 floor |-> [i \in 1 .. size |-> Latest(Acknowledged, p, off + i - 1)]]
       IN  IF cache[p] = NoEntry \/ cache[p].size = NoSize
           THEN Goto(t, Reading("attributes", r)) /\ UNCHANGED lastRead
           ELSE IF off >= cache[p].size
                THEN Answer(t, r, <<>>)
                ELSE Goto(t, r) /\ UNCHANGED lastRead
    /\ UNCHANGED <<disk, client, history, track>>

\* The server answers with the size; an error only skips the check for the end.
FetchAttributes(t) ==
    /\ task[t].at = "attributes"
    /\ LET r == task[t]
       IN  \/ /\ disk[r.path] = Absent \/ Lossy
              /\ Goto(t, Reading("lookup", r))
           \/ /\ disk[r.path] # Absent
              /\ Goto(t, [at |-> "put_attributes", read |-> Reading("lookup", r),
                          size |-> Len(disk[r.path])])
    /\ UNCHANGED <<disk, client, history, lastRead, track>>

PutAttributes(t) ==
    /\ task[t].at = "put_attributes"
    /\ LET r == task[t].read
       IN  /\ CachePutAttr(r.path, task[t].size)
           /\ IF r.off >= task[t].size
              THEN Answer(t, r, <<>>)
              ELSE Goto(t, r) /\ UNCHANGED lastRead
    /\ UNCHANGED <<disk, wbuf, rbuf, history, track>>

LookupPages(t) ==
    /\ task[t].at = "lookup"
    /\ LET r == task[t]
           data == IF cache[r.path] = NoEntry THEN <<>>
                   ELSE ReadPages(cache[r.path].pages, r.off, r.size)
       IN  IF data # <<>>
           THEN Answer(t, r, data)
           ELSE Goto(t, Reading("buffer", r)) /\ UNCHANGED lastRead
    /\ UNCHANGED <<disk, client, history, track>>

\* A hit in the read buffer goes to the cached pages under the buffer's lock.
BufferHit(t) ==
    /\ task[t].at = "buffer"
    /\ LET r == task[t]
           data == BufferRead(rbuf, r.path, r.off, r.size)
       IN  /\ data # <<>>
           /\ CacheWriteFile(r.path, r.off, data, FALSE)
           /\ untold' = IF aged THEN untold \cup {r.path} ELSE untold
           /\ Answer(t, r, data)
    /\ UNCHANGED <<disk, wbuf, rbuf, history, names, aged, scope>>

\* A miss, or an expired buffer: the server is asked for a bufferful.
FetchData(t) ==
    /\ task[t].at = "buffer"
    /\ LET r == task[t]
       IN  \/ /\ disk[r.path] = Absent \/ Lossy
              /\ Goto(t, Idle)
           \/ /\ disk[r.path] # Absent
              /\ Goto(t, [at |-> "fill", read |-> r,
                          data |-> SubSeq(disk[r.path], r.off + 1,
                                          Lesser(r.off + Capacity, Len(disk[r.path])))])
    /\ UNCHANGED <<disk, client, history, lastRead, track>>

FillBuffer(t) ==
    /\ task[t].at = "fill"
    /\ rbuf' = [path |-> task[t].read.path, offset |-> task[t].read.off, data |-> task[t].data]
    /\ aged' = FALSE
    /\ Goto(t, [task[t] EXCEPT !.at = "store"])
    /\ UNCHANGED <<disk, wbuf, cache, history, lastRead, names, untold, scope>>

StorePages(t) ==
    /\ task[t].at = "store"
    /\ LET r == task[t].read
           data == task[t].data
       IN  /\ CacheWriteFile(r.path, r.off, data, FALSE)
           /\ Answer(t, r, SubSeq(data, 1, Lesser(Len(data), r.size)))
    /\ UNCHANGED <<disk, wbuf, rbuf, history, track>>

----------------------------------------------------------------------------
(* Creating, resizing, removing and renaming files: first the server acts, *)
(* then the cache follows when the response arrives.                       *)

\* create_file: an empty write at offset 0; a present file stays as it is.
CreateFile(t, p) ==
    /\ Ready(t, "create") \/ (Again(t, "created") /\ task[t].path = p)
    /\ disk' = [disk EXCEPT ![p] = Overwrite(@, 0, <<>>)]
    /\ Goto(t, [at |-> "created", path |-> p, size |-> Len(disk'[p])])
    /\ Ages
    /\ UNCHANGED <<client, history, lastRead, names, untold, scope>>

\* set_attributes with a size, from setattr or from open with O_TRUNC.
SetSize(t, p, size) ==
    /\ \/ Ready(t, "truncate")
       \/ Again(t, "resized") /\ task[t].path = p /\ task[t].size = size
    /\ disk[p] # Absent
    /\ disk' = [disk EXCEPT ![p] = SetLen(@, size)]
    /\ Goto(t, [at |-> "resized", path |-> p, size |-> size])
    /\ Ages
    /\ UNCHANGED <<client, history, lastRead, names, untold, scope>>

Remove(t, p) ==
    /\ Ready(t, "remove") \/ (Again(t, "removed") /\ task[t].path = p)
    /\ disk[p] # Absent
    /\ disk' = [disk EXCEPT ![p] = Absent]
    /\ Goto(t, [at |-> "removed", path |-> p])
    /\ erased' = erased \cup {b \in accepted : b.path = p}
    /\ Ages
    /\ UNCHANGED <<client, accepted, applied, failed, synced, lastRead, names, untold, scope>>

\* rename without EXCHANGE, replacing the target.
Rename(t, p, q) ==
    /\ \/ Ready(t, "rename")
       \/ Again(t, "renamed") /\ task[t].path = p /\ task[t].to = q
    /\ disk[p] # Absent /\ p # q
    /\ disk' = [disk EXCEPT ![q] = disk[p], ![p] = Absent]
    /\ Goto(t, [at |-> "renamed", path |-> p, to |-> q])
    /\ names' = [names EXCEPT ![q] = @ \cup names[p]]
    /\ Ages
    /\ UNCHANGED <<client, history, lastRead, untold, scope>>

\* Their responses.
Created(t) ==
    /\ task[t].at = "created"
    /\ cache' = [cache EXCEPT ![task[t].path] = [size |-> task[t].size, pages |-> NoPages]]
    /\ untold' = untold \ {task[t].path}
    /\ Goto(t, Idle)
Resized(t) ==
    /\ task[t].at = "resized"
    /\ CachePutAttr(task[t].path, task[t].size)
    /\ untold' = IF cache[task[t].path] = NoEntry THEN untold ELSE untold \cup {task[t].path}
    /\ Goto(t, Idle)
\* Fault: a removed file keeps its cache entry.
RemovedKeeping(t) ==
    task[t].at = "removed" /\ Goto(t, Idle) /\ UNCHANGED <<cache, untold>>
Removed(t) ==
    /\ task[t].at = "removed"
    /\ cache' = [cache EXCEPT ![task[t].path] = NoEntry]
    /\ untold' = untold \ {task[t].path}
    /\ Goto(t, Idle)

\* rename moves the cached item, if there is one, in two critical sections.
Renamed(t) ==
    /\ task[t].at = "renamed"
    /\ LET from == task[t].path
           to == task[t].to
       IN  /\ cache' = [cache EXCEPT ![from] = NoEntry]
           /\ IF cache[from] = NoEntry
              THEN /\ Goto(t, Idle)
                   /\ untold' = IF cache[to] = NoEntry THEN untold ELSE untold \cup {to}
              ELSE /\ Goto(t, [at |-> "moved", path |-> to, item |-> cache[from],
                               stale |-> from \in untold])
                   /\ untold' = untold \ {from}
Moved(t) ==
    /\ task[t].at = "moved"
    /\ cache' = [cache EXCEPT ![task[t].path] = task[t].item]
    /\ untold' = IF task[t].stale THEN untold \cup {task[t].path} ELSE untold \ {task[t].path}
    /\ Goto(t, Idle)

Respond(t) == /\ Created(t) \/ Resized(t) \/ Removed(t) \/ Renamed(t) \/ Moved(t)
              /\ UNCHANGED <<disk, wbuf, rbuf, history, lastRead, names, aged, scope>>

\* The request is given up although the server acted: its answer was lost or an
\* error, and so was every other.  The cache is not told.
ResponseLost(t) ==
    /\ Lossy
    /\ task[t].at \in {"created", "resized", "removed", "renamed"}
    /\ LET affected == {task[t].path} \cup (IF task[t].at = "renamed" THEN {task[t].to} ELSE {})
       IN  untold' = untold \cup {p \in affected : cache[p] # NoEntry}
    /\ Goto(t, Idle)
    /\ UNCHANGED <<disk, client, history, lastRead, names, aged, scope>>

\* The entry expires, is evicted, or the kernel forgets the file.
Forget(p) ==
    /\ cache[p] # NoEntry
    /\ cache' = [cache EXCEPT ![p] = NoEntry]
    /\ untold' = untold \ {p}
    /\ UNCHANGED <<disk, wbuf, rbuf, task, history, lastRead, names, aged, scope>>

----------------------------------------------------------------------------
Step(t) ==
    \/ ServerWrite(t) \/ Uploaded(t) \/ UploadFails(t) \/ FsyncInvalidate(t)
    \/ FetchAttributes(t) \/ PutAttributes(t) \/ LookupPages(t)
    \/ BufferHit(t) \/ FetchData(t) \/ FillBuffer(t) \/ StorePages(t)
    \/ Respond(t) \/ ResponseLost(t)

Start(t) ==
    \/ Flush(t)
    \/ \E p \in scope.files :
         \/ Fsync(t, p) \/ CreateFile(t, p) \/ Remove(t, p)
         \/ \E q \in scope.files : Rename(t, p, q)
         \/ \E size \in 0 .. MaxSize : SetSize(t, p, size)
         \/ \E off \in Offsets, len \in 1 .. scope.len :
              WriteFile(t, p, off, len) \/ ReadFile(t, p, off, len)

Next == (\E t \in Tasks : Start(t) \/ Step(t)) \/ (\E p \in Files : Forget(p))

Spec == Init /\ [][Next]_vars

----------------------------------------------------------------------------
(* Properties *)

TypeOK ==
    /\ \A p \in Files : \/ disk[p] = Absent
                        \/ /\ DOMAIN disk[p] \subseteq 1 .. MaxSize
                           /\ Content(disk[p]) \subseteq Data
    /\ wbuf \in Buffer(Capacity) /\ rbuf \in Buffer(Capacity)
    /\ \A p \in Files : \/ cache[p] = NoEntry
                        \/ /\ cache[p].size \in {NoSize} \cup 0 .. MaxSize
                           /\ Cardinality(DOMAIN cache[p].pages) <= MaxPages
    /\ accepted \subseteq Data /\ applied \subseteq accepted /\ failed \subseteq accepted

\* No byte taken into the write buffer is ever forgotten: it is in the buffer
\* or in one upload, or the server has it, or a request was told that its
\* upload failed.  What the server has and the client holds as well are the
\* uploads whose answers are awaited, which may be sent again and again
\* (client.rs:32-37); nothing else is sent a second time.
BytesAccounted ==
    /\ accepted = Pending \cup applied \cup failed
    /\ Pending \cap applied = Awaited
    /\ \A t \in Tasks : Content(wbuf.data) \cap BytesOf(Uploads(t)) = {}

\* The buffer is never full when its lock is free, so that the next write
\* takes at least one byte and the kernel's write loop makes progress.
BufferHasRoom == Len(wbuf.data) < Capacity

\* tests/streaming.rs:295 "Ensures the client doesn't cross-wire data between
\* handles": on the server, in the cached pages, in both buffers and in the
\* answers to reads a byte is at the offset it was written to, in a file that
\* bears or bore the path it was written under.
InPlace(p, i, b) == b = Zero \/ (p \in Files /\ b.off = i /\ b.path \in names[p])
NoCrossWiring ==
    /\ \A p \in Files :
         /\ disk[p] # Absent => \A i \in DOMAIN disk[p] : InPlace(p, i - 1, disk[p][i])
         /\ cache[p] # NoEntry =>
              \A i \in Offsets : Valid(cache[p].pages, i) => InPlace(p, i, ByteAt(cache[p].pages, i))
    /\ \A buf \in {wbuf, rbuf} : \A i \in DOMAIN buf.data :
         InPlace(buf.path, buf.offset + i - 1, buf.data[i])
    /\ \A i \in DOMAIN lastRead.data :
         InPlace(lastRead.path, lastRead.off + i - 1, lastRead.data[i])

\* tests/resilience.rs:166 "Last write wins": an upload never puts an older
\* byte of a file over a newer one.
LastWriteWins ==
    [][(\E t \in Tasks : ServerWrite(t)) =>
         \A p \in Files : disk[p] # Absent =>
            \A i \in DOMAIN disk[p] :
               LET old == disk[p][i]
                   new == At(disk'[p], i)
               IN  (old # Zero /\ new # old) => new # Zero /\ (new.path = old.path => new.id > old.id)]_vars

\* Between requests, a valid cached byte is the server's, or a zero in a gap,
\* unless the pages have survived a truncation, a rename onto their file from
\* an uncached one, a change whose answer was lost or an upload that met a full
\* page table, or were read from a read buffer older than the file.
Coherent(p) ==
    \A i \in Offsets : Valid(cache[p].pages, i) =>
        \/ ByteAt(cache[p].pages, i) = Zero
        \/ disk[p] # Absent /\ At(disk[p], i + 1) = ByteAt(cache[p].pages, i)
CacheCoherent ==
    (\A t \in Tasks : task[t] = Idle) =>
        \A p \in Files \ untold : cache[p] # NoEntry => Coherent(p)

\* Of requests that come one at a time, renames included: the cache is coherent,
\* and every byte is in place.
SerialCoherence == CacheCoherent /\ NoCrossWiring

\* tests/consistency.rs:199 "if I write a file, I can read it back
\* immediately, even if the upload is async (write-back cache)": the answer to
\* a read is no older than the writes that returned before the read began.
ReadYourWrites ==
    /\ lastRead.floor # <<>> /\ lastRead.floor[1] > 0 => lastRead.data # <<>>
    /\ \A i \in DOMAIN lastRead.data :
         lastRead.floor[i] > 0 =>
            lastRead.data[i] # Zero /\ lastRead.data[i].id >= lastRead.floor[i]

\* tests/persistence.rs:201 "deleted files stay deleted (no Zombie Files)":
\* no byte accepted for a file before it was removed comes back.
NoZombies == \A p \in Files : disk[p] # Absent => Content(disk[p]) \cap erased = {}

\* client/src/fuse/unix.rs:585 "synchronize file contents": when fsync has
\* succeeded, the server has every byte of the writes to the file that
\* returned before it began, but for those whose upload was reported to fail.
FsyncDurable == synced \subseteq applied \cup failed

============================================================================
