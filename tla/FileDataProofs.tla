---------------------------- MODULE FileDataProofs ----------------------------
(***************************************************************************)
(* Proofs about the data of files for every set of requests and files,     *)
(* every capacity of the buffers, with losses and repeated requests or     *)
(* without: no byte taken into the write buffer is lost silently, or sent  *)
(* again but while its answer is awaited, the buffer always has room when  *)
(* its lock is free, and every byte the system holds is in its place in    *)
(* its own file.  Of requests that come one at a time: fsync is durable,   *)
(* the last write wins, and the cache is coherent.                         *)
(***************************************************************************)
EXTENDS FileData, SequenceTheorems, FiniteSetTheorems, TLAPS

----------------------------------------------------------------------------
(* Types *)

Byte == [path : Files, off : Nat, id : Nat]
Bytes == Byte \cup {Zero}
Buffered == [path : Files \cup {NoPath}, offset : Nat, data : Seq(Bytes)]

Uploading == {"upload", "uploaded"}
Afters == {Idle} \cup [at : {"invalidate"}, path : Files, due : SUBSET Byte]
UploadTasks == [at : Uploading, queue : Seq(Buffered), call : Nat, after : Afters]
Apart(q) == \A i, j \in DOMAIN q : i # j => Content(q[i].data) \cap Content(q[j].data) = {}

\* What is known of a task: its uploads if it has some, and otherwise the
\* fields that the next step keeps.
Reader(x) == x = [at |-> x.at, path |-> x.path, off |-> x.off, size |-> x.size, floor |-> x.floor]
TaskOK(x) ==
    /\ x.at \in Uploading => x \in UploadTasks /\ x.queue # <<>> /\ Apart(x.queue)
    /\ x.at \in {"lookup", "attributes", "buffer"} => Reader(x)
    /\ x.at = "put_attributes" => Reader(x.read) /\ x.read.at = "lookup"
    /\ x.at = "fill" => x = [at |-> x.at, read |-> x.read, data |-> x.data]

----------------------------------------------------------------------------
(* Contents of sequences *)

LEMMA ContentIn ==
    ASSUME NEW s \in Seq(Bytes) PROVE Content(s) \subseteq Byte
BY DEF Content, Bytes

LEMMA ContentEmpty == Content(<<>>) = {} /\ BytesOf(<<>>) = {}
BY DEF Content, BytesOf

LEMMA QueueOfOne ==
    ASSUME NEW b \in Buffered
    PROVE  /\ <<b>> \in Seq(Buffered) /\ <<b>> # <<>> /\ Apart(<<b>>)
           /\ BytesOf(<<b>>) = Content(b.data)
<1>1. <<b>> \in Seq(Buffered) /\ <<b>> # <<>> /\ DOMAIN <<b>> = {1} /\ <<b>>[1] = b
  OBVIOUS
<1> QED BY <1>1 DEF Apart, BytesOf

LEMMA QueueOfTwo ==
    ASSUME NEW a \in Buffered, NEW b \in Buffered, Content(a.data) \cap Content(b.data) = {}
    PROVE  LET q == Append(<<a>>, b)
           IN  /\ q \in Seq(Buffered) /\ q # <<>> /\ Apart(q)
               /\ BytesOf(q) = Content(a.data) \cup Content(b.data)
<1> DEFINE q == Append(<<a>>, b)
<1>1. q \in Seq(Buffered) /\ q # <<>> /\ DOMAIN q = {1, 2} /\ q[1] = a /\ q[2] = b
  OBVIOUS
<1> HIDE DEF q
<1>2. Apart(q)
  BY <1>1 DEF Apart
<1>3. BytesOf(q) = Content(a.data) \cup Content(b.data)
  BY <1>1 DEF BytesOf
<1> QED BY <1>1, <1>2, <1>3 DEF q

\* The first upload and the rest of a queue.
LEMMA QueueOf ==
    ASSUME NEW q \in Seq(Buffered), q # <<>>
    PROVE  /\ Head(q) \in Buffered /\ Tail(q) \in Seq(Buffered)
           /\ BytesOf(q) = Content(Head(q).data) \cup BytesOf(Tail(q))
           /\ Apart(q) => Apart(Tail(q)) /\ Content(Head(q).data) \cap BytesOf(Tail(q)) = {}
<1> DEFINE n == Len(q)
           tail == Tail(q)
<1>1. /\ Head(q) \in Buffered /\ tail \in Seq(Buffered) /\ Head(q) = q[1]
      /\ n \in Nat \ {0} /\ DOMAIN q = 1 .. n /\ DOMAIN tail = 1 .. n - 1
      /\ \A i \in 1 .. n - 1 : tail[i] = q[i + 1]
  <2>1. Head(q) \in Buffered /\ tail \in Seq(Buffered) /\ Len(tail) = n - 1
        /\ \A i \in 1 .. Len(tail) : tail[i] = q[i + 1]
    BY HeadTailProperties
  <2>2. n \in Nat \ {0} /\ DOMAIN q = 1 .. n /\ DOMAIN tail = 1 .. Len(tail)
    BY <2>1, LenProperties, EmptySeq
  <2> QED BY <2>1, <2>2
<1> HIDE DEF n, tail
<1>2. BytesOf(q) = Content(q[1].data) \cup BytesOf(tail)
  <2>1. \A i \in 1 .. n : i = 1 \/ (i - 1 \in 1 .. n - 1 /\ q[i] = tail[i - 1])
    BY <1>1
  <2>2. \A i \in 1 .. n - 1 : i + 1 \in 1 .. n /\ tail[i] = q[i + 1]
    BY <1>1
  <2>3. ASSUME NEW b \in BytesOf(q) PROVE b \in Content(q[1].data) \cup BytesOf(tail)
    <3>1. PICK i \in 1 .. n : b \in Content(q[i].data)
      BY <1>1, <2>3 DEF BytesOf
    <3>2. CASE i - 1 \in 1 .. n - 1 /\ q[i] = tail[i - 1]
      BY <1>1, <3>1, <3>2 DEF BytesOf
    <3> QED BY <2>1, <3>1, <3>2
  <2>4. ASSUME NEW b \in BytesOf(tail) PROVE b \in BytesOf(q)
    <3>1. PICK i \in 1 .. n - 1 : b \in Content(tail[i].data)
      BY <1>1, <2>4 DEF BytesOf
    <3>2. i + 1 \in DOMAIN q /\ b \in Content(q[i + 1].data)
      BY <1>1, <2>2, <3>1
    <3> QED BY <3>2 DEF BytesOf
  <2>5. Content(q[1].data) \subseteq BytesOf(q)
    BY <1>1 DEF BytesOf
  <2> QED BY <2>3, <2>4, <2>5
<1>3. ASSUME Apart(q) PROVE Apart(tail)
  <2>1. ASSUME NEW i \in 1 .. n - 1, NEW j \in 1 .. n - 1, i # j
        PROVE  Content(tail[i].data) \cap Content(tail[j].data) = {}
    <3>1. i + 1 \in DOMAIN q /\ j + 1 \in DOMAIN q /\ i + 1 # j + 1
      BY <1>1, <2>1
    <3> QED BY <1>1, <1>3, <3>1 DEF Apart
  <2> QED BY <1>1, <2>1 DEF Apart
<1>4. ASSUME Apart(q) PROVE Content(q[1].data) \cap BytesOf(tail) = {}
  <2>1. ASSUME NEW i \in 1 .. n - 1 PROVE Content(q[1].data) \cap Content(tail[i].data) = {}
    <3>1. i + 1 \in DOMAIN q /\ 1 \in DOMAIN q /\ i + 1 # 1
      BY <1>1
    <3> QED BY <1>1, <1>4, <3>1 DEF Apart
  <2> QED BY <1>1, <2>1 DEF BytesOf
<1> QED BY <1>1, <1>2, <1>3, <1>4 DEF tail

\* The content of a part, and of two sequences together.
LEMMA ContentOfPart ==
    ASSUME NEW data \in Seq(Bytes), NEW n \in Nat, n <= Len(data)
    PROVE  LET part == SubSeq(data, 1, n)
           IN  /\ part \in Seq(Bytes) /\ Len(part) = n
               /\ Content(part) \subseteq Content(data)
<1> DEFINE part == SubSeq(data, 1, n)
<1>1. \A i \in 1 .. n : data[i] \in Bytes /\ i \in 1 .. Len(data)
  BY ElementOfSeq, LenProperties
<1>2. part \in Seq(Bytes) /\ Len(part) = n /\ \A i \in 1 .. n : part[i] = data[i]
  BY <1>1, SubSeqProperties
<1> HIDE DEF part
<1>3. Content(part) \subseteq Content(data)
  BY <1>1, <1>2, LenProperties DEF Content
<1> QED BY <1>2, <1>3 DEF part

LEMMA ContentOfBoth ==
    ASSUME NEW s \in Seq(Bytes), NEW u \in Seq(Bytes)
    PROVE  /\ s \o u \in Seq(Bytes) /\ Len(s \o u) = Len(s) + Len(u)
           /\ Content(s \o u) = Content(s) \cup Content(u)
<1> DEFINE whole == s \o u
           n == Len(s)
           m == Len(u)
<1>1. /\ n \in Nat /\ m \in Nat /\ DOMAIN s = 1 .. n /\ DOMAIN u = 1 .. m
      /\ whole \in Seq(Bytes) /\ Len(whole) = n + m /\ DOMAIN whole = 1 .. n + m
      /\ \A i \in 1 .. n + m : whole[i] = IF i <= n THEN s[i] ELSE u[i - n]
  BY ConcatProperties, LenProperties
<1> HIDE DEF whole, n, m
<1>2. ASSUME NEW i \in 1 .. n + m PROVE (i \in 1 .. n /\ whole[i] = s[i]) \/ (i - n \in 1 .. m /\ whole[i] = u[i - n])
  BY <1>1
<1>3. ASSUME NEW i \in 1 .. n PROVE i \in 1 .. n + m /\ whole[i] = s[i]
  BY <1>1
<1>4. ASSUME NEW i \in 1 .. m PROVE n + i \in 1 .. n + m /\ whole[n + i] = u[i]
  <2>1. n + i \in 1 .. n + m /\ ~(n + i <= n) /\ n + i - n = i
    BY <1>1
  <2> QED BY <1>1, <2>1
<1>5. Content(whole) = Content(s) \cup Content(u)
  <2>1. Content(whole) \subseteq Content(s) \cup Content(u)
    BY <1>1, <1>2 DEF Content
  <2>2. Content(s) \subseteq Content(whole)
    BY <1>1, <1>3 DEF Content
  <2>3. Content(u) \subseteq Content(whole)
    BY <1>1, <1>4 DEF Content
  <2> QED BY <2>1, <2>2, <2>3
<1> QED BY <1>1, <1>5 DEF whole, n, m

\* What a write puts into the buffer: what was there and a part of its data.
LEMMA BufferWriteFacts ==
    ASSUME NEW buf \in Buffered, Len(buf.data) < Capacity,
           NEW p \in Files, NEW off \in Nat, NEW data \in Seq(Bytes),
           IsAppending(buf, p, off) \/ buf = CleanBuffer
    PROVE  LET b == BufferWrite(buf, p, off, data)
           IN  /\ b \in Buffered /\ Len(b.data) <= Capacity
               /\ Content(b.data) = Content(buf.data) \cup (Content(data) \cap Content(b.data))
               /\ b.data = <<>> <=> buf.data = <<>> /\ data = <<>>
<1> DEFINE room == IF IsAppending(buf, p, off) THEN Capacity - Len(buf.data) ELSE Capacity
           part == SubSeq(data, 1, Lesser(Len(data), room))
<1>1. Len(buf.data) \in Nat /\ Len(data) \in Nat /\ room \in Nat \ {0} /\ buf.data \in Seq(Bytes)
  BY CapacityAssumption DEF Buffered
<1>2. Lesser(Len(data), room) \in Nat /\ Lesser(Len(data), room) <= Len(data) /\ Lesser(Len(data), room) <= room
  <2> HIDE DEF room
  <2> QED BY <1>1 DEF Lesser
<1>3. part \in Seq(Bytes) /\ Len(part) = Lesser(Len(data), room) /\ Content(part) \subseteq Content(data)
  <2> HIDE DEF room
  <2> QED BY <1>2, ContentOfPart
<1> HIDE DEF part, room
<1>4. part = <<>> <=> data = <<>>
  <2>1. Len(part) = 0 <=> Len(data) = 0
    BY <1>1, <1>3 DEF Lesser
  <2> QED BY <1>3, <2>1, EmptySeq
<1>5. CASE IsAppending(buf, p, off)
  <2> DEFINE b == [buf EXCEPT !.data = @ \o part]
             whole == buf.data \o part
  <2>1. BufferWrite(buf, p, off, data) = b
    BY <1>5 DEF BufferWrite, part, room
  <2>2. whole \in Seq(Bytes) /\ Len(whole) = Len(buf.data) + Len(part)
    BY <1>1, <1>3, ContentOfBoth
  <2>3. Content(whole) = Content(buf.data) \cup Content(part)
    BY <1>1, <1>3, ContentOfBoth
  <2> HIDE DEF whole
  <2>4. b \in Buffered /\ b.data = whole
    BY <2>2 DEF Buffered, whole
  <2>5. Len(whole) <= Capacity
    BY <1>1, <1>2, <1>3, <1>5, <2>2, CapacityAssumption DEF room
  <2>6. whole = <<>> <=> buf.data = <<>> /\ part = <<>>
    <3>1. Len(whole) = 0 <=> Len(buf.data) = 0 /\ Len(part) = 0
      BY <1>1, <1>3, <2>2
    <3> QED BY <1>1, <1>3, <2>2, <3>1, EmptySeq
  <2> HIDE DEF b
  <2> QED BY <1>3, <1>4, <2>1, <2>3, <2>4, <2>5, <2>6
<1>6. CASE ~IsAppending(buf, p, off)
  <2> DEFINE b == [path |-> p, offset |-> off, data |-> part]
  <2>1. BufferWrite(buf, p, off, data) = b
    BY <1>6 DEF BufferWrite, part, room
  <2>2. b \in Buffered /\ b.data = part
    BY <1>3 DEF Buffered
  <2>3. buf.data = <<>> /\ Content(buf.data) = {}
    BY <1>6, ContentEmpty DEF CleanBuffer
  <2>4. Len(part) <= Capacity
    BY <1>2, <1>3, <1>6 DEF room
  <2> HIDE DEF b
  <2> QED BY <1>3, <1>4, <2>1, <2>2, <2>3, <2>4
<1> QED BY <1>5, <1>6

----------------------------------------------------------------------------
(* The inductive invariant *)

\* What a request still has to send: not the upload whose answer it awaits,
\* although it may send that again.
Unsent(t) == IF task[t].at = "uploaded" THEN Tail(Uploads(t)) ELSE Uploads(t)
Sent(t) == BytesOf(Uploads(t))
Left(t) == BytesOf(Unsent(t))

\* The writes that were taken have been numbered up to some number.
Numbered ==
    /\ scope \in Scopes
    /\ \E n \in 0 .. scope.writes :
         (\A b \in accepted : b.id <= n) /\ (n = 0 \/ \E b \in accepted : b.id = n)

Typed ==
    /\ task = [t \in Tasks |-> task[t]]
    /\ \A t \in Tasks : TaskOK(task[t])
    /\ wbuf \in Buffered
    /\ accepted \subseteq Byte

\* A byte is in the buffer, or one task has it, or it has been dealt with.
Divided ==
    /\ accepted = Content(wbuf.data) \cup (UNION {Left(t) : t \in Tasks}) \cup applied \cup failed
    /\ Content(wbuf.data) \cap applied = {}
    /\ \A t \in Tasks :
         /\ Left(t) \cap applied = {}
         /\ Left(t) \subseteq Sent(t) /\ Sent(t) \subseteq Left(t) \cup applied
         /\ Content(wbuf.data) \cap Sent(t) = {}
    /\ \A s, t \in Tasks : s # t => Sent(s) \cap Sent(t) = {}

DataInv == Numbered /\ Typed /\ BufferHasRoom /\ Divided

----------------------------------------------------------------------------
(* Tasks *)

LEMMA UploadOK ==
    ASSUME NEW q \in Seq(Buffered), Apart(q), NEW call \in Nat, NEW after \in Afters
    PROVE  LET x == Upload(q, call, after)
           IN  /\ TaskOK(x)
               /\ q # <<>> => x.at = "upload" /\ x.queue = q
               /\ q = <<>> => x.at \notin Uploading
<1>1. CASE q # <<>>
  <2> DEFINE x == [at |-> "upload", queue |-> q, call |-> call, after |-> after]
  <2>1. x \in UploadTasks /\ x.at = "upload" /\ x.queue = q
    BY DEF UploadTasks, Uploading
  <2> HIDE DEF x
  <2>2. TaskOK(x)
    BY <1>1, <2>1 DEF TaskOK
  <2> QED BY <1>1, <2>1, <2>2 DEF Upload, x
<1>2. CASE q = <<>>
  <2>1. TaskOK(after) /\ after.at \in {"idle", "invalidate"}
    BY DEF Afters, Idle, TaskOK, Uploading
  <2> QED BY <1>2, <2>1 DEF Upload, Uploading
<1> QED BY <1>1, <1>2

\* What a task sends, by where it is.
LEMMA Sending ==
    ASSUME Typed, NEW t \in Tasks
    PROVE  /\ task[t].at = "upload" =>
                Sent(t) = BytesOf(task[t].queue) /\ Left(t) = BytesOf(task[t].queue)
           /\ task[t].at = "uploaded" =>
                Sent(t) = BytesOf(task[t].queue) /\ Left(t) = BytesOf(Tail(task[t].queue))
           /\ task[t].at \notin Uploading => Sent(t) = {} /\ Left(t) = {}
BY ContentEmpty DEF Sent, Left, Uploads, Unsent, Uploading

\* A step of t that leaves the others alone.
LEMMA OtherTasks ==
    ASSUME Typed, NEW t \in Tasks, NEW x, Goto(t, x), TaskOK(x)
    PROVE  /\ task' = [s \in Tasks |-> task'[s]] /\ task'[t] = x
           /\ \A s \in Tasks : TaskOK(task'[s])
           /\ \A s \in Tasks \ {t} : task'[s] = task[s] /\ Sent(s)' = Sent(s) /\ Left(s)' = Left(s)
<1>1. task' = [s \in Tasks |-> IF s = t THEN x ELSE task[s]]
  BY DEF Typed, Goto
<1>2. task' = [s \in Tasks |-> task'[s]] /\ task'[t] = x /\ \A s \in Tasks \ {t} : task'[s] = task[s]
  BY <1>1
<1>3. \A s \in Tasks : TaskOK(task'[s])
  BY <1>2 DEF Typed
<1>4. \A s \in Tasks \ {t} : Sent(s)' = Sent(s) /\ Left(s)' = Left(s)
  BY <1>2 DEF Sent, Left, Uploads, Unsent
<1> QED BY <1>2, <1>3, <1>4

\* The same fact for the next state of t.
LEMMA SendingNext ==
    ASSUME Typed', NEW t \in Tasks
    PROVE  /\ task'[t].at = "upload" =>
                Sent(t)' = BytesOf(task'[t].queue) /\ Left(t)' = BytesOf(task'[t].queue)
           /\ task'[t].at = "uploaded" =>
                Sent(t)' = BytesOf(task'[t].queue) /\ Left(t)' = BytesOf(Tail(task'[t].queue))
           /\ task'[t].at \notin Uploading => Sent(t)' = {} /\ Left(t)' = {}
BY ContentEmpty DEF Sent, Left, Uploads, Unsent, Uploading

----------------------------------------------------------------------------
(* Steps *)

\* The bytes of the buffer, with new ones, are divided between it and the
\* uploads of a task that had none.
LEMMA HandOver ==
    ASSUME Typed, Divided, NEW t \in Tasks, task[t].at \notin Uploading,
           NEW q \in Seq(Buffered), NEW x, Goto(t, x), TaskOK(x),
           q # <<>> => x.at = "upload" /\ x.queue = q, q = <<>> => x.at \notin Uploading,
           wbuf' \in Buffered, NEW new \in SUBSET Byte, new \cap accepted = {},
           Content(wbuf'.data) \cup BytesOf(q) = Content(wbuf.data) \cup new,
           Content(wbuf'.data) \cap BytesOf(q) = {},
           accepted' = accepted \cup new, UNCHANGED <<applied, failed>>
    PROVE  Typed' /\ Divided'
<1>1. Typed'
  BY OtherTasks DEF Typed
<1>2. Sent(t) = {} /\ Left(t) = {}
  BY Sending
<1>3. Sent(t)' = BytesOf(q) /\ Left(t)' = BytesOf(q) /\ task'[t] = x
  BY <1>1, SendingNext, OtherTasks, ContentEmpty DEF Uploading
<1>4. \A s \in Tasks \ {t} : Sent(s)' = Sent(s) /\ Left(s)' = Left(s)
  BY OtherTasks
<1>5. /\ Content(wbuf.data) \subseteq accepted /\ applied \subseteq accepted
      /\ \A s \in Tasks : Sent(s) \subseteq accepted
  BY DEF Divided
<1>6. accepted' = Content(wbuf'.data) \cup (UNION {Left(s)' : s \in Tasks}) \cup applied' \cup failed'
  <2>1. (UNION {Left(s)' : s \in Tasks}) = BytesOf(q) \cup (UNION {Left(s) : s \in Tasks})
    <3>1. ASSUME NEW b \in (UNION {Left(s)' : s \in Tasks}) PROVE b \in BytesOf(q) \cup (UNION {Left(s) : s \in Tasks})
      BY <1>3, <1>4, <3>1
    <3>2. ASSUME NEW b \in (UNION {Left(s) : s \in Tasks}) PROVE b \in (UNION {Left(s)' : s \in Tasks})
      BY <1>2, <1>4, <3>2
    <3>3. BytesOf(q) \subseteq (UNION {Left(s)' : s \in Tasks})
      BY <1>3
    <3> QED BY <3>1, <3>2, <3>3
  <2> QED BY <2>1 DEF Divided
<1>7. /\ Content(wbuf'.data) \cap applied' = {} /\ BytesOf(q) \cap applied' = {}
      /\ \A s \in Tasks : Content(wbuf'.data) \cap Sent(s) = {} /\ BytesOf(q) \cap Sent(s) = {}
  BY <1>5 DEF Divided
<1>8. \A s \in Tasks :
        /\ Left(s)' \cap applied' = {}
        /\ Left(s)' \subseteq Sent(s)' /\ Sent(s)' \subseteq Left(s)' \cup applied'
        /\ Content(wbuf'.data) \cap Sent(s)' = {}
  BY <1>3, <1>4, <1>7 DEF Divided
<1>9. \A s, u \in Tasks : s # u => Sent(s)' \cap Sent(u)' = {}
  BY <1>3, <1>4, <1>7 DEF Divided
<1> QED BY <1>1, <1>6, <1>7, <1>8, <1>9 DEF Divided

\* A step that moves no byte.
LEMMA NoByteMoves ==
    ASSUME DataInv, NEW t \in Tasks, task[t].at \notin Uploading, NEW x, Goto(t, x), TaskOK(x),
           x.at \notin Uploading, UNCHANGED <<wbuf, accepted, applied, failed, scope>>
    PROVE  DataInv'
<1>1. <<>> \in Seq(Buffered) /\ BytesOf(<<>>) = {}
  BY ContentEmpty
<1>2. Typed' /\ Divided'
  <2>1. wbuf' \in Buffered /\ {} \in SUBSET Byte
    BY DEF DataInv, Typed
  <2> QED BY <1>1, <2>1, HandOver DEF DataInv
<1>3. Numbered' /\ BufferHasRoom'
  BY DEF DataInv, Numbered, BufferHasRoom
<1> QED BY <1>2, <1>3 DEF DataInv

\* What the next write is numbered: no byte has its number.
LEMMA NextNumber ==
    ASSUME Numbered
    PROVE  /\ Writes \in 0 .. scope.writes /\ scope.writes \in Nat
           /\ \A b \in accepted : b.id <= Writes
BY ScopeAssumption DEF Numbered, Writes

LEMMA WriteFileData ==
    ASSUME DataInv, NEW t \in Tasks, NEW p \in scope.files, NEW off \in Offsets, NEW len \in 1 .. scope.len,
           WriteFile(t, p, off, len)
    PROVE  DataInv'
<1> DEFINE data == [i \in 1 .. len |-> [path |-> p, off |-> off + i - 1, id |-> Writes + 1]]
           appending == IsAppending(wbuf, p, off)
           pushed == IF appending \/ wbuf.data = <<>> THEN <<>> ELSE <<wbuf>>
           old == IF appending THEN wbuf ELSE CleanBuffer
           buffered == BufferWrite(old, p, off, data)
           full == IsFull(buffered)
           q == IF full THEN Append(pushed, buffered) ELSE pushed
           new == Content(data) \cap Content(buffered.data)
<1>1. /\ task[t] = Idle
      /\ wbuf' = (IF full THEN CleanBuffer ELSE buffered)
      /\ accepted' = accepted \cup new
      /\ Goto(t, Upload(q, Writes + 1, Idle))
      /\ UNCHANGED <<applied, failed, scope>>
  BY DEF WriteFile, Ready, track
<1>2. /\ p \in Files /\ off \in Nat /\ len \in Nat \ {0}
      /\ Writes \in Nat /\ \A b \in accepted : b.id <= Writes
  BY NextNumber, ScopeAssumption DEF DataInv, Numbered, Offsets
<1>3. data \in Seq(Bytes) /\ Content(data) \subseteq Byte /\ \A b \in Content(data) : b.id = Writes + 1
  <2>1. \A i \in 1 .. len : data[i] \in Byte /\ data[i].id = Writes + 1
    BY <1>2 DEF Byte
  <2>2. data \in [1 .. len -> Bytes]
    BY <2>1 DEF Bytes
  <2>3. data \in Seq(Bytes) /\ DOMAIN data = 1 .. len
    BY <1>2, <2>2
  <2> HIDE DEF data
  <2> QED BY <2>1, <2>3 DEF Content
<1>4. CleanBuffer \in Buffered /\ CleanBuffer.data = <<>> /\ Content(CleanBuffer.data) = {}
  BY ContentEmpty DEF CleanBuffer, Buffered
<1>5. /\ old \in Buffered /\ Len(old.data) < Capacity
      /\ IsAppending(old, p, off) \/ old = CleanBuffer
      /\ wbuf \in Buffered
  BY <1>4, CapacityAssumption DEF DataInv, Typed, BufferHasRoom, CleanBuffer
<1> HIDE DEF data, old
<1>6. /\ buffered \in Buffered /\ Len(buffered.data) <= Capacity
      /\ Content(buffered.data) = Content(old.data) \cup new
  BY <1>2, <1>3, <1>5, BufferWriteFacts
<1>7. new \in SUBSET Byte /\ new \cap accepted = {}
  BY <1>2, <1>3
<1>8. BytesOf(pushed) \cup Content(old.data) = Content(wbuf.data)
      /\ BytesOf(pushed) \cap Content(old.data) = {}
      /\ pushed \in Seq(Buffered) /\ Apart(pushed) /\ (pushed = <<>> \/ pushed = <<wbuf>>)
  <2>1. <<>> \in Seq(Buffered) /\ Apart(<<>>)
    BY DEF Apart
  <2>2. CASE appending
    BY <1>5, <2>1, <2>2, ContentEmpty DEF old
  <2>3. CASE ~appending /\ wbuf.data = <<>>
    BY <1>4, <2>1, <2>3, ContentEmpty DEF old
  <2>4. CASE ~appending /\ wbuf.data # <<>>
    BY <1>4, <1>5, <2>4, QueueOfOne DEF old
  <2> QED BY <2>2, <2>3, <2>4
<1> HIDE DEF pushed, new, buffered
<1>9. BytesOf(pushed) \cap new = {} /\ Content(wbuf.data) \subseteq accepted
  BY <1>7, <1>8 DEF DataInv, Divided
<1>10. /\ q \in Seq(Buffered) /\ Apart(q)
       /\ Content(wbuf'.data) \cup BytesOf(q) = Content(wbuf.data) \cup new
       /\ Content(wbuf'.data) \cap BytesOf(q) = {}
       /\ wbuf' \in Buffered /\ Len(wbuf'.data) < Capacity
  <2>1. CASE full /\ pushed = <<>>
    <3>1. q = <<buffered>>
      BY <2>1
    <3>2. BytesOf(<<>>) = {}
      BY ContentEmpty
    <3>3. Len(CleanBuffer.data) < Capacity
      BY CapacityAssumption DEF CleanBuffer
    <3> HIDE DEF q
    <3> QED BY <1>1, <1>4, <1>6, <1>8, <2>1, <3>1, <3>2, <3>3, QueueOfOne
  <2>2. CASE full /\ pushed = <<wbuf>>
    <3>1. q = Append(<<wbuf>>, buffered)
      BY <2>2
    <3>2. BytesOf(<<wbuf>>) = Content(wbuf.data)
      BY <1>5, QueueOfOne
    <3>3. Content(wbuf.data) \cap Content(buffered.data) = {}
      BY <1>6, <1>8, <1>9, <2>2, <3>2
    <3>4. Len(CleanBuffer.data) < Capacity
      BY CapacityAssumption DEF CleanBuffer
    <3>5. q \in Seq(Buffered) /\ Apart(q) /\ BytesOf(q) = Content(wbuf.data) \cup Content(buffered.data)
      BY <1>5, <1>6, <3>1, <3>3, QueueOfTwo
    <3> HIDE DEF q
    <3> QED BY <1>1, <1>4, <1>6, <1>8, <2>2, <3>2, <3>4, <3>5
  <2>3. CASE ~full
    <3>1. Len(buffered.data) < Capacity
      <4>1. Len(buffered.data) \in Nat
        BY <1>6 DEF Buffered
      <4> QED BY <1>6, <2>3, <4>1, CapacityAssumption DEF IsFull
    <3> QED BY <1>1, <1>6, <1>8, <1>9, <2>3, <3>1
  <2> QED BY <1>8, <2>1, <2>2, <2>3
<1> HIDE DEF q, full
<1>11. Typed' /\ Divided'
  <2> DEFINE x == Upload(q, Writes + 1, Idle)
  <2>1. /\ TaskOK(x)
        /\ q # <<>> => x.at = "upload" /\ x.queue = q
        /\ q = <<>> => x.at \notin Uploading
    <3>1. Writes + 1 \in Nat /\ Idle \in Afters
      BY <1>2 DEF Afters
    <3> QED BY <1>10, <3>1, UploadOK
  <2>2. task[t].at \notin Uploading
    BY <1>1 DEF Idle, Uploading
  <2>3. Goto(t, x)
    BY <1>1
  <2> HIDE DEF x
  <2> QED BY <1>1, <1>7, <1>10, <2>1, <2>2, <2>3, HandOver DEF DataInv
<1>12. Numbered'
  <2>1. CASE new = {}
    BY <1>1, <2>1 DEF DataInv, Numbered
  <2>2. CASE new # {}
    <3>1. Writes + 1 \in 0 .. scope.writes
      BY <1>2, NextNumber DEF WriteFile, DataInv
    <3>2. \A b \in new : b.id = Writes + 1
      BY <1>3 DEF new
    <3>3. \A b \in accepted' : b.id <= Writes + 1
      <4>1. \A b \in accepted : b.id \in Nat
        BY DEF DataInv, Typed, Byte
      <4> QED BY <1>1, <1>2, <3>2, <4>1
    <3>4. \E b \in accepted' : b.id = Writes + 1
      BY <1>1, <2>2, <3>2
    <3> QED BY <1>1, <3>1, <3>3, <3>4 DEF DataInv, Numbered
  <2> QED BY <2>1, <2>2
<1> QED BY <1>10, <1>11, <1>12 DEF DataInv, BufferHasRoom

\* A flush takes what the buffer has.
LEMMA TakeBufferData ==
    ASSUME DataInv, NEW t \in Tasks, task[t] = Idle, NEW after \in Afters, TakeBuffer(t, after)
    PROVE  DataInv'
<1> DEFINE q == IF wbuf.data = <<>> THEN <<>> ELSE <<wbuf>>
           x == Upload(q, 0, after)
<1>1. /\ Goto(t, x) /\ wbuf' = (IF wbuf.data = <<>> THEN wbuf ELSE CleanBuffer)
      /\ UNCHANGED <<accepted, applied, failed, scope>>
  BY DEF TakeBuffer, history, track
<1>2. wbuf \in Buffered /\ CleanBuffer \in Buffered /\ Content(CleanBuffer.data) = {}
      /\ Len(CleanBuffer.data) < Capacity
  BY ContentEmpty, CapacityAssumption DEF CleanBuffer, Buffered, DataInv, Typed
<1>3. /\ q \in Seq(Buffered) /\ Apart(q)
      /\ Content(wbuf'.data) \cup BytesOf(q) = Content(wbuf.data) /\ Content(wbuf'.data) \cap BytesOf(q) = {}
      /\ wbuf' \in Buffered /\ Len(wbuf'.data) < Capacity
  <2>1. CASE wbuf.data = <<>>
    <3>1. <<>> \in Seq(Buffered) /\ Apart(<<>>)
      BY DEF Apart
    <3> QED BY <1>1, <1>2, <2>1, <3>1, ContentEmpty DEF DataInv, BufferHasRoom
  <2>2. CASE wbuf.data # <<>>
    BY <1>1, <1>2, <2>2, QueueOfOne
  <2> QED BY <2>1, <2>2
<1> HIDE DEF q
<1>4. TaskOK(x) /\ (q # <<>> => x.at = "upload" /\ x.queue = q) /\ (q = <<>> => x.at \notin Uploading)
  BY <1>3, UploadOK
<1> HIDE DEF x
<1>5. task[t].at \notin Uploading /\ {} \in SUBSET Byte
  BY DEF Idle, Uploading
<1>6. Typed' /\ Divided'
  <2>1. accepted' = accepted \cup {} /\ {} \cap accepted = {} /\ Content(wbuf.data) \cup {} = Content(wbuf.data)
    BY <1>1
  <2> QED BY <1>1, <1>3, <1>4, <1>5, <2>1, HandOver DEF DataInv
<1>7. Numbered' /\ BufferHasRoom'
  BY <1>1, <1>3 DEF DataInv, Numbered, BufferHasRoom
<1> QED BY <1>6, <1>7 DEF DataInv

LEMMA FlushData ==
    ASSUME DataInv, NEW t \in Tasks, Flush(t) PROVE DataInv'
<1>1. Idle \in Afters
  BY DEF Afters
<1> QED BY <1>1, TakeBufferData DEF Flush, Ready

LEMMA FsyncData ==
    ASSUME DataInv, NEW t \in Tasks, NEW p \in scope.files, Fsync(t, p) PROVE DataInv'
<1> DEFINE after == [at |-> "invalidate", path |-> p, due |-> {b \in Acknowledged : b.path = p}]
<1>1. p \in Files
  BY ScopeAssumption DEF DataInv, Numbered
<1>2. after \in Afters
  BY <1>1 DEF Afters, Acknowledged, DataInv, Typed
<1>3. TakeBuffer(t, after) /\ task[t] = Idle
  BY DEF Fsync, Ready
<1> HIDE DEF after
<1> QED BY <1>2, <1>3, TakeBufferData

\* A task with uploads sends some of them, keeps some and reports the others.
LEMMA UploadsMove ==
    ASSUME DataInv, NEW t \in Tasks, NEW x, Goto(t, x), TaskOK(x),
           UNCHANGED <<wbuf, accepted, scope>>,
           Sent(t)' \subseteq Sent(t), Left(t)' \subseteq Sent(t)', Sent(t)' \subseteq Left(t)' \cup applied',
           applied \subseteq applied', applied' \subseteq applied \cup Sent(t), Left(t)' \cap applied' = {},
           failed \subseteq failed', failed' \subseteq failed \cup Sent(t),
           Left(t) \subseteq Left(t)' \cup applied' \cup failed'
    PROVE  DataInv'
<1>1. Typed'
  BY OtherTasks DEF DataInv, Typed
<1>2. \A s \in Tasks \ {t} : Sent(s)' = Sent(s) /\ Left(s)' = Left(s)
  BY OtherTasks DEF DataInv
<1>3. \A s \in Tasks : Sent(s)' \subseteq Sent(s)
  BY <1>2
<1>4. \A s \in Tasks : Sent(s) \subseteq accepted
  BY DEF DataInv, Divided
<1>5. accepted' = Content(wbuf'.data) \cup (UNION {Left(s)' : s \in Tasks}) \cup applied' \cup failed'
  <2>1. ASSUME NEW b \in accepted
        PROVE  b \in Content(wbuf'.data) \cup (UNION {Left(s)' : s \in Tasks}) \cup applied' \cup failed'
    <3>1. CASE b \in (UNION {Left(s) : s \in Tasks})
      <4>1. PICK s \in Tasks : b \in Left(s)
        BY <3>1
      <4>2. b \in Left(s)' \/ b \in applied' \/ b \in failed'
        BY <1>2, <4>1
      <4> QED BY <4>2
    <3>2. CASE b \notin (UNION {Left(s) : s \in Tasks})
      BY <3>2 DEF DataInv, Divided
    <3> QED BY <3>1, <3>2
  <2>2. \A s \in Tasks : Left(s)' \subseteq accepted
    BY <1>2, <1>3, <1>4 DEF DataInv, Divided
  <2>3. applied' \subseteq accepted /\ failed' \subseteq accepted /\ Content(wbuf'.data) \subseteq accepted
    BY <1>4 DEF DataInv, Divided
  <2>4. (UNION {Left(s)' : s \in Tasks}) \subseteq accepted
    BY <2>2
  <2> QED BY <2>1, <2>3, <2>4
<1>6. Content(wbuf'.data) \cap applied' = {}
  BY DEF DataInv, Divided
<1>7. \A s \in Tasks :
        /\ Left(s)' \cap applied' = {}
        /\ Left(s)' \subseteq Sent(s)' /\ Sent(s)' \subseteq Left(s)' \cup applied'
        /\ Content(wbuf'.data) \cap Sent(s)' = {}
  <2> TAKE s \in Tasks
  <2>1. CASE s = t
    BY <1>3, <2>1 DEF DataInv, Divided
  <2>2. CASE s # t
    <3>1. Left(s)' = Left(s) /\ Sent(s)' = Sent(s)
      BY <1>2, <2>2
    <3>2. Sent(s) \cap Sent(t) = {} /\ Left(s) \cap applied = {} /\ Left(s) \subseteq Sent(s)
          /\ Sent(s) \subseteq Left(s) \cup applied /\ Content(wbuf.data) \cap Sent(s) = {}
      BY <2>2 DEF DataInv, Divided
    <3> QED BY <3>1, <3>2
  <2> QED BY <2>1, <2>2
<1>8. \A s, u \in Tasks : s # u => Sent(s)' \cap Sent(u)' = {}
  <2> TAKE s, u \in Tasks
  <2>1. s # u => Sent(s) \cap Sent(u) = {}
    BY DEF DataInv, Divided
  <2> QED BY <1>3, <2>1
<1>9. Divided'
  BY <1>5, <1>6, <1>7, <1>8 DEF Divided
<1>10. Numbered' /\ BufferHasRoom'
  BY DEF DataInv, Numbered, BufferHasRoom
<1> QED BY <1>1, <1>9, <1>10 DEF DataInv

\* What is known of a task with uploads.
LEMMA UploadTask ==
    ASSUME DataInv, NEW t \in Tasks, task[t].at \in Uploading
    PROVE  /\ task[t] \in UploadTasks /\ task[t].queue \in Seq(Buffered) /\ task[t].queue # <<>>
           /\ Apart(task[t].queue) /\ task[t].call \in Nat /\ task[t].after \in Afters
           /\ Sent(t) = BytesOf(task[t].queue)
           /\ BytesOf(task[t].queue) = Content(Head(task[t].queue).data) \cup BytesOf(Tail(task[t].queue))
           /\ Content(Head(task[t].queue).data) \cap BytesOf(Tail(task[t].queue)) = {}
           /\ Tail(task[t].queue) \in Seq(Buffered) /\ Apart(Tail(task[t].queue))
<1>1. task[t] \in UploadTasks /\ task[t].queue # <<>> /\ Apart(task[t].queue)
  BY DEF DataInv, Typed, TaskOK
<1>2. task[t].queue \in Seq(Buffered) /\ task[t].call \in Nat /\ task[t].after \in Afters
  BY <1>1 DEF UploadTasks
<1>3. Sent(t) = BytesOf(task[t].queue)
  BY Sending DEF DataInv, Uploading
<1> QED BY <1>1, <1>2, <1>3, QueueOf

\* What is both pending and applied are the first uploads of the requests that
\* await an answer.
LEMMA Accounted == DataInv => BytesAccounted
<1> SUFFICES ASSUME DataInv PROVE BytesAccounted
  OBVIOUS
<1>1. \A t \in Tasks : task[t].at = "uploaded" =>
        Sent(t) = Content(Head(Uploads(t)).data) \cup Left(t) /\ Content(Head(Uploads(t)).data) \cap Left(t) = {}
  <2> TAKE t \in Tasks
  <2> HAVE task[t].at = "uploaded"
  <2>1. Uploads(t) = task[t].queue /\ task[t].at \in Uploading
    BY DEF Uploads, Uploading
  <2>2. Left(t) = BytesOf(Tail(task[t].queue))
    BY Sending DEF DataInv
  <2> QED BY <2>1, <2>2, UploadTask
<1>2. \A t \in Tasks : Sent(t) \cap applied = IF task[t].at = "uploaded" THEN Content(Head(Uploads(t)).data) ELSE {}
  <2> TAKE t \in Tasks
  <2>1. CASE task[t].at = "uploaded"
    BY <1>1, <2>1 DEF DataInv, Divided
  <2>2. CASE task[t].at # "uploaded"
    <3>1. Sent(t) = Left(t)
      BY <2>2 DEF Sent, Left, Unsent
    <3> QED BY <2>2, <3>1 DEF DataInv, Divided
  <2> QED BY <2>1, <2>2
<1>3. Pending = Content(wbuf.data) \cup UNION {Sent(t) : t \in Tasks}
  BY DEF Pending, Sent
<1>4. Pending \cap applied = Awaited
  <2> DEFINE A(t) == IF task[t].at = "uploaded" THEN Content(Head(Uploads(t)).data) ELSE {}
  <2>1. Awaited = UNION {A(t) : t \in Tasks}
    BY DEF Awaited
  <2>2. \A t \in Tasks : Sent(t) \cap applied = A(t)
    BY <1>2
  <2> HIDE DEF A
  <2>3. ASSUME NEW b \in Pending \cap applied PROVE b \in Awaited
    <3>1. PICK t \in Tasks : b \in Sent(t)
      BY <1>3, <2>3 DEF DataInv, Divided
    <3> QED BY <2>1, <2>2, <2>3, <3>1
  <2>4. ASSUME NEW b \in Awaited PROVE b \in Pending \cap applied
    <3>1. PICK t \in Tasks : b \in A(t)
      BY <2>1, <2>4
    <3> QED BY <1>3, <2>2, <3>1
  <2> QED BY <2>3, <2>4
<1>5. accepted = Pending \cup applied \cup failed
  <2>1. ASSUME NEW b \in accepted PROVE b \in Pending \cup applied \cup failed
    <3>1. CASE \E t \in Tasks : b \in Left(t)
      BY <1>3, <3>1 DEF DataInv, Divided
    <3>2. CASE ~\E t \in Tasks : b \in Left(t)
      <4>1. b \notin UNION {Left(t) : t \in Tasks}
        BY <3>2
      <4> QED BY <1>3, <4>1 DEF DataInv, Divided
    <3> QED BY <3>1, <3>2
  <2>2. ASSUME NEW b \in Pending PROVE b \in accepted
    <3>1. CASE b \in Content(wbuf.data)
      BY <3>1 DEF DataInv, Divided
    <3>2. CASE \E t \in Tasks : b \in Sent(t)
      <4>1. PICK t \in Tasks : b \in Sent(t)
        BY <3>2
      <4>2. b \in Left(t) \/ b \in applied
        BY <4>1 DEF DataInv, Divided
      <4> QED BY <4>2 DEF DataInv, Divided
    <3> QED BY <1>3, <2>2, <3>1, <3>2
  <2>3. applied \subseteq accepted /\ failed \subseteq accepted
    BY DEF DataInv, Divided
  <2> QED BY <2>1, <2>2, <2>3
<1>6. \A t \in Tasks : Content(wbuf.data) \cap BytesOf(Uploads(t)) = {}
  BY DEF DataInv, Divided, Sent
<1> QED BY <1>4, <1>5, <1>6 DEF BytesAccounted

\* An upload that is sent again finds its bytes applied already.
LEMMA ServerWriteData ==
    ASSUME DataInv, NEW t \in Tasks, ServerWrite(t) PROVE DataInv'
<1> DEFINE q == task[t].queue
           x == [task[t] EXCEPT !.at = "uploaded"]
<1>1. /\ task[t].at \in Uploading /\ Goto(t, x)
      /\ applied' = applied \cup Content(Head(q).data)
      /\ UNCHANGED <<wbuf, accepted, failed, scope>>
  BY DEF ServerWrite, Again, client, Uploading
<1>2. task[t].at = "upload" \/ task[t].at = "uploaded"
  BY <1>1 DEF Uploading
<1>3. x \in UploadTasks /\ x.at = "uploaded" /\ x.queue = q
  BY <1>1, UploadTask DEF UploadTasks, Uploading
<1> HIDE DEF x
<1>4. TaskOK(x)
  BY <1>1, <1>3, UploadTask DEF TaskOK
<1>5. Typed' /\ task'[t] = x
  BY <1>1, <1>4, OtherTasks DEF DataInv, Typed
<1>6. Sent(t)' = BytesOf(q) /\ Left(t)' = BytesOf(Tail(q))
  BY <1>3, <1>5, SendingNext
<1>7. /\ Sent(t) = BytesOf(q) /\ BytesOf(q) = Content(Head(q).data) \cup BytesOf(Tail(q))
      /\ Content(Head(q).data) \cap BytesOf(Tail(q)) = {}
  BY <1>1, UploadTask
<1>8. Left(t) \cap applied = {} /\ Left(t) \subseteq Sent(t)
  BY DEF DataInv, Divided
<1>9. BytesOf(Tail(q)) \cap applied = {}
  <2>1. Left(t) = BytesOf(q) \/ Left(t) = BytesOf(Tail(q))
    BY <1>2, Sending DEF DataInv
  <2> HIDE DEF q
  <2> QED BY <1>7, <1>8, <2>1
<1> HIDE DEF q
<1> QED BY <1>1, <1>4, <1>6, <1>7, <1>8, <1>9, UploadsMove

LEMMA UploadedData ==
    ASSUME DataInv, NEW t \in Tasks, Uploaded(t) PROVE DataInv'
<1> DEFINE q == task[t].queue
           x == Upload(Tail(q), task[t].call, task[t].after)
<1>1. /\ task[t].at = "uploaded" /\ Goto(t, x)
      /\ UNCHANGED <<wbuf, accepted, applied, failed, scope>>
  BY DEF Uploaded, history
<1>2. task[t].at \in Uploading
  BY <1>1 DEF Uploading
<1>3. /\ TaskOK(x)
      /\ Tail(q) # <<>> => x.at = "upload" /\ x.queue = Tail(q)
      /\ Tail(q) = <<>> => x.at \notin Uploading
  BY <1>2, UploadTask, UploadOK
<1> HIDE DEF x
<1>4. Typed' /\ task'[t] = x
  BY <1>1, <1>3, OtherTasks DEF DataInv, Typed
<1>5. Sent(t)' = BytesOf(Tail(q)) /\ Left(t)' = BytesOf(Tail(q))
  BY <1>3, <1>4, SendingNext, ContentEmpty
<1>6. Left(t) = BytesOf(Tail(q)) /\ Left(t) \cap applied = {}
  BY <1>1, Sending DEF DataInv, Divided
<1>7. Sent(t) = BytesOf(q) /\ BytesOf(Tail(q)) \subseteq BytesOf(q)
  BY <1>2, UploadTask
<1> HIDE DEF q
<1> QED BY <1>1, <1>3, <1>5, <1>6, <1>7, UploadsMove

LEMMA UploadFailsData ==
    ASSUME DataInv, NEW t \in Tasks, UploadFails(t) PROVE DataInv'
<1>1. /\ task[t].at \in Uploading /\ Goto(t, Idle)
      /\ failed' = failed \cup BytesOf(task[t].queue)
      /\ UNCHANGED <<wbuf, accepted, applied, scope>>
  BY DEF UploadFails, Uploading, client
<1>2. TaskOK(Idle) /\ Idle.at \notin Uploading
  BY DEF TaskOK, Idle, Uploading
<1>3. Typed' /\ task'[t] = Idle
  BY <1>1, <1>2, OtherTasks DEF DataInv, Typed
<1>4. Sent(t)' = {} /\ Left(t)' = {}
  BY <1>2, <1>3, SendingNext
<1>5. Sent(t) = BytesOf(task[t].queue) /\ Left(t) \subseteq Sent(t)
  BY <1>1, UploadTask DEF DataInv, Divided
<1> QED BY <1>1, <1>2, <1>4, <1>5, UploadsMove


----------------------------------------------------------------------------
(* The steps that move no byte *)

Quiet == UNCHANGED <<wbuf, accepted, applied, failed, scope>>

\* The records a reader's task goes through.
LEMMA ReaderMoves ==
    ASSUME NEW r, Reader(r), NEW at
    PROVE  /\ Reader(Reading(at, r)) /\ Reading(at, r).at = at
           /\ at \in {"lookup", "attributes", "buffer"} => TaskOK(Reading(at, r))
<1> DEFINE x == Reading(at, r)
<1>1. x = [at |-> at, path |-> r.path, off |-> r.off, size |-> r.size, floor |-> r.floor]
  BY DEF Reader, Reading
<1> HIDE DEF x
<1>2. Reader(x) /\ x.at = at
  BY <1>1 DEF Reader
<1>3. at \in {"lookup", "attributes", "buffer"} => TaskOK(x)
  BY <1>2 DEF TaskOK, Uploading
<1> QED BY <1>2, <1>3 DEF x

LEMMA IdleOK == TaskOK(Idle) /\ Idle.at \notin Uploading
BY DEF TaskOK, Idle, Uploading

LEMMA ReadFileData ==
    ASSUME DataInv, NEW t \in Tasks, NEW p, NEW off, NEW size, ReadFile(t, p, off, size)
    PROVE  DataInv'
<1> DEFINE r == [at |-> "lookup", path |-> p, off |-> off, size |-> size,
                 floor |-> [i \in 1 .. size |-> Latest(Acknowledged, p, off + i - 1)]]
<1>1. Quiet /\ task[t] = Idle
      /\ (Goto(t, Reading("attributes", r)) \/ Goto(t, Idle) \/ Goto(t, r))
  BY DEF ReadFile, Ready, Quiet, Answer, client, history, track
<1>2. Reader(r) /\ r.at = "lookup"
  BY DEF Reader
<1> HIDE DEF r
<1>3. TaskOK(r) /\ r.at \notin Uploading
  BY <1>2 DEF TaskOK, Uploading
<1>4. TaskOK(Reading("attributes", r)) /\ Reading("attributes", r).at \notin Uploading
  BY <1>2, ReaderMoves DEF Uploading
<1> QED BY <1>1, <1>3, <1>4, IdleOK, NoByteMoves DEF Quiet

LEMMA FetchAttributesData ==
    ASSUME DataInv, NEW t \in Tasks, FetchAttributes(t) PROVE DataInv'
<1> DEFINE r == task[t]
           l == Reading("lookup", r)
           x == [at |-> "put_attributes", read |-> l, size |-> Len(disk[r.path])]
<1>1. Quiet /\ task[t].at = "attributes" /\ (Goto(t, l) \/ Goto(t, x))
  BY DEF FetchAttributes, Quiet, client, history, track
<1>2. Reader(r)
  BY <1>1 DEF DataInv, Typed, TaskOK
<1>3. Reader(l) /\ l.at = "lookup" /\ TaskOK(l)
  BY <1>2, ReaderMoves
<1> HIDE DEF l
<1>4. TaskOK(x) /\ x.at \notin Uploading
  BY <1>3 DEF TaskOK, Uploading
<1> QED BY <1>1, <1>3, <1>4, NoByteMoves DEF Quiet, Uploading

LEMMA PutAttributesData ==
    ASSUME DataInv, NEW t \in Tasks, PutAttributes(t) PROVE DataInv'
<1> DEFINE r == task[t].read
<1>1. Quiet /\ task[t].at = "put_attributes" /\ (Goto(t, Idle) \/ Goto(t, r))
  BY DEF PutAttributes, Quiet, Answer, history, track
<1>2. Reader(r) /\ r.at = "lookup"
  BY <1>1 DEF DataInv, Typed, TaskOK
<1> HIDE DEF r
<1>3. TaskOK(r) /\ r.at \notin Uploading
  BY <1>2 DEF TaskOK, Uploading
<1> QED BY <1>1, <1>3, IdleOK, NoByteMoves DEF Quiet, Uploading

LEMMA LookupPagesData ==
    ASSUME DataInv, NEW t \in Tasks, LookupPages(t) PROVE DataInv'
<1> DEFINE x == Reading("buffer", task[t])
<1>1. Quiet /\ task[t].at = "lookup" /\ (Goto(t, Idle) \/ Goto(t, x))
  BY DEF LookupPages, Quiet, Answer, client, history, track
<1>2. Reader(task[t])
  BY <1>1 DEF DataInv, Typed, TaskOK
<1>3. TaskOK(x) /\ x.at \notin Uploading
  BY <1>2, ReaderMoves DEF Uploading
<1> QED BY <1>1, <1>3, IdleOK, NoByteMoves DEF Quiet, Uploading

LEMMA BufferHitData ==
    ASSUME DataInv, NEW t \in Tasks, BufferHit(t) PROVE DataInv'
<1>1. Quiet /\ task[t].at = "buffer" /\ Goto(t, Idle)
  BY DEF BufferHit, Quiet, Answer, history, track
<1> QED BY <1>1, IdleOK, NoByteMoves DEF Quiet, Uploading

LEMMA FetchDataData ==
    ASSUME DataInv, NEW t \in Tasks, FetchData(t) PROVE DataInv'
<1> DEFINE r == task[t]
           x == [at |-> "fill", read |-> r,
                 data |-> SubSeq(disk[r.path], r.off + 1, Lesser(r.off + Capacity, Len(disk[r.path])))]
<1>1. Quiet /\ task[t].at = "buffer" /\ (Goto(t, Idle) \/ Goto(t, x))
  BY DEF FetchData, Quiet, client, history, track
<1>2. TaskOK(x) /\ x.at \notin Uploading
  BY DEF TaskOK, Uploading
<1> QED BY <1>1, <1>2, IdleOK, NoByteMoves DEF Quiet, Uploading

LEMMA FillBufferData ==
    ASSUME DataInv, NEW t \in Tasks, FillBuffer(t) PROVE DataInv'
<1> DEFINE x == [task[t] EXCEPT !.at = "store"]
<1>1. Quiet /\ task[t].at = "fill" /\ Goto(t, x)
  BY DEF FillBuffer, Quiet, history, track
<1>2. x = [at |-> "store", read |-> task[t].read, data |-> task[t].data]
  <2>1. task[t] = [at |-> task[t].at, read |-> task[t].read, data |-> task[t].data]
    BY <1>1 DEF DataInv, Typed, TaskOK
  <2> QED BY <2>1
<1> HIDE DEF x
<1>3. TaskOK(x) /\ x.at \notin Uploading
  BY <1>2 DEF TaskOK, Uploading
<1> QED BY <1>1, <1>3, NoByteMoves DEF Quiet, Uploading

LEMMA StorePagesData ==
    ASSUME DataInv, NEW t \in Tasks, StorePages(t) PROVE DataInv'
<1>1. Quiet /\ task[t].at = "store" /\ Goto(t, Idle)
  BY DEF StorePages, Quiet, Answer, history, track
<1> QED BY <1>1, IdleOK, NoByteMoves DEF Quiet, Uploading

\* Creating, resizing, removing and renaming, and the invalidation of fsync.
Others == {"idle", "invalidate", "created", "resized", "removed", "renamed", "moved"}

LEMMA OtherTask ==
    ASSUME DataInv, NEW t \in Tasks, task[t].at \in Others, NEW x, x.at \in Others, Goto(t, x), Quiet
    PROVE  DataInv'
<1>1. TaskOK(x)
  BY DEF TaskOK, Others, Uploading
<1> QED BY <1>1, NoByteMoves DEF Quiet, Others, Uploading

LEMMA NamespaceData ==
    ASSUME DataInv, NEW t \in Tasks,
           NEW p \in Files, NEW q \in Files, NEW size,
           CreateFile(t, p) \/ SetSize(t, p, size) \/ Remove(t, p) \/ Rename(t, p, q)
    PROVE  DataInv'
<1>1. task[t].at \in Others /\ Quiet
  BY DEF CreateFile, SetSize, Remove, Rename, Ready, Again, Idle, Others, Quiet, client, history
<1>2. CASE CreateFile(t, p)
  BY <1>1, <1>2, OtherTask DEF CreateFile, Others
<1>3. CASE SetSize(t, p, size)
  BY <1>1, <1>3, OtherTask DEF SetSize, Others
<1>4. CASE Remove(t, p)
  BY <1>1, <1>4, OtherTask DEF Remove, Others
<1>5. CASE Rename(t, p, q)
  BY <1>1, <1>5, OtherTask DEF Rename, Others
<1> QED BY <1>2, <1>3, <1>4, <1>5

LEMMA RespondData ==
    ASSUME DataInv, NEW t \in Tasks, Respond(t) \/ ResponseLost(t) \/ FsyncInvalidate(t)
    PROVE  DataInv'
<1>1. Quiet
  BY DEF Respond, ResponseLost, FsyncInvalidate, Quiet, client, history, track
<1>2. task[t].at \in Others
  BY DEF Respond, Created, Resized, Removed, Renamed, Moved, ResponseLost, FsyncInvalidate, Others
<1>3. Goto(t, Idle) \/ \E x : x.at = "moved" /\ Goto(t, x)
  <2>1. CASE Renamed(t)
    BY <2>1 DEF Renamed
  <2>2. CASE ~Renamed(t)
    BY <2>2 DEF Respond, Created, Resized, Removed, Moved, ResponseLost, FsyncInvalidate
  <2> QED BY <2>1, <2>2
<1> QED BY <1>1, <1>2, <1>3, OtherTask DEF Idle, Others

----------------------------------------------------------------------------
(* The invariant holds *)

LEMMA InitData == Init => DataInv
<1> SUFFICES ASSUME Init PROVE DataInv
  OBVIOUS
<1>1. /\ scope \in Scopes /\ wbuf = CleanBuffer /\ task = [t \in Tasks |-> Idle]
      /\ accepted = {} /\ applied = {} /\ failed = {}
  BY DEF Init
<1>2. CleanBuffer \in Buffered /\ Content(CleanBuffer.data) = {} /\ Len(CleanBuffer.data) < Capacity
  BY ContentEmpty, CapacityAssumption DEF CleanBuffer, Buffered
<1>3. Numbered
  <2>1. 0 \in 0 .. scope.writes
    BY <1>1, ScopeAssumption
  <2> QED BY <1>1, <2>1 DEF Numbered
<1>4. Typed
  BY <1>1, <1>2, IdleOK DEF Typed
<1>5. \A t \in Tasks : Sent(t) = {} /\ Left(t) = {}
  BY <1>1, <1>4, Sending DEF Idle, Uploading
<1>6. Divided
  BY <1>1, <1>2, <1>5 DEF Divided
<1> QED BY <1>1, <1>2, <1>3, <1>4, <1>6 DEF DataInv, BufferHasRoom

LEMMA StepData == ASSUME DataInv, NEW t \in Tasks, Step(t) PROVE DataInv'
BY ServerWriteData, UploadedData, UploadFailsData, FetchAttributesData, PutAttributesData,
   LookupPagesData, BufferHitData, FetchDataData, FillBufferData, StorePagesData, RespondData DEF Step

LEMMA StartData == ASSUME DataInv, NEW t \in Tasks, Start(t) PROVE DataInv'
<1>1. scope.files \subseteq Files
  BY ScopeAssumption DEF DataInv, Numbered
<1> QED BY <1>1, FlushData, FsyncData, WriteFileData, ReadFileData, NamespaceData DEF Start

LEMMA NextData == DataInv /\ [Next]_vars => DataInv'
<1> SUFFICES ASSUME DataInv, [Next]_vars PROVE DataInv'
  OBVIOUS
<1>1. CASE \E t \in Tasks : Start(t) \/ Step(t)
  BY <1>1, StartData, StepData
<1>2. CASE (\E p \in Files : Forget(p)) \/ UNCHANGED vars
  <2>1. UNCHANGED <<wbuf, accepted, applied, failed, scope, task>>
    BY <1>2 DEF Forget, vars, client, history, track
  <2>2. \A t \in Tasks : Sent(t)' = Sent(t) /\ Left(t)' = Left(t)
    BY <2>1 DEF Sent, Left, Uploads, Unsent
  <2> QED BY <2>1, <2>2 DEF DataInv, Numbered, Typed, BufferHasRoom, Divided
<1> QED BY <1>1, <1>2 DEF Next

LEMMA DataInvariant == Spec => []DataInv
BY InitData, NextData, PTL DEF Spec

\* Whatever the requests, the files, the capacity and the failures: a byte that
\* write_file took into the write buffer is in the buffer or in one upload, or
\* the server wrote it, or its upload was reported as an error; and of the bytes
\* that the server has, the client still holds those of the uploads whose answers
\* it awaits, which it sends again when they do not come, and no other.
THEOREM NothingIsLost == Spec => []BytesAccounted
BY DataInvariant, Accounted, PTL

\* When the lock of the write buffer is free the buffer is not full, for every
\* capacity: a write_file takes at least one byte, so the kernel's loop over
\* what is left of a write makes progress.
THEOREM RoomIsLeft == Spec => []BufferHasRoom
<1>1. DataInv => BufferHasRoom
  BY DEF DataInv
<1> QED BY <1>1, DataInvariant, PTL

----------------------------------------------------------------------------
(* What the bytes at every place of a file may be *)

\* f gives the set of bytes that may be at each offset of a file; every byte
\* of s, which begins at off, is one of them.
Within(f, off, s) ==
    /\ off \in Nat /\ s \in Seq(Bytes)
    /\ \A j \in 1 .. Len(s) : s[j] \in f[off + j - 1]

\* The same for all bytes of a page and of a page table, valid or not.
PageHeld(f, k, page) ==
    /\ page.upto \in 0 .. PageSize /\ page.from \in 0 .. PageSize
    /\ \A i \in 0 .. PageSize - 1 : page.content[i] \in f[k * PageSize + i]
TableHeld(f, table) ==
    /\ IsFiniteSet(DOMAIN table) /\ DOMAIN table \subseteq Nat
    /\ Cardinality(DOMAIN table) <= MaxPages
    /\ \A k \in DOMAIN table : PageHeld(f, k, table[k])

\* A sensible f: of bytes, and a hole may be anywhere.
Sensible(f) == \A i \in Nat : Zero \in f[i] /\ f[i] \subseteq Bytes

LEMMA WithinPart ==
    ASSUME NEW f, NEW off, NEW s, Within(f, off, s), NEW m \in Nat \ {0}, NEW n \in Int, n <= Len(s)
    PROVE  LET part == SubSeq(s, m, n)
           IN  /\ Within(f, off + m - 1, part)
               /\ Len(part) = IF m <= n THEN n - m + 1 ELSE 0
               /\ \A j \in 1 .. n - m + 1 : part[j] = s[m + j - 1]
<1> DEFINE part == SubSeq(s, m, n)
<1>1. off \in Nat /\ Len(s) \in Nat /\ \A j \in 1 .. Len(s) : s[j] \in Bytes /\ s[j] \in f[off + j - 1]
  BY LenProperties, ElementOfSeq DEF Within
<1>2. \A i \in m .. n : i \in 1 .. Len(s) /\ s[i] \in Bytes
  BY <1>1
<1>3. /\ part \in Seq(Bytes) /\ Len(part) = (IF m <= n THEN n - m + 1 ELSE 0)
      /\ \A j \in 1 .. n - m + 1 : part[j] = s[m + j - 1]
  BY <1>2, SubSeqProperties
<1> HIDE DEF part
<1>4. ASSUME NEW j \in 1 .. Len(part) PROVE part[j] \in f[off + m - 1 + j - 1]
  <2>1. j \in 1 .. n - m + 1 /\ m + j - 1 \in m .. n /\ off + (m + j - 1) - 1 = off + m - 1 + j - 1
    BY <1>1, <1>3
  <2> QED BY <1>1, <1>2, <1>3, <2>1
<1>5. off + m - 1 \in Nat
  BY <1>1
<1> QED BY <1>3, <1>4, <1>5 DEF Within, part

LEMMA WithinEmpty == ASSUME NEW f, NEW off \in Nat PROVE Within(f, off, <<>>)
BY DEF Within

\* Page::write keeps the bytes of a page where they may be.
LEMMA PageWriteHeld ==
    ASSUME NEW f, Sensible(f), NEW k \in Nat, NEW page, PageHeld(f, k, page),
           NEW o \in Nat, NEW c, Within(f, k * PageSize + o, c)
    PROVE  PageHeld(f, k, PageWrite(page, c, o))
<1> DEFINE base == k * PageSize
           end == Lesser(o + Len(c), PageSize)
           w == PageWrite(page, c, o)
<1>1. base \in Nat /\ PageSize \in Nat /\ Len(c) \in Nat /\ end \in 0 .. PageSize /\ end <= o + Len(c)
  <2>1. base \in Nat /\ PageSize \in Nat
    BY PageSizeAssumption
  <2>2. Len(c) \in Nat
    BY LenProperties DEF Within
  <2> QED BY <2>1, <2>2 DEF Lesser
<1>2. \A j \in 1 .. Len(c) : c[j] \in f[base + o + j - 1]
  BY DEF Within
<1>3. /\ page.upto \in 0 .. PageSize /\ page.from \in 0 .. PageSize
      /\ \A i \in 0 .. PageSize - 1 : page.content[i] \in f[base + i]
  BY DEF PageHeld
<1>4. CASE o > end
  <2>1. w = page
    BY <1>4 DEF PageWrite
  <2> QED BY <2>1
<1>5. CASE ~(o > end)
  <2>1. /\ w.upto = Greater(page.upto, end) /\ w.from = Lesser(page.from, o)
        /\ \A i \in 0 .. PageSize - 1 :
             w.content[i] = IF o <= i /\ i < end THEN c[i - o + 1] ELSE page.content[i]
    <3> HIDE DEF base
    <3> QED BY <1>5 DEF PageWrite
  <2> HIDE DEF w, base, end
  <2>2. w.upto \in 0 .. PageSize /\ w.from \in 0 .. PageSize
    BY <1>1, <1>3, <2>1 DEF Greater, Lesser
  <2>3. ASSUME NEW i \in 0 .. PageSize - 1 PROVE w.content[i] \in f[base + i]
    <3>1. CASE o <= i /\ i < end
      <4>1. i - o + 1 \in 1 .. Len(c) /\ base + o + (i - o + 1) - 1 = base + i
        BY <1>1, <3>1
      <4> QED BY <1>2, <2>1, <3>1, <4>1
    <3>2. CASE ~(o <= i /\ i < end)
      BY <1>3, <2>1, <3>2
    <3> QED BY <3>1, <3>2
  <2> QED BY <2>2, <2>3 DEF PageHeld, w, base
<1> QED BY <1>4, <1>5

LEMMA NewPageHeld ==
    ASSUME NEW f, Sensible(f), NEW k \in Nat PROVE PageHeld(f, k, NewPage)
<1> DEFINE base == k * PageSize
<1>1. base \in Nat /\ PageSize \in Nat
  BY PageSizeAssumption
<1> HIDE DEF base
<1>2. \A i \in 0 .. PageSize - 1 : base + i \in Nat
  BY <1>1
<1>3. NewPage.upto \in 0 .. PageSize /\ NewPage.from \in 0 .. PageSize
  BY <1>1 DEF NewPage
<1>4. \A i \in 0 .. PageSize - 1 : NewPage.content[i] \in f[base + i]
  BY <1>2 DEF NewPage, Sensible
<1> QED BY <1>3, <1>4 DEF PageHeld, base

LEMMA PageOfHeld ==
    ASSUME NEW f, Sensible(f), NEW table, TableHeld(f, table), NEW k \in Nat
    PROVE  PageHeld(f, k, PageOf(table, k))
BY NewPageHeld DEF PageOf, TableHeld

LEMMA NoPagesHeld == ASSUME NEW f PROVE TableHeld(f, NoPages) /\ DOMAIN NoPages = {}
<1>1. DOMAIN NoPages = {}
  BY DEF NoPages
<1> QED BY <1>1, FS_EmptySet, MaxPagesAssumption DEF TableHeld

\* The part of data that falls into a page, and the valid part of a page.
LEMMA ChunkHeld ==
    ASSUME NEW f, NEW off, NEW data, Within(f, off, data), NEW k \in Nat
    PROVE  /\ PageOffset(off, k) \in Nat
           /\ Within(f, k * PageSize + PageOffset(off, k), Chunk(off, data, k))
<1> DEFINE base == k * PageSize
           next == (k + 1) * PageSize
           o == PageOffset(off, k)
           m == base + o - off + 1
           n == Lesser(Len(data), next - off)
<1>1. base \in Nat /\ next \in Nat /\ off \in Nat /\ Len(data) \in Nat
  BY PageSizeAssumption, LenProperties DEF Within
<1>2. o = Greater(off - base, 0)
  BY DEF PageOffset
<1>3. Chunk(off, data, k) = SubSeq(data, m, n)
  BY DEF Chunk
<1> HIDE DEF base, next, o
<1>4. o \in Nat /\ m \in Nat \ {0} /\ n \in Int /\ n <= Len(data) /\ off + m - 1 = base + o
  BY <1>1, <1>2 DEF Greater, Lesser
<1> HIDE DEF m, n
<1>5. Within(f, off + m - 1, SubSeq(data, m, n))
  BY <1>4, WithinPart
<1> QED BY <1>3, <1>4, <1>5 DEF base, o

LEMMA PageDataHeld ==
    ASSUME NEW f, Sensible(f), NEW k \in Nat, NEW page, PageHeld(f, k, page)
    PROVE  page.from \in Nat /\ Within(f, k * PageSize + page.from, PageData(page))
<1> DEFINE base == k * PageSize
           n == Greater(page.upto - page.from, 0)
           data == PageData(page)
<1>1. /\ base \in Nat /\ PageSize \in Nat /\ page.upto \in 0 .. PageSize /\ page.from \in 0 .. PageSize
      /\ \A i \in 0 .. PageSize - 1 : page.content[i] \in f[base + i]
  BY PageSizeAssumption DEF PageHeld
<1> HIDE DEF base
<1>2. n \in Nat /\ 1 .. page.upto - page.from = 1 .. n
      /\ \A i \in 1 .. n : page.from + i - 1 \in 0 .. PageSize - 1
                           /\ base + (page.from + i - 1) = base + page.from + i - 1
                           /\ base + (page.from + i - 1) \in Nat
  <2>1. CASE page.from <= page.upto
    <3>1. n = page.upto - page.from
      BY <1>1, <2>1 DEF Greater
    <3> QED BY <1>1, <2>1, <3>1
  <2>2. CASE ~(page.from <= page.upto)
    <3>1. n = 0 /\ page.upto - page.from < 1
      BY <1>1, <2>2 DEF Greater
    <3> QED BY <1>1, <3>1
  <2> QED BY <2>1, <2>2
<1>3. data = [i \in 1 .. n |-> page.content[page.from + i - 1]]
  BY <1>2 DEF PageData
<1> HIDE DEF n, data
<1>4. \A i \in 1 .. n : data[i] \in f[base + page.from + i - 1] /\ data[i] \in Bytes
  <2> TAKE i \in 1 .. n
  <2>1. data[i] = page.content[page.from + i - 1]
    BY <1>3
  <2>2. page.content[page.from + i - 1] \in f[base + (page.from + i - 1)]
    BY <1>1, <1>2
  <2>3. f[base + (page.from + i - 1)] \subseteq Bytes
    BY <1>2 DEF Sensible
  <2> QED BY <1>2, <2>1, <2>2, <2>3
<1>5. data \in [1 .. n -> Bytes]
  BY <1>3, <1>4
<1>6. data \in Seq(Bytes) /\ Len(data) = n
  BY <1>2, <1>5, LenProperties
<1>7. page.from \in Nat /\ base + page.from \in Nat
  BY <1>1
<1> QED BY <1>4, <1>6, <1>7 DEF Within, base, data

----------------------------------------------------------------------------
(* Writing to and reading from a page table *)

LEMMA WriteContentHeld ==
    ASSUME NEW f, Sensible(f), NEW off, NEW data, Within(f, off, data)
    PROVE  TableHeld(f, WriteContent(NoPages, off, data))
<1> DEFINE visited == Visited(NoPages, off, data)
           table == WriteContent(NoPages, off, data)
           head == off \div PageSize
           last == (off + Len(data) - 1) \div PageSize
<1>1. off \in Nat /\ Len(data) \in Nat /\ off + Len(data) - 1 \in Int
  <2>1. off \in Nat /\ Len(data) \in Nat
    BY LenProperties DEF Within
  <2> QED BY <2>1
<1>2. head \in Nat /\ last \in Int
  BY <1>1, PageSizeAssumption
<1>3. DOMAIN NoPages = {}
  BY NoPagesHeld
<1>4. visited \subseteq {k \in head .. last : Cardinality(head .. k - 1) < MaxPages}
  <2>1. \A k : DOMAIN NoPages \cup (head .. k - 1) = head .. k - 1
    BY <1>3
  <2> HIDE DEF head, last
  <2> QED BY <2>1 DEF Visited, head, last
<1> HIDE DEF head, last
<1>5. visited \in SUBSET (head .. head + MaxPages - 1) /\ visited \subseteq Nat
  <2> SUFFICES ASSUME NEW k \in visited PROVE k \in head .. head + MaxPages - 1 /\ k \in Nat
    OBVIOUS
  <2>1. k \in Int /\ head <= k /\ Cardinality(head .. k - 1) < MaxPages
    <3> HIDE DEF visited
    <3> QED BY <1>2, <1>4
  <2>2. Cardinality(head .. k - 1) = IF head > k - 1 THEN 0 ELSE k - 1 - head + 1
    <3>1. head \in Int /\ k - 1 \in Int
      BY <1>2, <2>1
    <3> QED BY <3>1, FS_Interval
  <2> QED BY <1>2, <2>1, <2>2, MaxPagesAssumption
<1>6. IsFiniteSet(visited) /\ Cardinality(visited) <= MaxPages
  <2> DEFINE room == head .. head + MaxPages - 1
  <2>1. IsFiniteSet(room) /\ Cardinality(room) = MaxPages
    <3>1. head \in Int /\ head + MaxPages - 1 \in Int
      BY <1>2, MaxPagesAssumption
    <3>2. \A b \in Int : /\ IsFiniteSet(head .. b)
                         /\ Cardinality(head .. b) = IF head > b THEN 0 ELSE b - head + 1
      BY <3>1, FS_Interval
    <3>3. IsFiniteSet(room) /\ Cardinality(room) = IF head > head + MaxPages - 1 THEN 0 ELSE MaxPages
      BY <1>2, <3>1, <3>2, MaxPagesAssumption
    <3> QED BY <1>2, <3>3, MaxPagesAssumption
  <2> HIDE DEF visited, room
  <2>2. visited \in SUBSET room
    BY <1>5 DEF room
  <2> QED BY <2>1, <2>2, FS_Subset
<1>7. DOMAIN table = visited
      /\ \A k \in visited : table[k] = PageWrite(PageOf(NoPages, k), Chunk(off, data, k), PageOffset(off, k))
  BY <1>3 DEF WriteContent
<1> HIDE DEF visited, table
<1>8. \A k \in visited : PageHeld(f, k, table[k])
  <2> TAKE k \in visited
  <2>1. k \in Nat
    BY <1>5
  <2>2. PageHeld(f, k, PageOf(NoPages, k))
    BY <2>1, NoPagesHeld, PageOfHeld
  <2>3. PageOffset(off, k) \in Nat /\ Within(f, k * PageSize + PageOffset(off, k), Chunk(off, data, k))
    BY <2>1, ChunkHeld
  <2> QED BY <1>7, <2>1, <2>2, <2>3, PageWriteHeld
<1> QED BY <1>5, <1>6, <1>7, <1>8 DEF TableHeld, table

LEMMA CacheWriteHeld ==
    ASSUME NEW f, Sensible(f), NEW off, NEW data, Within(f, off, data),
           NEW old, TableHeld(f, old), NEW new \in CacheWrite(old, off, data)
    PROVE  TableHeld(f, new)
<1> DEFINE other == WriteContent(NoPages, off, data)
           mine == DOMAIN old
<1>1. TableHeld(f, other)
  BY WriteContentHeld
<1> HIDE DEF other
<1>2. PICK P \in MergedSets(mine, DOMAIN other) :
        new = [k \in mine \cup P |->
                 IF k \in P THEN PageWrite(PageOf(old, k), PageData(other[k]), other[k].from) ELSE old[k]]
  BY DEF CacheWrite, MergePages, other
<1>3. P \subseteq DOMAIN other /\ DOMAIN new = mine \cup P
  BY <1>2 DEF MergedSets
<1>4. IsFiniteSet(mine) /\ IsFiniteSet(P) /\ P \subseteq Nat /\ mine \subseteq Nat
  <2>1. P \in SUBSET DOMAIN other /\ IsFiniteSet(DOMAIN other)
    BY <1>1, <1>3 DEF TableHeld
  <2> QED BY <1>1, <2>1, FS_Subset DEF TableHeld
<1>5. IsFiniteSet(mine \cup P) /\ Cardinality(mine \cup P) \in Nat
  BY <1>4, FS_Union, FS_CardinalityType
<1>6. Cardinality(mine \cup P) <= MaxPages
  <2>1. Cardinality(mine) <= MaxPages /\ (P = {} => mine \cup P = mine)
    BY DEF TableHeld
  <2> QED BY <1>2, <1>5, <2>1, MaxPagesAssumption DEF MergedSets
<1>7. \A k \in mine \cup P : PageHeld(f, k, new[k])
  <2> TAKE k \in mine \cup P
  <2>1. CASE k \in P
    <3>1. k \in Nat /\ PageHeld(f, k, other[k]) /\ PageHeld(f, k, PageOf(old, k))
      BY <1>1, <1>3, <1>4, <2>1, PageOfHeld DEF TableHeld
    <3>2. other[k].from \in Nat /\ Within(f, k * PageSize + other[k].from, PageData(other[k]))
      BY <3>1, PageDataHeld
    <3>3. new[k] = PageWrite(PageOf(old, k), PageData(other[k]), other[k].from)
      BY <1>2, <2>1
    <3> QED BY <3>1, <3>2, <3>3, PageWriteHeld
  <2>2. CASE k \notin P
    BY <1>2, <2>2 DEF TableHeld
  <2> QED BY <2>1, <2>2
<1> QED BY <1>3, <1>4, <1>5, <1>6, <1>7 DEF TableHeld

\* A byte that is valid is one of those of its place.
LEMMA ByteHeld ==
    ASSUME NEW f, NEW table, TableHeld(f, table), NEW pos \in Nat, Valid(table, pos)
    PROVE  ByteAt(table, pos) \in f[pos]
<1> DEFINE k == pos \div PageSize
           i == pos % PageSize
<1>1. k \in Nat /\ i \in 0 .. PageSize - 1 /\ pos = k * PageSize + i
  BY PageSizeAssumption
<1>2. k \in DOMAIN table /\ ByteAt(table, pos) = table[k].content[i]
  BY DEF Valid, ByteAt
<1> HIDE DEF k, i
<1>3. table[k].content[i] \in f[k * PageSize + i]
  BY <1>1, <1>2 DEF TableHeld, PageHeld
<1> QED BY <1>1, <1>2, <1>3

\* The intervals below the members of S are ordered as the members are, and
\* finite sets have a minimal one among them.
LEMMA Minimum ==
    ASSUME NEW S \in SUBSET Nat, S # {} PROVE \E n \in S : \A m \in S : n <= m
<1> DEFINE below(n) == 0 .. n - 1
           sets == {below(n) : n \in S}
           R == StrictSubsetOrdering(Nat)
<1>1. \A n \in S : IsFiniteSet(below(n)) /\ below(n) \in SUBSET Nat
  <2> TAKE n \in S
  <2>1. n \in Int /\ 0 \in Int /\ n - 1 \in Int
    OBVIOUS
  <2> QED BY <2>1, FS_Interval
<1>2. sets \subseteq FiniteSubsetsOf(Nat) /\ sets # {}
  BY <1>1 DEF FiniteSubsetsOf
<1>3. PICK low \in sets : \A other \in sets : <<other, low>> \notin R
  <2> HIDE DEF sets, R
  <2>1. IsWellFoundedOn(R, FiniteSubsetsOf(Nat))
    BY FS_StrictSubsetOrderingWellFounded DEF R
  <2> QED BY <1>2, <2>1, WFMin
<1>4. PICK n \in S : low = below(n)
  OBVIOUS
<1>5. ASSUME NEW m \in S, m < n PROVE FALSE
  <2>1. below(m) \subseteq below(n) /\ m \in below(n) /\ m \notin below(m)
    BY <1>5
  <2>2. <<below(m), below(n)>> \in R
    <3> HIDE DEF below
    <3> QED BY <1>1, <2>1 DEF StrictSubsetOrdering
  <2>3. below(m) \in sets
    OBVIOUS
  <2> HIDE DEF sets, R, below
  <2> QED BY <1>3, <1>4, <2>2, <2>3
<1> QED BY <1>5

\* A read returns the valid bytes from its start up to the first invalid one.
LEMMA ReadPagesIs ==
    ASSUME NEW table, NEW off \in Nat, NEW size \in Nat
    PROVE  \E n \in 0 .. size :
             /\ ReadPages(table, off, size) = [i \in 1 .. n |-> ByteAt(table, off + i - 1)]
             /\ \A i \in 0 .. n - 1 : Valid(table, off + i)
             /\ n = size \/ ~Valid(table, off + n)
<1> DEFINE Run(n) == /\ \A i \in 0 .. n - 1 : Valid(table, off + i)
                     /\ n = size \/ ~Valid(table, off + n)
           stops == {m \in 0 .. size : m = size \/ ~Valid(table, off + m)}
<1>1. stops \in SUBSET Nat /\ size \in stops
  OBVIOUS
<1>2. PICK n \in stops : \A m \in stops : n <= m
  <2> HIDE DEF stops
  <2> QED BY <1>1, Minimum
<1>3. n \in 0 .. size /\ Run(n)
  <2>1. ASSUME NEW i \in 0 .. n - 1 PROVE Valid(table, off + i)
    <3>1. i \in 0 .. size /\ i # size /\ ~(n <= i)
      OBVIOUS
    <3> QED BY <1>2, <3>1
  <2> QED BY <2>1
<1> HIDE DEF Run, stops
<1> DEFINE m == CHOOSE x \in 0 .. size : Run(x)
<1>4. m \in 0 .. size /\ Run(m)
  BY <1>3
<1>5. ReadPages(table, off, size) = [i \in 1 .. m |-> ByteAt(table, off + i - 1)]
  BY DEF ReadPages, Run
<1> HIDE DEF m
<1> QED BY <1>4, <1>5 DEF Run

LEMMA ReadHeld ==
    ASSUME NEW f, Sensible(f), NEW table, TableHeld(f, table), NEW off \in Nat, NEW size \in Nat
    PROVE  Within(f, off, ReadPages(table, off, size))
<1> DEFINE data == ReadPages(table, off, size)
<1>1. PICK n \in 0 .. size :
        data = [i \in 1 .. n |-> ByteAt(table, off + i - 1)] /\ \A i \in 0 .. n - 1 : Valid(table, off + i)
  BY ReadPagesIs
<1> HIDE DEF data
<1>2. \A i \in 1 .. n : data[i] \in f[off + i - 1] /\ data[i] \in Bytes
  <2> TAKE i \in 1 .. n
  <2> DEFINE pos == off + i - 1
  <2>1. i - 1 \in 0 .. n - 1 /\ off + (i - 1) = pos /\ pos \in Nat
    OBVIOUS
  <2>2. data[i] = ByteAt(table, pos)
    BY <1>1
  <2> HIDE DEF pos
  <2>3. ByteAt(table, pos) \in f[pos]
    BY <1>1, <2>1, ByteHeld
  <2>4. f[pos] \subseteq Bytes
    BY <2>1 DEF Sensible
  <2> QED BY <2>2, <2>3, <2>4 DEF pos
<1>3. data \in [1 .. n -> Bytes] /\ n \in Nat
  BY <1>1, <1>2
<1>4. data \in Seq(Bytes) /\ Len(data) = n
  BY <1>3, LenProperties
<1> QED BY <1>2, <1>4 DEF Within, data

----------------------------------------------------------------------------
(* Every byte the system holds is one that may be there: R gives for each   *)
(* path the bytes that may be at each offset.                               *)

\* What f allows, g allows.
Below(f, g) == \A i \in Nat : f[i] \subseteq g[i]

BufferHeld(R, b) ==
    /\ b \in Buffered /\ Len(b.data) <= Capacity /\ b.offset + Len(b.data) <= MaxSize
    /\ b.data # <<>> => b.path \in Files /\ Within(R[b.path], b.offset, b.data)
QueueHeld(R, q) == \A i \in DOMAIN q : q[i].data # <<>> /\ BufferHeld(R, q[i])
EntryHeld(f, e) == e.size \in {NoSize} \cup 0 .. MaxSize /\ TableHeld(f, e.pages)
RequestOK(r) == r.path \in Files /\ r.off \in Offsets /\ r.size \in Nat

\* Of a request: the bytes of its uploads and of what it fetched, and those a
\* file has under the path a rename that the cache has still to follow takes
\* it from.
TaskHeld(R, x) ==
    /\ x.at \in Uploading => QueueHeld(R, x.queue)
    /\ x.at \in {"lookup", "attributes", "buffer"} => RequestOK(x)
    /\ x.at = "put_attributes" => RequestOK(x.read) /\ x.size \in 0 .. MaxSize
    /\ x.at \in {"fill", "store"} =>
         /\ RequestOK(x.read) /\ Within(R[x.read.path], x.read.off, x.data)
         /\ Len(x.data) <= Capacity /\ x.read.off + Len(x.data) <= MaxSize
    /\ x.at \in {"created", "resized"} => x.path \in Files /\ x.size \in 0 .. MaxSize
    /\ x.at \in {"invalidate", "removed", "renamed", "moved"} => x.path \in Files
    /\ x.at = "renamed" => x.to \in Files /\ Below(R[x.path], R[x.to])
    /\ x.at = "moved" => x.item = NoEntry \/ EntryHeld(R[x.path], x.item)

FileHeld(f, file) == Within(f, 0, file) /\ Len(file) <= MaxSize
DiskHeld(R) ==
    /\ disk = [p \in Files |-> disk[p]]
    /\ \A p \in Files : disk[p] = Absent \/ FileHeld(R[p], disk[p])
CacheHeld(R) ==
    /\ cache = [p \in Files |-> cache[p]]
    /\ \A p \in Files : cache[p] = NoEntry \/ EntryHeld(R[p], cache[p])
TasksHeld(R) == \A t \in Tasks : TaskHeld(R, task[t])
AnswerHeld(R) ==
    \/ lastRead.data = <<>>
    \/ lastRead.path \in Files /\ Within(R[lastRead.path], lastRead.off, lastRead.data)

Held(R) ==
    /\ DiskHeld(R) /\ BufferHeld(R, wbuf) /\ BufferHeld(R, rbuf)
    /\ CacheHeld(R) /\ TasksHeld(R) /\ AnswerHeld(R)

AllSensible(R) == \A p \in Files : Sensible(R[p])

LEMMA WithinMore ==
    ASSUME NEW f, NEW g, Below(f, g), NEW off, NEW s, Within(f, off, s) PROVE Within(g, off, s)
<1>1. off \in Nat /\ Len(s) \in Nat
  BY LenProperties DEF Within
<1>2. \A j \in 1 .. Len(s) : off + j - 1 \in Nat
  BY <1>1
<1> QED BY <1>2 DEF Within, Below

LEMMA TableMore ==
    ASSUME NEW f, NEW g, Below(f, g), NEW table, TableHeld(f, table) PROVE TableHeld(g, table)
<1>1. ASSUME NEW k \in DOMAIN table PROVE PageHeld(g, k, table[k])
  <2> DEFINE base == k * PageSize
  <2>1. k \in Nat /\ PageHeld(f, k, table[k])
    BY DEF TableHeld
  <2>2. base \in Nat /\ PageSize \in Nat
    BY <2>1, PageSizeAssumption
  <2>3. \A i \in 0 .. PageSize - 1 : table[k].content[i] \in f[base + i]
    BY <2>1 DEF PageHeld
  <2> HIDE DEF base
  <2>4. \A i \in 0 .. PageSize - 1 : f[base + i] \subseteq g[base + i]
    BY <2>2 DEF Below
  <2>5. \A i \in 0 .. PageSize - 1 : table[k].content[i] \in g[base + i]
    BY <2>3, <2>4
  <2> QED BY <2>1, <2>5 DEF PageHeld, base
<1> QED BY <1>1 DEF TableHeld

LEMMA HeldMore ==
    ASSUME NEW R, NEW S, \A p \in Files : Below(R[p], S[p]), Held(R),
           \A t \in Tasks : task[t].at = "renamed" => Below(S[task[t].path], S[task[t].to])
    PROVE  Held(S)
<1>1. ASSUME NEW b, BufferHeld(R, b) PROVE BufferHeld(S, b)
  BY <1>1, WithinMore DEF BufferHeld
<1>2. ASSUME NEW p \in Files, NEW e, EntryHeld(R[p], e) PROVE EntryHeld(S[p], e)
  BY <1>2, TableMore DEF EntryHeld
<1>3. DiskHeld(S)
  BY WithinMore DEF Held, DiskHeld, FileHeld
<1>4. CacheHeld(S)
  BY <1>2 DEF Held, CacheHeld
<1>5. AnswerHeld(S)
  BY WithinMore DEF Held, AnswerHeld
<1>6. ASSUME NEW t \in Tasks PROVE TaskHeld(S, task[t])
  <2> DEFINE x == task[t]
  <2>1. TaskHeld(R, x)
    BY DEF Held, TasksHeld
  <2> HIDE DEF x
  <2>2. x.at \in Uploading => QueueHeld(S, x.queue)
    BY <1>1, <2>1 DEF TaskHeld, QueueHeld
  <2>3. x.at \in {"fill", "store"} => Within(S[x.read.path], x.read.off, x.data)
    <3> HAVE x.at \in {"fill", "store"}
    <3>1. x.read.path \in Files /\ Within(R[x.read.path], x.read.off, x.data)
      BY <2>1 DEF TaskHeld, RequestOK
    <3> QED BY <3>1, WithinMore
  <2>4. x.at = "moved" => x.item = NoEntry \/ EntryHeld(S[x.path], x.item)
    BY <1>2, <2>1 DEF TaskHeld
  <2>5. x.at = "renamed" => Below(S[x.path], S[x.to])
    BY DEF x
  <2> QED BY <2>1, <2>2, <2>3, <2>4, <2>5 DEF TaskHeld, x
<1> QED BY <1>1, <1>3, <1>4, <1>5, <1>6 DEF Held, TasksHeld

----------------------------------------------------------------------------
(* What the operators keep *)

LEMMA TaskMoves ==
    ASSUME Typed, NEW R, TasksHeld(R), NEW t \in Tasks, NEW x, Goto(t, x), TaskHeld(R, x)
    PROVE  TasksHeld(R)'
<1>1. task' = [s \in Tasks |-> IF s = t THEN x ELSE task[s]]
  BY DEF Typed, Goto
<1>2. \A s \in Tasks : task'[s] = x \/ task'[s] = task[s]
  BY <1>1
<1> QED BY <1>2 DEF TasksHeld

LEMMA IdleHeld == ASSUME NEW R PROVE TaskHeld(R, Idle)
BY DEF TaskHeld, Idle, Uploading

LEMMA AfterHeld == ASSUME NEW R, NEW after \in Afters PROVE TaskHeld(R, after)
BY DEF TaskHeld, Afters, Idle, Uploading

LEMMA UploadHeld ==
    ASSUME NEW R, NEW q, QueueHeld(R, q), NEW call, NEW after \in Afters
    PROVE  TaskHeld(R, Upload(q, call, after))
<1>1. CASE q # <<>>
  <2> DEFINE x == [at |-> "upload", queue |-> q, call |-> call, after |-> after]
  <2>1. x.at = "upload" /\ x.queue = q
    OBVIOUS
  <2> HIDE DEF x
  <2>2. TaskHeld(R, x)
    BY <2>1 DEF TaskHeld, Uploading
  <2> QED BY <1>1, <2>2 DEF Upload, x
<1>2. CASE q = <<>>
  BY <1>2, AfterHeld DEF Upload
<1> QED BY <1>1, <1>2

LEMMA CleanHeld == ASSUME NEW R PROVE BufferHeld(R, CleanBuffer)
<1>1. CleanBuffer \in Buffered /\ CleanBuffer.data = <<>> /\ CleanBuffer.offset = 0
  BY DEF CleanBuffer, Buffered
<1> QED BY <1>1, CapacityAssumption, ScopeAssumption DEF BufferHeld

LEMMA QueueHeldOne ==
    ASSUME NEW R, NEW b, BufferHeld(R, b), b.data # <<>> PROVE QueueHeld(R, <<b>>)
BY DEF QueueHeld

LEMMA QueueHeldTwo ==
    ASSUME NEW R, NEW a, BufferHeld(R, a), a.data # <<>>, NEW b, BufferHeld(R, b), b.data # <<>>
    PROVE  QueueHeld(R, Append(<<a>>, b))
<1> DEFINE q == Append(<<a>>, b)
<1>1. a \in Buffered /\ b \in Buffered
  BY DEF BufferHeld
<1>2. DOMAIN q = {1, 2} /\ q[1] = a /\ q[2] = b
  BY <1>1
<1> HIDE DEF q
<1>3. QueueHeld(R, q)
  BY <1>2 DEF QueueHeld
<1> QED BY <1>3 DEF q

LEMMA QueueHeldTail ==
    ASSUME NEW R, NEW q \in Seq(Buffered), q # <<>>, QueueHeld(R, q)
    PROVE  /\ QueueHeld(R, Tail(q)) /\ BufferHeld(R, Head(q)) /\ Head(q).data # <<>>
           /\ Head(q).path \in Files /\ Within(R[Head(q).path], Head(q).offset, Head(q).data)
<1>1. Len(q) \in Nat \ {0} /\ DOMAIN q = 1 .. Len(q)
  BY EmptySeq, LenProperties
<1>2. Tail(q) \in Seq(Buffered) /\ Len(Tail(q)) = Len(q) - 1
      /\ \A i \in 1 .. Len(Tail(q)) : Tail(q)[i] = q[i + 1]
  BY HeadTailProperties
<1>3. DOMAIN Tail(q) = 1 .. Len(q) - 1 /\ \A i \in 1 .. Len(q) - 1 : Tail(q)[i] = q[i + 1] /\ i + 1 \in DOMAIN q
  <2>1. DOMAIN Tail(q) = 1 .. Len(Tail(q))
    BY <1>2, LenProperties
  <2> QED BY <1>1, <1>2, <2>1
<1>4. Head(q) = q[1] /\ 1 \in DOMAIN q
  BY <1>1
<1>5. BufferHeld(R, Head(q)) /\ Head(q).data # <<>>
  BY <1>4 DEF QueueHeld
<1> QED BY <1>3, <1>5 DEF QueueHeld, BufferHeld

\* Storage::write_file and the truncation.
LEMMA OverwriteHeld ==
    ASSUME NEW f, Sensible(f), NEW file, file = Absent \/ FileHeld(f, file),
           NEW off, NEW data, Within(f, off, data), off + Len(data) <= MaxSize
    PROVE  FileHeld(f, Overwrite(file, off, data)) /\ Len(Overwrite(file, off, data)) \in Nat
<1> DEFINE old == IF file = Absent THEN <<>> ELSE file
           n == Len(data)
           size == Greater(Len(old), IF data = <<>> THEN 0 ELSE off + n)
           new == Overwrite(file, off, data)
<1>1. Within(f, 0, old) /\ Len(old) <= MaxSize
  BY WithinEmpty, ScopeAssumption DEF FileHeld
<1> HIDE DEF old
<1>2. /\ Len(old) \in Nat /\ n \in Nat /\ off \in Nat /\ MaxSize \in Nat
      /\ \A j \in 1 .. Len(old) : old[j] \in f[0 + j - 1]
      /\ \A j \in 1 .. n : data[j] \in f[off + j - 1]
  BY <1>1, LenProperties, ScopeAssumption DEF Within
<1>3. new = [i \in 1 .. size |-> IF off < i /\ i <= off + n THEN data[i - off] ELSE At(old, i)]
  BY DEF Overwrite, old
<1> HIDE DEF n, new
<1>4. size \in Nat /\ size <= MaxSize
  BY <1>1, <1>2 DEF Greater, n
<1> HIDE DEF size
<1>5. ASSUME NEW i \in 1 .. size PROVE new[i] \in f[0 + i - 1] /\ new[i] \in Bytes
  <2>1. i \in Nat \ {0} /\ i - 1 \in Nat /\ 0 + i - 1 = i - 1
    BY <1>4
  <2>2. new[i] \in f[i - 1]
    <3>1. CASE off < i /\ i <= off + n
      <4>1. i - off \in 1 .. n /\ off + (i - off) - 1 = i - 1
        BY <1>2, <2>1, <3>1
      <4> QED BY <1>2, <1>3, <3>1, <4>1
    <3>2. CASE ~(off < i /\ i <= off + n)
      <4>1. At(old, i) \in f[i - 1]
        <5>1. CASE i <= Len(old)
          <6>1. i \in 1 .. Len(old)
            BY <1>2, <2>1, <5>1
          <6> QED BY <1>2, <2>1, <5>1, <6>1 DEF At
        <5>2. CASE ~(i <= Len(old))
          BY <2>1, <5>2 DEF At, Sensible
        <5> QED BY <5>1, <5>2
      <4> QED BY <1>3, <3>2, <4>1
    <3> QED BY <3>1, <3>2
  <2> QED BY <2>1, <2>2 DEF Sensible
<1>6. new \in [1 .. size -> Bytes]
  BY <1>3, <1>5
<1>7. new \in Seq(Bytes) /\ Len(new) = size
  BY <1>4, <1>6, LenProperties
<1> QED BY <1>4, <1>5, <1>7 DEF FileHeld, Within, new

LEMMA SetLenHeld ==
    ASSUME NEW f, Sensible(f), NEW file, FileHeld(f, file), NEW size \in 0 .. MaxSize
    PROVE  FileHeld(f, SetLen(file, size))
<1> DEFINE new == SetLen(file, size)
<1>1. Len(file) \in Nat /\ \A j \in 1 .. Len(file) : file[j] \in f[0 + j - 1]
  BY LenProperties DEF FileHeld, Within
<1>2. size \in Nat /\ size <= MaxSize
  BY ScopeAssumption
<1>3. new = [i \in 1 .. size |-> At(file, i)]
  BY DEF SetLen
<1> HIDE DEF new
<1>4. ASSUME NEW i \in 1 .. size PROVE new[i] \in f[0 + i - 1] /\ new[i] \in Bytes
  <2>1. i \in Nat \ {0} /\ i - 1 \in Nat /\ 0 + i - 1 = i - 1 /\ new[i] = At(file, i)
    BY <1>2, <1>3
  <2>2. At(file, i) \in f[i - 1]
    <3>1. CASE i <= Len(file)
      <4>1. i \in 1 .. Len(file)
        BY <1>1, <2>1, <3>1
      <4> QED BY <1>1, <2>1, <3>1, <4>1 DEF At
    <3>2. CASE ~(i <= Len(file))
      BY <2>1, <3>2 DEF At, Sensible
    <3> QED BY <3>1, <3>2
  <2> QED BY <2>1, <2>2 DEF Sensible
<1>5. new \in [1 .. size -> Bytes]
  BY <1>3, <1>4
<1>6. new \in Seq(Bytes) /\ Len(new) = size
  BY <1>2, <1>5, LenProperties
<1> QED BY <1>2, <1>4, <1>6 DEF FileHeld, Within, new

LEMMA DiskPut ==
    ASSUME NEW R, DiskHeld(R), NEW p \in Files, NEW file, file = Absent \/ FileHeld(R[p], file),
           disk' = [disk EXCEPT ![p] = file]
    PROVE  DiskHeld(R)' /\ disk'[p] = file
<1>1. disk' = [q \in Files |-> IF q = p THEN file ELSE disk[q]]
  BY DEF DiskHeld
<1>2. disk' = [q \in Files |-> disk'[q]] /\ disk'[p] = file /\ \A q \in Files \ {p} : disk'[q] = disk[q]
  BY <1>1
<1> QED BY <1>2 DEF DiskHeld

LEMMA CachePut ==
    ASSUME NEW R, CacheHeld(R), NEW p \in Files, NEW e, e = NoEntry \/ EntryHeld(R[p], e),
           cache' = [cache EXCEPT ![p] = e]
    PROVE  CacheHeld(R)'
<1>1. cache' = [q \in Files |-> IF q = p THEN e ELSE cache[q]]
  BY DEF CacheHeld
<1>2. cache' = [q \in Files |-> cache'[q]] /\ cache'[p] = e /\ \A q \in Files \ {p} : cache'[q] = cache[q]
  BY <1>1
<1> QED BY <1>2 DEF CacheHeld

LEMMA CacheWriteFileHeld ==
    ASSUME NEW R, AllSensible(R), CacheHeld(R), NEW p \in Files, NEW off, NEW data, Within(R[p], off, data),
           NEW inv \in BOOLEAN, CacheWriteFile(p, off, data, inv)
    PROVE  CacheHeld(R)'
<1>0. Sensible(R[p]) /\ cache = [q \in Files |-> cache[q]]
  BY DEF AllSensible, CacheHeld
<1>1. CASE cache[p] = NoEntry
  <2> DEFINE e == [size |-> NoSize, pages |-> WriteContent(NoPages, off, data)]
  <2>1. cache' = [cache EXCEPT ![p] = e]
    BY <1>1 DEF CacheWriteFile
  <2>2. TableHeld(R[p], WriteContent(NoPages, off, data))
    BY <1>0, WriteContentHeld
  <2>3. EntryHeld(R[p], e)
    BY <2>2 DEF EntryHeld
  <2> HIDE DEF e
  <2> QED BY <2>1, <2>3, CachePut
<1>2. CASE cache[p] # NoEntry
  <2>1. PICK pages \in CacheWrite(cache[p].pages, off, data) :
          cache' = [cache EXCEPT ![p] = [size |-> IF inv THEN NoSize ELSE @.size, pages |-> pages]]
    BY <1>2 DEF CacheWriteFile
  <2> DEFINE e == [size |-> IF inv THEN NoSize ELSE cache[p].size, pages |-> pages]
  <2>2. cache' = [cache EXCEPT ![p] = e]
    BY <1>0, <2>1
  <2>3. EntryHeld(R[p], cache[p])
    BY <1>2 DEF CacheHeld
  <2>4. TableHeld(R[p], pages)
    BY <1>0, <2>1, <2>3, CacheWriteHeld DEF EntryHeld
  <2>5. EntryHeld(R[p], e)
    BY <2>3, <2>4 DEF EntryHeld
  <2> HIDE DEF e
  <2> QED BY <2>2, <2>5, CachePut
<1> QED BY <1>1, <1>2

LEMMA CachePutAttrHeld ==
    ASSUME NEW R, CacheHeld(R), NEW p \in Files, NEW size \in 0 .. MaxSize, CachePutAttr(p, size)
    PROVE  CacheHeld(R)'
<1> DEFINE e == [size |-> size, pages |-> IF cache[p] = NoEntry THEN NoPages ELSE cache[p].pages]
<1>1. cache' = [cache EXCEPT ![p] = e]
  BY DEF CachePutAttr, CacheHeld
<1>2. TableHeld(R[p], IF cache[p] = NoEntry THEN NoPages ELSE cache[p].pages)
  BY NoPagesHeld DEF CacheHeld, EntryHeld
<1>3. EntryHeld(R[p], e)
  BY <1>2 DEF EntryHeld
<1> HIDE DEF e
<1> QED BY <1>1, <1>3, CachePut

----------------------------------------------------------------------------
(* Steps keep every byte where it may be *)

LEMMA Unmoved ==
    ASSUME NEW R, Held(R)
    PROVE  /\ disk' = disk => DiskHeld(R)'
           /\ wbuf' = wbuf => BufferHeld(R, wbuf')
           /\ rbuf' = rbuf => BufferHeld(R, rbuf')
           /\ cache' = cache => CacheHeld(R)'
           /\ task' = task => TasksHeld(R)'
           /\ lastRead' = lastRead => AnswerHeld(R)'
BY DEF Held, DiskHeld, CacheHeld, TasksHeld, AnswerHeld

LEMMA AllHeld ==
    ASSUME NEW R, DiskHeld(R)', BufferHeld(R, wbuf'), BufferHeld(R, rbuf'),
           CacheHeld(R)', TasksHeld(R)', AnswerHeld(R)'
    PROVE  Held(R)'
BY DEF Held

\* What is known before a step.
Before(R) == DataInv /\ AllSensible(R) /\ Held(R)

LEMMA BeforeStep ==
    ASSUME NEW R, Before(R)
    PROVE  /\ Typed /\ TasksHeld(R) /\ DiskHeld(R) /\ CacheHeld(R) /\ Held(R) /\ AllSensible(R)
           /\ BufferHeld(R, wbuf) /\ BufferHeld(R, rbuf)
           /\ scope.files \subseteq Files /\ scope.len \in Nat /\ scope.writes \in Nat /\ MaxSize \in Nat
BY ScopeAssumption DEF Before, DataInv, Numbered, Held

\* A request that only moves on.
LEMMA OnlyTask ==
    ASSUME NEW R, Before(R), NEW t \in Tasks, NEW x, Goto(t, x), TaskHeld(R, x),
           UNCHANGED <<disk, wbuf, rbuf, cache, lastRead>>
    PROVE  Held(R)'
<1>1. TasksHeld(R)'
  BY BeforeStep, TaskMoves
<1> QED BY <1>1, BeforeStep, Unmoved, AllHeld

LEMMA AnswerIs ==
    ASSUME NEW R, Before(R), NEW t \in Tasks, NEW r, RequestOK(r), NEW data, Within(R[r.path], r.off, data),
           Answer(t, r, data)
    PROVE  TasksHeld(R)' /\ AnswerHeld(R)'
<1>1. lastRead' = [path |-> r.path, off |-> r.off, data |-> data, floor |-> r.floor] /\ Goto(t, Idle)
  BY DEF Answer
<1>2. lastRead'.path = r.path /\ lastRead'.off = r.off /\ lastRead'.data = data
  BY <1>1
<1>3. AnswerHeld(R)'
  BY <1>2 DEF AnswerHeld, RequestOK
<1> QED BY <1>1, <1>3, BeforeStep, TaskMoves, IdleHeld

LEMMA NoAnswer ==
    ASSUME NEW R, NEW r, RequestOK(r) PROVE Within(R[r.path], r.off, <<>>)
BY WithinEmpty DEF RequestOK, Offsets

LEMMA ReadingHeld ==
    ASSUME NEW R, NEW r, Reader(r), RequestOK(r), NEW at \in {"lookup", "attributes", "buffer"}
    PROVE  TaskHeld(R, Reading(at, r)) /\ RequestOK(Reading(at, r))
<1> DEFINE x == Reading(at, r)
<1>1. x = [at |-> at, path |-> r.path, off |-> r.off, size |-> r.size, floor |-> r.floor]
  BY DEF Reader, Reading
<1>2. x.at = at /\ x.path = r.path /\ x.off = r.off /\ x.size = r.size
  BY <1>1
<1> HIDE DEF x
<1>3. RequestOK(x)
  BY <1>2 DEF RequestOK
<1> QED BY <1>2, <1>3 DEF TaskHeld, Uploading, x

LEMMA LookupHeld ==
    ASSUME NEW R, NEW r, RequestOK(r), r.at = "lookup" PROVE TaskHeld(R, r)
BY DEF TaskHeld, Uploading

\* Writing.
LEMMA WriteFileHeld ==
    ASSUME NEW R, Before(R), NEW t \in Tasks, NEW p \in scope.files, NEW off \in Offsets,
           NEW len \in 1 .. scope.len, WriteFile(t, p, off, len),
           \A i \in 1 .. len : [path |-> p, off |-> off + i - 1, id |-> Writes + 1] \in R[p][off + i - 1]
    PROVE  Held(R)'
<1> DEFINE data == [i \in 1 .. len |-> [path |-> p, off |-> off + i - 1, id |-> Writes + 1]]
           appending == IsAppending(wbuf, p, off)
           pushed == IF appending \/ wbuf.data = <<>> THEN <<>> ELSE <<wbuf>>
           old == IF appending THEN wbuf ELSE CleanBuffer
           buffered == BufferWrite(old, p, off, data)
           full == IsFull(buffered)
           q == IF full THEN Append(pushed, buffered) ELSE pushed
<1>1. /\ off + len <= MaxSize
      /\ wbuf' = (IF full THEN CleanBuffer ELSE buffered)
      /\ Goto(t, Upload(q, Writes + 1, Idle))
      /\ UNCHANGED <<disk, rbuf, cache, lastRead>>
  BY DEF WriteFile
<1>2. p \in Files /\ off \in Nat /\ len \in Nat \ {0} /\ MaxSize \in Nat
  BY BeforeStep DEF Offsets
<1>3. Within(R[p], off, data) /\ Len(data) = len /\ data # <<>>
  <2>1. \A i \in 1 .. len : off + i - 1 \in Nat
    BY <1>2
  <2>2. \A i \in 1 .. len : data[i] \in R[p][off + i - 1]
    OBVIOUS
  <2>3. \A i \in 1 .. len : data[i] \in Bytes
    BY <1>2, <2>1, <2>2, BeforeStep DEF AllSensible, Sensible
  <2>4. data \in [1 .. len -> Bytes]
    BY <2>3
  <2> HIDE DEF data
  <2>5. data \in Seq(Bytes) /\ Len(data) = len
    BY <1>2, <2>4, LenProperties
  <2> QED BY <1>2, <2>2, <2>5, EmptySeq DEF Within
<1>4. BufferHeld(R, old) /\ BufferHeld(R, wbuf) /\ Len(old.data) < Capacity
      /\ (IsAppending(old, p, off) \/ old = CleanBuffer)
  <2>1. Len(CleanBuffer.data) < Capacity
    BY CapacityAssumption DEF CleanBuffer
  <2> QED BY <2>1, BeforeStep, CleanHeld DEF Before, DataInv, BufferHasRoom
<1> HIDE DEF data, old
<1>5. BufferHeld(R, buffered) /\ buffered.data # <<>>
  <2>1. old \in Buffered /\ data \in Seq(Bytes)
    BY <1>3, <1>4 DEF BufferHeld, Within
  <2>2. buffered \in Buffered /\ Len(buffered.data) <= Capacity /\ buffered.data # <<>>
    BY <1>2, <1>3, <1>4, <2>1, BufferWriteFacts
  <2> DEFINE room == IF IsAppending(old, p, off) THEN Capacity - Len(old.data) ELSE Capacity
             n == Lesser(Len(data), room)
             part == SubSeq(data, 1, n)
  <2>3. Len(old.data) \in Nat /\ old.data \in Seq(Bytes) /\ old.offset \in Nat
    BY <2>1, LenProperties DEF Buffered
  <2>4. n \in Nat /\ n <= len
    BY <1>2, <1>3, <1>4, <2>3, CapacityAssumption DEF Lesser
  <2>5. Within(R[p], off, part) /\ Len(part) = n
    <3> HIDE DEF n
    <3>1. /\ Within(R[p], off + 1 - 1, part) /\ Len(part) = IF 1 <= n THEN n - 1 + 1 ELSE 0
      BY <1>3, <2>4, WithinPart
    <3>2. off + 1 - 1 = off
      BY <1>2
    <3> QED BY <2>4, <3>1, <3>2
  <2>6. CASE IsAppending(old, p, off)
    <3>1. buffered = [old EXCEPT !.data = @ \o part]
      BY <2>6 DEF BufferWrite
    <3> HIDE DEF part, n, room, buffered
    <3>2. old.path = p /\ old.offset + Len(old.data) = off
      BY <2>6 DEF IsAppending
    <3>3. buffered.path = p /\ buffered.offset = old.offset /\ buffered.data = old.data \o part
      BY <2>1, <3>1, <3>2 DEF Buffered
    <3> DEFINE whole == old.data \o part
    <3>4. /\ part \in Seq(Bytes) /\ whole \in Seq(Bytes) /\ Len(whole) = Len(old.data) + n
          /\ \A i \in 1 .. Len(old.data) + n :
               whole[i] = IF i <= Len(old.data) THEN old.data[i] ELSE part[i - Len(old.data)]
      <4>1. part \in Seq(Bytes)
        BY <2>5 DEF Within
      <4> QED BY <2>3, <2>5, <4>1, ConcatProperties
    <3> HIDE DEF whole
    <3>5. \A i \in 1 .. Len(old.data) : old.data[i] \in R[p][old.offset + i - 1]
      <4>1. CASE old.data = <<>>
        BY <4>1
      <4>2. CASE old.data # <<>>
        BY <1>4, <3>2, <4>2 DEF BufferHeld, Within
      <4> QED BY <4>1, <4>2
    <3>6. ASSUME NEW i \in 1 .. Len(whole) PROVE whole[i] \in R[p][old.offset + i - 1]
      <4>1. CASE i <= Len(old.data)
        <5>1. i \in 1 .. Len(old.data) /\ i \in 1 .. Len(old.data) + n
          BY <2>3, <2>4, <3>4, <4>1
        <5> QED BY <3>4, <3>5, <4>1, <5>1
      <4>2. CASE ~(i <= Len(old.data))
        <5>1. /\ i \in 1 .. Len(old.data) + n /\ i - Len(old.data) \in 1 .. n
              /\ off + (i - Len(old.data)) - 1 = old.offset + i - 1
          BY <2>3, <2>4, <3>2, <3>4, <4>2
        <5>2. part[i - Len(old.data)] \in R[p][off + (i - Len(old.data)) - 1]
          BY <2>5, <5>1 DEF Within
        <5> QED BY <3>4, <4>2, <5>1, <5>2
      <4> QED BY <4>1, <4>2
    <3>7. Within(R[p], old.offset, whole)
      BY <2>3, <3>4, <3>6 DEF Within
    <3>8. old.offset + Len(whole) <= MaxSize
      BY <1>1, <1>2, <2>3, <2>4, <3>2, <3>4
    <3> QED BY <1>2, <2>2, <3>3, <3>7, <3>8 DEF BufferHeld, whole
  <2>7. CASE ~IsAppending(old, p, off)
    <3>1. buffered = [path |-> p, offset |-> off, data |-> part]
      BY <2>7 DEF BufferWrite
    <3>2. off + Len(part) <= MaxSize
      BY <1>1, <1>2, <2>4, <2>5
    <3> HIDE DEF part, n, room, buffered
    <3>3. buffered.path = p /\ buffered.offset = off /\ buffered.data = part
      BY <3>1
    <3> QED BY <1>2, <2>2, <2>5, <3>2, <3>3 DEF BufferHeld
  <2> QED BY <2>6, <2>7
<1> HIDE DEF buffered, full
<1>6. QueueHeld(R, q)
  <2>0. QueueHeld(R, <<>>)
    BY DEF QueueHeld
  <2>1. CASE ~full
    BY <1>4, <2>0, <2>1, QueueHeldOne
  <2>2. CASE full /\ pushed = <<>>
    <3>1. q = <<buffered>>
      <4>1. Append(<<>>, buffered) = <<buffered>>
        OBVIOUS
      <4> HIDE DEF pushed
      <4> QED BY <2>2, <4>1
    <3> QED BY <1>5, <3>1, QueueHeldOne
  <2>3. CASE full /\ pushed = <<wbuf>> /\ wbuf.data # <<>>
    <3>1. q = Append(<<wbuf>>, buffered)
      BY <2>3
    <3> QED BY <1>4, <1>5, <2>3, <3>1, QueueHeldTwo
  <2> QED BY <2>1, <2>2, <2>3
<1> HIDE DEF q
<1>7. TasksHeld(R)'
  <2>1. Idle \in Afters
    BY DEF Afters
  <2>2. TaskHeld(R, Upload(q, Writes + 1, Idle))
    BY <1>6, <2>1, UploadHeld
  <2> QED BY <1>1, <2>2, BeforeStep, TaskMoves
<1>8. BufferHeld(R, wbuf')
  BY <1>1, <1>5, CleanHeld
<1> QED BY <1>1, <1>7, <1>8, BeforeStep, Unmoved, AllHeld

LEMMA TakeBufferHeld ==
    ASSUME NEW R, Before(R), NEW t \in Tasks, NEW after \in Afters, TakeBuffer(t, after)
    PROVE  Held(R)'
<1> DEFINE q == IF wbuf.data = <<>> THEN <<>> ELSE <<wbuf>>
<1>1. /\ Goto(t, Upload(q, 0, after)) /\ wbuf' = (IF wbuf.data = <<>> THEN wbuf ELSE CleanBuffer)
      /\ UNCHANGED <<disk, rbuf, cache, lastRead>>
  BY DEF TakeBuffer
<1>2. BufferHeld(R, wbuf') /\ QueueHeld(R, q)
  <2>1. QueueHeld(R, <<>>)
    BY DEF QueueHeld
  <2> QED BY <1>1, <2>1, BeforeStep, CleanHeld, QueueHeldOne
<1> HIDE DEF q
<1>3. TasksHeld(R)'
  <2>1. TaskHeld(R, Upload(q, 0, after))
    BY <1>2, UploadHeld
  <2> QED BY <1>1, <2>1, BeforeStep, TaskMoves
<1> QED BY <1>1, <1>2, <1>3, BeforeStep, Unmoved, AllHeld

LEMMA FlushHeld ==
    ASSUME NEW R, Before(R), NEW t \in Tasks, NEW p \in scope.files, Flush(t) \/ Fsync(t, p)
    PROVE  Held(R)'
<1> DEFINE after == [at |-> "invalidate", path |-> p, due |-> {b \in Acknowledged : b.path = p}]
<1>1. p \in Files /\ Idle \in Afters
  BY BeforeStep DEF Afters
<1>2. after \in Afters
  BY <1>1 DEF Afters, Acknowledged, Before, DataInv, Typed
<1>3. TakeBuffer(t, after) \/ TakeBuffer(t, Idle)
  BY DEF Fsync, Flush
<1> HIDE DEF after
<1> QED BY <1>1, <1>2, <1>3, TakeBufferHeld

\* The first upload of a task that has some.
LEMMA FirstUpload ==
    ASSUME NEW R, Before(R), NEW t \in Tasks, task[t].at \in Uploading
    PROVE  LET u == Head(task[t].queue)
           IN  /\ u.path \in Files /\ Within(R[u.path], u.offset, u.data)
               /\ u.offset + Len(u.data) <= MaxSize
               /\ QueueHeld(R, task[t].queue) /\ QueueHeld(R, Tail(task[t].queue))
               /\ task[t].after \in Afters /\ task[t] \in UploadTasks
<1>1. task[t] \in UploadTasks /\ task[t].queue \in Seq(Buffered) /\ task[t].queue # <<>> /\ task[t].after \in Afters
  BY UploadTask DEF Before
<1>2. QueueHeld(R, task[t].queue)
  BY BeforeStep DEF TasksHeld, TaskHeld
<1> QED BY <1>1, <1>2, QueueHeldTail DEF BufferHeld

LEMMA ServerWriteHeld ==
    ASSUME NEW R, Before(R), NEW t \in Tasks, ServerWrite(t) PROVE Held(R)'
<1> DEFINE u == Head(task[t].queue)
           x == [task[t] EXCEPT !.at = "uploaded"]
           file == Overwrite(disk[u.path], u.offset, u.data)
<1>1. /\ task[t].at \in Uploading /\ Goto(t, x)
      /\ disk' = [disk EXCEPT ![u.path] = Overwrite(@, u.offset, u.data)]
      /\ UNCHANGED <<wbuf, rbuf, cache, lastRead>>
  BY DEF ServerWrite, Again, client, Uploading
<1>2. /\ u.path \in Files /\ Within(R[u.path], u.offset, u.data) /\ u.offset + Len(u.data) <= MaxSize
      /\ QueueHeld(R, task[t].queue) /\ task[t] \in UploadTasks
  BY <1>1, FirstUpload
<1>3. x.at = "uploaded" /\ x.queue = task[t].queue
  BY <1>2 DEF UploadTasks
<1> HIDE DEF x, u
<1>4. TaskHeld(R, x)
  BY <1>2, <1>3 DEF TaskHeld, Uploading
<1>5. disk' = [disk EXCEPT ![u.path] = file]
  BY <1>1, <1>2, BeforeStep DEF DiskHeld
<1>6. FileHeld(R[u.path], file)
  BY <1>2, BeforeStep, OverwriteHeld DEF DiskHeld, AllSensible
<1> HIDE DEF file
<1>7. DiskHeld(R)'
  BY <1>2, <1>5, <1>6, BeforeStep, DiskPut
<1>8. TasksHeld(R)'
  BY <1>1, <1>4, BeforeStep, TaskMoves
<1> QED BY <1>1, <1>7, <1>8, BeforeStep, Unmoved, AllHeld

LEMMA UploadedHeld ==
    ASSUME NEW R, Before(R), NEW t \in Tasks, Uploaded(t) PROVE Held(R)'
<1> DEFINE u == Head(task[t].queue)
           x == Upload(Tail(task[t].queue), task[t].call, task[t].after)
<1>1. /\ task[t].at = "uploaded" /\ Goto(t, x) /\ CacheWriteFile(u.path, u.offset, u.data, TRUE)
      /\ UNCHANGED <<disk, wbuf, rbuf, lastRead>>
  BY DEF Uploaded
<1>2. /\ u.path \in Files /\ Within(R[u.path], u.offset, u.data)
      /\ QueueHeld(R, Tail(task[t].queue)) /\ task[t].after \in Afters
  BY <1>1, FirstUpload DEF Uploading
<1>3. TaskHeld(R, x)
  BY <1>2, UploadHeld
<1> HIDE DEF x, u
<1>4. TasksHeld(R)'
  BY <1>1, <1>3, BeforeStep, TaskMoves
<1>5. CacheHeld(R)'
  BY <1>1, <1>2, BeforeStep, CacheWriteFileHeld
<1> QED BY <1>1, <1>4, <1>5, BeforeStep, Unmoved, AllHeld

LEMMA UploadFailsHeld ==
    ASSUME NEW R, Before(R), NEW t \in Tasks, UploadFails(t) \/ ResponseLost(t) PROVE Held(R)'
<1>1. Goto(t, Idle) /\ UNCHANGED <<disk, wbuf, rbuf, cache, lastRead>>
  BY DEF UploadFails, ResponseLost, client
<1> QED BY <1>1, IdleHeld, OnlyTask

\* The entry of a file is dropped, and the request is done.
LEMMA DropHeld ==
    ASSUME NEW R, Before(R), NEW p \in Files, cache' = [cache EXCEPT ![p] = NoEntry],
           TasksHeld(R)', UNCHANGED <<disk, wbuf, rbuf, lastRead>>
    PROVE  Held(R)'
<1>1. CacheHeld(R)'
  BY BeforeStep, CachePut
<1> QED BY <1>1, BeforeStep, Unmoved, AllHeld

LEMMA FsyncInvalidateHeld ==
    ASSUME NEW R, Before(R), NEW t \in Tasks, FsyncInvalidate(t) PROVE Held(R)'
<1>1. /\ task[t].at = "invalidate" /\ Goto(t, Idle) /\ cache' = [cache EXCEPT ![task[t].path] = NoEntry]
      /\ UNCHANGED <<disk, wbuf, rbuf, lastRead>>
  BY DEF FsyncInvalidate
<1>2. task[t].path \in Files
  BY <1>1, BeforeStep DEF TasksHeld, TaskHeld
<1>3. TasksHeld(R)'
  BY <1>1, IdleHeld, BeforeStep, TaskMoves
<1> QED BY <1>1, <1>2, <1>3, DropHeld

\* Reading.
LEMMA ReadFileHeld ==
    ASSUME NEW R, Before(R), NEW t \in Tasks, NEW p \in scope.files, NEW off \in Offsets,
           NEW size \in 1 .. scope.len, ReadFile(t, p, off, size)
    PROVE  Held(R)'
<1> DEFINE r == [at |-> "lookup", path |-> p, off |-> off, size |-> size,
                 floor |-> [i \in 1 .. size |-> Latest(Acknowledged, p, off + i - 1)]]
<1>1. /\ UNCHANGED <<disk, wbuf, rbuf, cache>>
      /\ \/ (Goto(t, Reading("attributes", r)) \/ Goto(t, r)) /\ UNCHANGED lastRead
         \/ Answer(t, r, <<>>)
  BY DEF ReadFile, client
<1>2. RequestOK(r) /\ Reader(r) /\ r.at = "lookup"
  BY BeforeStep DEF RequestOK, Reader
<1> HIDE DEF r
<1>3. CASE Goto(t, Reading("attributes", r)) /\ UNCHANGED lastRead
  BY <1>1, <1>2, <1>3, ReadingHeld, OnlyTask
<1>4. CASE Goto(t, r) /\ UNCHANGED lastRead
  BY <1>1, <1>2, <1>4, LookupHeld, OnlyTask
<1>5. CASE Answer(t, r, <<>>)
  BY <1>1, <1>2, <1>5, NoAnswer, AnswerIs, BeforeStep, Unmoved, AllHeld
<1> QED BY <1>1, <1>3, <1>4, <1>5

\* What is known of a request that reads.
LEMMA ReadingTask ==
    ASSUME NEW R, Before(R), NEW t \in Tasks
    PROVE  /\ task[t].at \in {"lookup", "attributes", "buffer"} => RequestOK(task[t]) /\ Reader(task[t])
           /\ task[t].at = "put_attributes" =>
                RequestOK(task[t].read) /\ task[t].read.at = "lookup" /\ task[t].size \in 0 .. MaxSize
           /\ task[t].at \in {"fill", "store"} =>
                /\ RequestOK(task[t].read) /\ Within(R[task[t].read.path], task[t].read.off, task[t].data)
                /\ Len(task[t].data) <= Capacity /\ task[t].read.off + Len(task[t].data) <= MaxSize
<1>1. TaskOK(task[t])
  BY BeforeStep DEF Typed
<1>2. TaskHeld(R, task[t])
  BY BeforeStep DEF TasksHeld
<1> QED BY <1>1, <1>2 DEF TaskOK, TaskHeld

\* The server's file, as a request finds it.
LEMMA ServerFile ==
    ASSUME NEW R, Before(R), NEW p \in Files, disk[p] # Absent
    PROVE  Within(R[p], 0, disk[p]) /\ Len(disk[p]) \in 0 .. MaxSize
<1>1. FileHeld(R[p], disk[p])
  BY BeforeStep DEF DiskHeld
<1>2. Len(disk[p]) \in Nat
  BY <1>1, LenProperties DEF FileHeld, Within
<1> QED BY <1>1, <1>2, BeforeStep DEF FileHeld

LEMMA FetchAttributesHeld ==
    ASSUME NEW R, Before(R), NEW t \in Tasks, FetchAttributes(t) PROVE Held(R)'
<1> DEFINE r == task[t]
           l == Reading("lookup", r)
           x == [at |-> "put_attributes", read |-> l, size |-> Len(disk[r.path])]
<1>1. /\ task[t].at = "attributes" /\ UNCHANGED <<disk, wbuf, rbuf, cache, lastRead>>
      /\ Goto(t, l) \/ (disk[r.path] # Absent /\ Goto(t, x))
  BY DEF FetchAttributes, client
<1>2. RequestOK(r) /\ Reader(r)
  BY <1>1, ReadingTask
<1>3. TaskHeld(R, l) /\ RequestOK(l)
  BY <1>2, ReadingHeld
<1> HIDE DEF l, r
<1>4. CASE disk[r.path] # Absent /\ Goto(t, x)
  <2>1. Len(disk[r.path]) \in 0 .. MaxSize
    BY <1>2, <1>4, ServerFile DEF RequestOK
  <2>2. x.at = "put_attributes" /\ x.read = l /\ x.size = Len(disk[r.path])
    OBVIOUS
  <2> HIDE DEF x
  <2>3. TaskHeld(R, x)
    BY <1>3, <2>1, <2>2 DEF TaskHeld, Uploading
  <2> QED BY <1>1, <1>4, <2>3, OnlyTask
<1> QED BY <1>1, <1>3, <1>4, OnlyTask

LEMMA PutAttributesHeld ==
    ASSUME NEW R, Before(R), NEW t \in Tasks, PutAttributes(t) PROVE Held(R)'
<1> DEFINE r == task[t].read
<1>1. /\ task[t].at = "put_attributes" /\ CachePutAttr(r.path, task[t].size)
      /\ UNCHANGED <<disk, wbuf, rbuf>>
      /\ Answer(t, r, <<>>) \/ (Goto(t, r) /\ UNCHANGED lastRead)
  BY DEF PutAttributes
<1>2. RequestOK(r) /\ r.at = "lookup" /\ task[t].size \in 0 .. MaxSize /\ r.path \in Files
  BY <1>1, ReadingTask DEF RequestOK
<1> HIDE DEF r
<1>3. CacheHeld(R)'
  BY <1>1, <1>2, BeforeStep, CachePutAttrHeld
<1>4. TasksHeld(R)' /\ AnswerHeld(R)'
  <2>1. CASE Answer(t, r, <<>>)
    BY <1>2, <2>1, NoAnswer, AnswerIs
  <2>2. CASE Goto(t, r) /\ UNCHANGED lastRead
    BY <1>2, <2>2, LookupHeld, BeforeStep, TaskMoves, Unmoved
  <2> QED BY <1>1, <2>1, <2>2
<1> QED BY <1>1, <1>3, <1>4, BeforeStep, Unmoved, AllHeld

LEMMA LookupPagesHeld ==
    ASSUME NEW R, Before(R), NEW t \in Tasks, LookupPages(t) PROVE Held(R)'
<1> DEFINE r == task[t]
           data == IF cache[r.path] = NoEntry THEN <<>> ELSE ReadPages(cache[r.path].pages, r.off, r.size)
           x == Reading("buffer", r)
<1>1. /\ task[t].at = "lookup" /\ UNCHANGED <<disk, wbuf, rbuf, cache>>
      /\ Answer(t, r, data) \/ (Goto(t, x) /\ UNCHANGED lastRead)
  BY DEF LookupPages, client
<1>2. RequestOK(r) /\ Reader(r) /\ r.path \in Files /\ r.off \in Nat /\ r.size \in Nat
  BY <1>1, ReadingTask DEF RequestOK, Offsets
<1>3. TaskHeld(R, x)
  BY <1>2, ReadingHeld
<1> HIDE DEF x, r
<1>4. Within(R[r.path], r.off, data)
  <2>1. CASE cache[r.path] = NoEntry
    BY <1>2, <2>1, WithinEmpty
  <2>2. CASE cache[r.path] # NoEntry
    <3>1. TableHeld(R[r.path], cache[r.path].pages) /\ Sensible(R[r.path])
      BY <1>2, <2>2, BeforeStep DEF CacheHeld, EntryHeld, AllSensible
    <3> QED BY <1>2, <2>2, <3>1, ReadHeld
  <2> QED BY <2>1, <2>2
<1> HIDE DEF data
<1>5. CASE Answer(t, r, data)
  BY <1>1, <1>2, <1>4, <1>5, AnswerIs, BeforeStep, Unmoved, AllHeld
<1>6. CASE Goto(t, x) /\ UNCHANGED lastRead
  BY <1>1, <1>3, <1>6, OnlyTask
<1> QED BY <1>1, <1>5, <1>6

\* What the read buffer answers with.
LEMMA BufferReadHeld ==
    ASSUME NEW R, NEW buf, BufferHeld(R, buf), NEW p, NEW off \in Nat, NEW size \in Nat,
           BufferRead(buf, p, off, size) # <<>>
    PROVE  Within(R[p], off, BufferRead(buf, p, off, size))
<1> DEFINE begin == buf.offset
           len == Len(buf.data)
           m == off - begin + 1
           n == Lesser(off - begin + size, len)
<1>1. /\ p = buf.path /\ ~(off < buf.offset) /\ ~(off >= buf.offset + Len(buf.data))
      /\ BufferRead(buf, p, off, size) = SubSeq(buf.data, m, n)
  BY DEF BufferRead
<1>2. begin \in Nat /\ buf.data \in Seq(Bytes) /\ len \in Nat /\ begin <= off /\ off < begin + len
  <2>1. begin \in Nat /\ buf.data \in Seq(Bytes) /\ len \in Nat
    BY LenProperties DEF BufferHeld, Buffered
  <2> HIDE DEF begin, len
  <2> QED BY <1>1, <2>1 DEF begin, len
<1>3. buf.data # <<>>
  <2>1. len # 0
    <3> HIDE DEF begin, len
    <3> QED BY <1>2
  <2> QED BY <2>1
<1> HIDE DEF begin, len
<1>4. m \in Nat \ {0} /\ n \in Int /\ n <= len /\ begin + m - 1 = off
  BY <1>2 DEF Lesser
<1>5. Within(R[p], begin, buf.data)
  BY <1>1, <1>3 DEF BufferHeld, begin
<1>6. BufferRead(buf, p, off, size) = SubSeq(buf.data, m, n)
  BY <1>1 DEF begin, len
<1> HIDE DEF m, n
<1>7. Within(R[p], begin + m - 1, SubSeq(buf.data, m, n))
  BY <1>4, <1>5, WithinPart DEF len
<1> QED BY <1>4, <1>6, <1>7

LEMMA BufferHitHeld ==
    ASSUME NEW R, Before(R), NEW t \in Tasks, BufferHit(t) PROVE Held(R)'
<1> DEFINE r == task[t]
           data == BufferRead(rbuf, r.path, r.off, r.size)
<1>1. /\ task[t].at = "buffer" /\ data # <<>> /\ CacheWriteFile(r.path, r.off, data, FALSE)
      /\ Answer(t, r, data) /\ UNCHANGED <<disk, wbuf, rbuf>>
  BY DEF BufferHit
<1>2. RequestOK(r) /\ r.path \in Files /\ r.off \in Nat /\ r.size \in Nat
  BY <1>1, ReadingTask DEF RequestOK, Offsets
<1> HIDE DEF r
<1>3. Within(R[r.path], r.off, data)
  BY <1>1, <1>2, BeforeStep, BufferReadHeld
<1> HIDE DEF data
<1>4. CacheHeld(R)'
  BY <1>1, <1>2, <1>3, BeforeStep, CacheWriteFileHeld
<1>5. TasksHeld(R)' /\ AnswerHeld(R)'
  BY <1>1, <1>2, <1>3, AnswerIs
<1> QED BY <1>1, <1>4, <1>5, BeforeStep, Unmoved, AllHeld

LEMMA FetchDataHeld ==
    ASSUME NEW R, Before(R), NEW t \in Tasks, FetchData(t) PROVE Held(R)'
<1> DEFINE r == task[t]
           file == disk[r.path]
           n == Lesser(r.off + Capacity, Len(file))
           data == SubSeq(file, r.off + 1, n)
           x == [at |-> "fill", read |-> r, data |-> data]
<1>1. /\ task[t].at = "buffer" /\ UNCHANGED <<disk, wbuf, rbuf, cache, lastRead>>
      /\ Goto(t, Idle) \/ (file # Absent /\ Goto(t, x))
  BY DEF FetchData, client
<1>2. RequestOK(r) /\ r.path \in Files /\ r.off \in Nat /\ r.off + 1 \in Nat \ {0} /\ r.off < MaxSize
  BY <1>1, ReadingTask, BeforeStep DEF RequestOK, Offsets
<1>3. CASE Goto(t, Idle)
  BY <1>1, <1>3, IdleHeld, OnlyTask
<1>4. CASE file # Absent /\ Goto(t, x)
  <2> HIDE DEF r
  <2>1. Within(R[r.path], 0, file) /\ Len(file) \in 0 .. MaxSize
    BY <1>2, <1>4, ServerFile
  <2> HIDE DEF file
  <2>2. n \in Int /\ n <= Len(file) /\ n <= r.off + Capacity
    BY <1>2, <2>1, CapacityAssumption, BeforeStep DEF Lesser
  <2> HIDE DEF n
  <2>3. Within(R[r.path], 0 + (r.off + 1) - 1, data) /\ Len(data) = IF r.off + 1 <= n THEN n - (r.off + 1) + 1 ELSE 0
    BY <1>2, <2>1, <2>2, WithinPart
  <2> HIDE DEF data
  <2>4. Within(R[r.path], r.off, data)
    <3>1. 0 + (r.off + 1) - 1 = r.off
      BY <1>2
    <3> QED BY <2>3, <3>1
  <2>5. Len(data) <= Capacity /\ r.off + Len(data) <= MaxSize
    <3>1. CASE r.off + 1 <= n
      <4>1. Len(data) = n - r.off
        BY <1>2, <2>2, <2>3, <3>1
      <4> QED BY <1>2, <2>1, <2>2, <4>1, CapacityAssumption, ScopeAssumption
    <3>2. CASE ~(r.off + 1 <= n)
      <4>1. Len(data) = 0
        BY <2>3, <3>2
      <4> QED BY <1>2, <4>1, CapacityAssumption, ScopeAssumption
    <3> QED BY <3>1, <3>2
  <2>6. x.at = "fill" /\ x.read = r /\ x.data = data
    OBVIOUS
  <2> HIDE DEF x
  <2>7. TaskHeld(R, x)
    BY <1>2, <2>4, <2>5, <2>6 DEF TaskHeld, Uploading
  <2> QED BY <1>1, <1>4, <2>7, OnlyTask
<1> QED BY <1>1, <1>3, <1>4

LEMMA FillBufferHeld ==
    ASSUME NEW R, Before(R), NEW t \in Tasks, FillBuffer(t) PROVE Held(R)'
<1> DEFINE x == [task[t] EXCEPT !.at = "store"]
           r == task[t].read
           data == task[t].data
           b == [path |-> r.path, offset |-> r.off, data |-> data]
<1>1. /\ task[t].at = "fill" /\ Goto(t, x) /\ rbuf' = b /\ UNCHANGED <<disk, wbuf, cache, lastRead>>
  BY DEF FillBuffer
<1>2. /\ RequestOK(r) /\ Within(R[r.path], r.off, data)
      /\ Len(data) <= Capacity /\ r.off + Len(data) <= MaxSize
  BY <1>1, ReadingTask
<1>3. x.at = "store" /\ x.read = r /\ x.data = data
  <2>1. task[t] = [at |-> task[t].at, read |-> r, data |-> data]
    BY <1>1, BeforeStep DEF Typed, TaskOK
  <2> QED BY <2>1
<1> HIDE DEF x, r, data
<1>4. TaskHeld(R, x)
  BY <1>2, <1>3 DEF TaskHeld, Uploading
<1>5. b \in Buffered /\ b.path = r.path /\ b.offset = r.off /\ b.data = data
  BY <1>2 DEF Buffered, RequestOK, Within
<1> HIDE DEF b
<1>6. BufferHeld(R, rbuf')
  BY <1>1, <1>2, <1>5 DEF BufferHeld, RequestOK
<1>7. TasksHeld(R)'
  BY <1>1, <1>4, BeforeStep, TaskMoves
<1> QED BY <1>1, <1>6, <1>7, BeforeStep, Unmoved, AllHeld

LEMMA StorePagesHeld ==
    ASSUME NEW R, Before(R), NEW t \in Tasks, StorePages(t) PROVE Held(R)'
<1> DEFINE r == task[t].read
           data == task[t].data
           n == Lesser(Len(data), r.size)
           part == SubSeq(data, 1, n)
<1>1. /\ task[t].at = "store" /\ CacheWriteFile(r.path, r.off, data, FALSE)
      /\ Answer(t, r, part) /\ UNCHANGED <<disk, wbuf, rbuf>>
  BY DEF StorePages
<1>2. RequestOK(r) /\ Within(R[r.path], r.off, data) /\ r.path \in Files
  BY <1>1, ReadingTask DEF RequestOK
<1> HIDE DEF r, data
<1>3. CacheHeld(R)'
  BY <1>1, <1>2, BeforeStep, CacheWriteFileHeld
<1>4. r.off \in Nat /\ r.size \in Nat /\ Len(data) \in Nat
  BY <1>2, LenProperties DEF RequestOK, Within
<1>5. n \in Int /\ n <= Len(data) /\ r.off + 1 - 1 = r.off
  BY <1>4 DEF Lesser
<1> HIDE DEF n
<1>6. Within(R[r.path], r.off + 1 - 1, part)
  BY <1>2, <1>5, WithinPart
<1> HIDE DEF part
<1>7. Within(R[r.path], r.off, part)
  BY <1>5, <1>6
<1>8. TasksHeld(R)' /\ AnswerHeld(R)'
  BY <1>1, <1>2, <1>7, AnswerIs
<1> QED BY <1>1, <1>3, <1>8, BeforeStep, Unmoved, AllHeld

----------------------------------------------------------------------------
(* Creating, resizing, removing and renaming *)

LEMMA CreateFileHeld ==
    ASSUME NEW R, Before(R), NEW t \in Tasks, NEW p \in scope.files, CreateFile(t, p) PROVE Held(R)'
<1> DEFINE file == Overwrite(disk[p], 0, <<>>)
           x == [at |-> "created", path |-> p, size |-> Len(file)]
<1>1. p \in Files /\ disk = [q \in Files |-> disk[q]]
  BY BeforeStep DEF DiskHeld
<1>2. disk' = [disk EXCEPT ![p] = file] /\ UNCHANGED <<wbuf, rbuf, cache, lastRead>>
  BY <1>1 DEF CreateFile, client
<1>3. FileHeld(R[p], file) /\ Len(file) \in Nat
  <2>1. Within(R[p], 0, <<>>) /\ 0 + Len(<<>>) <= MaxSize
    BY WithinEmpty, BeforeStep
  <2> QED BY <1>1, <2>1, BeforeStep, OverwriteHeld DEF DiskHeld, AllSensible
<1> HIDE DEF file
<1>4. DiskHeld(R)' /\ disk'[p] = file
  BY <1>1, <1>2, <1>3, BeforeStep, DiskPut
<1>5. Goto(t, x)
  BY <1>4 DEF CreateFile
<1>6. x.at = "created" /\ x.path = p /\ x.size = Len(file)
  OBVIOUS
<1> HIDE DEF x
<1>7. TaskHeld(R, x)
  BY <1>1, <1>3, <1>6, BeforeStep DEF TaskHeld, Uploading, FileHeld
<1>8. TasksHeld(R)'
  BY <1>5, <1>7, BeforeStep, TaskMoves
<1> QED BY <1>2, <1>4, <1>8, BeforeStep, Unmoved, AllHeld

LEMMA SetSizeHeld ==
    ASSUME NEW R, Before(R), NEW t \in Tasks, NEW p \in scope.files, NEW size \in 0 .. MaxSize,
           SetSize(t, p, size)
    PROVE  Held(R)'
<1> DEFINE file == SetLen(disk[p], size)
           x == [at |-> "resized", path |-> p, size |-> size]
<1>1. p \in Files /\ disk = [q \in Files |-> disk[q]]
  BY BeforeStep DEF DiskHeld
<1>2. disk' = [disk EXCEPT ![p] = file] /\ UNCHANGED <<wbuf, rbuf, cache, lastRead>> /\ Goto(t, x)
  BY <1>1 DEF SetSize, client
<1>3. FileHeld(R[p], file)
  BY <1>1, BeforeStep, SetLenHeld DEF SetSize, DiskHeld, AllSensible
<1> HIDE DEF file
<1>4. DiskHeld(R)'
  BY <1>1, <1>2, <1>3, BeforeStep, DiskPut
<1>5. TaskHeld(R, x)
  BY <1>1 DEF TaskHeld, Uploading
<1> HIDE DEF x
<1>6. TasksHeld(R)'
  BY <1>2, <1>5, BeforeStep, TaskMoves
<1> QED BY <1>2, <1>4, <1>6, BeforeStep, Unmoved, AllHeld

LEMMA RemoveHeld ==
    ASSUME NEW R, Before(R), NEW t \in Tasks, NEW p \in scope.files, Remove(t, p) PROVE Held(R)'
<1> DEFINE x == [at |-> "removed", path |-> p]
<1>1. /\ p \in Files /\ disk' = [disk EXCEPT ![p] = Absent] /\ Goto(t, x)
      /\ UNCHANGED <<wbuf, rbuf, cache, lastRead>>
  BY BeforeStep DEF Remove, client
<1>2. DiskHeld(R)'
  BY <1>1, BeforeStep, DiskPut
<1>3. TaskHeld(R, x)
  BY <1>1 DEF TaskHeld, Uploading
<1> HIDE DEF x
<1>4. TasksHeld(R)'
  BY <1>1, <1>3, BeforeStep, TaskMoves
<1> QED BY <1>1, <1>2, <1>4, BeforeStep, Unmoved, AllHeld

LEMMA RenameHeld ==
    ASSUME NEW R, Before(R), NEW t \in Tasks, NEW p \in scope.files, NEW q \in scope.files, Rename(t, p, q),
           Below(R[p], R[q])
    PROVE  Held(R)'
<1> DEFINE x == [at |-> "renamed", path |-> p, to |-> q]
<1>1. /\ p \in Files /\ q \in Files /\ p # q /\ disk[p] # Absent
      /\ disk' = [disk EXCEPT ![q] = disk[p], ![p] = Absent] /\ Goto(t, x)
      /\ UNCHANGED <<wbuf, rbuf, cache, lastRead>>
  BY BeforeStep DEF Rename, client
<1>2. FileHeld(R[q], disk[p])
  BY <1>1, BeforeStep, WithinMore DEF DiskHeld, FileHeld
<1>3. DiskHeld(R)'
  <2>1. disk' = [u \in Files |-> IF u = p THEN Absent ELSE IF u = q THEN disk[p] ELSE disk[u]]
    BY <1>1, BeforeStep DEF DiskHeld
  <2>2. disk' = [u \in Files |-> disk'[u]] /\ disk'[p] = Absent /\ disk'[q] = disk[p]
        /\ \A u \in Files \ {p, q} : disk'[u] = disk[u]
    BY <1>1, <2>1
  <2> QED BY <1>2, <2>2, BeforeStep DEF DiskHeld
<1>4. TaskHeld(R, x)
  <2>1. x.at = "renamed" /\ x.path = p /\ x.to = q
    OBVIOUS
  <2> HIDE DEF x
  <2> QED BY <1>1, <2>1 DEF TaskHeld, Uploading
<1> HIDE DEF x
<1>5. TasksHeld(R)'
  BY <1>1, <1>4, BeforeStep, TaskMoves
<1> QED BY <1>1, <1>3, <1>5, BeforeStep, Unmoved, AllHeld

LEMMA RespondHeld ==
    ASSUME NEW R, Before(R), NEW t \in Tasks, Respond(t) PROVE Held(R)'
<1> DEFINE p == task[t].path
<1>1. UNCHANGED <<disk, wbuf, rbuf, lastRead>>
  BY DEF Respond
<1>2. TaskHeld(R, task[t])
  BY BeforeStep DEF TasksHeld
<1>3. ASSUME Goto(t, Idle) PROVE TasksHeld(R)'
  BY <1>3, IdleHeld, BeforeStep, TaskMoves
<1>4. CASE Created(t)
  <2> DEFINE e == [size |-> task[t].size, pages |-> NoPages]
  <2>1. task[t].at = "created" /\ cache' = [cache EXCEPT ![p] = e] /\ Goto(t, Idle)
    BY <1>4 DEF Created
  <2>2. p \in Files /\ task[t].size \in 0 .. MaxSize
    BY <1>2, <2>1 DEF TaskHeld
  <2>3. EntryHeld(R[p], e)
    BY <2>2, NoPagesHeld DEF EntryHeld
  <2> HIDE DEF e, p
  <2>4. CacheHeld(R)'
    BY <2>1, <2>2, <2>3, BeforeStep, CachePut
  <2> QED BY <1>1, <1>3, <2>1, <2>4, BeforeStep, Unmoved, AllHeld
<1>5. CASE Resized(t)
  <2>1. task[t].at = "resized" /\ CachePutAttr(p, task[t].size) /\ Goto(t, Idle)
    BY <1>5 DEF Resized
  <2>2. p \in Files /\ task[t].size \in 0 .. MaxSize
    BY <1>2, <2>1 DEF TaskHeld
  <2> HIDE DEF p
  <2>3. CacheHeld(R)'
    BY <2>1, <2>2, BeforeStep, CachePutAttrHeld
  <2> QED BY <1>1, <1>3, <2>1, <2>3, BeforeStep, Unmoved, AllHeld
<1>6. CASE Removed(t)
  <2>1. task[t].at = "removed" /\ cache' = [cache EXCEPT ![p] = NoEntry] /\ Goto(t, Idle)
    BY <1>6 DEF Removed
  <2>2. p \in Files
    BY <1>2, <2>1 DEF TaskHeld
  <2> HIDE DEF p
  <2> QED BY <1>1, <1>3, <2>1, <2>2, DropHeld
<1>7. CASE Renamed(t)
  <2> DEFINE q == task[t].to
             item == cache[p]
             x == [at |-> "moved", path |-> q, item |-> item, stale |-> p \in untold]
  <2>1. /\ task[t].at = "renamed" /\ cache' = [cache EXCEPT ![p] = NoEntry]
        /\ Goto(t, Idle) \/ Goto(t, x)
    BY <1>7 DEF Renamed
  <2>2. p \in Files /\ q \in Files /\ Below(R[p], R[q])
    BY <1>2, <2>1 DEF TaskHeld
  <2> HIDE DEF p, q
  <2>3. item = NoEntry \/ EntryHeld(R[q], item)
    <3>1. item = NoEntry \/ EntryHeld(R[p], item)
      BY <2>2, BeforeStep DEF CacheHeld
    <3> QED BY <2>2, <3>1, TableMore DEF EntryHeld
  <2>4. x.at = "moved" /\ x.path = q /\ x.item = item
    OBVIOUS
  <2> HIDE DEF x, item
  <2>5. TaskHeld(R, x)
    BY <2>2, <2>3, <2>4 DEF TaskHeld, Uploading
  <2>6. TasksHeld(R)'
    BY <1>3, <2>1, <2>5, BeforeStep, TaskMoves
  <2> QED BY <1>1, <2>1, <2>2, <2>6, DropHeld
<1>8. CASE Moved(t)
  <2>1. task[t].at = "moved" /\ cache' = [cache EXCEPT ![p] = task[t].item] /\ Goto(t, Idle)
    BY <1>8 DEF Moved
  <2>2. p \in Files /\ (task[t].item = NoEntry \/ EntryHeld(R[p], task[t].item))
    BY <1>2, <2>1 DEF TaskHeld
  <2> HIDE DEF p
  <2>3. CacheHeld(R)'
    BY <2>1, <2>2, BeforeStep, CachePut
  <2> QED BY <1>1, <1>3, <2>1, <2>3, BeforeStep, Unmoved, AllHeld
<1> QED BY <1>4, <1>5, <1>6, <1>7, <1>8 DEF Respond

----------------------------------------------------------------------------
(* Every step: what may be where is kept if the new bytes of a write may be *)
(* where they are written, and what may be in a file under the name it has  *)
(* may be in it under the name a rename gives it.                           *)

WritesAllowed(R) ==
    \A t \in Tasks, p \in scope.files, off \in Offsets, len \in 1 .. scope.len :
        WriteFile(t, p, off, len) =>
            \A i \in 1 .. len : [path |-> p, off |-> off + i - 1, id |-> Writes + 1] \in R[p][off + i - 1]
RenamesAllowed(R) ==
    \A t \in Tasks, p \in scope.files, q \in scope.files : Rename(t, p, q) => Below(R[p], R[q])

LEMMA NextHeld ==
    ASSUME NEW R, Before(R), [Next]_vars, WritesAllowed(R), RenamesAllowed(R) PROVE Held(R)'
<1>1. ASSUME NEW t \in Tasks, Start(t) PROVE Held(R)'
  <2>1. CASE Flush(t)
    <3>1. TakeBuffer(t, Idle) /\ Idle \in Afters
      BY <2>1 DEF Flush, Afters
    <3> QED BY <3>1, TakeBufferHeld
  <2>2. ASSUME NEW p \in scope.files, Fsync(t, p) \/ CreateFile(t, p) \/ Remove(t, p) PROVE Held(R)'
    BY <2>2, FlushHeld, CreateFileHeld, RemoveHeld
  <2>3. ASSUME NEW p \in scope.files, NEW q \in scope.files, Rename(t, p, q) PROVE Held(R)'
    BY <2>3, RenameHeld DEF RenamesAllowed
  <2>4. ASSUME NEW p \in scope.files, NEW size \in 0 .. MaxSize, SetSize(t, p, size) PROVE Held(R)'
    BY <2>4, SetSizeHeld
  <2>5. ASSUME NEW p \in scope.files, NEW off \in Offsets, NEW len \in 1 .. scope.len,
               WriteFile(t, p, off, len) \/ ReadFile(t, p, off, len)
        PROVE  Held(R)'
    BY <2>5, WriteFileHeld, ReadFileHeld DEF WritesAllowed
  <2> QED BY <1>1, <2>1, <2>2, <2>3, <2>4, <2>5 DEF Start
<1>2. ASSUME NEW t \in Tasks, Step(t) PROVE Held(R)'
  BY <1>2, ServerWriteHeld, UploadedHeld, UploadFailsHeld, FsyncInvalidateHeld, FetchAttributesHeld,
     PutAttributesHeld, LookupPagesHeld, BufferHitHeld, FetchDataHeld, FillBufferHeld, StorePagesHeld,
     RespondHeld DEF Step
<1>3. ASSUME NEW p \in Files, Forget(p) PROVE Held(R)'
  <2>1. cache' = [cache EXCEPT ![p] = NoEntry] /\ UNCHANGED <<disk, wbuf, rbuf, task, lastRead>>
    BY <1>3 DEF Forget
  <2> QED BY <2>1, BeforeStep, Unmoved, DropHeld
<1>4. CASE UNCHANGED vars
  BY <1>4, BeforeStep, Unmoved, AllHeld DEF vars, client
<1> QED BY <1>1, <1>2, <1>3, <1>4 DEF Next

LEMMA InitHeld ==
    ASSUME Init, NEW R, AllSensible(R), \A p \in Files : \A i \in Offsets : [path |-> p, off |-> i, id |-> 0] \in R[p][i]
    PROVE  Held(R)
<1>1. /\ wbuf = CleanBuffer /\ rbuf = CleanBuffer /\ cache = [p \in Files |-> NoEntry]
      /\ task = [t \in Tasks |-> Idle]
      /\ lastRead = [data |-> <<>>, off |-> 0, path |-> NoPath, floor |-> <<>>]
      /\ \E present : disk = [p \in Files |-> IF p \in present THEN InitFile(p) ELSE Absent]
  BY DEF Init
<1>2. ASSUME NEW p \in Files PROVE FileHeld(R[p], InitFile(p))
  <2> DEFINE file == InitFile(p)
  <2>1. file = [i \in 1 .. MaxSize |-> [path |-> p, off |-> i - 1, id |-> 0]] /\ MaxSize \in Nat
    BY ScopeAssumption DEF InitFile
  <2> HIDE DEF file
  <2>2. ASSUME NEW i \in 1 .. MaxSize PROVE file[i] \in R[p][0 + i - 1] /\ file[i] \in Bytes
    <3>1. i - 1 \in Offsets /\ 0 + i - 1 = i - 1 /\ i - 1 \in Nat
      BY <2>1 DEF Offsets
    <3>2. file[i] = [path |-> p, off |-> i - 1, id |-> 0]
      BY <2>1
    <3>3. file[i] \in R[p][i - 1]
      BY <3>1, <3>2
    <3> QED BY <3>1, <3>3 DEF AllSensible, Sensible
  <2>3. file \in [1 .. MaxSize -> Bytes]
    BY <2>1, <2>2
  <2>4. file \in Seq(Bytes) /\ Len(file) = MaxSize
    BY <2>3, ScopeAssumption, LenProperties
  <2> QED BY <2>1, <2>2, <2>4 DEF FileHeld, Within, file
<1>3. DiskHeld(R)
  BY <1>1, <1>2 DEF DiskHeld
<1>4. CacheHeld(R)
  BY <1>1 DEF CacheHeld
<1>5. TasksHeld(R)
  BY <1>1, IdleHeld DEF TasksHeld
<1>6. AnswerHeld(R)
  BY <1>1 DEF AnswerHeld
<1> QED BY <1>1, <1>3, <1>4, <1>5, <1>6, CleanHeld DEF Held

\* The bytes of a write.
LEMMA NewBytes ==
    ASSUME DataInv, NEW t \in Tasks, NEW p \in scope.files, NEW off \in Offsets, NEW len \in 1 .. scope.len,
           WriteFile(t, p, off, len), NEW i \in 1 .. len
    PROVE  /\ [path |-> p, off |-> off + i - 1, id |-> Writes + 1] \in Data
           /\ off + i - 1 \in Nat
<1>1. /\ p \in Files /\ Writes \in 0 .. scope.writes /\ scope.writes \in Nat
      /\ scope.len \in Nat /\ MaxSize \in Nat
  BY NextNumber, ScopeAssumption DEF DataInv, Numbered
<1>2. Writes < scope.writes /\ off + len <= MaxSize
  BY DEF WriteFile
<1>3. off + i - 1 \in Offsets /\ Writes + 1 \in 0 .. scope.writes /\ off + i - 1 \in Nat
  BY <1>1, <1>2 DEF Offsets
<1> QED BY <1>1, <1>3 DEF Data

LEMMA DataInByte == ASSUME DataInv PROVE Data \subseteq Byte
<1>1. scope.writes \in Nat /\ MaxSize \in Nat
  BY ScopeAssumption DEF DataInv, Numbered
<1>2. Offsets \subseteq Nat /\ 0 .. scope.writes \subseteq Nat
  BY <1>1 DEF Offsets
<1> QED BY <1>2 DEF Data, Byte

\* No step touches the scope.
LEMMA ScopeKept == ASSUME [Next]_vars PROVE scope' = scope
<1>1. ASSUME NEW t \in Tasks, Start(t) PROVE scope' = scope
  <2>1. \A after : TakeBuffer(t, after) => scope' = scope
    BY DEF TakeBuffer, track
  <2>2. \A p, q, size :
          (CreateFile(t, p) \/ Remove(t, p) \/ Rename(t, p, q) \/ SetSize(t, p, size)) => scope' = scope
    BY DEF CreateFile, Remove, Rename, SetSize, track
  <2>3. \A p, off, len : (WriteFile(t, p, off, len) \/ ReadFile(t, p, off, len)) => scope' = scope
    BY DEF WriteFile, ReadFile, track
  <2> QED BY <1>1, <2>1, <2>2, <2>3 DEF Start, Flush, Fsync
<1>2. ASSUME NEW t \in Tasks, Step(t) PROVE scope' = scope
  BY <1>2 DEF Step, ServerWrite, Uploaded, UploadFails, FsyncInvalidate, FetchAttributes, PutAttributes,
     LookupPages, BufferHit, FetchData, FillBuffer, StorePages, Respond, ResponseLost, track
<1> QED BY <1>1, <1>2 DEF Next, Forget, vars, track

----------------------------------------------------------------------------
(* The types: every byte is one some write produced, or a zero *)

Anything == [p \in Files |-> [i \in Nat |-> Data \cup {Zero}]]
TypeInv ==
    /\ DataInv /\ accepted \subseteq Data
    /\ \E R : R = Anything /\ Held(R)

LEMMA AnythingSensible == ASSUME DataInv PROVE AllSensible(Anything)
BY DataInByte DEF AllSensible, Sensible, Anything, Bytes

LEMMA InitTyped == Init => TypeInv
<1> SUFFICES ASSUME Init PROVE TypeInv
  OBVIOUS
<1>1. DataInv
  BY InitData
<1>2. ASSUME NEW p \in Files, NEW i \in Offsets PROVE [path |-> p, off |-> i, id |-> 0] \in Anything[p][i]
  <2>1. scope.writes \in Nat /\ i \in Nat
    BY <1>1, ScopeAssumption DEF DataInv, Numbered, Offsets
  <2>2. [path |-> p, off |-> i, id |-> 0] \in Data
    BY <2>1 DEF Data
  <2> QED BY <2>1, <2>2 DEF Anything
<1>3. PICK R : R = Anything
  OBVIOUS
<1>4. Held(R)
  BY <1>1, <1>2, <1>3, AnythingSensible, InitHeld
<1>5. accepted \subseteq Data
  BY DEF Init
<1> QED BY <1>1, <1>3, <1>4, <1>5 DEF TypeInv

\* Only a write adds to what was accepted.
LEMMA AcceptedTyped ==
    ASSUME DataInv, accepted \subseteq Data, [Next]_vars PROVE accepted' \subseteq Data
<1>1. ASSUME NEW t \in Tasks, Start(t) PROVE accepted' \subseteq Data
  <2>1. ASSUME NEW p \in scope.files, NEW off \in Offsets, NEW len \in 1 .. scope.len, WriteFile(t, p, off, len)
        PROVE  accepted' \subseteq Data
    <3> DEFINE data == [i \in 1 .. len |-> [path |-> p, off |-> off + i - 1, id |-> Writes + 1]]
    <3>1. accepted' \subseteq accepted \cup Content(data)
      BY <2>1 DEF WriteFile
    <3>2. \A i \in 1 .. len : data[i] \in Data
      BY <2>1, NewBytes
    <3>3. DOMAIN data = 1 .. len
      OBVIOUS
    <3> HIDE DEF data
    <3>4. Content(data) \subseteq Data
      BY <3>2, <3>3 DEF Content
    <3> QED BY <3>1, <3>4
  <2>2. CASE UNCHANGED accepted
    BY <2>2
  <2> QED BY <1>1, <2>1, <2>2 DEF Start, Flush, Fsync, TakeBuffer, CreateFile, Remove, Rename, SetSize, ReadFile, history
<1>2. ASSUME NEW t \in Tasks, Step(t) PROVE accepted' = accepted
  BY <1>2 DEF Step, ServerWrite, Uploaded, UploadFails, FsyncInvalidate, FetchAttributes, PutAttributes,
     LookupPages, BufferHit, FetchData, FillBuffer, StorePages, Respond, ResponseLost, history
<1>3. CASE (\E p \in Files : Forget(p)) \/ UNCHANGED vars
  BY <1>3 DEF Forget, vars, history
<1> QED BY <1>1, <1>2, <1>3 DEF Next

LEMMA NextTyped == TypeInv /\ [Next]_vars => TypeInv'
<1> SUFFICES ASSUME TypeInv, [Next]_vars PROVE TypeInv'
  OBVIOUS
<1>1. DataInv /\ DataInv' /\ accepted \subseteq Data /\ scope' = scope
  BY NextData, ScopeKept DEF TypeInv
<1>2. PICK R : R = Anything /\ Held(R)
  BY DEF TypeInv
<1>3. Before(R)
  BY <1>1, <1>2, AnythingSensible DEF Before
<1>4. WritesAllowed(R)
  <2>1. ASSUME NEW t \in Tasks, NEW p \in scope.files, NEW off \in Offsets, NEW len \in 1 .. scope.len,
               WriteFile(t, p, off, len), NEW i \in 1 .. len
        PROVE  [path |-> p, off |-> off + i - 1, id |-> Writes + 1] \in R[p][off + i - 1]
    <3>1. /\ [path |-> p, off |-> off + i - 1, id |-> Writes + 1] \in Data
          /\ off + i - 1 \in Nat /\ p \in Files
      BY <1>1, <1>3, <2>1, NewBytes, BeforeStep
    <3> QED BY <1>2, <3>1 DEF Anything
  <2> QED BY <2>1 DEF WritesAllowed
<1>5. RenamesAllowed(R)
  <2>1. \A p, q \in Files : Below(R[p], R[q])
    BY <1>2 DEF Anything, Below
  <2>2. scope.files \subseteq Files
    BY <1>3, BeforeStep
  <2> QED BY <2>1, <2>2 DEF RenamesAllowed
<1>6. Held(R)'
  BY <1>3, <1>4, <1>5, NextHeld
<1>7. R = Anything' /\ Data' = Data
  BY <1>1, <1>2 DEF Anything, Data
<1>8. accepted' \subseteq Data'
  BY <1>1, <1>7, AcceptedTyped
<1> QED BY <1>1, <1>6, <1>7, <1>8 DEF TypeInv

LEMMA BufferTyped ==
    ASSUME NEW b, BufferHeld(Anything, b) PROVE b \in Buffer(Capacity)
<1>1. /\ b \in Buffered /\ b.offset \in Nat /\ b.data \in Seq(Bytes) /\ Len(b.data) <= Capacity
      /\ b.offset + Len(b.data) <= MaxSize /\ Len(b.data) \in Nat /\ MaxSize \in Nat /\ Capacity \in Nat
  BY LenProperties, CapacityAssumption, ScopeAssumption DEF BufferHeld, Buffered
<1>2. b.offset \in 0 .. MaxSize /\ Len(b.data) \in 0 .. Capacity
  BY <1>1
<1>3. b.data \in [1 .. Len(b.data) -> Data \cup {Zero}]
  <2>1. CASE b.data = <<>>
    <3>1. Len(b.data) = 0 /\ DOMAIN b.data = {} /\ b.data = [i \in DOMAIN b.data |-> b.data[i]] /\ 1 .. 0 = {}
      BY <1>1, <2>1, LenProperties
    <3> QED BY <3>1
  <2>2. CASE b.data # <<>>
    <3>1. b.path \in Files /\ \A j \in 1 .. Len(b.data) : b.data[j] \in Anything[b.path][b.offset + j - 1]
      BY <2>2 DEF BufferHeld, Within
    <3>2. \A j \in 1 .. Len(b.data) : b.offset + j - 1 \in Nat
      BY <1>1
    <3>3. \A j \in 1 .. Len(b.data) : b.data[j] \in Data \cup {Zero}
      BY <3>1, <3>2 DEF Anything
    <3>4. b.data \in [1 .. Len(b.data) -> Bytes]
      BY <1>1, LenProperties
    <3> QED BY <3>3, <3>4
  <2> QED BY <2>1, <2>2
<1> QED BY <1>1, <1>2, <1>3 DEF Buffer, Buffered

LEMMA TypedTypes == TypeInv => TypeOK
<1> SUFFICES ASSUME TypeInv PROVE TypeOK
  OBVIOUS
<1>1. DataInv /\ accepted \subseteq Data /\ Held(Anything)
  BY DEF TypeInv
<1>2. ASSUME NEW p \in Files, disk[p] # Absent
      PROVE  DOMAIN disk[p] \subseteq 1 .. MaxSize /\ Content(disk[p]) \subseteq Data
  <2> DEFINE file == disk[p]
  <2>1. file \in Seq(Bytes) /\ Len(file) <= MaxSize /\ \A j \in 1 .. Len(file) : file[j] \in Anything[p][0 + j - 1]
    BY <1>1, <1>2 DEF Held, DiskHeld, FileHeld, Within
  <2> HIDE DEF file
  <2>2. Len(file) \in Nat /\ DOMAIN file = 1 .. Len(file) /\ MaxSize \in Nat
    BY <2>1, LenProperties, ScopeAssumption
  <2>3. \A j \in 1 .. Len(file) : 0 + j - 1 \in Nat
    BY <2>2
  <2>4. \A j \in 1 .. Len(file) : file[j] \in Data \cup {Zero}
    BY <2>1, <2>3 DEF Anything
  <2>5. DOMAIN file \subseteq 1 .. MaxSize
    BY <2>1, <2>2
  <2> QED BY <2>2, <2>4, <2>5 DEF Content, file
<1>3. wbuf \in Buffer(Capacity) /\ rbuf \in Buffer(Capacity)
  BY <1>1, BufferTyped DEF Held
<1>4. \A p \in Files : \/ cache[p] = NoEntry
                       \/ /\ cache[p].size \in {NoSize} \cup 0 .. MaxSize
                          /\ Cardinality(DOMAIN cache[p].pages) <= MaxPages
  BY <1>1 DEF Held, CacheHeld, EntryHeld, TableHeld
<1>5. applied \subseteq accepted /\ failed \subseteq accepted
  BY <1>1 DEF DataInv, Divided
<1> QED BY <1>1, <1>2, <1>3, <1>4, <1>5 DEF TypeOK

LEMMA TypeInvariant == Spec => []TypeInv
BY InitTyped, NextTyped, PTL DEF Spec

\* Whatever the requests, their number and their interleaving: the files of the
\* server and both buffers hold zeros and bytes of accepted writes, within the
\* bounds of the sizes, a cached file has at most MAX_PAGES pages, and the
\* server has, and failures are reported of, only bytes that were accepted.
THEOREM TypeCorrect == Spec => []TypeOK
BY TypeInvariant, TypedTypes, PTL

----------------------------------------------------------------------------
(* Every byte is in its place *)

\* No rename is made onto a path that another one, still unanswered, has moved
\* a file away from.
RenamesApart ==
    \A s, t \in Tasks : s # t /\ task[s].at = "renamed" /\ task[t].at = "renamed" => task[s].to # task[t].path

\* What may be where, if N gives the names of every path.
Places(N) ==
    [p \in Files |-> [i \in Nat |-> {b \in Bytes : b = Zero \/ (b.off = i /\ b.path \in N[p])}]]

\* A path is one of its names.
NamesOK == names = [p \in Files |-> names[p]] /\ \A p \in Files : p \in names[p]

PlaceInv ==
    /\ DataInv /\ NamesOK
    /\ \E N : N = names /\ Held(Places(N))

LEMMA PlacesSensible == ASSUME NEW N PROVE AllSensible(Places(N))
BY DEF AllSensible, Sensible, Places, Bytes

LEMMA PlacesBelow ==
    ASSUME NEW N, NEW M, NEW p \in Files, NEW q \in Files, N[p] \subseteq M[q]
    PROVE  Below(Places(N)[p], Places(M)[q])
BY DEF Below, Places

LEMMA BytePlaced ==
    ASSUME NEW N, NEW p \in Files, p \in N[p], NEW b \in Byte, b.path = p
    PROVE  b \in Places(N)[p][b.off]
<1>1. b.off \in Nat /\ b \in Bytes
  BY DEF Byte, Bytes
<1> QED BY <1>1 DEF Places

LEMMA InitPlaced == Init => PlaceInv
<1> SUFFICES ASSUME Init PROVE PlaceInv
  OBVIOUS
<1>1. DataInv
  BY InitData
<1>2. names = [p \in Files |-> {p}]
  BY DEF Init
<1>3. NamesOK
  BY <1>2 DEF NamesOK
<1>4. PICK N : N = names
  OBVIOUS
<1>5. ASSUME NEW p \in Files, NEW i \in Offsets PROVE [path |-> p, off |-> i, id |-> 0] \in Places(N)[p][i]
  <2> DEFINE b == [path |-> p, off |-> i, id |-> 0]
  <2>1. b \in Byte /\ b.off = i /\ b.path = p
    BY DEF Byte, Offsets
  <2> HIDE DEF b
  <2>2. b \in Places(N)[p][b.off]
    BY <1>3, <1>4, <2>1, BytePlaced DEF NamesOK
  <2> QED BY <2>1, <2>2 DEF b
<1>6. PICK R : R = Places(N)
  OBVIOUS
<1>7. Held(R)
  BY <1>5, <1>6, PlacesSensible, InitHeld
<1> QED BY <1>1, <1>3, <1>4, <1>6, <1>7 DEF PlaceInv

\* Only Rename changes the names.
LEMMA NamesKept ==
    ASSUME [Next]_vars
    PROVE  \/ names' = names
           \/ \E t \in Tasks, p \in scope.files, q \in scope.files : Rename(t, p, q)
<1>1. ASSUME NEW t \in Tasks, Start(t)
      PROVE  names' = names \/ \E p \in scope.files, q \in scope.files : Rename(t, p, q)
  <2>1. \A after : TakeBuffer(t, after) => names' = names
    BY DEF TakeBuffer, track
  <2>2. \A p, size : (CreateFile(t, p) \/ Remove(t, p) \/ SetSize(t, p, size)) => names' = names
    BY DEF CreateFile, Remove, SetSize, track
  <2>3. \A p, off, len : (WriteFile(t, p, off, len) \/ ReadFile(t, p, off, len)) => names' = names
    BY DEF WriteFile, ReadFile, track
  <2> QED BY <1>1, <2>1, <2>2, <2>3 DEF Start, Flush, Fsync
<1>2. ASSUME NEW t \in Tasks, Step(t) PROVE names' = names
  BY <1>2 DEF Step, ServerWrite, Uploaded, UploadFails, FsyncInvalidate, FetchAttributes, PutAttributes,
     LookupPages, BufferHit, FetchData, FillBuffer, StorePages, Respond, ResponseLost, track
<1>3. CASE (\E p \in Files : Forget(p)) \/ UNCHANGED vars
  BY <1>3 DEF Forget, vars, track
<1> QED BY <1>1, <1>2, <1>3 DEF Next

LEMMA NextPlaced == PlaceInv /\ RenamesApart' /\ [Next]_vars => PlaceInv'
<1> SUFFICES ASSUME PlaceInv, RenamesApart', [Next]_vars PROVE PlaceInv'
  OBVIOUS
<1>1. DataInv /\ DataInv' /\ NamesOK
  BY NextData DEF PlaceInv
<1>2. PICK N : N = names /\ Held(Places(N))
  BY DEF PlaceInv
<1>3. PICK M : M = names'
  OBVIOUS
<1>4. PICK R : R = Places(N)
  OBVIOUS
<1>5. PICK S : S = Places(M)
  OBVIOUS
<1>6. ASSUME NEW t \in Tasks, NEW p \in scope.files, NEW q \in scope.files, Rename(t, p, q)
      PROVE  /\ p \in Files /\ q \in Files /\ p # q /\ task'[t].at = "renamed" /\ task'[t].to = q
             /\ task[t].at = "renamed" => task[t].path = p
             /\ M = [u \in Files |-> IF u = q THEN N[q] \cup N[p] ELSE N[u]]
             /\ \A s \in Tasks \ {t} : task'[s] = task[s]
  <2>1. p \in Files /\ q \in Files /\ task = [s \in Tasks |-> task[s]]
    BY <1>1, ScopeAssumption DEF DataInv, Numbered, Typed
  <2>2. /\ p # q /\ Goto(t, [at |-> "renamed", path |-> p, to |-> q])
        /\ task[t].at = "renamed" => task[t].path = p
        /\ names' = [names EXCEPT ![q] = @ \cup names[p]]
    BY <1>6 DEF Rename, Ready, Idle
  <2>3. M = [u \in Files |-> IF u = q THEN N[q] \cup N[p] ELSE N[u]]
    BY <1>1, <1>2, <1>3, <2>1, <2>2 DEF NamesOK
  <2>4. task' = [s \in Tasks |-> IF s = t THEN [at |-> "renamed", path |-> p, to |-> q] ELSE task[s]]
    BY <2>1, <2>2 DEF Goto
  <2> QED BY <2>1, <2>2, <2>3, <2>4
<1>7. /\ NamesOK' /\ \A u \in Files : N[u] \subseteq M[u] /\ u \in M[u]
  <2>1. CASE names' = names
    BY <1>1, <1>2, <1>3, <2>1 DEF NamesOK
  <2>2. ASSUME NEW t \in Tasks, NEW p \in scope.files, NEW q \in scope.files, Rename(t, p, q)
        PROVE  NamesOK' /\ \A u \in Files : N[u] \subseteq M[u] /\ u \in M[u]
    <3>1. M = [u \in Files |-> IF u = q THEN N[q] \cup N[p] ELSE N[u]]
      BY <1>6, <2>2
    <3>2. \A u \in Files : N[u] \subseteq M[u] /\ u \in N[u]
      BY <1>1, <1>2, <3>1 DEF NamesOK
    <3>3. M = [u \in Files |-> M[u]]
      BY <3>1
    <3> QED BY <1>3, <3>2, <3>3 DEF NamesOK
  <2> QED BY <2>1, <2>2, NamesKept
<1>8. \A u \in Files : Below(R[u], S[u])
  BY <1>4, <1>5, <1>7, PlacesBelow
<1>9. ASSUME NEW s \in Tasks, task[s].at = "renamed"
      PROVE  Below(S[task[s].path], S[task[s].to])
  <2> DEFINE from == task[s].path
             to == task[s].to
  <2>1. from \in Files /\ to \in Files /\ Below(R[from], R[to])
    BY <1>2, <1>4, <1>9 DEF Held, TasksHeld, TaskHeld
  <2>2. CASE names' = names
    BY <1>2, <1>3, <1>4, <1>5, <2>1, <2>2
  <2>3. ASSUME NEW t \in Tasks, NEW p \in scope.files, NEW q \in scope.files, Rename(t, p, q)
        PROVE  Below(S[from], S[to])
    <3>1. task'[t].at = "renamed" /\ task'[t].to = q /\ (s # t => task'[s] = task[s]) /\ (s = t => p = from) /\ p # q
      BY <1>6, <1>9, <2>3
    <3>2. q # from
      BY <1>9, <3>1 DEF RenamesApart
    <3>3. M[from] = N[from]
      BY <1>6, <2>1, <2>3, <3>2
    <3> HIDE DEF from, to
    <3>4. S[from] = R[from]
      BY <1>4, <1>5, <2>1, <3>3 DEF Places
    <3>5. Below(R[to], S[to])
      BY <1>8, <2>1
    <3> QED BY <2>1, <3>4, <3>5 DEF Below
  <2> QED BY <2>2, <2>3, NamesKept
<1>10. Before(S)
  <2>1. Held(S)
    BY <1>2, <1>4, <1>8, <1>9, HeldMore
  <2> QED BY <1>1, <1>5, <2>1, PlacesSensible DEF Before
<1>11. WritesAllowed(S)
  <2>1. ASSUME NEW t \in Tasks, NEW p \in scope.files, NEW off \in Offsets, NEW len \in 1 .. scope.len,
               WriteFile(t, p, off, len), NEW i \in 1 .. len
        PROVE  [path |-> p, off |-> off + i - 1, id |-> Writes + 1] \in S[p][off + i - 1]
    <3> DEFINE b == [path |-> p, off |-> off + i - 1, id |-> Writes + 1]
    <3>1. b \in Byte
      BY <1>1, <2>1, NewBytes, DataInByte
    <3>2. b.path = p /\ b.off = off + i - 1 /\ p \in Files
      BY <1>10, BeforeStep
    <3> HIDE DEF b
    <3>3. b \in S[p][b.off]
      BY <1>5, <1>7, <3>1, <3>2, BytePlaced
    <3> QED BY <3>2, <3>3 DEF b
  <2> QED BY <2>1 DEF WritesAllowed
<1>12. RenamesAllowed(S)
  <2>1. ASSUME NEW t \in Tasks, NEW p \in scope.files, NEW q \in scope.files, Rename(t, p, q)
        PROVE  Below(S[p], S[q])
    <3>1. p \in Files /\ q \in Files /\ M[p] \subseteq M[q]
      BY <1>6, <2>1
    <3> QED BY <1>5, <3>1, PlacesBelow
  <2> QED BY <2>1 DEF RenamesAllowed
<1>13. Held(S)'
  BY <1>10, <1>11, <1>12, NextHeld
<1> QED BY <1>1, <1>3, <1>5, <1>7, <1>13 DEF PlaceInv

LEMMA PlacedInPlace ==
    ASSUME NEW p \in Files, NEW off, NEW s, Within(Places(names)[p], off, s), NEW i \in DOMAIN s
    PROVE  InPlace(p, off + i - 1, s[i])
<1>1. off \in Nat /\ s \in Seq(Bytes) /\ DOMAIN s = 1 .. Len(s) /\ Len(s) \in Nat
  BY LenProperties DEF Within
<1>2. s[i] \in Places(names)[p][off + i - 1] /\ off + i - 1 \in Nat
  BY <1>1 DEF Within
<1> QED BY <1>2 DEF Places, InPlace

LEMMA PlacedWiring == PlaceInv => NoCrossWiring
<1> SUFFICES ASSUME PlaceInv PROVE NoCrossWiring
  OBVIOUS
<1>1. Held(Places(names))
  BY DEF PlaceInv
<1>2. ASSUME NEW p \in Files, disk[p] # Absent, NEW i \in DOMAIN disk[p]
      PROVE  InPlace(p, i - 1, disk[p][i])
  <2>1. Within(Places(names)[p], 0, disk[p])
    BY <1>1, <1>2 DEF Held, DiskHeld, FileHeld
  <2>2. InPlace(p, 0 + i - 1, disk[p][i])
    BY <1>2, <2>1, PlacedInPlace
  <2>3. 0 + i - 1 = i - 1
    <3>1. DOMAIN disk[p] = 1 .. Len(disk[p]) /\ Len(disk[p]) \in Nat
      BY <2>1, LenProperties DEF Within
    <3> QED BY <1>2, <3>1
  <2> QED BY <2>2, <2>3
<1>3. ASSUME NEW p \in Files, cache[p] # NoEntry, NEW i \in Offsets, Valid(cache[p].pages, i)
      PROVE  InPlace(p, i, ByteAt(cache[p].pages, i))
  <2>1. TableHeld(Places(names)[p], cache[p].pages) /\ i \in Nat
    BY <1>1, <1>3 DEF Held, CacheHeld, EntryHeld, Offsets
  <2>2. ByteAt(cache[p].pages, i) \in Places(names)[p][i]
    BY <1>3, <2>1, ByteHeld
  <2> QED BY <2>1, <2>2 DEF Places, InPlace
<1>4. ASSUME NEW buf \in {wbuf, rbuf}, NEW i \in DOMAIN buf.data
      PROVE  InPlace(buf.path, buf.offset + i - 1, buf.data[i])
  <2>1. BufferHeld(Places(names), buf)
    BY <1>1 DEF Held
  <2>2. buf.data # <<>>
    BY <1>4
  <2> QED BY <1>4, <2>1, <2>2, PlacedInPlace DEF BufferHeld
<1>5. ASSUME NEW i \in DOMAIN lastRead.data
      PROVE  InPlace(lastRead.path, lastRead.off + i - 1, lastRead.data[i])
  <2>1. lastRead.data # <<>>
    BY <1>5
  <2> QED BY <1>1, <1>5, <2>1, PlacedInPlace DEF Held, AnswerHeld
<1> QED BY <1>2, <1>3, <1>4, <1>5 DEF NoCrossWiring

\* Whatever the requests and their interleaving, as long as no rename is made
\* onto a path whose file another rename has just moved away and the cache has
\* not followed yet: on the server, in the cached pages, in both buffers and in
\* the answers to reads every byte is at the offset it was written to, in a
\* file that bears or bore the path it was written under.
THEOREM BytesStayInPlace == Spec /\ []RenamesApart => []NoCrossWiring
<1>1. Spec /\ []RenamesApart => []PlaceInv
  BY InitPlaced, NextPlaced, PTL DEF Spec
<1> QED BY <1>1, PlacedWiring, PTL

----------------------------------------------------------------------------
(* One request at a time *)

\* The kernel makes its next request when the last one has been answered.
OneTask == \E t : Tasks = {t}

\* A step of t that has nothing to do with writes, their uploads and fsync; and
\* one that changes no file either.
Busy == Uploading \cup {"invalidate"}
Acted == {"created", "resized", "removed", "renamed"}
Still == UNCHANGED <<wbuf, accepted, applied, failed, synced>>
Aside(t) == Still /\ \E x : x.at \notin Busy /\ Goto(t, x)
Looking(t) == Still /\ disk' = disk /\ \E x : x.at \notin Busy \cup Acted /\ Goto(t, x)

LEMMA ReadingAside ==
    ASSUME NEW r, Reader(r), NEW at \in {"lookup", "attributes", "buffer"}
    PROVE  Reading(at, r).at \notin Busy \cup Acted
BY ReaderMoves DEF Busy, Uploading, Acted

LEMMA IdleAside == Idle.at \notin Busy \cup Acted
BY DEF Idle, Busy, Uploading, Acted

LEMMA ReadsAside ==
    ASSUME DataInv, NEW t \in Tasks,
           \/ FetchAttributes(t) \/ PutAttributes(t) \/ LookupPages(t)
           \/ BufferHit(t) \/ FetchData(t) \/ FillBuffer(t) \/ StorePages(t)
    PROVE  Looking(t)
<1>1. TaskOK(task[t])
  BY DEF DataInv, Typed
<1>2. Still /\ disk' = disk
  BY DEF Still, FetchAttributes, PutAttributes, LookupPages, BufferHit, FetchData, FillBuffer, StorePages,
     client, history
<1>3. CASE FetchAttributes(t)
  <2> DEFINE l == Reading("lookup", task[t])
             x == [at |-> "put_attributes", read |-> l, size |-> Len(disk[task[t].path])]
  <2>1. task[t].at = "attributes" /\ (Goto(t, l) \/ Goto(t, x))
    BY <1>3 DEF FetchAttributes
  <2>2. l.at \notin Busy \cup Acted
    BY <1>1, <2>1, ReadingAside DEF TaskOK
  <2>3. x.at \notin Busy \cup Acted
    BY DEF Busy, Uploading, Acted
  <2> HIDE DEF l, x
  <2> QED BY <1>2, <2>1, <2>2, <2>3 DEF Looking
<1>4. CASE PutAttributes(t)
  <2> DEFINE r == task[t].read
  <2>1. task[t].at = "put_attributes" /\ (Goto(t, Idle) \/ Goto(t, r))
    BY <1>4 DEF PutAttributes, Answer
  <2>2. r.at \notin Busy \cup Acted
    BY <1>1, <2>1 DEF TaskOK, Busy, Uploading, Acted
  <2> HIDE DEF r
  <2> QED BY <1>2, <2>1, <2>2, IdleAside DEF Looking
<1>5. CASE LookupPages(t)
  <2> DEFINE x == Reading("buffer", task[t])
  <2>1. task[t].at = "lookup" /\ (Goto(t, Idle) \/ Goto(t, x))
    BY <1>5 DEF LookupPages, Answer
  <2>2. x.at \notin Busy \cup Acted
    BY <1>1, <2>1, ReadingAside DEF TaskOK
  <2> HIDE DEF x
  <2> QED BY <1>2, <2>1, <2>2, IdleAside DEF Looking
<1>6. CASE BufferHit(t) \/ StorePages(t)
  <2>1. Goto(t, Idle)
    BY <1>6 DEF BufferHit, StorePages, Answer
  <2> QED BY <1>2, <2>1, IdleAside DEF Looking
<1>7. CASE FetchData(t)
  <2> DEFINE r == task[t]
             x == [at |-> "fill", read |-> r,
                   data |-> SubSeq(disk[r.path], r.off + 1, Lesser(r.off + Capacity, Len(disk[r.path])))]
  <2>1. Goto(t, Idle) \/ Goto(t, x)
    BY <1>7 DEF FetchData
  <2>2. x.at \notin Busy \cup Acted
    BY DEF Busy, Uploading, Acted
  <2> HIDE DEF x
  <2> QED BY <1>2, <2>1, <2>2, IdleAside DEF Looking
<1>8. CASE FillBuffer(t)
  <2> DEFINE x == [task[t] EXCEPT !.at = "store"]
  <2>1. task[t].at = "fill" /\ Goto(t, x)
    BY <1>8 DEF FillBuffer
  <2>2. task[t] = [at |-> task[t].at, read |-> task[t].read, data |-> task[t].data]
    BY <1>1, <2>1 DEF TaskOK
  <2>3. x.at = "store"
    BY <2>2
  <2> HIDE DEF x
  <2> QED BY <1>2, <2>1, <2>3 DEF Looking, Busy, Uploading, Acted
<1> QED BY <1>3, <1>4, <1>5, <1>6, <1>7, <1>8

LEMMA NamesAside ==
    ASSUME NEW t \in Tasks, Respond(t) \/ ResponseLost(t) PROVE Looking(t)
<1>1. Still /\ disk' = disk
  BY DEF Still, Respond, ResponseLost, client, history
<1>2. CASE Renamed(t)
  <2>1. Goto(t, Idle) \/ \E x : x.at = "moved" /\ Goto(t, x)
    BY <1>2 DEF Renamed
  <2> QED BY <1>1, <2>1, IdleAside DEF Looking, Busy, Uploading, Acted
<1>3. CASE ~Renamed(t)
  <2>1. Goto(t, Idle)
    BY <1>3 DEF Respond, ResponseLost, Created, Resized, Removed, Moved
  <2> QED BY <1>1, <2>1, IdleAside DEF Looking
<1> QED BY <1>2, <1>3

LEMMA ReadFileAside ==
    ASSUME NEW t \in Tasks, NEW p, NEW off, NEW size, ReadFile(t, p, off, size) PROVE Looking(t)
<1> DEFINE r == [at |-> "lookup", path |-> p, off |-> off, size |-> size,
                 floor |-> [i \in 1 .. size |-> Latest(Acknowledged, p, off + i - 1)]]
           l == Reading("attributes", r)
<1>1. Still /\ disk' = disk /\ (Goto(t, l) \/ Goto(t, Idle) \/ Goto(t, r))
  BY DEF ReadFile, Answer, Still, client, history
<1>2. Reader(r) /\ r.at = "lookup"
  BY DEF Reader
<1> HIDE DEF r
<1>3. l.at \notin Busy \cup Acted /\ r.at \notin Busy \cup Acted
  BY <1>2, ReadingAside DEF Busy, Uploading, Acted
<1> HIDE DEF l
<1> QED BY <1>1, <1>3, IdleAside DEF Looking

\* The steps that change the names and the sizes of files.
Acts(t) ==
    \E p \in scope.files :
        \/ CreateFile(t, p) \/ Remove(t, p)
        \/ \E q \in scope.files : Rename(t, p, q)
        \/ \E size \in 0 .. MaxSize : SetSize(t, p, size)

LEMMA ActsAside == ASSUME NEW t \in Tasks, Acts(t) PROVE Aside(t)
<1>1. PICK p, q, size : CreateFile(t, p) \/ Remove(t, p) \/ Rename(t, p, q) \/ SetSize(t, p, size)
  BY DEF Acts
<1>2. Still
  BY <1>1 DEF Still, CreateFile, Remove, Rename, SetSize, client, history
<1>3. CASE CreateFile(t, p)
  BY <1>2, <1>3 DEF CreateFile, Aside, Busy, Uploading
<1>4. CASE Remove(t, p)
  BY <1>2, <1>4 DEF Remove, Aside, Busy, Uploading
<1>5. CASE Rename(t, p, q)
  BY <1>2, <1>5 DEF Rename, Aside, Busy, Uploading
<1>6. CASE SetSize(t, p, size)
  BY <1>2, <1>6 DEF SetSize, Aside, Busy, Uploading
<1> QED BY <1>1, <1>3, <1>4, <1>5, <1>6

\* The steps there are.
Transfers(t) == ServerWrite(t) \/ Uploaded(t) \/ UploadFails(t)
LEMMA DiskKinds ==
    ASSUME DataInv, [Next]_vars
    PROVE  \/ \E t \in Tasks : Looking(t) \/ Acts(t) \/ Transfers(t) \/ Flush(t) \/ FsyncInvalidate(t)
           \/ \E t \in Tasks, p \in scope.files : Fsync(t, p)
           \/ \E t \in Tasks, p \in scope.files, off \in Offsets, len \in 1 .. scope.len : WriteFile(t, p, off, len)
           \/ Still /\ UNCHANGED <<task, disk>>
<1>1. ASSUME NEW t \in Tasks, Start(t)
      PROVE  \/ Looking(t) \/ Acts(t) \/ Flush(t) \/ (\E p \in scope.files : Fsync(t, p))
             \/ \E p \in scope.files, off \in Offsets, len \in 1 .. scope.len : WriteFile(t, p, off, len)
  BY <1>1, ReadFileAside DEF Start, Acts
<1>2. ASSUME NEW t \in Tasks, Step(t) PROVE Looking(t) \/ Transfers(t) \/ FsyncInvalidate(t)
  BY <1>2, ReadsAside, NamesAside DEF Step, Transfers
<1>3. CASE (\E p \in Files : Forget(p)) \/ UNCHANGED vars
  <2>1. Still /\ UNCHANGED <<task, disk>>
    BY <1>3 DEF Forget, Still, vars, client, history
  <2> QED BY <2>1
<1> QED BY <1>1, <1>2, <1>3 DEF Next

LEMMA StepKinds ==
    ASSUME DataInv, [Next]_vars
    PROVE  \/ \E t \in Tasks : Aside(t) \/ Transfers(t) \/ Flush(t) \/ FsyncInvalidate(t)
           \/ \E t \in Tasks, p \in scope.files : Fsync(t, p)
           \/ \E t \in Tasks, p \in scope.files, off \in Offsets, len \in 1 .. scope.len : WriteFile(t, p, off, len)
           \/ Still /\ UNCHANGED task
<1>1. \A t \in Tasks : Looking(t) => Aside(t)
  BY DEF Looking, Aside
<1> QED BY <1>1, ActsAside, DiskKinds

\* What an fsync will vouch for: it has reached the server, or is reported to
\* have failed, or is still to be sent by the flush the fsync waits for.
DueDone(t) ==
    /\ task[t].at = "invalidate" => task[t].due \subseteq applied \cup failed
    /\ task[t].at \in Uploading /\ task[t].after # Idle =>
         task[t].after.due \subseteq applied \cup failed \cup Left(t)
SyncInv == DataInv /\ FsyncDurable /\ \A t \in Tasks : DueDone(t)

\* Alone, an idle task has nothing to send.
LEMMA AloneIdle ==
    ASSUME OneTask, DataInv, NEW t \in Tasks, task[t] = Idle
    PROVE  accepted = Content(wbuf.data) \cup applied \cup failed
<1>1. \A s \in Tasks : s = t
  BY DEF OneTask
<1>2. Left(t) = {}
  BY Sending, IdleOK DEF DataInv
<1>3. UNION {Left(s) : s \in Tasks} = {}
  BY <1>1, <1>2
<1> QED BY <1>3 DEF DataInv, Divided

\* It is enough to look at the task that makes the step.
LEMMA SyncStep ==
    ASSUME OneTask, SyncInv, DataInv', NEW t \in Tasks, NEW x, Goto(t, x), FsyncDurable',
           x.at = "invalidate" => x.due \subseteq applied' \cup failed',
           x.at \in Uploading /\ x.after # Idle => x.after.due \subseteq applied' \cup failed' \cup Left(t)'
    PROVE  SyncInv'
<1>1. \A s \in Tasks : s = t
  BY DEF OneTask
<1>2. task'[t] = x
  BY DEF SyncInv, DataInv, Typed, Goto
<1>3. DueDone(t)'
  BY <1>2 DEF DueDone
<1> QED BY <1>1, <1>3 DEF SyncInv

\* The bytes of the write buffer go into the queue of an upload, and nothing is
\* left of them if there are none.
LEMMA TakeBufferSync ==
    ASSUME OneTask, SyncInv, DataInv', NEW t \in Tasks, task[t] = Idle, NEW after \in Afters,
           after # Idle => after.due \subseteq accepted, TakeBuffer(t, after)
    PROVE  SyncInv'
<1> DEFINE q == IF wbuf.data = <<>> THEN <<>> ELSE <<wbuf>>
           x == Upload(q, 0, after)
<1>1. Goto(t, x) /\ UNCHANGED <<applied, failed, synced>>
  BY DEF TakeBuffer, history
<1>2. accepted = Content(wbuf.data) \cup applied \cup failed
  BY AloneIdle DEF SyncInv
<1>3. task'[t] = x
  BY <1>1 DEF SyncInv, DataInv, Typed, Goto
<1>4. FsyncDurable'
  BY <1>1 DEF SyncInv, FsyncDurable
<1>5. CASE wbuf.data = <<>>
  <2>1. x = after
    BY <1>5 DEF Upload
  <2>2. after.at \notin Uploading /\ (after.at = "invalidate" => after # Idle)
    BY DEF Afters, Idle, Uploading
  <2>3. Content(wbuf.data) = {}
    BY <1>5, ContentEmpty
  <2> HIDE DEF x
  <2>4. x.at = "invalidate" => x.due \subseteq applied' \cup failed'
    BY <1>1, <1>2, <2>1, <2>2, <2>3
  <2> QED BY <1>1, <1>4, <2>1, <2>2, <2>4, SyncStep
<1>6. CASE wbuf.data # <<>>
  <2>1. x = [at |-> "upload", queue |-> <<wbuf>>, call |-> 0, after |-> after]
    BY <1>6 DEF Upload
  <2>2. x.at = "upload" /\ x.queue = <<wbuf>> /\ x.after = after
    BY <2>1
  <2> HIDE DEF x
  <2>3. Left(t)' = Content(wbuf.data)
    <3>1. Left(t)' = BytesOf(<<wbuf>>)
      BY <1>3, <2>2, SendingNext DEF DataInv
    <3> QED BY <3>1, QueueOfOne DEF SyncInv, DataInv, Typed
  <2>4. x.after # Idle => x.after.due \subseteq applied' \cup failed' \cup Left(t)'
    BY <1>1, <1>2, <2>2, <2>3
  <2> QED BY <1>1, <1>4, <2>2, <2>4, SyncStep
<1> QED BY <1>5, <1>6

LEMMA FsyncSync ==
    ASSUME OneTask, SyncInv, DataInv', NEW t \in Tasks, NEW p \in scope.files, Fsync(t, p) PROVE SyncInv'
<1> DEFINE after == [at |-> "invalidate", path |-> p, due |-> {b \in Acknowledged : b.path = p}]
<1>1. task[t] = Idle /\ TakeBuffer(t, after)
  BY DEF Fsync, Ready
<1>2. p \in Files /\ Acknowledged \subseteq accepted /\ accepted \subseteq Byte
  BY ScopeAssumption DEF SyncInv, DataInv, Numbered, Typed, Acknowledged
<1>3. after \in Afters /\ after.due \subseteq accepted
  BY <1>2 DEF Afters
<1> HIDE DEF after
<1> QED BY <1>1, <1>3, TakeBufferSync

LEMMA TransferSync ==
    ASSUME OneTask, SyncInv, DataInv', NEW t \in Tasks, Transfers(t) PROVE SyncInv'
<1> DEFINE q == task[t].queue
<1>0. DataInv /\ FsyncDurable /\ DueDone(t) /\ task[t].at \in Uploading
  BY DEF SyncInv, Transfers, ServerWrite, Again, Uploaded, UploadFails, Uploading
<1>1. /\ task[t] \in UploadTasks /\ task[t].after \in Afters /\ q # <<>>
      /\ BytesOf(q) = Content(Head(q).data) \cup BytesOf(Tail(q))
  BY <1>0, UploadTask
<1>2. task[t].after # Idle => task[t].after.due \subseteq applied \cup failed \cup Left(t)
  BY <1>0 DEF DueDone
<1>3. CASE ServerWrite(t)
  <2> DEFINE x == [task[t] EXCEPT !.at = "uploaded"]
  <2>1. /\ Goto(t, x) /\ applied' = applied \cup Content(Head(q).data)
        /\ UNCHANGED <<failed, synced>>
    BY <1>3 DEF ServerWrite
  <2>2. x.at = "uploaded" /\ x.queue = q /\ x.after = task[t].after
    BY <1>1 DEF UploadTasks
  <2> HIDE DEF x
  <2>3. task'[t] = x
    BY <1>0, <2>1 DEF DataInv, Typed, Goto
  <2>4. (Left(t) = BytesOf(q) \/ Left(t) = BytesOf(Tail(q))) /\ Left(t)' = BytesOf(Tail(q))
    BY <1>0, <2>2, <2>3, Sending, SendingNext DEF DataInv, Uploading
  <2>5. FsyncDurable'
    BY <1>0, <2>1 DEF FsyncDurable
  <2>6. x.after # Idle => x.after.due \subseteq applied' \cup failed' \cup Left(t)'
    BY <1>1, <1>2, <2>1, <2>2, <2>4
  <2> QED BY <2>1, <2>2, <2>5, <2>6, SyncStep
<1>4. CASE Uploaded(t)
  <2> DEFINE after == task[t].after
             x == Upload(Tail(q), task[t].call, after)
  <2>1. task[t].at = "uploaded" /\ Goto(t, x) /\ UNCHANGED <<applied, failed, synced>>
    BY <1>4 DEF Uploaded, history
  <2>2. Left(t) = BytesOf(Tail(q))
    BY <1>0, <2>1, Sending DEF DataInv
  <2>3. task'[t] = x
    BY <1>0, <2>1 DEF DataInv, Typed, Goto
  <2>4. FsyncDurable'
    BY <1>0, <2>1 DEF FsyncDurable
  <2>5. CASE Tail(q) = <<>>
    <3>1. x = after /\ Left(t) = {}
      BY <2>2, <2>5, ContentEmpty DEF Upload
    <3>2. after.at \notin Uploading /\ (after.at = "invalidate" => after # Idle)
      BY <1>1 DEF Afters, Idle, Uploading
    <3> HIDE DEF x, after
    <3>3. after # Idle => after.due \subseteq applied' \cup failed'
      BY <1>2, <2>1, <3>1 DEF after
    <3> QED BY <2>1, <2>4, <3>1, <3>2, <3>3, SyncStep
  <2>6. CASE Tail(q) # <<>>
    <3>1. x = [at |-> "upload", queue |-> Tail(q), call |-> task[t].call, after |-> after]
      BY <2>6 DEF Upload
    <3> HIDE DEF x, q, after
    <3>2. x.at = "upload" /\ x.queue = Tail(q) /\ x.after = after
      BY <3>1
    <3>3. Left(t)' = BytesOf(Tail(q))
      BY <2>3, <3>2, SendingNext DEF DataInv
    <3>4. x.after # Idle => x.after.due \subseteq applied' \cup failed' \cup Left(t)'
      BY <1>2, <2>1, <2>2, <3>2, <3>3 DEF after
    <3> QED BY <2>1, <2>4, <3>2, <3>4, SyncStep
  <2> QED BY <2>5, <2>6
<1>5. CASE UploadFails(t)
  <2>1. Goto(t, Idle) /\ failed' = failed \cup BytesOf(q) /\ UNCHANGED <<applied, synced>>
    BY <1>5 DEF UploadFails
  <2>2. FsyncDurable'
    BY <1>0, <2>1 DEF FsyncDurable
  <2> QED BY <2>1, <2>2, IdleAside, SyncStep DEF Busy
<1> QED BY <1>3, <1>4, <1>5 DEF Transfers

LEMMA NextSync == OneTask => (SyncInv /\ [Next]_vars => SyncInv')
<1> SUFFICES ASSUME OneTask, SyncInv, [Next]_vars PROVE SyncInv'
  OBVIOUS
<1>1. DataInv /\ DataInv'
  BY NextData DEF SyncInv
<1>2. ASSUME Still PROVE FsyncDurable'
  BY <1>2 DEF SyncInv, FsyncDurable, Still
<1>3. ASSUME NEW t \in Tasks, Aside(t) PROVE SyncInv'
  <2>1. PICK x : x.at \notin Busy /\ Goto(t, x)
    BY <1>3 DEF Aside
  <2> QED BY <1>1, <1>2, <1>3, <2>1, SyncStep DEF Aside, Busy
<1>4. ASSUME NEW t \in Tasks, Flush(t) PROVE SyncInv'
  <2>1. task[t] = Idle /\ TakeBuffer(t, Idle) /\ Idle \in Afters
    BY <1>4 DEF Flush, Ready, Afters
  <2> QED BY <1>1, <2>1, TakeBufferSync
<1>5. ASSUME NEW t \in Tasks, FsyncInvalidate(t) PROVE SyncInv'
  <2>1. /\ task[t].at = "invalidate" /\ Goto(t, Idle) /\ synced' = synced \cup task[t].due
        /\ UNCHANGED <<applied, failed>>
    BY <1>5 DEF FsyncInvalidate
  <2>2. FsyncDurable'
    BY <2>1 DEF SyncInv, FsyncDurable, DueDone
  <2> QED BY <1>1, <2>1, <2>2, IdleAside, SyncStep DEF Busy
<1>6. ASSUME NEW t \in Tasks, NEW p \in scope.files, NEW off \in Offsets, NEW len \in 1 .. scope.len,
             WriteFile(t, p, off, len)
      PROVE  SyncInv'
  <2>1. (\E q : Goto(t, Upload(q, Writes + 1, Idle))) /\ UNCHANGED <<applied, failed, synced>>
    BY <1>6 DEF WriteFile
  <2>2. PICK q : Goto(t, Upload(q, Writes + 1, Idle))
    BY <2>1
  <2> DEFINE x == Upload(q, Writes + 1, Idle)
  <2>3. x.at # "invalidate" /\ (x.at \in Uploading => x.after = Idle)
    BY DEF Upload, Idle, Uploading
  <2> HIDE DEF x
  <2>4. FsyncDurable'
    BY <2>1 DEF SyncInv, FsyncDurable
  <2> QED BY <1>1, <2>2, <2>3, <2>4, SyncStep DEF x
<1>7. CASE Still /\ UNCHANGED task
  <2>1. \A t \in Tasks : Left(t)' = Left(t)
    BY <1>7 DEF Left, Unsent, Uploads
  <2>2. \A t \in Tasks : DueDone(t)'
    BY <1>7, <2>1 DEF SyncInv, DueDone, Still
  <2> QED BY <1>1, <1>2, <1>7, <2>2 DEF SyncInv
<1> QED BY <1>1, <1>3, <1>4, <1>5, <1>6, <1>7, FsyncSync, TransferSync, StepKinds

LEMMA InitSync == Init => SyncInv
<1> SUFFICES ASSUME Init PROVE SyncInv
  OBVIOUS
<1>1. task = [t \in Tasks |-> Idle] /\ synced = {}
  BY DEF Init
<1>2. \A t \in Tasks : DueDone(t)
  BY <1>1, IdleAside DEF DueDone, Busy
<1> QED BY <1>1, <1>2, InitData DEF SyncInv, FsyncDurable

\* If requests come one at a time, whatever they are and whatever is lost, the
\* server has, when an fsync has succeeded, every byte that writes to the file
\* had taken before it began, or the upload of the byte was reported as failed.
THEOREM FsyncIsDurable == OneTask => (Spec => []FsyncDurable)
<1> SUFFICES ASSUME OneTask PROVE Spec => []FsyncDurable
  OBVIOUS
<1>1. SyncInv /\ [Next]_vars => SyncInv'
  BY NextSync
<1>2. SyncInv => FsyncDurable
  BY DEF SyncInv
<1> QED BY <1>1, <1>2, InitSync, PTL DEF Spec

----------------------------------------------------------------------------
(* One request at a time: what is sent again has been done                  *)

\* The server has the effect of the request whose answer is awaited.
DoneOn(d, x) ==
    /\ x.at = "uploaded" =>
         LET u == Head(x.queue) IN Overwrite(d[u.path], u.offset, u.data) = d[u.path]
    /\ x.at = "created" =>
         /\ x = [at |-> "created", path |-> x.path, size |-> Len(d[x.path])]
         /\ d[x.path] # Absent /\ Overwrite(d[x.path], 0, <<>>) = d[x.path]
    /\ x.at = "resized" =>
         /\ x = [at |-> "resized", path |-> x.path, size |-> x.size]
         /\ d[x.path] # Absent /\ SetLen(d[x.path], x.size) = d[x.path]
    /\ x.at \in {"removed", "renamed"} => d[x.path] = Absent
DoneInv == \A t \in Tasks : DoneOn(disk, task[t])

LEMMA OverwriteTwice ==
    ASSUME NEW file, file = Absent \/ file \in Seq(Bytes), NEW off \in Nat, NEW data \in Seq(Bytes)
    PROVE  LET new == Overwrite(file, off, data) IN new # Absent /\ Overwrite(new, off, data) = new
<1> DEFINE old == IF file = Absent THEN <<>> ELSE file
           n == Len(data)
           end == IF data = <<>> THEN 0 ELSE off + n
           size == Greater(Len(old), end)
           new == Overwrite(file, off, data)
<1>1. Len(old) \in Nat /\ n \in Nat /\ end \in Nat
  BY LenProperties
<1>2. new = [i \in 1 .. size |-> IF off < i /\ i <= off + n THEN data[i - off] ELSE At(old, i)]
  BY DEF Overwrite
<1>3. size \in Nat /\ Greater(size, end) = size
  BY <1>1 DEF Greater
<1>4. new # Absent
  <2>1. \A i \in 1 .. size : new[i] \in Bytes
    <3> TAKE i \in 1 .. size
    <3>1. CASE off < i /\ i <= off + n
      <4>1. i - off \in 1 .. n /\ new[i] = data[i - off]
        BY <1>1, <1>2, <1>3, <3>1
      <4> QED BY <4>1, ElementOfSeq
    <3>2. CASE ~(off < i /\ i <= off + n)
      <4>1. new[i] = At(old, i)
        BY <1>2, <3>2
      <4>2. CASE i <= Len(old)
        <5>1. i \in 1 .. Len(old) /\ old \in Seq(Bytes)
          BY <1>1, <1>3, <4>2
        <5> HIDE DEF old
        <5> QED BY <4>1, <4>2, <5>1, ElementOfSeq DEF At
      <4>3. CASE ~(i <= Len(old))
        BY <4>1, <4>3 DEF At, Bytes
      <4> QED BY <4>2, <4>3
    <3> QED BY <3>1, <3>2
  <2> HIDE DEF new, old, end, n, size
  <2>2. new \in [1 .. size -> Bytes]
    BY <1>2, <2>1
  <2>3. new \in Seq(Bytes)
    BY <1>3, <2>2
  <2> QED BY <2>3, AbsentAssumption DEF Bytes, Byte
<1> HIDE DEF new, old
<1>5. Len(new) = size
  BY <1>2, <1>3
<1>6. Overwrite(new, off, data) = [i \in 1 .. size |-> IF off < i /\ i <= off + n THEN data[i - off] ELSE At(new, i)]
  BY <1>3, <1>4, <1>5 DEF Overwrite
<1> HIDE DEF size, n
<1>7. \A i \in 1 .. size : At(new, i) = new[i]
  BY <1>3, <1>5 DEF At
<1>8. \A i \in 1 .. size : (IF off < i /\ i <= off + n THEN data[i - off] ELSE At(new, i)) = new[i]
  BY <1>2, <1>7
<1>9. Overwrite(new, off, data) = [i \in 1 .. size |-> new[i]]
  BY <1>6, <1>8
<1>10. new = [i \in 1 .. size |-> new[i]]
  BY <1>2
<1> QED BY <1>4, <1>9, <1>10 DEF new

LEMMA SetLenTwice ==
    ASSUME NEW file \in Seq(Bytes), NEW size \in Nat
    PROVE  LET new == SetLen(file, size) IN new # Absent /\ SetLen(new, size) = new
<1> DEFINE new == SetLen(file, size)
<1>1. new = [i \in 1 .. size |-> At(file, i)]
  BY DEF SetLen
<1> HIDE DEF new
<1>2. \A i \in 1 .. size : new[i] \in Bytes
  <2> TAKE i \in 1 .. size
  <2>1. CASE i <= Len(file)
    <3>1. i \in 1 .. Len(file)
      BY <2>1, LenProperties
    <3> QED BY <1>1, <2>1, <3>1, ElementOfSeq DEF At
  <2>2. CASE ~(i <= Len(file))
    BY <1>1, <2>2 DEF At, Bytes
  <2> QED BY <2>1, <2>2
<1>3. new \in [1 .. size -> Bytes]
  BY <1>1, <1>2
<1>4. new \in Seq(Bytes) /\ Len(new) = size
  BY <1>3
<1>5. new # Absent
  BY <1>4, AbsentAssumption DEF Bytes, Byte
<1>6. SetLen(new, size) = [i \in 1 .. size |-> At(new, i)]
  BY DEF SetLen
<1>7. \A i \in 1 .. size : At(new, i) = new[i]
  BY <1>4 DEF At
<1>8. SetLen(new, size) = [i \in 1 .. size |-> new[i]]
  BY <1>6, <1>7
<1>9. new = [i \in 1 .. size |-> new[i]]
  BY <1>1
<1> QED BY <1>5, <1>8, <1>9 DEF new

\* What is known of the files and of an upload.
LEMMA FilesKnown ==
    ASSUME TypeInv
    PROVE  /\ disk = [p \in Files |-> disk[p]] /\ scope.files \subseteq Files /\ MaxSize \in Nat
           /\ \A p \in Files : disk[p] = Absent \/ disk[p] \in Seq(Bytes)
           /\ task = [t \in Tasks |-> task[t]]
<1>1. PICK R : R = Anything /\ Held(R)
  BY DEF TypeInv
<1>2. disk = [p \in Files |-> disk[p]] /\ \A p \in Files : disk[p] = Absent \/ disk[p] \in Seq(Bytes)
  BY <1>1 DEF Held, DiskHeld, FileHeld, Within
<1> QED BY <1>2, ScopeAssumption DEF TypeInv, DataInv, Typed, Numbered

\* The upload that comes next, by its place in the file.
LEMMA NextUpload ==
    ASSUME TypeInv, NEW t \in Tasks, task[t].at \in Uploading
    PROVE  LET u == Head(task[t].queue)
           IN  /\ u.path \in Files /\ u.offset \in Nat /\ u.data \in Seq(Bytes)
               /\ Len(u.data) \in Nat /\ u.offset + Len(u.data) <= MaxSize
<1>1. PICK R : R = Anything /\ Held(R)
  BY DEF TypeInv
<1>2. Before(R)
  BY <1>1, AnythingSensible DEF TypeInv, Before
<1> QED BY <1>2, FirstUpload, LenProperties DEF Within

\* The first effect of a request.
LEMMA ServerWriteDone ==
    ASSUME TypeInv, NEW t \in Tasks, ServerWrite(t)
    PROVE  DoneOn(disk', task'[t])
<1> DEFINE u == Head(task[t].queue)
<1>1. /\ task[t].at \in Uploading /\ task'[t] = [task[t] EXCEPT !.at = "uploaded"]
      /\ disk' = [disk EXCEPT ![u.path] = Overwrite(@, u.offset, u.data)]
  BY FilesKnown DEF ServerWrite, Again, Uploading, Goto
<1>2. task[t] \in UploadTasks
  BY <1>1, UploadTask DEF TypeInv
<1>3. task'[t].at = "uploaded" /\ task'[t].queue = task[t].queue
  BY <1>1, <1>2 DEF UploadTasks
<1>4. u.path \in Files /\ u.offset \in Nat /\ u.data \in Seq(Bytes)
  BY <1>1, NextUpload
<1>5. Head(task'[t].queue) = u
  BY <1>3
<1> HIDE DEF u
<1>6. disk'[u.path] = Overwrite(disk[u.path], u.offset, u.data)
  BY <1>1, <1>4, FilesKnown
<1>7. Overwrite(disk'[u.path], u.offset, u.data) = disk'[u.path]
  <2>1. disk[u.path] = Absent \/ disk[u.path] \in Seq(Bytes)
    BY <1>4, FilesKnown
  <2>2. PICK file : file = disk[u.path]
    OBVIOUS
  <2>3. LET new == Overwrite(file, u.offset, u.data) IN Overwrite(new, u.offset, u.data) = new
    BY <1>4, <2>1, <2>2, OverwriteTwice
  <2> QED BY <1>6, <2>2, <2>3
<1> QED BY <1>3, <1>5, <1>7 DEF DoneOn

LEMMA ActsDone ==
    ASSUME TypeInv, NEW t \in Tasks, Acts(t) PROVE DoneOn(disk', task'[t])
<1>0. /\ disk = [p \in Files |-> disk[p]] /\ \A x : Goto(t, x) => task'[t] = x
      /\ \A p \in scope.files : p \in Files
  BY FilesKnown DEF Goto
<1>1. ASSUME NEW p \in scope.files, CreateFile(t, p) PROVE DoneOn(disk', task'[t])
  <2> DEFINE file == Overwrite(disk[p], 0, <<>>)
  <2>1. disk'[p] = file /\ task'[t] = [at |-> "created", path |-> p, size |-> Len(disk'[p])]
    BY <1>0, <1>1 DEF CreateFile
  <2>2. file # Absent /\ Overwrite(file, 0, <<>>) = file
    <3>1. <<>> \in Seq(Bytes) /\ 0 \in Nat /\ (disk[p] = Absent \/ disk[p] \in Seq(Bytes))
      BY <1>0, FilesKnown
    <3> QED BY <3>1, OverwriteTwice
  <2> HIDE DEF file
  <2> QED BY <2>1, <2>2 DEF DoneOn
<1>2. ASSUME NEW p \in scope.files, NEW size \in 0 .. MaxSize, SetSize(t, p, size) PROVE DoneOn(disk', task'[t])
  <2> DEFINE file == SetLen(disk[p], size)
  <2>1. disk'[p] = file /\ task'[t] = [at |-> "resized", path |-> p, size |-> size] /\ disk[p] \in Seq(Bytes)
    BY <1>0, <1>2, FilesKnown DEF SetSize
  <2>2. file # Absent /\ SetLen(file, size) = file
    <3>1. size \in Nat
      BY FilesKnown
    <3> QED BY <2>1, <3>1, SetLenTwice
  <2> HIDE DEF file
  <2> QED BY <2>1, <2>2 DEF DoneOn
<1>3. ASSUME NEW p \in scope.files, Remove(t, p) PROVE DoneOn(disk', task'[t])
  <2>1. disk'[p] = Absent /\ task'[t] = [at |-> "removed", path |-> p]
    BY <1>0, <1>3 DEF Remove
  <2> QED BY <2>1 DEF DoneOn
<1>4. ASSUME NEW p \in scope.files, NEW q \in scope.files, Rename(t, p, q) PROVE DoneOn(disk', task'[t])
  <2>1. disk'[p] = Absent /\ task'[t] = [at |-> "renamed", path |-> p, to |-> q]
    BY <1>0, <1>4 DEF Rename
  <2> QED BY <2>1 DEF DoneOn
<1> QED BY <1>1, <1>2, <1>3, <1>4 DEF Acts

LEMMA NextDone == OneTask => (TypeInv /\ DoneInv /\ [Next]_vars => DoneInv')
<1> SUFFICES ASSUME OneTask, TypeInv, DoneInv, [Next]_vars PROVE DoneInv'
  OBVIOUS
<1>1. DataInv
  BY DEF TypeInv
<1>2. \A s, t \in Tasks : s = t
  BY DEF OneTask
<1>3. ASSUME NEW x, x.at \notin Acted \cup {"uploaded"} PROVE DoneOn(disk', x)
  BY <1>3 DEF DoneOn, Acted
<1>4. ASSUME NEW t \in Tasks, NEW x, Goto(t, x), x.at \notin Acted \cup {"uploaded"} PROVE DoneInv'
  <2>1. task'[t] = x
    BY <1>4, FilesKnown DEF Goto
  <2> QED BY <1>2, <1>3, <1>4, <2>1 DEF DoneInv
<1>5. ASSUME NEW q, NEW call, NEW after, after = Idle \/ after.at = "invalidate"
      PROVE  Upload(q, call, after).at \notin Acted \cup {"uploaded"}
  BY <1>5 DEF Upload, Idle, Acted
<1>6. ASSUME NEW t \in Tasks, Looking(t) PROVE DoneInv'
  BY <1>4, <1>6 DEF Looking, Busy, Uploading
<1>7. ASSUME NEW t \in Tasks, Acts(t) \/ ServerWrite(t) PROVE DoneInv'
  <2>1. DoneOn(disk', task'[t])
    BY <1>7, ActsDone, ServerWriteDone
  <2> QED BY <1>2, <2>1 DEF DoneInv
<1>8. ASSUME NEW t \in Tasks, Uploaded(t) PROVE DoneInv'
  <2> DEFINE x == Upload(Tail(task[t].queue), task[t].call, task[t].after)
  <2>1. task[t].at \in Uploading /\ Goto(t, x)
    BY <1>8 DEF Uploaded, Uploading
  <2>2. task[t].after = Idle \/ task[t].after.at = "invalidate"
    BY <1>1, <2>1, UploadTask DEF Afters
  <2>3. x.at \notin Acted \cup {"uploaded"}
    BY <1>5, <2>2
  <2> HIDE DEF x
  <2> QED BY <1>4, <2>1, <2>3
<1>9. ASSUME NEW t \in Tasks, UploadFails(t) \/ FsyncInvalidate(t) PROVE DoneInv'
  <2>1. Goto(t, Idle) /\ Idle.at \notin Acted \cup {"uploaded"}
    BY <1>9 DEF UploadFails, FsyncInvalidate, Idle, Acted
  <2> QED BY <1>4, <2>1
<1>10. ASSUME NEW t \in Tasks, Flush(t) \/ \E p \in scope.files : Fsync(t, p) PROVE DoneInv'
  <2>1. PICK after : TakeBuffer(t, after) /\ (after = Idle \/ after.at = "invalidate")
    <3>1. CASE Flush(t)
      BY <3>1 DEF Flush
    <3>2. ASSUME NEW p \in scope.files, Fsync(t, p)
          PROVE  \E after : TakeBuffer(t, after) /\ (after = Idle \/ after.at = "invalidate")
      <4> DEFINE after == [at |-> "invalidate", path |-> p, due |-> {b \in Acknowledged : b.path = p}]
      <4>1. TakeBuffer(t, after) /\ after.at = "invalidate"
        BY <3>2 DEF Fsync
      <4> HIDE DEF after
      <4> QED BY <4>1
    <3> QED BY <1>10, <3>1, <3>2
  <2> DEFINE q == IF wbuf.data = <<>> THEN <<>> ELSE <<wbuf>>
  <2>0. Goto(t, Upload(q, 0, after))
    BY <2>1 DEF TakeBuffer
  <2> DEFINE x == Upload(q, 0, after)
  <2>2. x.at \notin Acted \cup {"uploaded"}
    BY <1>5, <2>1
  <2> HIDE DEF q
  <2>3. Goto(t, x)
    BY <2>0
  <2> HIDE DEF x
  <2> QED BY <1>4, <2>2, <2>3
<1>11. ASSUME NEW t \in Tasks, NEW p, NEW off, NEW len, WriteFile(t, p, off, len) PROVE DoneInv'
  <2>1. PICK q : Goto(t, Upload(q, Writes + 1, Idle))
    BY <1>11 DEF WriteFile
  <2> DEFINE x == Upload(q, Writes + 1, Idle)
  <2>2. x.at \notin Acted \cup {"uploaded"}
    BY <1>5
  <2> HIDE DEF x
  <2> QED BY <1>4, <2>1, <2>2 DEF x
<1>12. CASE Still /\ UNCHANGED <<task, disk>>
  BY <1>12 DEF DoneInv
<1> QED BY <1>1, <1>6, <1>7, <1>8, <1>9, <1>10, <1>11, <1>12, DiskKinds DEF Transfers

LEMMA InitDone == Init => DoneInv
<1> SUFFICES ASSUME Init PROVE DoneInv
  OBVIOUS
<1>1. task = [t \in Tasks |-> Idle]
  BY DEF Init
<1> QED BY <1>1 DEF DoneInv, DoneOn, Idle

\* So the server does nothing more when such a request comes again.
LEMMA WrittenTwice ==
    ASSUME TypeInv, DoneInv, NEW t \in Tasks, ServerWrite(t), task[t].at # "upload" PROVE UNCHANGED vars
<1> DEFINE u == Head(task[t].queue)
<1>1. /\ task[t].at = "uploaded" /\ Goto(t, [task[t] EXCEPT !.at = "uploaded"])
      /\ disk' = [disk EXCEPT ![u.path] = Overwrite(@, u.offset, u.data)]
      /\ applied' = applied \cup Content(u.data) /\ Ages
      /\ UNCHANGED <<client, accepted, failed, erased, synced, lastRead, names, untold, scope>>
  BY DEF ServerWrite, Again
<1>2. task[t].at \in Uploading /\ DataInv
  BY <1>1 DEF Uploading, TypeInv
<1>3. Content(u.data) \subseteq applied
  <2>1. Content(u.data) \subseteq Sent(t) /\ Content(u.data) \cap BytesOf(Tail(task[t].queue)) = {}
    BY <1>2, UploadTask
  <2>2. Left(t) = BytesOf(Tail(task[t].queue)) /\ Sent(t) \subseteq Left(t) \cup applied
    BY <1>1, <1>2, Sending DEF DataInv, Divided
  <2> HIDE DEF u
  <2> QED BY <2>1, <2>2
<1>4. Overwrite(disk[u.path], u.offset, u.data) = disk[u.path] /\ u.path \in Files
  BY <1>1, <1>2, NextUpload DEF DoneInv, DoneOn
<1> HIDE DEF u
<1>5. disk' = disk
  BY <1>1, <1>4, FilesKnown
<1>6. task' = task
  <2>1. [task[t] EXCEPT !.at = "uploaded"] = task[t]
    BY <1>1, <1>2, UploadTask DEF UploadTasks
  <2> QED BY <1>1, <2>1, FilesKnown DEF Goto
<1>7. aged' = aged
  BY <1>1, <1>5 DEF Ages
<1> QED BY <1>1, <1>3, <1>5, <1>6, <1>7 DEF vars, history, track

LEMMA ActedTwice ==
    ASSUME TypeInv, DoneInv, NEW t \in Tasks, Acts(t), task[t] # Idle PROVE UNCHANGED vars
<1>0. /\ disk = [p \in Files |-> disk[p]] /\ task = [s \in Tasks |-> task[s]]
      /\ DoneOn(disk, task[t]) /\ \A p \in scope.files : p \in Files
  BY FilesKnown DEF DoneInv
<1>1. ASSUME NEW p \in scope.files, CreateFile(t, p) PROVE UNCHANGED vars
  <2>1. task[t].at = "created" /\ task[t].path = p
    BY <1>1 DEF CreateFile, Ready, Again
  <2>2. disk[p] = Overwrite(disk[p], 0, <<>>) /\ task[t] = [at |-> "created", path |-> p, size |-> Len(disk[p])]
    BY <1>0, <2>1 DEF DoneOn
  <2>3. disk' = disk
    BY <1>0, <1>1, <2>2 DEF CreateFile
  <2>4. task' = task
    BY <1>0, <1>1, <2>2, <2>3 DEF CreateFile, Goto
  <2> QED BY <1>1, <2>3, <2>4 DEF CreateFile, Ages, vars, track
<1>2. ASSUME NEW p \in scope.files, NEW size \in 0 .. MaxSize, SetSize(t, p, size) PROVE UNCHANGED vars
  <2>1. task[t].at = "resized" /\ task[t].path = p /\ task[t].size = size
    BY <1>2 DEF SetSize, Ready, Again
  <2>2. disk[p] = SetLen(disk[p], size) /\ task[t] = [at |-> "resized", path |-> p, size |-> size]
    BY <1>0, <2>1 DEF DoneOn
  <2>3. disk' = disk
    BY <1>0, <1>2, <2>2 DEF SetSize
  <2>4. task' = task
    BY <1>0, <1>2, <2>2 DEF SetSize, Goto
  <2> QED BY <1>2, <2>3, <2>4 DEF SetSize, Ages, vars, track
<1>3. ASSUME NEW p \in scope.files, Remove(t, p) PROVE FALSE
  <2>1. task[t].at = "removed" /\ task[t].path = p /\ disk[p] # Absent
    BY <1>3 DEF Remove, Ready, Again
  <2> QED BY <1>0, <2>1 DEF DoneOn
<1>4. ASSUME NEW p \in scope.files, NEW q \in scope.files, Rename(t, p, q) PROVE FALSE
  <2>1. task[t].at = "renamed" /\ task[t].path = p /\ disk[p] # Absent
    BY <1>4 DEF Rename, Ready, Again
  <2> QED BY <1>0, <2>1 DEF DoneOn
<1> QED BY <1>1, <1>2, <1>3, <1>4 DEF Acts

----------------------------------------------------------------------------
(* One request at a time: uploads keep the order of the writes *)

Earlier(A, B) == \A a \in A, b \in B : a.id < b.id
Ascending(q) ==
    \A i, j \in DOMAIN q : i < j => Earlier(Content(q[i].data), Content(q[j].data))

\* No hole in what is sent.
Solid(b) == b.data \in Seq(Byte)
AllSolid(q) == \A i \in DOMAIN q : Solid(q[i])

TaskOrdered(t) ==
    /\ Earlier(applied, Left(t)) /\ Earlier(Sent(t), Content(wbuf.data))
    /\ task[t].at \in Uploading => Ascending(task[t].queue) /\ AllSolid(task[t].queue)
OrderInv ==
    /\ DataInv
    /\ \A b \in accepted : b.id > 0
    /\ Earlier(applied, Content(wbuf.data)) /\ Solid(wbuf)
    /\ \A t \in Tasks : TaskOrdered(t)

LEMMA EarlierLess ==
    ASSUME NEW A, NEW B, NEW C, NEW D, Earlier(A, B), C \subseteq A, D \subseteq B PROVE Earlier(C, D)
BY DEF Earlier

LEMMA EarlierBoth ==
    ASSUME NEW A, NEW B, NEW C, Earlier(A, C), Earlier(B, C) PROVE Earlier(A \cup B, C)
BY DEF Earlier

LEMMA EarlierEmpty == ASSUME NEW A PROVE Earlier({}, A) /\ Earlier(A, {})
BY DEF Earlier

LEMMA EmptyOrdered == Ascending(<<>>) /\ AllSolid(<<>>) /\ Solid(CleanBuffer)
BY DEF Ascending, AllSolid, Solid, CleanBuffer

LEMMA OneOrdered ==
    ASSUME NEW b, Solid(b) PROVE Ascending(<<b>>) /\ AllSolid(<<b>>)
<1>1. DOMAIN <<b>> = {1} /\ <<b>>[1] = b
  OBVIOUS
<1> QED BY <1>1 DEF Ascending, AllSolid

LEMMA TwoOrdered ==
    ASSUME NEW a, NEW b, Solid(a), Solid(b), Earlier(Content(a.data), Content(b.data))
    PROVE  Ascending(Append(<<a>>, b)) /\ AllSolid(Append(<<a>>, b))
<1> DEFINE q == Append(<<a>>, b)
<1>1. DOMAIN q = {1, 2} /\ q[1] = a /\ q[2] = b
  OBVIOUS
<1> HIDE DEF q
<1>2. Ascending(q) /\ AllSolid(q)
  BY <1>1 DEF Ascending, AllSolid
<1> QED BY <1>2 DEF q

LEMMA QueueOrdered ==
    ASSUME NEW q \in Seq(Buffered), q # <<>>, Ascending(q), AllSolid(q)
    PROVE  /\ Ascending(Tail(q)) /\ AllSolid(Tail(q)) /\ Solid(Head(q))
           /\ Earlier(Content(Head(q).data), BytesOf(Tail(q)))
<1> DEFINE n == Len(q)
           tail == Tail(q)
<1>1. /\ Head(q) = q[1] /\ n \in Nat \ {0} /\ DOMAIN q = 1 .. n /\ DOMAIN tail = 1 .. n - 1
      /\ \A i \in 1 .. n - 1 : tail[i] = q[i + 1]
  <2>1. tail \in Seq(Buffered) /\ Len(tail) = n - 1 /\ \A i \in 1 .. Len(tail) : tail[i] = q[i + 1]
    BY HeadTailProperties
  <2>2. n \in Nat \ {0} /\ DOMAIN q = 1 .. n /\ DOMAIN tail = 1 .. Len(tail)
    BY <2>1, LenProperties, EmptySeq
  <2> QED BY <2>1, <2>2
<1> HIDE DEF n, tail
<1>2. \A i \in 1 .. n - 1 : i + 1 \in 1 .. n /\ 1 < i + 1 /\ 1 \in 1 .. n
  BY <1>1
<1>3. Ascending(tail)
  <2>1. ASSUME NEW i \in 1 .. n - 1, NEW j \in 1 .. n - 1, i < j
        PROVE  Earlier(Content(tail[i].data), Content(tail[j].data))
    <3>1. i + 1 < j + 1
      BY <2>1
    <3> QED BY <1>1, <1>2, <3>1 DEF Ascending
  <2> QED BY <1>1, <2>1 DEF Ascending
<1>4. AllSolid(tail) /\ Solid(q[1])
  BY <1>1, <1>2 DEF AllSolid
<1>5. ASSUME NEW a \in Content(q[1].data), NEW b \in BytesOf(tail) PROVE a.id < b.id
  <2>1. PICK i \in 1 .. n - 1 : b \in Content(tail[i].data)
    BY <1>1 DEF BytesOf
  <2> QED BY <1>1, <1>2, <2>1 DEF Ascending, Earlier
<1> QED BY <1>1, <1>3, <1>4, <1>5 DEF Earlier, tail

\* It is enough to look at the task that makes the step.
LEMMA OrderStep ==
    ASSUME OneTask, OrderInv, DataInv', NEW t \in Tasks, NEW x, Goto(t, x),
           Earlier(applied', Content(wbuf'.data)), Solid(wbuf'), \A b \in accepted' : b.id > 0,
           Earlier(applied', Left(t)'), Earlier(Sent(t)', Content(wbuf'.data)),
           x.at \in Uploading => Ascending(x.queue) /\ AllSolid(x.queue)
    PROVE  OrderInv'
<1>1. \A s \in Tasks : s = t
  BY DEF OneTask
<1>2. task'[t] = x
  BY DEF OrderInv, DataInv, Typed, Goto
<1>3. TaskOrdered(t)'
  BY <1>2 DEF TaskOrdered
<1> QED BY <1>1, <1>3 DEF OrderInv

LEMMA TransferOrder ==
    ASSUME OneTask, OrderInv, DataInv', NEW t \in Tasks, Transfers(t) PROVE OrderInv'
<1> DEFINE q == task[t].queue
<1>0. /\ DataInv /\ TaskOrdered(t) /\ task[t].at \in Uploading /\ Earlier(applied, Content(wbuf.data))
      /\ Solid(wbuf) /\ \A b \in accepted : b.id > 0
  BY DEF OrderInv, Transfers, ServerWrite, Again, Uploaded, UploadFails, Uploading
<1>1. /\ task[t] \in UploadTasks /\ task[t].after \in Afters /\ q # <<>> /\ q \in Seq(Buffered)
      /\ BytesOf(q) = Content(Head(q).data) \cup BytesOf(Tail(q)) /\ Sent(t) = BytesOf(q)
  BY <1>0, UploadTask
<1>2. /\ Ascending(q) /\ AllSolid(q) /\ Ascending(Tail(q)) /\ AllSolid(Tail(q))
      /\ Earlier(Content(Head(q).data), BytesOf(Tail(q)))
      /\ Earlier(applied, Left(t)) /\ Earlier(Sent(t), Content(wbuf.data))
  BY <1>0, <1>1, QueueOrdered DEF TaskOrdered
<1>3. CASE ServerWrite(t)
  <2> DEFINE x == [task[t] EXCEPT !.at = "uploaded"]
  <2>1. /\ Goto(t, x) /\ applied' = applied \cup Content(Head(q).data)
        /\ UNCHANGED <<wbuf, accepted>>
    BY <1>3 DEF ServerWrite, client
  <2>2. x.at = "uploaded" /\ x.queue = q
    BY <1>1 DEF UploadTasks
  <2> HIDE DEF x
  <2>3. task'[t] = x
    BY <1>0, <2>1 DEF DataInv, Typed, Goto
  <2>4. /\ Left(t) = BytesOf(q) \/ Left(t) = BytesOf(Tail(q))
        /\ Left(t)' = BytesOf(Tail(q)) /\ Sent(t)' = BytesOf(q)
    BY <1>0, <2>2, <2>3, Sending, SendingNext DEF DataInv, Uploading
  <2> HIDE DEF q
  <2>5. Earlier(applied', Left(t)')
    <3>1. Earlier(applied, BytesOf(Tail(q)))
      <4>1. BytesOf(Tail(q)) \subseteq Left(t) /\ applied \subseteq applied
        BY <1>1, <2>4
      <4> QED BY <1>2, <4>1, EarlierLess
    <3>2. Earlier(applied \cup Content(Head(q).data), BytesOf(Tail(q)))
      BY <1>2, <3>1, EarlierBoth
    <3> QED BY <2>1, <2>4, <3>2
  <2>6. Earlier(applied', Content(wbuf'.data))
    <3>1. Earlier(Content(Head(q).data), Content(wbuf.data))
      <4>1. Content(Head(q).data) \subseteq Sent(t) /\ Content(wbuf.data) \subseteq Content(wbuf.data)
        BY <1>1
      <4> QED BY <1>2, <4>1, EarlierLess
    <3>2. Earlier(applied \cup Content(Head(q).data), Content(wbuf.data))
      BY <1>0, <3>1, EarlierBoth
    <3> QED BY <2>1, <3>2
  <2>7. Earlier(Sent(t)', Content(wbuf'.data))
    BY <1>1, <1>2, <2>1, <2>4
  <2>8. Solid(wbuf') /\ \A b \in accepted' : b.id > 0
    BY <1>0, <2>1
  <2> QED BY <1>2, <2>1, <2>2, <2>5, <2>6, <2>7, <2>8, OrderStep
<1>4. CASE Uploaded(t)
  <2> DEFINE x == Upload(Tail(q), task[t].call, task[t].after)
  <2>1. task[t].at = "uploaded" /\ Goto(t, x) /\ UNCHANGED <<wbuf, accepted, applied>>
    BY <1>4 DEF Uploaded, history
  <2>2. Left(t) = BytesOf(Tail(q))
    BY <1>0, <2>1, Sending DEF DataInv
  <2>3. task'[t] = x
    BY <1>0, <2>1 DEF DataInv, Typed, Goto
  <2>4. /\ Tail(q) # <<>> => x.at = "upload" /\ x.queue = Tail(q)
        /\ Tail(q) = <<>> => x.at \notin Uploading
    BY <1>0, UploadTask, UploadOK
  <2> HIDE DEF x, q
  <2>5. Sent(t)' = BytesOf(Tail(q)) /\ Left(t)' = BytesOf(Tail(q))
    BY <2>3, <2>4, SendingNext, ContentEmpty DEF DataInv
  <2>6. Earlier(Sent(t)', Content(wbuf'.data))
    <3>1. Sent(t)' \subseteq Sent(t) /\ Content(wbuf.data) \subseteq Content(wbuf.data)
      BY <1>1, <2>5
    <3>2. Earlier(Sent(t)', Content(wbuf.data))
      BY <1>2, <3>1, EarlierLess
    <3> QED BY <2>1, <3>2
  <2>7. x.at \in Uploading => Ascending(x.queue) /\ AllSolid(x.queue)
    BY <1>2, <2>4
  <2>8. Earlier(applied', Left(t)') /\ Earlier(applied', Content(wbuf'.data))
    BY <1>0, <1>2, <2>1, <2>2, <2>5
  <2>9. Solid(wbuf') /\ \A b \in accepted' : b.id > 0
    BY <1>0, <2>1
  <2> QED BY <2>1, <2>6, <2>7, <2>8, <2>9, OrderStep
<1>5. CASE UploadFails(t)
  <2>1. Goto(t, Idle) /\ UNCHANGED <<wbuf, accepted, applied>>
    BY <1>5 DEF UploadFails, client
  <2>2. task'[t] = Idle
    BY <1>0, <2>1 DEF DataInv, Typed, Goto
  <2>3. Sent(t)' = {} /\ Left(t)' = {}
    BY <2>2, IdleOK, SendingNext DEF DataInv
  <2>4. Earlier(applied', Left(t)') /\ Earlier(Sent(t)', Content(wbuf'.data))
    BY <2>3, EarlierEmpty
  <2>5. Earlier(applied', Content(wbuf'.data)) /\ Solid(wbuf') /\ \A b \in accepted' : b.id > 0
    BY <1>0, <2>1
  <2> QED BY <2>1, <2>4, <2>5, IdleOK, OrderStep
<1> QED BY <1>3, <1>4, <1>5 DEF Transfers

LEMMA TakeBufferOrder ==
    ASSUME OneTask, OrderInv, DataInv', NEW t \in Tasks, task[t] = Idle, NEW after \in Afters,
           TakeBuffer(t, after)
    PROVE  OrderInv'
<1> DEFINE q == IF wbuf.data = <<>> THEN <<>> ELSE <<wbuf>>
           x == Upload(q, 0, after)
<1>1. /\ Goto(t, x) /\ wbuf' = (IF wbuf.data = <<>> THEN wbuf ELSE CleanBuffer)
      /\ UNCHANGED <<accepted, applied>>
  BY DEF TakeBuffer, history
<1>2. /\ wbuf \in Buffered /\ Solid(wbuf) /\ Earlier(applied, Content(wbuf.data))
      /\ \A b \in accepted : b.id > 0
  BY DEF OrderInv, DataInv, Typed
<1>3. Content(wbuf'.data) = {} /\ Solid(wbuf')
  BY <1>1, <1>2, ContentEmpty, EmptyOrdered DEF CleanBuffer
<1>4. q \in Seq(Buffered) /\ Apart(q) /\ Ascending(q) /\ AllSolid(q) /\ BytesOf(q) = Content(wbuf.data)
  <2>1. CASE wbuf.data = <<>>
    <3>1. <<>> \in Seq(Buffered) /\ Apart(<<>>)
      BY DEF Apart
    <3> QED BY <2>1, <3>1, ContentEmpty, EmptyOrdered
  <2>2. CASE wbuf.data # <<>>
    BY <1>2, <2>2, QueueOfOne, OneOrdered
  <2> QED BY <2>1, <2>2
<1> HIDE DEF q
<1>5. (q # <<>> => x.at = "upload" /\ x.queue = q) /\ (q = <<>> => x.at \notin Uploading)
  BY <1>4, UploadOK
<1> HIDE DEF x
<1>6. task'[t] = x
  BY <1>1 DEF OrderInv, DataInv, Typed, Goto
<1>7. Left(t)' = Content(wbuf.data)
  BY <1>4, <1>5, <1>6, SendingNext, ContentEmpty DEF DataInv
<1>8. Earlier(applied', Left(t)')
  BY <1>1, <1>2, <1>7
<1>9. Earlier(applied', Content(wbuf'.data)) /\ Earlier(Sent(t)', Content(wbuf'.data))
  BY <1>3, EarlierEmpty
<1>10. x.at \in Uploading => Ascending(x.queue) /\ AllSolid(x.queue)
  BY <1>4, <1>5
<1> QED BY <1>1, <1>2, <1>3, <1>8, <1>9, <1>10, OrderStep

LEMMA BufferWriteSolid ==
    ASSUME NEW buf \in Buffered, Len(buf.data) < Capacity, Solid(buf),
           NEW p, NEW off, NEW data \in Seq(Byte)
    PROVE  Solid(BufferWrite(buf, p, off, data))
<1>1. \A n \in Nat : n <= Len(data) => SubSeq(data, 1, n) \in Seq(Byte)
  <2> TAKE n \in Nat
  <2> HAVE n <= Len(data)
  <2>1. \A i \in 1 .. n : data[i] \in Byte
    BY ElementOfSeq, LenProperties
  <2> QED BY <2>1, SubSeqProperties
<1>2. buf.data \in Seq(Byte) /\ Len(buf.data) \in Nat /\ Len(data) \in Nat /\ Capacity \in Nat
  BY CapacityAssumption, LenProperties DEF Solid
<1>3. CASE IsAppending(buf, p, off)
  <2> DEFINE n == Lesser(Len(data), Capacity - Len(buf.data))
             part == SubSeq(data, 1, n)
             b == [buf EXCEPT !.data = @ \o part]
  <2>1. n \in Nat /\ n <= Len(data)
    BY <1>2 DEF Lesser
  <2>2. part \in Seq(Byte)
    BY <1>1, <2>1
  <2>3. BufferWrite(buf, p, off, data) = b
    BY <1>3 DEF BufferWrite
  <2> HIDE DEF part, n
  <2>4. b.data = buf.data \o part
    BY DEF Buffered
  <2>5. buf.data \o part \in Seq(Byte)
    BY <1>2, <2>2, ConcatProperties
  <2> QED BY <2>3, <2>4, <2>5 DEF Solid
<1>4. CASE ~IsAppending(buf, p, off)
  <2> DEFINE n == Lesser(Len(data), Capacity)
  <2>1. n \in Nat /\ n <= Len(data)
    BY <1>2 DEF Lesser
  <2>2. BufferWrite(buf, p, off, data) = [path |-> p, offset |-> off, data |-> SubSeq(data, 1, n)]
    BY <1>4 DEF BufferWrite
  <2> HIDE DEF n
  <2> QED BY <1>1, <2>1, <2>2 DEF Solid
<1> QED BY <1>3, <1>4

LEMMA WriteFileOrder ==
    ASSUME OneTask, OrderInv, DataInv', NEW t \in Tasks,
           NEW p \in scope.files, NEW off \in Offsets, NEW len \in 1 .. scope.len, WriteFile(t, p, off, len)
    PROVE  OrderInv'
<1> DEFINE data == [i \in 1 .. len |-> [path |-> p, off |-> off + i - 1, id |-> Writes + 1]]
           appending == IsAppending(wbuf, p, off)
           pushed == IF appending \/ wbuf.data = <<>> THEN <<>> ELSE <<wbuf>>
           old == IF appending THEN wbuf ELSE CleanBuffer
           buffered == BufferWrite(old, p, off, data)
           full == IsFull(buffered)
           q == IF full THEN Append(pushed, buffered) ELSE pushed
           new == Content(data) \cap Content(buffered.data)
           x == Upload(q, Writes + 1, Idle)
<1>1. /\ task[t] = Idle
      /\ wbuf' = (IF full THEN CleanBuffer ELSE buffered)
      /\ accepted' = accepted \cup new
      /\ Goto(t, x) /\ applied' = applied
  BY DEF WriteFile, Ready
<1>2. /\ p \in Files /\ off \in Nat /\ len \in Nat \ {0}
      /\ Writes \in Nat /\ \A b \in accepted : b.id <= Writes
  BY NextNumber, ScopeAssumption DEF OrderInv, DataInv, Numbered, Offsets
<1>3. data \in Seq(Byte) /\ \A b \in Content(data) : b.id = Writes + 1
  <2>1. \A i \in 1 .. len : data[i] \in Byte /\ data[i].id = Writes + 1
    BY <1>2 DEF Byte
  <2>2. data \in [1 .. len -> Byte]
    BY <2>1
  <2>3. data \in Seq(Byte) /\ DOMAIN data = 1 .. len
    BY <1>2, <2>2
  <2> HIDE DEF data
  <2> QED BY <2>1, <2>3 DEF Content
<1>4. CleanBuffer \in Buffered /\ CleanBuffer.data = <<>> /\ Content(CleanBuffer.data) = {}
  BY ContentEmpty DEF CleanBuffer, Buffered
<1>5. /\ old \in Buffered /\ Len(old.data) < Capacity /\ Solid(old)
      /\ IsAppending(old, p, off) \/ old = CleanBuffer
      /\ wbuf \in Buffered /\ Solid(wbuf)
  BY <1>4, CapacityAssumption, EmptyOrdered DEF OrderInv, DataInv, Typed, BufferHasRoom, CleanBuffer
<1>6. \/ Content(old.data) = {} /\ pushed = <<wbuf>>
      \/ Content(old.data) = Content(wbuf.data) /\ pushed = <<>>
  <2>1. CASE appending
    BY <2>1
  <2>2. CASE ~appending /\ wbuf.data = <<>>
    BY <1>4, <2>2
  <2>3. CASE ~appending /\ wbuf.data # <<>>
    <3>1. pushed = <<wbuf>>
      BY <2>3
    <3>2. old = CleanBuffer
      BY <2>3
    <3> HIDE DEF pushed, old
    <3> QED BY <1>4, <3>1, <3>2
  <2> HIDE DEF pushed, old, appending
  <2> QED BY <2>1, <2>2, <2>3
<1> HIDE DEF data, old
<1>7. buffered \in Buffered /\ Content(buffered.data) = Content(old.data) \cup new
  <2>1. data \in Seq(Bytes)
    BY <1>3 DEF Bytes
  <2> QED BY <1>2, <1>5, <2>1, BufferWriteFacts
<1>8. Solid(buffered)
  BY <1>3, <1>5, BufferWriteSolid
<1>9. \A b \in new : b.id = Writes + 1
  BY <1>3
<1> HIDE DEF new, buffered, pushed, full
<1>10. Earlier(accepted, new) /\ Content(wbuf.data) \subseteq accepted /\ applied \subseteq accepted
  <2>1. \A b \in accepted : b.id \in Nat
    BY DEF OrderInv, DataInv, Typed, Byte
  <2>2. Earlier(accepted, new)
    BY <1>2, <1>9, <2>1 DEF Earlier
  <2> QED BY <2>2 DEF OrderInv, DataInv, Divided
<1>11. Earlier(Content(wbuf.data), new) /\ Earlier(applied, new) /\ Earlier(applied, Content(wbuf.data))
  <2>1. Earlier(applied, Content(wbuf.data))
    BY DEF OrderInv
  <2>2. Earlier(Content(wbuf.data), new) /\ Earlier(applied, new)
    BY <1>10 DEF Earlier
  <2> QED BY <2>1, <2>2
<1>12. \A b \in accepted' : b.id > 0
  BY <1>1, <1>2, <1>9 DEF OrderInv
<1>13. Earlier(applied, Content(buffered.data))
  BY <1>6, <1>7, <1>11 DEF Earlier
<1>14. q \in Seq(Buffered) /\ Apart(q) /\ Ascending(q) /\ AllSolid(q) /\ Solid(wbuf')
       /\ Earlier(applied, BytesOf(q)) /\ Earlier(applied, Content(wbuf'.data))
       /\ Earlier(BytesOf(q), Content(wbuf'.data))
  <2>0. <<>> \in Seq(Buffered) /\ Apart(<<>>) /\ Ascending(<<>>) /\ AllSolid(<<>>) /\ BytesOf(<<>>) = {}
    BY ContentEmpty, EmptyOrdered DEF Apart
  <2>1. CASE full /\ pushed = <<>>
    <3>1. q = <<buffered>> /\ wbuf' = CleanBuffer
      BY <1>1, <2>1
    <3> HIDE DEF q
    <3>2. q \in Seq(Buffered) /\ Apart(q) /\ BytesOf(q) = Content(buffered.data)
      BY <1>7, <3>1, QueueOfOne
    <3>3. Ascending(q) /\ AllSolid(q) /\ Solid(wbuf')
      BY <1>8, <3>1, OneOrdered, EmptyOrdered
    <3> QED BY <1>4, <1>13, <3>1, <3>2, <3>3, EarlierEmpty
  <2>2. CASE full /\ pushed = <<wbuf>>
    <3>1. q = Append(<<wbuf>>, buffered) /\ wbuf' = CleanBuffer
      BY <1>1, <2>2
    <3>2. Content(old.data) = {}
      BY <1>6, <2>2
    <3>3. Earlier(Content(wbuf.data), Content(buffered.data))
      BY <1>7, <1>11, <3>2
    <3>4. Content(wbuf.data) \cap Content(buffered.data) = {}
      <4>1. \A b \in Content(wbuf.data) : b.id \in Nat
        BY <1>10 DEF OrderInv, DataInv, Typed, Byte
      <4> QED BY <3>3, <4>1 DEF Earlier
    <3> HIDE DEF q
    <3>5. q \in Seq(Buffered) /\ Apart(q) /\ BytesOf(q) = Content(wbuf.data) \cup Content(buffered.data)
      BY <1>5, <1>7, <3>1, <3>4, QueueOfTwo
    <3>6. Ascending(q) /\ AllSolid(q) /\ Solid(wbuf')
      BY <1>5, <1>8, <3>1, <3>3, TwoOrdered, EmptyOrdered
    <3>7. Earlier(applied, BytesOf(q))
      BY <1>11, <1>13, <3>5 DEF Earlier
    <3> QED BY <1>4, <3>1, <3>5, <3>6, <3>7, EarlierEmpty
  <2>3. CASE ~full /\ pushed = <<>>
    BY <1>1, <1>8, <1>13, <2>0, <2>3, EarlierEmpty
  <2>4. CASE ~full /\ pushed = <<wbuf>>
    <3>1. q = <<wbuf>> /\ wbuf' = buffered
      BY <1>1, <2>4
    <3>2. Content(old.data) = {}
      BY <1>6, <2>4
    <3> HIDE DEF q
    <3>3. q \in Seq(Buffered) /\ Apart(q) /\ BytesOf(q) = Content(wbuf.data)
      BY <1>5, <3>1, QueueOfOne
    <3>4. Ascending(q) /\ AllSolid(q) /\ Solid(wbuf')
      BY <1>5, <1>8, <3>1, OneOrdered
    <3>5. Content(wbuf'.data) = new
      BY <1>7, <3>1, <3>2
    <3> QED BY <1>11, <3>3, <3>4, <3>5
  <2> QED BY <1>6, <2>1, <2>2, <2>3, <2>4
<1> HIDE DEF q
<1>15. (q # <<>> => x.at = "upload" /\ x.queue = q) /\ (q = <<>> => x.at \notin Uploading)
  <2>1. Writes + 1 \in Nat /\ Idle \in Afters
    BY <1>2 DEF Afters
  <2> QED BY <1>14, <2>1, UploadOK
<1> HIDE DEF x
<1>16. task'[t] = x
  BY <1>1 DEF OrderInv, DataInv, Typed, Goto
<1>17. Left(t)' = BytesOf(q) /\ Sent(t)' = BytesOf(q)
  BY <1>15, <1>16, SendingNext, ContentEmpty DEF DataInv
<1>18. Earlier(applied', Left(t)') /\ Earlier(Sent(t)', Content(wbuf'.data)) /\ Earlier(applied', Content(wbuf'.data))
  BY <1>1, <1>14, <1>17
<1>19. x.at \in Uploading => Ascending(x.queue) /\ AllSolid(x.queue)
  BY <1>14, <1>15
<1> QED BY <1>1, <1>12, <1>14, <1>18, <1>19, OrderStep

LEMMA NextOrder == OneTask => (OrderInv /\ [Next]_vars => OrderInv')
<1> SUFFICES ASSUME OneTask, OrderInv, [Next]_vars PROVE OrderInv'
  OBVIOUS
<1>1. DataInv /\ DataInv'
  BY NextData DEF OrderInv
<1>2. /\ Solid(wbuf) /\ Earlier(applied, Content(wbuf.data)) /\ \A b \in accepted : b.id > 0
  BY DEF OrderInv
<1>3. ASSUME NEW t \in Tasks, NEW x, x.at \notin Uploading, Goto(t, x), UNCHANGED <<wbuf, accepted, applied>>
      PROVE  OrderInv'
  <2>1. task'[t] = x
    BY <1>1, <1>3 DEF DataInv, Typed, Goto
  <2>2. Sent(t)' = {} /\ Left(t)' = {}
    BY <1>1, <1>3, <2>1, SendingNext DEF DataInv
  <2>3. Earlier(applied', Left(t)') /\ Earlier(Sent(t)', Content(wbuf'.data))
    BY <2>2, EarlierEmpty
  <2>4. Earlier(applied', Content(wbuf'.data)) /\ Solid(wbuf') /\ \A b \in accepted' : b.id > 0
    BY <1>2, <1>3
  <2> QED BY <1>1, <1>3, <2>3, <2>4, OrderStep
<1>4. ASSUME NEW t \in Tasks, Aside(t) PROVE OrderInv'
  <2>1. PICK x : x.at \notin Busy /\ Goto(t, x)
    BY <1>4 DEF Aside
  <2> QED BY <1>3, <1>4, <2>1 DEF Aside, Busy, Still
<1>5. ASSUME NEW t \in Tasks, FsyncInvalidate(t) PROVE OrderInv'
  BY <1>3, <1>5, IdleOK DEF FsyncInvalidate
<1>6. ASSUME NEW t \in Tasks, Flush(t) \/ \E p \in scope.files : Fsync(t, p) PROVE OrderInv'
  <2>1. task[t] = Idle /\ \E after \in Afters : TakeBuffer(t, after)
    <3>1. CASE Flush(t)
      <4>1. Idle \in Afters
        BY DEF Afters
      <4> QED BY <3>1, <4>1 DEF Flush, Ready
    <3>2. ASSUME NEW p \in scope.files, Fsync(t, p)
          PROVE  task[t] = Idle /\ \E after \in Afters : TakeBuffer(t, after)
      <4> DEFINE after == [at |-> "invalidate", path |-> p, due |-> {b \in Acknowledged : b.path = p}]
      <4>1. p \in Files /\ Acknowledged \subseteq Byte
        BY <1>1, ScopeAssumption DEF DataInv, Numbered, Typed, Acknowledged
      <4>2. after \in Afters
        BY <4>1 DEF Afters
      <4>3. task[t] = Idle /\ TakeBuffer(t, after)
        BY <3>2 DEF Fsync, Ready
      <4> HIDE DEF after
      <4> QED BY <4>2, <4>3
    <3> QED BY <1>6, <3>1, <3>2
  <2> QED BY <1>1, <2>1, TakeBufferOrder
<1>7. CASE Still /\ UNCHANGED task
  <2>1. \A t \in Tasks : Left(t)' = Left(t) /\ Sent(t)' = Sent(t)
    BY <1>7 DEF Left, Sent, Unsent, Uploads
  <2>2. \A t \in Tasks : TaskOrdered(t)'
    BY <1>7, <2>1 DEF OrderInv, TaskOrdered, Still
  <2> QED BY <1>1, <1>2, <1>7, <2>2 DEF OrderInv, Still
<1> QED BY <1>1, <1>4, <1>5, <1>6, <1>7, TransferOrder, WriteFileOrder, StepKinds

LEMMA InitOrder == Init => OrderInv
<1> SUFFICES ASSUME Init PROVE OrderInv
  OBVIOUS
<1>1. /\ task = [t \in Tasks |-> Idle] /\ wbuf = CleanBuffer /\ accepted = {} /\ applied = {}
      /\ DataInv /\ Content(CleanBuffer.data) = {}
  BY InitData, ContentEmpty DEF Init, CleanBuffer
<1>2. \A t \in Tasks : TaskOrdered(t)
  BY <1>1, IdleOK, Sending, EarlierEmpty DEF TaskOrdered, DataInv
<1> QED BY <1>1, <1>2, EmptyOrdered, EarlierEmpty DEF OrderInv

----------------------------------------------------------------------------
(* What the server has was uploaded, or was there at first *)

Landing(A) == [p \in Files |-> [i \in Nat |-> {Zero} \cup A \cup {b \in Byte : b.id = 0}]]
LandInv == \E R : R = Landing(applied) /\ DiskHeld(R)

LEMMA LandingSensible ==
    ASSUME NEW A \in SUBSET Byte PROVE AllSensible(Landing(A))
BY DEF AllSensible, Sensible, Landing, Bytes

LEMMA LandingMore ==
    ASSUME NEW A, NEW B, A \subseteq B PROVE \A p, q \in Files : Below(Landing(A)[p], Landing(B)[q])
BY DEF Below, Landing

LEMMA DiskMore ==
    ASSUME NEW R, NEW S, \A p \in Files : Below(R[p], S[p]), DiskHeld(R) PROVE DiskHeld(S)
BY WithinMore DEF DiskHeld, FileHeld

\* What a step does to the files of the server.
LEMMA NextDisk ==
    ASSUME NEW R, AllSensible(R), \A p, q \in Files : Below(R[p], R[q]), DiskHeld(R), DataInv, [Next]_vars,
           \A t \in Tasks : ServerWrite(t) =>
               LET u == Head(task[t].queue)
               IN  u.path \in Files /\ Within(R[u.path], u.offset, u.data) /\ u.offset + Len(u.data) <= MaxSize
    PROVE  DiskHeld(R)'
<1>0. scope.files \subseteq Files /\ MaxSize \in Nat /\ disk = [p \in Files |-> disk[p]]
  BY ScopeAssumption DEF DataInv, Numbered, DiskHeld
<1>1. ASSUME disk' = disk PROVE DiskHeld(R)'
  BY <1>1 DEF DiskHeld
<1>2. ASSUME NEW t \in Tasks, ServerWrite(t) PROVE DiskHeld(R)'
  <2> DEFINE u == Head(task[t].queue)
             file == Overwrite(disk[u.path], u.offset, u.data)
  <2>1. u.path \in Files /\ Within(R[u.path], u.offset, u.data) /\ u.offset + Len(u.data) <= MaxSize
    BY <1>2
  <2>2. disk' = [disk EXCEPT ![u.path] = file]
    BY <1>0, <1>2, <2>1 DEF ServerWrite
  <2> HIDE DEF u
  <2>3. FileHeld(R[u.path], file)
    BY <2>1, OverwriteHeld DEF DiskHeld, AllSensible
  <2> HIDE DEF file
  <2> QED BY <2>1, <2>2, <2>3, DiskPut
<1>3. ASSUME NEW t \in Tasks, NEW p \in scope.files, CreateFile(t, p) PROVE DiskHeld(R)'
  <2> DEFINE file == Overwrite(disk[p], 0, <<>>)
  <2>1. p \in Files /\ disk' = [disk EXCEPT ![p] = file]
    BY <1>0, <1>3 DEF CreateFile
  <2>2. Within(R[p], 0, <<>>) /\ 0 + Len(<<>>) <= MaxSize
    BY <1>0, WithinEmpty
  <2>3. FileHeld(R[p], file)
    BY <2>1, <2>2, OverwriteHeld DEF DiskHeld, AllSensible
  <2> HIDE DEF file
  <2> QED BY <2>1, <2>3, DiskPut
<1>4. ASSUME NEW t \in Tasks, NEW p \in scope.files, NEW size \in 0 .. MaxSize, SetSize(t, p, size)
      PROVE  DiskHeld(R)'
  <2> DEFINE file == SetLen(disk[p], size)
  <2>1. p \in Files /\ disk[p] # Absent /\ disk' = [disk EXCEPT ![p] = file]
    BY <1>0, <1>4 DEF SetSize
  <2>2. FileHeld(R[p], file)
    BY <2>1, SetLenHeld DEF DiskHeld, AllSensible
  <2> HIDE DEF file
  <2> QED BY <2>1, <2>2, DiskPut
<1>5. ASSUME NEW t \in Tasks, NEW p \in scope.files, Remove(t, p) PROVE DiskHeld(R)'
  <2>1. p \in Files /\ disk' = [disk EXCEPT ![p] = Absent]
    BY <1>0, <1>5 DEF Remove
  <2> QED BY <2>1, DiskPut
<1>6. ASSUME NEW t \in Tasks, NEW p \in scope.files, NEW q \in scope.files, Rename(t, p, q) PROVE DiskHeld(R)'
  <2>1. /\ p \in Files /\ q \in Files /\ p # q /\ disk[p] # Absent
        /\ disk' = [disk EXCEPT ![q] = disk[p], ![p] = Absent]
    BY <1>0, <1>6 DEF Rename
  <2>2. FileHeld(R[q], disk[p])
    BY <2>1, WithinMore DEF DiskHeld, FileHeld
  <2>3. disk' = [u \in Files |-> IF u = p THEN Absent ELSE IF u = q THEN disk[p] ELSE disk[u]]
    BY <1>0, <2>1
  <2>4. disk' = [u \in Files |-> disk'[u]] /\ disk'[p] = Absent /\ disk'[q] = disk[p]
        /\ \A u \in Files \ {p, q} : disk'[u] = disk[u]
    BY <2>1, <2>3
  <2> QED BY <2>2, <2>4 DEF DiskHeld
<1>7. ASSUME NEW t \in Tasks, Start(t) PROVE DiskHeld(R)'
  <2>1. \A after : TakeBuffer(t, after) => disk' = disk
    BY DEF TakeBuffer
  <2>2. \A p, off, len : WriteFile(t, p, off, len) \/ ReadFile(t, p, off, len) => disk' = disk
    BY DEF WriteFile, ReadFile
  <2> QED BY <1>1, <1>3, <1>4, <1>5, <1>6, <1>7, <2>1, <2>2 DEF Start, Flush, Fsync
<1>8. ASSUME NEW t \in Tasks, Step(t), ~ServerWrite(t) PROVE DiskHeld(R)'
  <2>1. disk' = disk
    BY <1>8 DEF Step, Uploaded, UploadFails, FsyncInvalidate, FetchAttributes, PutAttributes,
       LookupPages, BufferHit, FetchData, FillBuffer, StorePages, Respond, ResponseLost
  <2> QED BY <1>1, <2>1
<1> QED BY <1>1, <1>2, <1>7, <1>8 DEF Next, Forget, vars

LEMMA AppliedGrows ==
    ASSUME DataInv, [Next]_vars PROVE applied \subseteq applied'
<1>1. \A t \in Tasks : Transfers(t) => applied \subseteq applied'
  BY DEF Transfers, ServerWrite, Uploaded, UploadFails, history
<1>2. \A t \in Tasks : (Flush(t) \/ \E p \in scope.files : Fsync(t, p)) => applied' = applied
  BY DEF Flush, Fsync, TakeBuffer, history
<1>3. \A t \in Tasks : \A p, off, len : WriteFile(t, p, off, len) => applied' = applied
  BY DEF WriteFile
<1>4. \A t \in Tasks : FsyncInvalidate(t) => applied' = applied
  BY DEF FsyncInvalidate
<1>5. (Still \/ \E t \in Tasks : Aside(t)) => applied' = applied
  BY DEF Still, Aside
<1> QED BY <1>1, <1>2, <1>3, <1>4, <1>5, StepKinds

LEMMA NextLand == TypeInv /\ LandInv /\ [Next]_vars => LandInv'
<1> SUFFICES ASSUME TypeInv, LandInv, [Next]_vars PROVE LandInv'
  OBVIOUS
<1>1. DataInv /\ DataInv'
  BY NextData DEF TypeInv
<1>2. applied \subseteq applied' /\ applied' \in SUBSET Byte
  <2>1. applied' \subseteq Byte
    BY <1>1 DEF DataInv, Divided, Typed
  <2> QED BY <1>1, <2>1, AppliedGrows
<1>3. PICK R : R = Landing(applied) /\ DiskHeld(R)
  BY DEF LandInv
<1>4. PICK S : S = Landing(applied')
  OBVIOUS
<1>5. AllSensible(S) /\ \A p, q \in Files : Below(S[p], S[q])
  BY <1>2, <1>4, LandingSensible, LandingMore
<1>6. DiskHeld(S)
  BY <1>2, <1>3, <1>4, LandingMore, DiskMore
<1>7. ASSUME NEW t \in Tasks, ServerWrite(t)
      PROVE  LET u == Head(task[t].queue)
             IN  u.path \in Files /\ Within(S[u.path], u.offset, u.data) /\ u.offset + Len(u.data) <= MaxSize
  <2> DEFINE u == Head(task[t].queue)
  <2>1. task[t].at \in Uploading /\ Content(u.data) \subseteq applied'
    BY <1>7 DEF ServerWrite, Again, Uploading
  <2>2. /\ u.path \in Files /\ u.offset \in Nat /\ u.data \in Seq(Bytes)
        /\ Len(u.data) \in Nat /\ u.offset + Len(u.data) <= MaxSize
    BY <2>1, NextUpload
  <2> HIDE DEF u
  <2>3. ASSUME NEW j \in 1 .. Len(u.data) PROVE u.data[j] \in S[u.path][u.offset + j - 1]
    <3>1. j \in DOMAIN u.data /\ u.offset + j - 1 \in Nat
      BY <2>2, LenProperties
    <3>2. u.data[j] = Zero \/ u.data[j] \in applied'
      BY <2>1, <3>1 DEF Content
    <3> QED BY <1>4, <2>2, <3>1, <3>2 DEF Landing
  <2> QED BY <2>2, <2>3 DEF Within, u
<1>8. DiskHeld(S)'
  BY <1>1, <1>5, <1>6, <1>7, NextDisk
<1> QED BY <1>4, <1>8 DEF LandInv

LEMMA InitLand == Init => LandInv
<1> SUFFICES ASSUME Init PROVE LandInv
  OBVIOUS
<1>1. applied = {}
  BY DEF Init
<1>2. PICK R : R = Landing({})
  OBVIOUS
<1>3. AllSensible(R)
  BY <1>2, LandingSensible
<1>4. \A p \in Files : \A i \in Offsets : [path |-> p, off |-> i, id |-> 0] \in R[p][i]
  <2>1. Offsets \subseteq Nat
    BY ScopeAssumption DEF Offsets
  <2> QED BY <1>2, <2>1 DEF Landing, Byte
<1>5. Held(R)
  BY <1>3, <1>4, InitHeld
<1> QED BY <1>1, <1>2, <1>5 DEF LandInv, Held

\* What Storage::write_file does to a byte of the file.
LEMMA OverwriteByte ==
    ASSUME NEW file \in Seq(Bytes), file # Absent, NEW off \in Nat, NEW data \in Seq(Bytes), NEW i \in 1 .. Len(file)
    PROVE  LET new == At(Overwrite(file, off, data), i)
           IN  new = file[i] \/ \E j \in 1 .. Len(data) : new = data[j]
<1> DEFINE n == Len(data)
           size == Greater(Len(file), IF data = <<>> THEN 0 ELSE off + n)
           new == Overwrite(file, off, data)
<1>1. Len(file) \in Nat /\ n \in Nat
  BY LenProperties
<1>2. new = [k \in 1 .. size |-> IF off < k /\ k <= off + n THEN data[k - off] ELSE At(file, k)]
  BY DEF Overwrite
<1> HIDE DEF n, new
<1>3. size \in Nat /\ Len(file) <= size
  BY <1>1 DEF Greater
<1> HIDE DEF size
<1>4. i \in 1 .. size /\ At(file, i) = file[i]
  BY <1>1, <1>3 DEF At
<1>5. Len(new) = size
  BY <1>2, <1>3
<1>6. At(new, i) = new[i]
  BY <1>3, <1>4, <1>5 DEF At
<1>7. CASE off < i /\ i <= off + n
  <2>1. i - off \in 1 .. n /\ new[i] = data[i - off]
    BY <1>1, <1>2, <1>4, <1>7
  <2> QED BY <1>6, <2>1 DEF n, new
<1>8. CASE ~(off < i /\ i <= off + n)
  BY <1>2, <1>4, <1>6, <1>8 DEF new
<1> QED BY <1>7, <1>8

\* A byte of the file was uploaded before those still to come.
LEMMA ServerWriteWins ==
    ASSUME TypeInv, DoneInv, OrderInv, LandInv, NEW t \in Tasks, ServerWrite(t),
           NEW p \in Files, disk[p] # Absent, NEW i \in DOMAIN disk[p],
           disk[p][i] # Zero, At(disk'[p], i) # disk[p][i]
    PROVE  At(disk'[p], i) # Zero /\ At(disk'[p], i).id > disk[p][i].id
<1> DEFINE u == Head(task[t].queue)
           q == task[t].queue
<1>0. disk[p] \in Seq(Bytes) /\ At(disk[p], i) = disk[p][i]
  <2>1. disk[p] \in Seq(Bytes)
    BY FilesKnown
  <2>2. DOMAIN disk[p] = 1 .. Len(disk[p])
    BY <2>1, LenProperties
  <2> QED BY <2>1, <2>2 DEF At
<1>1. /\ task[t].at = "upload" /\ task[t].at \in Uploading
      /\ disk' = [disk EXCEPT ![u.path] = Overwrite(@, u.offset, u.data)]
  <2>1. CASE task[t].at # "upload"
    BY <1>0, <2>1, WrittenTwice DEF vars
  <2> QED BY <2>1 DEF ServerWrite, Uploading
<1>2. u.path \in Files /\ u.offset \in Nat /\ u.data \in Seq(Bytes)
  BY <1>1, NextUpload
<1>3. PICK R : R = Landing(applied) /\ DiskHeld(R)
  BY DEF LandInv
<1>4. disk[p] \in Seq(Bytes) /\ i \in 1 .. Len(disk[p]) /\ disk[p][i] \in R[p][0 + i - 1]
  <2>1. Within(R[p], 0, disk[p])
    BY <1>3 DEF DiskHeld, FileHeld
  <2>2. disk[p] \in Seq(Bytes) /\ i \in 1 .. Len(disk[p])
    BY <2>1, LenProperties DEF Within
  <2> QED BY <2>1, <2>2 DEF Within
<1>5. disk[p][i] \in applied \/ disk[p][i].id = 0
  <2>1. 0 + i - 1 \in Nat
    BY <1>4
  <2> QED BY <1>3, <1>4, <2>1 DEF Landing
<1>6. p = u.path /\ disk'[p] = Overwrite(disk[p], u.offset, u.data)
  <2>1. disk = [x \in Files |-> disk[x]]
    BY <1>3 DEF DiskHeld
  <2>2. disk'[p] = IF p = u.path THEN Overwrite(disk[p], u.offset, u.data) ELSE disk[p]
    <3> HIDE DEF u
    <3> QED BY <1>1, <1>2, <2>1
  <2>3. At(disk[p], i) = disk[p][i]
    BY <1>4 DEF At
  <2> QED BY <2>2, <2>3
<1> HIDE DEF u
<1>7. PICK j \in 1 .. Len(u.data) : At(disk'[p], i) = u.data[j]
  BY <1>2, <1>4, <1>6, OverwriteByte
<1>8. u.data[j] \in Byte /\ u.data[j] # Zero /\ u.data[j] \in Content(u.data)
  <2>1. u.data \in Seq(Byte)
    <3>1. AllSolid(q) /\ Ascending(q)
      BY <1>1 DEF OrderInv, TaskOrdered
    <3>2. q \in Seq(Buffered) /\ q # <<>>
      BY <1>1, UploadTask DEF OrderInv
    <3> QED BY <3>1, <3>2, QueueOrdered DEF Solid, u
  <2>2. u.data[j] \in Byte /\ j \in DOMAIN u.data
    BY <2>1, ElementOfSeq, LenProperties
  <2> QED BY <2>2, ZeroAssumption DEF Content, Byte
<1>9. u.data[j] \in Left(t)
  <2>1. Left(t) = BytesOf(q)
    BY <1>1, Sending DEF OrderInv, DataInv
  <2>2. Content(u.data) \subseteq BytesOf(q)
    BY <1>1, UploadTask DEF OrderInv, u
  <2> QED BY <1>8, <2>1, <2>2
<1>10. u.data[j].id > 0
  BY <1>9 DEF OrderInv, DataInv, Divided
<1>11. disk[p][i] \in applied => disk[p][i].id < u.data[j].id
  BY <1>9 DEF OrderInv, TaskOrdered, Earlier
<1>12. disk[p][i].id \in Nat /\ u.data[j].id \in Nat
  <2>1. disk[p][i] \in Byte
    <3>1. disk[p][i] \in Bytes
      BY <1>4, ElementOfSeq
    <3> QED BY <3>1 DEF Bytes
  <2> QED BY <1>8, <2>1 DEF Byte
<1> QED BY <1>5, <1>7, <1>8, <1>10, <1>11, <1>12

\* If requests come one at a time, whatever they are, whichever files they
\* create, truncate, remove and rename, and whatever is lost: an upload never
\* puts a byte over one that a later write has put into the file.
THEOREM LastWriteStays == OneTask => (Spec => LastWriteWins)
<1> SUFFICES ASSUME OneTask PROVE Spec => LastWriteWins
  OBVIOUS
<1>1. OrderInv /\ [Next]_vars => OrderInv'
  BY NextOrder
<1>2. ASSUME TypeInv, DoneInv, OrderInv, LandInv, NEW t \in Tasks, ServerWrite(t), NEW p \in Files, disk[p] # Absent,
             NEW i \in DOMAIN disk[p]
      PROVE  LET old == disk[p][i]
                 new == At(disk'[p], i)
             IN  (old # Zero /\ new # old) => new # Zero /\ (new.path = old.path => new.id > old.id)
  BY <1>2, ServerWriteWins
<1>3. TypeInv /\ DoneInv /\ OrderInv /\ LandInv /\ [Next]_vars =>
        [(\E t \in Tasks : ServerWrite(t)) =>
         \A p \in Files : disk[p] # Absent =>
            \A i \in DOMAIN disk[p] :
               LET old == disk[p][i]
                   new == At(disk'[p], i)
               IN  (old # Zero /\ new # old) => new # Zero /\ (new.path = old.path => new.id > old.id)]_vars
  BY <1>2
<1>4. TypeInv /\ DoneInv /\ [Next]_vars => DoneInv'
  BY NextDone
<1> QED BY <1>1, <1>3, <1>4, InitOrder, InitDone, InitLand, NextLand, TypeInvariant, PTL DEF Spec, LastWriteWins

----------------------------------------------------------------------------
(* What a cached write replaces *)

LEMMA Place ==
    ASSUME NEW pos \in Nat
    PROVE  /\ pos \div PageSize \in Nat /\ pos % PageSize \in 0 .. PageSize - 1
           /\ pos = (pos \div PageSize) * PageSize + (pos % PageSize)
BY PageSizeAssumption

LEMMA PageNumbers ==
    ASSUME NEW a \in Nat, NEW b \in Nat, a <= b
    PROVE  a \div PageSize \in Nat /\ b \div PageSize \in Nat /\ a \div PageSize <= b \div PageSize
<1> DEFINE q == a \div PageSize
           r == b \div PageSize
<1>1. /\ q \in Nat /\ a = q * PageSize + (a % PageSize) /\ a % PageSize \in 0 .. PageSize - 1
      /\ r \in Nat /\ b = r * PageSize + (b % PageSize) /\ b % PageSize \in 0 .. PageSize - 1
  BY Place
<1> HIDE DEF q, r
<1>2. ASSUME r < q PROVE FALSE
  <2>1. PICK d \in Nat : q = r + 1 + d
    <3>1. q - r - 1 \in Nat /\ q = r + 1 + (q - r - 1)
      BY <1>1, <1>2
    <3> QED BY <3>1
  <2>2. q * PageSize = r * PageSize + PageSize + d * PageSize
        /\ r * PageSize \in Nat /\ d * PageSize \in Nat
    BY <1>1, <2>1, PageSizeAssumption
  <2> QED BY <1>1, <2>2, PageSizeAssumption
<1> QED BY <1>1, <1>2 DEF q, r

LEMMA PageOfByte ==
    ASSUME NEW k \in Nat, NEW i \in 0 .. PageSize - 1
    PROVE  (k * PageSize + i) \div PageSize = k
<1> DEFINE pos == k * PageSize + i
           q == pos \div PageSize
<1>1. pos \in Nat /\ q \in Nat /\ pos = q * PageSize + (pos % PageSize) /\ pos % PageSize \in 0 .. PageSize - 1
  <2>1. k * PageSize \in Nat /\ i \in Nat
    BY PageSizeAssumption
  <2> HIDE DEF q
  <2>2. pos \in Nat
    BY <2>1
  <2> HIDE DEF pos
  <2> QED BY <2>2, Place DEF q
<1>e. pos = k * PageSize + i
  OBVIOUS
<1> HIDE DEF pos, q
<1>2. \A a, b \in Nat : a < b => a * PageSize + PageSize <= b * PageSize
  <2> SUFFICES ASSUME NEW a \in Nat, NEW b \in Nat, a < b PROVE a * PageSize + PageSize <= b * PageSize
    OBVIOUS
  <2>1. PICK d \in Nat : b = a + 1 + d
    <3>1. b - a - 1 \in Nat /\ b = a + 1 + (b - a - 1)
      OBVIOUS
    <3> QED BY <3>1
  <2>2. b * PageSize = a * PageSize + PageSize + d * PageSize
        /\ a * PageSize \in Nat /\ d * PageSize \in Nat
    BY <2>1, PageSizeAssumption
  <2> QED BY <2>2, PageSizeAssumption
<1>3. k * PageSize \in Nat /\ q * PageSize \in Nat
  BY <1>1, PageSizeAssumption
<1>4. ~(k < q) /\ ~(q < k)
  BY <1>1, <1>2, <1>3, <1>e, PageSizeAssumption
<1> QED BY <1>1, <1>4 DEF q, pos

\* The pages of a write.
Span(off, data) == off \div PageSize .. (off + Len(data) - 1) \div PageSize

LEMMA SpanCovers ==
    ASSUME NEW off \in Nat, NEW data \in Seq(Bytes), data # <<>>
    PROVE  /\ Span(off, data) \subseteq Nat /\ IsFiniteSet(Span(off, data))
           /\ \A k \in Nat, i \in 0 .. PageSize - 1 :
                off <= k * PageSize + i /\ k * PageSize + i < off + Len(data) => k \in Span(off, data)
<1> DEFINE last == off + Len(data) - 1
<1>1. last \in Nat /\ off <= last
  BY LenProperties, EmptySeq
<1>2. off \div PageSize \in Nat /\ last \div PageSize \in Nat
  BY <1>1, PageNumbers
<1>4. ASSUME NEW k \in Nat, NEW i \in 0 .. PageSize - 1, off <= k * PageSize + i, k * PageSize + i < off + Len(data)
      PROVE  k \in Span(off, data)
  <2> DEFINE pos == k * PageSize + i
  <2>1. pos \in Nat /\ pos \div PageSize = k
    BY PageSizeAssumption, PageOfByte
  <2>2. off <= pos /\ pos <= last
    <3>1. off <= pos /\ pos < off + Len(data) /\ Len(data) \in Nat
      BY <1>4, LenProperties
    <3> HIDE DEF pos
    <3> QED BY <2>1, <3>1
  <2> HIDE DEF pos, last
  <2>3. off \div PageSize <= k /\ k <= last \div PageSize
    BY <1>1, <2>1, <2>2, PageNumbers
  <2> QED BY <1>2, <2>3 DEF Span, last
<1> HIDE DEF last
<1>5. Span(off, data) \subseteq Nat
  BY <1>2 DEF Span, last
<1>6. IsFiniteSet(Span(off, data))
  <2> DEFINE a == off \div PageSize
             b == last \div PageSize
  <2>1. a \in Int /\ b \in Int
    BY <1>2
  <2>2. Span(off, data) = a .. b
    BY DEF Span, last
  <2> HIDE DEF a, b
  <2> QED BY <2>1, <2>2, FS_Interval
<1> QED BY <1>4, <1>5, <1>6

\* With room, a write reaches all of its pages and covers its bytes in each.
LEMMA WriteContentIs ==
    ASSUME NEW off \in Nat, NEW data \in Seq(Bytes), data # <<>>, Cardinality(Span(off, data)) < MaxPages
    PROVE  LET table == WriteContent(NoPages, off, data)
           IN  /\ DOMAIN table = Span(off, data)
               /\ \A k \in Span(off, data) : \A i \in 0 .. PageSize - 1 :
                    off <= k * PageSize + i /\ k * PageSize + i < off + Len(data) =>
                        table[k].from <= i /\ i < table[k].upto
<1> DEFINE table == WriteContent(NoPages, off, data)
           span == Span(off, data)
           visited == Visited(NoPages, off, data)
           head == off \div PageSize
<1>1. span \subseteq Nat /\ IsFiniteSet(span) /\ DOMAIN NoPages = {}
  BY SpanCovers, NoPagesHeld
<1>2. ASSUME NEW k \in span PROVE Cardinality({} \cup (head .. k - 1)) < MaxPages
  <2>1. {} \cup (head .. k - 1) \in SUBSET span
    <3>1. head \in Nat /\ (off + Len(data) - 1) \div PageSize \in Nat /\ k \in Nat
      <4>1. off + Len(data) - 1 \in Nat
        BY LenProperties, EmptySeq
      <4>2. off <= off + Len(data) - 1 /\ k \in Nat
        BY <1>1, LenProperties, EmptySeq
      <4> QED BY <4>1, <4>2, PageNumbers
    <3>2. k - 1 <= (off + Len(data) - 1) \div PageSize
      BY <3>1 DEF Span
    <3> HIDE DEF head
    <3> QED BY <3>1, <3>2 DEF Span, head
  <2> DEFINE passed == {} \cup (head .. k - 1)
  <2> HIDE DEF span, passed
  <2>2. Cardinality(passed) <= Cardinality(span) /\ Cardinality(passed) \in Nat /\ Cardinality(span) \in Nat
    BY <1>1, <2>1, FS_Subset, FS_CardinalityType DEF passed
  <2>3. Cardinality(span) < MaxPages
    BY DEF span
  <2> QED BY <2>2, <2>3, MaxPagesAssumption DEF passed
<1>3. visited = span
  <2>1. visited = {k \in span : Cardinality({} \cup (head .. k - 1)) < MaxPages}
    BY <1>1 DEF Visited, Span
  <2> HIDE DEF visited, span, head
  <2> QED BY <1>2, <2>1
<1>4. DOMAIN table = span
      /\ \A k \in span : table[k] = PageWrite(PageOf(NoPages, k), Chunk(off, data, k), PageOffset(off, k))
  BY <1>1, <1>3 DEF WriteContent
<1> HIDE DEF table
<1>5. ASSUME NEW k \in span, NEW i \in 0 .. PageSize - 1, off <= k * PageSize + i, k * PageSize + i < off + Len(data)
      PROVE  table[k].from <= i /\ i < table[k].upto
  <2> DEFINE base == k * PageSize
             next == (k + 1) * PageSize
             o == PageOffset(off, k)
             c == Chunk(off, data, k)
             m == base + o - off + 1
             n == Lesser(Len(data), next - off)
             end == Lesser(o + Len(c), PageSize)
  <2>1. k \in Nat /\ base \in Nat /\ next = base + PageSize /\ Len(data) \in Nat /\ PageSize \in Nat
    <3>1. k \in Nat
      BY <1>1
    <3> QED BY <3>1, PageSizeAssumption, LenProperties
  <2>2. o = Greater(off - base, 0) /\ c = SubSeq(data, m, n)
    BY DEF PageOffset, Chunk
  <2>3. off <= base + i /\ base + i < off + Len(data)
    BY <1>5
  <2>4. table[k] = PageWrite(NewPage, c, o)
    BY <1>1, <1>4 DEF PageOf
  <2> HIDE DEF base, next, o, c, span
  <2>5. o \in Nat /\ o <= i /\ m \in Nat \ {0} /\ m <= n /\ n \in Nat /\ n <= Len(data)
    BY <2>1, <2>2, <2>3 DEF Greater, Lesser
  <2>6. Len(c) = n - m + 1
    <3> HIDE DEF m, n
    <3>1. \A j \in m .. n : data[j] \in Bytes
      BY <2>1, <2>5, ElementOfSeq
    <3>2. Len(c) = IF m <= n THEN n - m + 1 ELSE 0
      BY <2>2, <2>5, <3>1, SubSeqProperties
    <3> QED BY <2>5, <3>2
  <2>7. i < end /\ end \in 0 .. PageSize /\ ~(o > end)
    <3> DEFINE l == Len(c)
    <3>1. o + l = off - base + n /\ l \in Nat
      <4> HIDE DEF n
      <4> QED BY <2>1, <2>5, <2>6
    <3>2. i < off - base + n
      BY <2>1, <2>3 DEF Lesser
    <3>3. end = Lesser(o + l, PageSize)
      OBVIOUS
    <3> HIDE DEF l, n, end
    <3> QED BY <2>1, <2>5, <3>1, <3>2, <3>3 DEF Lesser
  <2> HIDE DEF end, m, n
  <2>8. table[k].upto = Greater(0, end) /\ table[k].from = Lesser(PageSize, o)
    BY <2>4, <2>7 DEF PageWrite, NewPage, end
  <2> QED BY <2>1, <2>5, <2>7, <2>8 DEF Greater, Lesser
<1> HIDE DEF span
<1> QED BY <1>4, <1>5 DEF table, span

\* Page::write puts bytes of f where g said what there may be.
LEMMA PageWriteOver ==
    ASSUME NEW f, NEW g, NEW k \in Nat, NEW page, PageHeld(g, k, page),
           NEW o \in Nat, NEW c, Within(f, k * PageSize + o, c),
           \A i \in 0 .. PageSize - 1 :
             (o <= i /\ i < o + Len(c)) \/ g[k * PageSize + i] \subseteq f[k * PageSize + i]
    PROVE  PageHeld(f, k, PageWrite(page, c, o))
<1> DEFINE base == k * PageSize
           end == Lesser(o + Len(c), PageSize)
           w == PageWrite(page, c, o)
<1>1. base \in Nat /\ PageSize \in Nat /\ Len(c) \in Nat /\ end \in 0 .. PageSize /\ end <= o + Len(c)
      /\ \A i \in 0 .. PageSize - 1 : i < o + Len(c) => i < end
  <2>1. base \in Nat /\ PageSize \in Nat
    BY PageSizeAssumption
  <2>2. Len(c) \in Nat
    BY LenProperties DEF Within
  <2> QED BY <2>1, <2>2 DEF Lesser
<1>2. \A j \in 1 .. Len(c) : c[j] \in f[base + o + j - 1]
  BY DEF Within
<1>3. /\ page.upto \in 0 .. PageSize /\ page.from \in 0 .. PageSize
      /\ \A i \in 0 .. PageSize - 1 : page.content[i] \in g[base + i]
  BY DEF PageHeld
<1>4. \A i \in 0 .. PageSize - 1 : (o <= i /\ i < o + Len(c)) \/ page.content[i] \in f[base + i]
  BY <1>3
<1>5. CASE o > end
  <2>1. w = page
    BY <1>5 DEF PageWrite
  <2> HIDE DEF base, end
  <2>2. \A i \in 0 .. PageSize - 1 : ~(o <= i /\ i < o + Len(c))
    BY <1>1, <1>5
  <2>3. \A i \in 0 .. PageSize - 1 : page.content[i] \in f[base + i]
    BY <1>4, <2>2
  <2> QED BY <1>3, <2>1, <2>3 DEF PageHeld, base
<1>6. CASE ~(o > end)
  <2>1. /\ w.upto = Greater(page.upto, end) /\ w.from = Lesser(page.from, o)
        /\ \A i \in 0 .. PageSize - 1 :
             w.content[i] = IF o <= i /\ i < end THEN c[i - o + 1] ELSE page.content[i]
    <3> HIDE DEF base
    <3> QED BY <1>6 DEF PageWrite
  <2> HIDE DEF w, base, end
  <2>2. w.upto \in 0 .. PageSize /\ w.from \in 0 .. PageSize
    BY <1>1, <1>3, <2>1 DEF Greater, Lesser
  <2>3. ASSUME NEW i \in 0 .. PageSize - 1 PROVE w.content[i] \in f[base + i]
    <3>1. CASE o <= i /\ i < end
      <4>1. i - o + 1 \in 1 .. Len(c) /\ base + o + (i - o + 1) - 1 = base + i
        BY <1>1, <3>1
      <4> QED BY <1>2, <2>1, <3>1, <4>1
    <3>2. CASE ~(o <= i /\ i < end)
      <4>1. ~(o <= i /\ i < o + Len(c))
        BY <1>1, <3>2
      <4> QED BY <1>4, <2>1, <3>2, <4>1
    <3> QED BY <3>1, <3>2
  <2> QED BY <2>2, <2>3 DEF PageHeld, w, base
<1> QED BY <1>5, <1>6

\* A merge with room: it takes over all pages of the other table.
Merged(old, other, new) ==
    /\ DOMAIN new = DOMAIN old \cup DOMAIN other
    /\ \A k \in DOMAIN other : new[k] = PageWrite(PageOf(old, k), PageData(other[k]), other[k].from)
    /\ \A k \in DOMAIN old \ DOMAIN other : new[k] = old[k]

LEMMA MergeWithRoom ==
    ASSUME NEW old, NEW other, IsFiniteSet(DOMAIN old), IsFiniteSet(DOMAIN other),
           Cardinality(DOMAIN old \cup DOMAIN other) < MaxPages, NEW new \in MergePages(old, other)
    PROVE  Merged(old, other, new)
<1>1. PICK P \in MergedSets(DOMAIN old, DOMAIN other) :
        new = [k \in DOMAIN old \cup P |->
                 IF k \in P THEN PageWrite(PageOf(old, k), PageData(other[k]), other[k].from) ELSE old[k]]
  BY DEF MergePages
<1> DEFINE both == DOMAIN old \cup P
           all == DOMAIN old \cup DOMAIN other
<1>2. P \subseteq DOMAIN other /\ both \in SUBSET all
  BY <1>1 DEF MergedSets
<1>3. IsFiniteSet(all)
  BY FS_Union
<1>4. Cardinality(both) < MaxPages
  <2>1. Cardinality(all) < MaxPages
    OBVIOUS
  <2> HIDE DEF both, all
  <2>2. Cardinality(both) <= Cardinality(all) /\ Cardinality(both) \in Nat /\ Cardinality(all) \in Nat
    BY <1>2, <1>3, FS_Subset, FS_CardinalityType
  <2> QED BY <2>1, <2>2, MaxPagesAssumption
<1>5. P = DOMAIN other
  BY <1>1, <1>4 DEF MergedSets
<1> QED BY <1>1, <1>5 DEF Merged

\* cache_write_file over pages that are true outside the bytes of the write.
LEMMA CacheWriteOver ==
    ASSUME NEW f, Sensible(f), NEW off, NEW data, Within(f, off, data), data # <<>>,
           NEW g, Sensible(g), \A i \in Nat : (off <= i /\ i < off + Len(data)) \/ g[i] \subseteq f[i],
           NEW old, TableHeld(g, old), Cardinality(DOMAIN old \cup Span(off, data)) < MaxPages,
           NEW new \in CacheWrite(old, off, data)
    PROVE  TableHeld(f, new)
<1> DEFINE other == WriteContent(NoPages, off, data)
           span == Span(off, data)
           all == DOMAIN old \cup span
<1>1. off \in Nat /\ data \in Seq(Bytes) /\ Len(data) \in Nat
  BY LenProperties DEF Within
<1>2. TableHeld(f, other)
  BY <1>1, WriteContentHeld
<1>a. /\ IsFiniteSet(DOMAIN old) /\ DOMAIN old \subseteq Nat
      /\ IsFiniteSet(span) /\ span \subseteq Nat
  BY <1>1, SpanCovers DEF TableHeld
<1>b. IsFiniteSet(all) /\ Cardinality(all) \in Nat /\ Cardinality(all) < MaxPages
  BY <1>a, FS_Union, FS_CardinalityType
<1>c. Cardinality(span) < MaxPages
  <2>1. span \in SUBSET all
    OBVIOUS
  <2> HIDE DEF span, all
  <2>2. Cardinality(span) <= Cardinality(all) /\ Cardinality(span) \in Nat
    BY <1>a, <1>b, <2>1, FS_Subset, FS_CardinalityType
  <2> QED BY <1>b, <2>2, MaxPagesAssumption
<1>3. /\ DOMAIN other = span
      /\ \A k \in span : \A i \in 0 .. PageSize - 1 :
           off <= k * PageSize + i /\ k * PageSize + i < off + Len(data) =>
               other[k].from <= i /\ i < other[k].upto
  BY <1>1, <1>c, WriteContentIs
<1>m. new \in MergePages(old, other)
  BY DEF CacheWrite
<1> HIDE DEF other
<1>4. Merged(old, other, new)
  <2> HIDE DEF span
  <2> QED BY <1>3, <1>a, <1>b, <1>m, MergeWithRoom
<1>5. IsFiniteSet(DOMAIN new) /\ DOMAIN new \subseteq Nat /\ Cardinality(DOMAIN new) <= MaxPages
  <2>1. DOMAIN new = all
    BY <1>3, <1>4 DEF Merged
  <2> HIDE DEF span
  <2>2. all \subseteq Nat
    BY <1>a
  <2> HIDE DEF all
  <2> QED BY <1>b, <2>1, <2>2, MaxPagesAssumption
<1>6. ASSUME NEW k \in DOMAIN new PROVE PageHeld(f, k, new[k])
  <2> DEFINE base == k * PageSize
  <2>1. k \in Nat /\ base \in Nat /\ PageSize \in Nat
    BY <1>5, PageSizeAssumption
  <2>2. \A i \in 0 .. PageSize - 1 : base + i \in Nat
    BY <2>1
  <2>3. CASE k \in DOMAIN other
    <3> DEFINE o == other[k].from
               c == PageData(other[k])
    <3>1. PageHeld(f, k, other[k]) /\ PageHeld(g, k, PageOf(old, k))
      BY <1>2, <2>1, <2>3, PageOfHeld DEF TableHeld
    <3>2. o \in Nat /\ Within(f, k * PageSize + o, c)
      BY <2>1, <3>1, PageDataHeld
    <3>3. ASSUME NEW i \in 0 .. PageSize - 1, ~(o <= i /\ i < o + Len(c))
          PROVE  g[base + i] \subseteq f[base + i]
      <4>1. other[k].upto \in 0 .. PageSize /\ o \in Nat
        BY <3>1, <3>2 DEF PageHeld
      <4>2. o <= other[k].upto => Len(c) = other[k].upto - o
        <5> HAVE o <= other[k].upto
        <5>1. other[k].upto - o \in Nat /\ DOMAIN c = 1 .. other[k].upto - o /\ c \in Seq(Bytes)
          BY <3>2, <4>1 DEF PageData, Within
        <5> HIDE DEF c, o
        <5> QED BY <5>1, LenProperties
      <4> HIDE DEF c, o
      <4>3. ~(o <= i /\ i < other[k].upto)
        BY <2>1, <3>3, <4>1, <4>2
      <4>4. ~(off <= base + i /\ base + i < off + Len(data))
        BY <1>3, <2>3, <4>3 DEF o
      <4> HIDE DEF base
      <4> QED BY <2>2, <4>4
    <3>4. new[k] = PageWrite(PageOf(old, k), c, o)
      BY <1>4, <2>3 DEF Merged
    <3> HIDE DEF o, c
    <3> QED BY <2>1, <3>1, <3>2, <3>3, <3>4, PageWriteOver
  <2>4. CASE k \notin DOMAIN other
    <3>1. k \in DOMAIN old /\ new[k] = old[k] /\ PageHeld(g, k, old[k])
      BY <1>4, <2>4 DEF TableHeld, Merged
    <3>2. ASSUME NEW i \in 0 .. PageSize - 1 PROVE old[k].content[i] \in f[base + i]
      <4>1. ~(off <= base + i /\ base + i < off + Len(data))
        BY <1>1, <1>3, <2>1, <2>4, SpanCovers
      <4>2. old[k].content[i] \in g[base + i]
        BY <3>1 DEF PageHeld
      <4> HIDE DEF base
      <4> QED BY <2>2, <4>1, <4>2
    <3> QED BY <3>1, <3>2 DEF PageHeld
  <2> QED BY <2>3, <2>4
<1> QED BY <1>5, <1>6 DEF TableHeld

----------------------------------------------------------------------------
(* The cache and the server, of requests that come one at a time *)

\* What the pages of a file may hold: the file's own bytes, or zeros; and the
\* same before the answer to an upload has been written into them.
Now(file) == [i \in Nat |-> {Zero} \cup IF file = Absent THEN {} ELSE {At(file, i + 1)}]
Since(u, f) ==
    [i \in Nat |-> IF u.offset <= i /\ i < u.offset + Len(u.data) THEN Bytes ELSE f[i]]
Seen(x, d, p) ==
    IF x.at = "uploaded" /\ Head(x.queue).path = p THEN Since(Head(x.queue), Now(d[p]))
    ELSE Now(d[p])

\* The files that the call under way has changed and not told the cache of.
Changed(x) ==
    IF x.at = "renamed" THEN {x.path, x.to}
    ELSE IF x.at \in {"resized", "removed", "moved"} THEN {x.path} ELSE {}

TrueEntry(f, e) == e = NoEntry \/ TableHeld(f, e.pages)

PathTrue(x, d, e, n, p) == p \in n \/ p \in Changed(x) \/ TrueEntry(Seen(x, d, p), e)
CallTrue(x, d, c, n) ==
    /\ x.at = "uploaded" =>
         Within(Now(d[Head(x.queue).path]), Head(x.queue).offset, Head(x.queue).data)
    /\ x.at \in {"fill", "store"} => Within(Now(d[x.read.path]), x.read.off, x.data)
    /\ x.at = "renamed" => x.path # x.to /\ (x.path \in n \/ TrueEntry(Now(d[x.to]), c[x.path]))
    /\ x.at = "moved" => x.stale \/ TrueEntry(Now(d[x.path]), x.item)
CohInv ==
    \A t \in Tasks : /\ CallTrue(task[t], disk, cache, untold)
                    /\ \A p \in Files : PathTrue(task[t], disk, cache[p], untold, p)

\* The read buffer is true of its file until the file changes.
BufferTrue == aged \/ rbuf.path \notin Files \/ Within(Now(disk[rbuf.path]), rbuf.offset, rbuf.data)

LEMMA NowSensible ==
    ASSUME NEW file, file = Absent \/ file \in Seq(Bytes) PROVE Sensible(Now(file))
<1>1. ASSUME NEW i \in Nat, file # Absent PROVE At(file, i + 1) \in Bytes
  <2>1. file \in Seq(Bytes) /\ Len(file) \in Nat
    BY <1>1, LenProperties
  <2>2. CASE i + 1 <= Len(file)
    <3>1. i + 1 \in 1 .. Len(file)
      BY <2>1, <2>2
    <3> QED BY <2>1, <2>2, <3>1, ElementOfSeq DEF At
  <2>3. CASE ~(i + 1 <= Len(file))
    BY <2>3 DEF At, Bytes
  <2> QED BY <2>2, <2>3
<1>2. ASSUME NEW i \in Nat PROVE Zero \in Now(file)[i] /\ Now(file)[i] \subseteq Bytes
  <2>1. Now(file)[i] = {Zero} \cup IF file = Absent THEN {} ELSE {At(file, i + 1)}
    BY DEF Now
  <2> QED BY <1>1, <2>1 DEF Bytes
<1> QED BY <1>2 DEF Sensible

LEMMA SinceWider ==
    ASSUME NEW u, NEW f, Sensible(f)
    PROVE  /\ Sensible(Since(u, f)) /\ Below(f, Since(u, f))
           /\ \A i \in Nat : (u.offset <= i /\ i < u.offset + Len(u.data)) \/ Since(u, f)[i] \subseteq f[i]
<1>1. \A i \in Nat : Since(u, f)[i] = IF u.offset <= i /\ i < u.offset + Len(u.data) THEN Bytes ELSE f[i]
  BY DEF Since
<1>2. \A i \in Nat : Zero \in f[i] /\ f[i] \subseteq Bytes
  BY DEF Sensible
<1> QED BY <1>1, <1>2 DEF Sensible, Below, Bytes

\* The server has written an upload to p whose answer is still to come.
Landed(x, p) == x.at = "uploaded" /\ Head(x.queue).path = p

LEMMA SeenWider ==
    ASSUME NEW x, NEW d, NEW p, Sensible(Now(d[p]))
    PROVE  /\ Sensible(Seen(x, d, p)) /\ Below(Now(d[p]), Seen(x, d, p))
           /\ ~Landed(x, p) => Seen(x, d, p) = Now(d[p])
           /\ Landed(x, p) => Seen(x, d, p) = Since(Head(x.queue), Now(d[p]))
<1>1. CASE Landed(x, p)
  BY <1>1, SinceWider DEF Seen, Landed
<1>2. CASE ~Landed(x, p)
  BY <1>2 DEF Seen, Landed, Below
<1> QED BY <1>1, <1>2

LEMMA TrueMore ==
    ASSUME NEW f, NEW g, Below(f, g), NEW e, TrueEntry(f, e) PROVE TrueEntry(g, e)
BY TableMore DEF TrueEntry

\* What is true of a path stays true when neither its bytes nor its entry change.
LEMMA PathKept ==
    ASSUME NEW x, NEW y, NEW d, NEW d2, NEW e, NEW n, NEW n2, NEW p,
           PathTrue(x, d, e, n, p), p \notin Changed(x), ~Landed(x, p), Sensible(Now(d[p])),
           Now(d2[p]) = Now(d[p]), p \in n => p \in n2
    PROVE  PathTrue(y, d2, e, n2, p)
<1>1. CASE p \in n
  BY <1>1 DEF PathTrue
<1>2. CASE p \notin n
  <2>1. TrueEntry(Now(d[p]), e)
    BY <1>2, SeenWider DEF PathTrue
  <2>2. Below(Now(d[p]), Seen(y, d2, p))
    BY SeenWider
  <2> QED BY <2>1, <2>2, TrueMore DEF PathTrue
<1> QED BY <1>1, <1>2

\* An entry that is true of the file is true for every call.
LEMMA PathNow ==
    ASSUME NEW y, NEW d, NEW e, NEW n, NEW p, Sensible(Now(d[p])), TrueEntry(Now(d[p]), e)
    PROVE  PathTrue(y, d, e, n, p)
BY SeenWider, TrueMore DEF PathTrue

LEMMA NoneTrue ==
    ASSUME NEW f
    PROVE  TrueEntry(f, NoEntry) /\ \A size : TrueEntry(f, [size |-> size, pages |-> NoPages])
BY NoPagesHeld DEF TrueEntry

\* What the types say.
LEMMA Known ==
    ASSUME TypeInv
    PROVE  /\ Typed /\ DataInv /\ scope.files \subseteq Files /\ MaxSize \in Nat
           /\ disk = [p \in Files |-> disk[p]] /\ cache = [p \in Files |-> cache[p]]
           /\ \A p \in Files : /\ disk[p] = Absent \/ (disk[p] \in Seq(Bytes) /\ Len(disk[p]) <= MaxSize)
                               /\ Sensible(Now(disk[p]))
           /\ \E R : R = Anything /\ Before(R)
<1>1. PICK R : R = Anything /\ Held(R)
  BY DEF TypeInv
<1>2. DataInv /\ AllSensible(R)
  BY <1>1, AnythingSensible DEF TypeInv
<1>3. Before(R)
  BY <1>1, <1>2 DEF Before
<1>4. DiskHeld(R) /\ CacheHeld(R) /\ scope.files \subseteq Files /\ MaxSize \in Nat /\ Typed
  BY <1>3, BeforeStep
<1>5. \A p \in Files : disk[p] = Absent \/ (disk[p] \in Seq(Bytes) /\ Len(disk[p]) <= MaxSize)
  BY <1>4 DEF DiskHeld, FileHeld, Within
<1>6. \A p \in Files : Sensible(Now(disk[p]))
  BY <1>5, NowSensible
<1> QED BY <1>1, <1>2, <1>3, <1>4, <1>5, <1>6 DEF DiskHeld, CacheHeld

\* It is enough to look at the task that makes the step.
LEMMA CohStep ==
    ASSUME OneTask, TypeInv, NEW t \in Tasks, NEW y, Goto(t, y),
           CallTrue(y, disk', cache', untold'),
           \A p \in Files : PathTrue(y, disk', cache'[p], untold', p)
    PROVE  CohInv'
<1>1. \A s \in Tasks : s = t
  BY DEF OneTask
<1>2. task'[t] = y
  BY Known DEF Typed, Goto
<1> QED BY <1>1, <1>2 DEF CohInv

\* A call that has nothing to tell the cache.
Bland(x) == x.at \notin {"uploaded", "fill", "store", "resized", "renamed", "removed", "moved"}

LEMMA BlandTrue ==
    ASSUME NEW x, Bland(x)
    PROVE  /\ Changed(x) = {} /\ \A p : ~Landed(x, p)
           /\ \A d, c, n : CallTrue(x, d, c, n)
BY DEF Bland, Changed, Landed, CallTrue

LEMMA IdleBland == Bland(Idle)
BY DEF Bland, Idle

LEMMA UploadBland ==
    ASSUME NEW q, NEW call, NEW after \in Afters PROVE Bland(after) /\ Bland(Upload(q, call, after))
<1>1. Bland(after)
  BY DEF Bland, Afters, Idle
<1>2. CASE q # <<>>
  BY <1>1, <1>2 DEF Upload, Bland
<1>3. CASE q = <<>>
  BY <1>1, <1>3 DEF Upload
<1> QED BY <1>1, <1>2, <1>3

\* A call moves on and leaves cache and server alone.
LEMMA CohPass ==
    ASSUME OneTask, TypeInv, CohInv, NEW t \in Tasks, NEW y, Goto(t, y), UNCHANGED <<disk, cache>>,
           Changed(task[t]) = {}, \A p : ~Landed(task[t], p), untold \subseteq untold',
           CallTrue(y, disk, cache, untold')
    PROVE  CohInv'
<1>1. ASSUME NEW p \in Files PROVE PathTrue(y, disk', cache'[p], untold', p)
  <2>1. PathTrue(task[t], disk, cache[p], untold, p) /\ Sensible(Now(disk[p]))
    BY Known DEF CohInv
  <2> QED BY <2>1, PathKept
<1> QED BY <1>1, CohStep

\* A call puts an entry into the cache, and has no more to tell.
LEMMA CohPut ==
    ASSUME OneTask, TypeInv, CohInv, NEW t \in Tasks, NEW y, Goto(t, y), Bland(y), disk' = disk,
           NEW p \in Files, NEW e, cache' = [cache EXCEPT ![p] = e],
           p \in untold' \/ TrueEntry(Now(disk[p]), e),
           \A q \in Files \ {p} : q \notin Changed(task[t]) /\ ~Landed(task[t], q)
                                  /\ (q \in untold => q \in untold')
    PROVE  CohInv'
<1>1. cache'[p] = e /\ \A q \in Files \ {p} : cache'[q] = cache[q]
  BY Known
<1>2. ASSUME NEW q \in Files PROVE PathTrue(y, disk', cache'[q], untold', q)
  <2>1. Sensible(Now(disk[q])) /\ PathTrue(task[t], disk, cache[q], untold, q)
    BY Known DEF CohInv
  <2>2. CASE q = p
    <3>1. CASE p \in untold'
      BY <2>2, <3>1 DEF PathTrue
    <3>2. CASE TrueEntry(Now(disk[p]), e)
      BY <1>1, <2>1, <2>2, <3>2, PathNow
    <3> QED BY <3>1, <3>2
  <2>3. CASE q # p
    BY <1>1, <2>1, <2>3, PathKept
  <2> QED BY <2>2, <2>3
<1> QED BY <1>2, BlandTrue, CohStep

\* A call changes one file of the server.
LEMMA CohDisk ==
    ASSUME OneTask, TypeInv, CohInv, NEW t \in Tasks, Bland(task[t]), NEW y, Goto(t, y), cache' = cache,
           untold \subseteq untold', NEW p \in Files, \A q \in Files \ {p} : disk'[q] = disk[q],
           PathTrue(y, disk', cache[p], untold', p), CallTrue(y, disk', cache, untold')
    PROVE  CohInv'
<1>1. ASSUME NEW q \in Files PROVE PathTrue(y, disk', cache'[q], untold', q)
  <2>1. CASE q = p
    BY <2>1
  <2>2. CASE q # p
    <3>1. PathTrue(task[t], disk, cache[q], untold, q) /\ Sensible(Now(disk[q]))
      BY Known DEF CohInv
    <3>2. Now(disk'[q]) = Now(disk[q])
      BY <2>2
    <3> QED BY <3>1, <3>2, PathKept, BlandTrue
  <2> QED BY <2>1, <2>2
<1> QED BY <1>1, CohStep

----------------------------------------------------------------------------
(* Writing *)

\* The bytes of the server's file after a write.
LEMMA OverwriteNow ==
    ASSUME NEW file, file = Absent \/ file \in Seq(Bytes), NEW off \in Nat, NEW data \in Seq(Bytes),
           Overwrite(file, off, data) # Absent
    PROVE  LET new == Overwrite(file, off, data)
           IN  /\ Within(Now(new), off, data)
               /\ \A i \in Nat : (off <= i /\ i < off + Len(data)) \/ Now(new)[i] = Now(file)[i]
<1> DEFINE old == IF file = Absent THEN <<>> ELSE file
           n == Len(data)
           size == Greater(Len(old), IF data = <<>> THEN 0 ELSE off + n)
           new == Overwrite(file, off, data)
<1>1. old \in Seq(Bytes) /\ Len(old) \in Nat /\ n \in Nat /\ (data = <<>> <=> n = 0)
  BY LenProperties, EmptySeq
<1>2. new = [i \in 1 .. size |-> IF off < i /\ i <= off + n THEN data[i - off] ELSE At(old, i)]
  BY DEF Overwrite
<1>3. \A i \in Nat : Now(file)[i] = {Zero, At(old, i + 1)} /\ Now(new)[i] = {Zero, At(new, i + 1)}
  <2> TAKE i \in Nat
  <2>1. CASE file = Absent
    <3>1. At(old, i + 1) = Zero
      BY <2>1 DEF At
    <3> HIDE DEF new
    <3> QED BY <2>1, <3>1 DEF Now, new
  <2>2. CASE file # Absent
    <3> HIDE DEF new
    <3> QED BY <2>2 DEF Now, new
  <2> QED BY <2>1, <2>2
<1> HIDE DEF n, new, old
<1>4. size \in Nat /\ Len(old) <= size /\ (n # 0 => off + n <= size) /\ (size = Len(old) \/ size = off + n)
  BY <1>1 DEF Greater
<1>s. n = 0 => size = Len(old)
  BY <1>1 DEF Greater
<1> HIDE DEF size
<1>5. Len(new) = size
  BY <1>2, <1>4
<1>6. ASSUME NEW i \in Nat
      PROVE  At(new, i + 1) = IF off <= i /\ i < off + n THEN data[i + 1 - off] ELSE At(old, i + 1)
  <2>1. CASE i + 1 <= size
    <3>1. i + 1 \in 1 .. size /\ At(new, i + 1) = new[i + 1]
      BY <1>4, <1>5, <2>1 DEF At
    <3> QED BY <1>1, <1>2, <3>1
  <2>2. CASE ~(i + 1 <= size)
    <3>1. At(new, i + 1) = Zero /\ ~(i + 1 <= Len(old)) /\ ~(off <= i /\ i < off + n)
      BY <1>1, <1>4, <1>5, <2>2 DEF At
    <3> QED BY <3>1 DEF At
  <2> QED BY <2>1, <2>2
<1>7. ASSUME NEW j \in 1 .. n PROVE data[j] \in Now(new)[off + j - 1]
  <2> DEFINE i == off + j - 1
  <2>1. i \in Nat /\ off <= i /\ i < off + n /\ i + 1 - off = j
    BY <1>1
  <2> HIDE DEF i
  <2>2. At(new, i + 1) = data[j]
    BY <1>6, <2>1
  <2> QED BY <1>3, <2>1, <2>2 DEF i
<1>8. \A i \in Nat : (off <= i /\ i < off + n) \/ Now(new)[i] = Now(file)[i]
  BY <1>3, <1>6
<1> QED BY <1>7, <1>8 DEF Within, n, new

LEMMA ServerWriteCoh ==
    ASSUME OneTask, TypeInv, CohInv, NEW t \in Tasks, ServerWrite(t), task[t].at = "upload" PROVE CohInv'
<1> DEFINE u == Head(task[t].queue)
           y == [task[t] EXCEPT !.at = "uploaded"]
           p == u.path
           file == Overwrite(disk[p], u.offset, u.data)
<1>1. /\ task[t].at = "upload" /\ Goto(t, y) /\ cache' = cache /\ untold' = untold
      /\ disk' = [disk EXCEPT ![p] = Overwrite(@, u.offset, u.data)]
  BY DEF ServerWrite, client
<1>2. PICK R : R = Anything /\ Before(R)
  BY Known
<1>3. /\ p \in Files /\ Within(R[p], u.offset, u.data) /\ u.offset + Len(u.data) <= MaxSize
      /\ task[t] \in UploadTasks
  BY <1>1, <1>2, FirstUpload DEF Uploading
<1>4. y.at = "uploaded" /\ y.queue = task[t].queue
  BY <1>3 DEF UploadTasks
<1>5. disk'[p] = file /\ \A q \in Files \ {p} : disk'[q] = disk[q]
  BY <1>1, <1>3, Known
<1>6. FileHeld(R[p], file)
  BY <1>2, <1>3, BeforeStep, OverwriteHeld DEF DiskHeld, AllSensible
<1>7. file \in Seq(Bytes) /\ file # Absent
  BY <1>6, AbsentAssumption DEF FileHeld, Within, Bytes, Byte
<1>8. u.offset \in Nat /\ u.data \in Seq(Bytes) /\ (disk[p] = Absent \/ disk[p] \in Seq(Bytes))
      /\ Sensible(Now(disk[p])) /\ Sensible(Now(file))
  BY <1>3, <1>7, Known, NowSensible DEF Within
<1>9. Bland(task[t])
  BY <1>1 DEF Bland
<1> HIDE DEF y, u, file
<1>10. /\ Within(Now(file), u.offset, u.data)
       /\ \A i \in Nat : (u.offset <= i /\ i < u.offset + Len(u.data)) \/ Now(file)[i] = Now(disk[p])[i]
  BY <1>7, <1>8, OverwriteNow DEF file
<1>11. CallTrue(y, disk', cache, untold')
  BY <1>4, <1>5, <1>10 DEF CallTrue, u
<1>12. PathTrue(y, disk', cache[p], untold', p)
  <2>1. PathTrue(task[t], disk, cache[p], untold, p)
    BY <1>3 DEF CohInv
  <2>2. CASE p \in untold
    BY <1>1, <2>2 DEF PathTrue
  <2>3. CASE p \notin untold
    <3>1. TrueEntry(Now(disk[p]), cache[p])
      BY <1>8, <1>9, <2>1, <2>3, BlandTrue, SeenWider DEF PathTrue
    <3>2. Seen(y, disk', p) = Since(u, Now(file))
      BY <1>4, <1>5 DEF Seen, u
    <3>3. ASSUME NEW i \in Nat PROVE Now(disk[p])[i] \subseteq Since(u, Now(file))[i]
      <4>1. Since(u, Now(file))[i] = IF u.offset <= i /\ i < u.offset + Len(u.data) THEN Bytes ELSE Now(file)[i]
        BY DEF Since
      <4>2. Now(disk[p])[i] \subseteq Bytes
        BY <1>8 DEF Sensible
      <4> QED BY <1>10, <4>1, <4>2
    <3>4. Below(Now(disk[p]), Seen(y, disk', p))
      BY <3>2, <3>3 DEF Below
    <3>5. TrueEntry(Seen(y, disk', p), cache[p])
      BY <3>1, <3>4, TrueMore
    <3> QED BY <3>5 DEF PathTrue
  <2> QED BY <2>2, <2>3
<1> HIDE DEF p
<1> QED BY <1>1, <1>3, <1>5, <1>9, <1>11, <1>12, CohDisk

\* cache_write_file: an entry that is true of the file if it was true of it,
\* or, with room in the page table, if it was but for the bytes of the write.
LEMMA CacheWriteFileTrue ==
    ASSUME TypeInv, NEW p \in Files, NEW off \in Nat, NEW data \in Seq(Bytes),
           NEW inv \in BOOLEAN, CacheWriteFile(p, off, data, inv)
    PROVE  \E e : /\ cache' = [cache EXCEPT ![p] = e]
                  /\ \A f, g : /\ Sensible(f) /\ Sensible(g) /\ Within(f, off, data) /\ TrueEntry(g, cache[p])
                               /\ \/ g = f
                                  \/ /\ data # <<>> /\ ~FillsTable(p, off, data)
                                     /\ \A i \in Nat : (off <= i /\ i < off + Len(data)) \/ g[i] \subseteq f[i]
                               => TrueEntry(f, e)
<1>1. cache = [q \in Files |-> cache[q]]
  BY Known
<1>2. CASE cache[p] = NoEntry
  <2> DEFINE e == [size |-> NoSize, pages |-> WriteContent(NoPages, off, data)]
  <2>1. cache' = [cache EXCEPT ![p] = e]
    BY <1>2 DEF CacheWriteFile
  <2>2. e.pages = WriteContent(NoPages, off, data)
    OBVIOUS
  <2> HIDE DEF e
  <2>3. \A f : Sensible(f) /\ Within(f, off, data) => TrueEntry(f, e)
    BY <2>2, WriteContentHeld DEF TrueEntry
  <2> QED BY <2>1, <2>3
<1>3. CASE cache[p] # NoEntry
  <2> DEFINE old == cache[p].pages
  <2>1. PICK pages \in CacheWrite(old, off, data) :
          cache' = [cache EXCEPT ![p] = [size |-> IF inv THEN NoSize ELSE @.size, pages |-> pages]]
    BY <1>3 DEF CacheWriteFile
  <2> DEFINE e == [size |-> IF inv THEN NoSize ELSE cache[p].size, pages |-> pages]
  <2>2. cache' = [cache EXCEPT ![p] = e]
    BY <1>1, <2>1
  <2>3. e.pages = pages
    OBVIOUS
  <2> HIDE DEF e
  <2>4. ASSUME NEW f, NEW g, Sensible(f), Sensible(g), Within(f, off, data), TrueEntry(g, cache[p]),
               \/ g = f
               \/ /\ data # <<>> /\ ~FillsTable(p, off, data)
                  /\ \A i \in Nat : (off <= i /\ i < off + Len(data)) \/ g[i] \subseteq f[i]
        PROVE  TrueEntry(f, e)
    <3>1. TableHeld(g, old)
      BY <1>3, <2>4 DEF TrueEntry
    <3>2. CASE g = f
      <4> HIDE DEF old
      <4>1. TableHeld(f, pages)
        BY <2>1, <2>4, <3>1, <3>2, CacheWriteHeld
      <4> QED BY <2>3, <4>1 DEF TrueEntry
    <3>3. CASE /\ data # <<>> /\ ~FillsTable(p, off, data)
               /\ \A i \in Nat : (off <= i /\ i < off + Len(data)) \/ g[i] \subseteq f[i]
      <4> DEFINE table == DOMAIN old \cup Span(off, data)
      <4>1. ~(Cardinality(table) >= MaxPages)
        BY <1>3, <3>3 DEF FillsTable, Span
      <4>2. Cardinality(table) \in Nat
        BY <3>1, <3>3, SpanCovers, FS_Union, FS_CardinalityType DEF TableHeld
      <4>3. Cardinality(table) < MaxPages
        <5> HIDE DEF table
        <5> QED BY <4>1, <4>2, MaxPagesAssumption
      <4> HIDE DEF old
      <4>4. TableHeld(f, pages)
        BY <2>1, <2>4, <3>1, <3>3, <4>3, CacheWriteOver
      <4> QED BY <2>3, <4>4 DEF TrueEntry
    <3> QED BY <2>4, <3>2, <3>3
  <2> QED BY <2>2, <2>4
<1> QED BY <1>2, <1>3

LEMMA UploadedCoh ==
    ASSUME OneTask, TypeInv, CohInv, NEW t \in Tasks, Uploaded(t) PROVE CohInv'
<1> DEFINE u == Head(task[t].queue)
           p == u.path
           y == Upload(Tail(task[t].queue), task[t].call, task[t].after)
<1>1. /\ task[t].at = "uploaded" /\ Goto(t, y) /\ CacheWriteFile(p, u.offset, u.data, TRUE)
      /\ disk' = disk
      /\ untold' = IF FillsTable(p, u.offset, u.data) THEN untold \cup {p} ELSE untold
  BY DEF Uploaded
<1>2. PICK R : R = Anything /\ Before(R)
  BY Known
<1>3. /\ p \in Files /\ Within(R[p], u.offset, u.data) /\ u.offset + Len(u.data) <= MaxSize
      /\ task[t].after \in Afters /\ u.data # <<>>
  <2>1. /\ p \in Files /\ Within(R[p], u.offset, u.data) /\ u.offset + Len(u.data) <= MaxSize
        /\ task[t].after \in Afters /\ QueueHeld(R, task[t].queue)
    BY <1>1, <1>2, FirstUpload DEF Uploading
  <2>2. task[t].queue \in Seq(Buffered) /\ task[t].queue # <<>>
    BY <1>1, <1>2, UploadTask DEF Before, Uploading
  <2>3. 1 \in DOMAIN task[t].queue /\ u = task[t].queue[1]
    BY <2>2, EmptySeq, LenProperties
  <2> QED BY <2>1, <2>3 DEF QueueHeld
<1>4. Bland(y)
  BY <1>3, UploadBland
<1>5. u.offset \in Nat /\ u.data \in Seq(Bytes) /\ Sensible(Now(disk[p]))
  BY <1>3, Known DEF Within
<1>6. /\ PathTrue(task[t], disk, cache[p], untold, p) /\ Within(Now(disk[p]), u.offset, u.data)
  BY <1>1, <1>3 DEF CohInv, CallTrue
<1>7. Seen(task[t], disk, p) = Since(u, Now(disk[p])) /\ Changed(task[t]) = {} /\ \A q : q # p => ~Landed(task[t], q)
  BY <1>1 DEF Seen, Changed, Landed
<1> HIDE DEF y, u, p
<1> DEFINE f == Now(disk[p])
           g == Since(u, Now(disk[p]))
<1>8. PICK e : /\ cache' = [cache EXCEPT ![p] = e]
               /\ Sensible(f) /\ Sensible(g) /\ Within(f, u.offset, u.data) /\ TrueEntry(g, cache[p])
                  /\ (\/ g = f
                      \/ /\ u.data # <<>> /\ ~FillsTable(p, u.offset, u.data)
                         /\ \A i \in Nat : (u.offset <= i /\ i < u.offset + Len(u.data)) \/ g[i] \subseteq f[i])
                  => TrueEntry(f, e)
  <2> HIDE DEF f, g
  <2> QED BY <1>1, <1>3, <1>5, <1>6, CacheWriteFileTrue
<1>9. p \in untold' \/ TrueEntry(f, e)
  <2> SUFFICES ASSUME p \notin untold' PROVE TrueEntry(f, e)
    OBVIOUS
  <2>1. ~FillsTable(p, u.offset, u.data) /\ TrueEntry(g, cache[p])
    <3>1. ~FillsTable(p, u.offset, u.data) /\ p \notin untold
      BY <1>1
    <3> QED BY <1>6, <1>7, <3>1 DEF PathTrue
  <2>2. Sensible(g) /\ \A i \in Nat : (u.offset <= i /\ i < u.offset + Len(u.data)) \/ g[i] \subseteq f[i]
    BY <1>5, SinceWider
  <2> HIDE DEF f, g
  <2> QED BY <1>3, <1>5, <1>6, <1>8, <2>1, <2>2 DEF f
<1> HIDE DEF g
<1> QED BY <1>1, <1>3, <1>4, <1>7, <1>8, <1>9, CohPut

LEMMA UploadFailsCoh ==
    ASSUME OneTask, TypeInv, CohInv, NEW t \in Tasks, UploadFails(t) PROVE CohInv'
<1> DEFINE p == Head(task[t].queue).path
<1>1. /\ task[t].at \in Uploading /\ Goto(t, Idle) /\ UNCHANGED <<disk, cache>>
      /\ untold' = IF task[t].at = "uploaded" /\ cache[p] # NoEntry THEN untold \cup {p} ELSE untold
  BY DEF UploadFails, client, Uploading
<1>2. ASSUME NEW q \in Files PROVE PathTrue(Idle, disk', cache'[q], untold', q)
  <2>1. Sensible(Now(disk[q])) /\ PathTrue(task[t], disk, cache[q], untold, q)
    BY Known DEF CohInv
  <2>2. CASE Landed(task[t], q)
    <3>1. task[t].at = "uploaded" /\ q = p
      BY <2>2 DEF Landed
    <3>2. CASE cache[q] = NoEntry
      BY <1>1, <2>1, <3>2, NoneTrue, PathNow
    <3>3. CASE cache[q] # NoEntry
      BY <1>1, <3>1, <3>3 DEF PathTrue
    <3> QED BY <3>2, <3>3
  <2>3. CASE ~Landed(task[t], q)
    <3>1. q \notin Changed(task[t]) /\ (q \in untold => q \in untold')
      BY <1>1 DEF Changed, Uploading
    <3> QED BY <1>1, <2>1, <2>3, <3>1, PathKept
  <2> QED BY <2>2, <2>3
<1> QED BY <1>1, <1>2, IdleBland, BlandTrue, CohStep

LEMMA FsyncInvalidateCoh ==
    ASSUME OneTask, TypeInv, CohInv, NEW t \in Tasks, FsyncInvalidate(t) PROVE CohInv'
<1> DEFINE p == task[t].path
<1>1. /\ task[t].at = "invalidate" /\ Goto(t, Idle) /\ cache' = [cache EXCEPT ![p] = NoEntry]
      /\ untold' = untold \ {p} /\ disk' = disk
  BY DEF FsyncInvalidate
<1>2. p \in Files
  BY <1>1, Known, BeforeStep DEF TasksHeld, TaskHeld
<1>3. Bland(task[t])
  BY <1>1 DEF Bland
<1>4. TrueEntry(Now(disk[p]), NoEntry)
  BY NoneTrue
<1>5. \A q \in Files \ {p} : q \notin Changed(task[t]) /\ ~Landed(task[t], q) /\ (q \in untold => q \in untold')
  BY <1>1, <1>3, BlandTrue
<1> HIDE DEF p
<1> QED BY <1>1, <1>2, <1>4, <1>5, IdleBland, CohPut

\* A write, a flush and an fsync take bytes from the buffer.
LEMMA TakesCoh ==
    ASSUME OneTask, TypeInv, CohInv, NEW t \in Tasks,
           \/ \E p, off, len : WriteFile(t, p, off, len)
           \/ Flush(t)
           \/ \E p \in Files : Fsync(t, p)
    PROVE  CohInv'
<1>1. task[t] = Idle /\ Bland(task[t])
  <2>1. task[t] = Idle
    BY DEF WriteFile, Flush, Fsync, Ready
  <2> QED BY <2>1, IdleBland
<1>2. /\ UNCHANGED <<disk, cache, untold>>
      /\ \E q, call : \E after \in Afters : Goto(t, Upload(q, call, after))
  <2>1. Idle \in Afters
    BY DEF Afters
  <2>2. CASE \E p, off, len : WriteFile(t, p, off, len)
    BY <2>1, <2>2 DEF WriteFile, track
  <2>3. CASE Flush(t)
    BY <2>1, <2>3 DEF Flush, TakeBuffer, track
  <2>4. CASE \E p \in Files : Fsync(t, p)
    <3> PICK p \in Files : Fsync(t, p)
      BY <2>4
    <3> DEFINE after == [at |-> "invalidate", path |-> p, due |-> {b \in Acknowledged : b.path = p}]
    <3>1. TakeBuffer(t, after)
      BY DEF Fsync
    <3>2. after \in Afters
      BY Known DEF Afters, Acknowledged, Typed
    <3> HIDE DEF after
    <3> QED BY <3>1, <3>2 DEF TakeBuffer, track
  <2> QED BY <2>2, <2>3, <2>4
<1>3. PICK q, call : \E after \in Afters : Goto(t, Upload(q, call, after))
  BY <1>2
<1>4. PICK y : Bland(y) /\ Goto(t, y)
  BY <1>3, UploadBland
<1> QED BY <1>1, <1>2, <1>4, BlandTrue, CohPass

----------------------------------------------------------------------------
(* Reading *)

LEMMA ReadingBland ==
    ASSUME NEW r, Reader(r), NEW at \in {"lookup", "attributes", "buffer"}
    PROVE  Bland(Reading(at, r))
<1>1. Reading(at, r) = [at |-> at, path |-> r.path, off |-> r.off, size |-> r.size, floor |-> r.floor]
  BY DEF Reader, Reading
<1>2. Reading(at, r).at = at
  BY <1>1
<1> QED BY <1>2 DEF Bland

\* A read that asks the cache or the server, and leaves both alone.
LEMMA LooksCoh ==
    ASSUME OneTask, TypeInv, CohInv, NEW t \in Tasks,
           \/ \E p \in scope.files, off \in Offsets, len \in 1 .. scope.len : ReadFile(t, p, off, len)
           \/ FetchAttributes(t) \/ LookupPages(t)
    PROVE  CohInv'
<1> DEFINE Moves == Bland(task[t]) /\ UNCHANGED <<disk, cache, untold>> /\ \E y : Bland(y) /\ Goto(t, y)
<1>1. TaskOK(task[t])
  BY Known DEF Typed
<1>2. ASSUME NEW p \in scope.files, NEW off \in Offsets, NEW size \in 1 .. scope.len, ReadFile(t, p, off, size)
      PROVE  Moves
  <2> DEFINE r == [at |-> "lookup", path |-> p, off |-> off, size |-> size,
                   floor |-> [i \in 1 .. size |-> Latest(Acknowledged, p, off + i - 1)]]
  <2>1. /\ UNCHANGED <<disk, cache, untold>> /\ task[t] = Idle
        /\ Goto(t, Reading("attributes", r)) \/ Goto(t, r) \/ Goto(t, Idle)
    BY <1>2 DEF ReadFile, Ready, client, track, Answer
  <2>2. Reader(r) /\ Bland(r)
    BY DEF Reader, Bland
  <2>3. Bland(Reading("attributes", r)) /\ Bland(Idle)
    BY <2>2, ReadingBland, IdleBland
  <2> HIDE DEF r
  <2> QED BY <2>1, <2>2, <2>3
<1>3. ASSUME FetchAttributes(t) PROVE Moves
  <2> DEFINE r == task[t]
             y == [at |-> "put_attributes", read |-> Reading("lookup", r), size |-> Len(disk[r.path])]
  <2>1. /\ UNCHANGED <<disk, cache, untold>> /\ r.at = "attributes"
        /\ Goto(t, Reading("lookup", r)) \/ Goto(t, y)
    BY <1>3 DEF FetchAttributes, client, track
  <2>2. Reader(r) /\ Bland(r) /\ Bland(y)
    BY <1>1, <2>1 DEF TaskOK, Bland
  <2>3. Bland(Reading("lookup", r))
    BY <2>2, ReadingBland
  <2> HIDE DEF y
  <2> QED BY <2>1, <2>2, <2>3
<1>4. ASSUME LookupPages(t) PROVE Moves
  <2> DEFINE r == task[t]
  <2>1. /\ UNCHANGED <<disk, cache, untold>> /\ r.at = "lookup"
        /\ Goto(t, Reading("buffer", r)) \/ Goto(t, Idle)
    BY <1>4 DEF LookupPages, client, track, Answer
  <2>2. Reader(r) /\ Bland(r)
    BY <1>1, <2>1 DEF TaskOK, Bland
  <2>3. Bland(Reading("buffer", r)) /\ Bland(Idle)
    BY <2>2, ReadingBland, IdleBland
  <2> QED BY <2>1, <2>2, <2>3
<1>5. Moves
  <2> HIDE DEF Moves
  <2> QED BY <1>2, <1>3, <1>4
<1> QED BY <1>5, BlandTrue, CohPass

\* Attributes that arrive leave the pages as they are.
LEMMA CachePutAttrTrue ==
    ASSUME TypeInv, NEW p \in Files, NEW size, CachePutAttr(p, size)
    PROVE  \E e : /\ cache' = [cache EXCEPT ![p] = e]
                  /\ \A f : TrueEntry(f, cache[p]) => TrueEntry(f, e)
<1> DEFINE e == [size |-> size, pages |-> IF cache[p] = NoEntry THEN NoPages ELSE cache[p].pages]
<1>1. cache' = [cache EXCEPT ![p] = e]
  BY Known DEF CachePutAttr
<1>2. e.pages = IF cache[p] = NoEntry THEN NoPages ELSE cache[p].pages
  OBVIOUS
<1> HIDE DEF e
<1> QED BY <1>1, <1>2, NoPagesHeld DEF TrueEntry

LEMMA PutAttributesCoh ==
    ASSUME OneTask, TypeInv, CohInv, NEW t \in Tasks, NEW p \in Files, NEW size, CachePutAttr(p, size),
           Bland(task[t]), UNCHANGED <<disk, untold>>, NEW y, Bland(y), Goto(t, y)
    PROVE  CohInv'
<1>1. PICK e : /\ cache' = [cache EXCEPT ![p] = e]
               /\ \A f : TrueEntry(f, cache[p]) => TrueEntry(f, e)
  BY CachePutAttrTrue
<1>2. p \in untold \/ TrueEntry(Now(disk[p]), cache[p])
  <2>1. PathTrue(task[t], disk, cache[p], untold, p) /\ Sensible(Now(disk[p]))
    BY Known DEF CohInv
  <2> QED BY <2>1, BlandTrue, SeenWider DEF PathTrue
<1>3. p \in untold' \/ TrueEntry(Now(disk[p]), e)
  BY <1>1, <1>2
<1> QED BY <1>1, <1>3, BlandTrue, CohPut

LEMMA FetchDataCoh ==
    ASSUME OneTask, TypeInv, CohInv, NEW t \in Tasks, FetchData(t) PROVE CohInv'
<1> DEFINE r == task[t]
           p == r.path
           n == Lesser(r.off + Capacity, Len(disk[p]))
           data == SubSeq(disk[p], r.off + 1, n)
           y == [at |-> "fill", read |-> r, data |-> data]
<1>1. /\ r.at = "buffer" /\ UNCHANGED <<disk, cache, untold>>
      /\ Goto(t, Idle) \/ (disk[p] # Absent /\ Goto(t, y))
  BY DEF FetchData, client, track
<1>2. Bland(r)
  BY <1>1 DEF Bland
<1>3. CASE Goto(t, Idle)
  BY <1>1, <1>2, <1>3, IdleBland, BlandTrue, CohPass
<1>4. CASE disk[p] # Absent /\ Goto(t, y)
  <2>1. RequestOK(r)
    BY <1>1, Known, BeforeStep DEF TasksHeld, TaskHeld
  <2>2. p \in Files /\ r.off \in Nat /\ disk[p] \in Seq(Bytes) /\ Len(disk[p]) \in Nat
    BY <1>4, <2>1, Known, LenProperties DEF RequestOK, Offsets
  <2>3. Within(Now(disk[p]), 0, disk[p])
    <3>1. \A j \in 1 .. Len(disk[p]) : disk[p][j] \in Now(disk[p])[0 + j - 1]
      <4> TAKE j \in 1 .. Len(disk[p])
      <4>1. 0 + j - 1 \in Nat /\ (0 + j - 1) + 1 = j /\ j <= Len(disk[p])
        BY <2>2
      <4>2. At(disk[p], j) = disk[p][j]
        BY <4>1 DEF At
      <4> HIDE DEF p, r
      <4> QED BY <1>4, <4>1, <4>2 DEF Now
    <3> QED BY <2>2, <3>1 DEF Within
  <2>4. r.off + 1 \in Nat \ {0} /\ n \in Int /\ n <= Len(disk[p]) /\ 0 + (r.off + 1) - 1 = r.off
    BY <2>2, CapacityAssumption DEF Lesser
  <2>5. y.at = "fill" /\ y.read = r /\ y.data = data
    OBVIOUS
  <2>6. Within(Now(disk[p]), 0 + (r.off + 1) - 1, data)
    <3> HIDE DEF p, r, n, y
    <3> QED BY <2>3, <2>4, WithinPart
  <2>7. Within(Now(disk[y.read.path]), y.read.off, y.data)
    BY <2>4, <2>5, <2>6
  <2> HIDE DEF y, r, data
  <2>8. CallTrue(y, disk, cache, untold')
    BY <2>5, <2>7 DEF CallTrue
  <2> QED BY <1>1, <1>2, <1>4, <2>8, BlandTrue, CohPass DEF r
<1> QED BY <1>1, <1>3, <1>4

LEMMA FillBufferCoh ==
    ASSUME OneTask, TypeInv, CohInv, NEW t \in Tasks, FillBuffer(t) PROVE CohInv'
<1> DEFINE x == task[t]
           y == [x EXCEPT !.at = "store"]
<1>1. x.at = "fill" /\ UNCHANGED <<disk, cache, untold>> /\ Goto(t, y)
  BY DEF FillBuffer
<1>2. x = [at |-> x.at, read |-> x.read, data |-> x.data]
  BY <1>1, Known DEF Typed, TaskOK
<1>3. y.at = "store" /\ y.read = x.read /\ y.data = x.data
  BY <1>2
<1>4. CallTrue(x, disk, cache, untold) /\ Changed(x) = {} /\ \A p : ~Landed(x, p)
  BY <1>1 DEF CohInv, Changed, Landed
<1> HIDE DEF y, x
<1>5. CallTrue(y, disk, cache, untold')
  BY <1>1, <1>3, <1>4 DEF CallTrue
<1> QED BY <1>1, <1>4, <1>5, CohPass DEF x

LEMMA StorePagesCoh ==
    ASSUME OneTask, TypeInv, CohInv, NEW t \in Tasks, StorePages(t) PROVE CohInv'
<1> DEFINE x == task[t]
           r == x.read
           p == r.path
           data == x.data
<1>1. /\ x.at = "store" /\ CacheWriteFile(p, r.off, data, FALSE) /\ Goto(t, Idle)
      /\ UNCHANGED <<disk, untold>>
  BY DEF StorePages, Answer, track
<1>2. p \in Files /\ r.off \in Nat
  BY <1>1, Known, BeforeStep DEF TasksHeld, TaskHeld, RequestOK, Offsets
<1>3. Within(Now(disk[p]), r.off, data) /\ PathTrue(x, disk, cache[p], untold, p)
  BY <1>1, <1>2 DEF CohInv, CallTrue
<1>4. Changed(x) = {} /\ \A q : ~Landed(x, q)
  BY <1>1 DEF Changed, Landed
<1>5. Sensible(Now(disk[p])) /\ data \in Seq(Bytes)
  BY <1>2, <1>3, Known DEF Within
<1> HIDE DEF x, p, r, data
<1> DEFINE f == Now(disk[p])
<1>6. PICK e : /\ cache' = [cache EXCEPT ![p] = e]
               /\ Sensible(f) /\ Within(f, r.off, data) /\ TrueEntry(f, cache[p]) => TrueEntry(f, e)
  <2> HIDE DEF f
  <2> QED BY <1>1, <1>2, <1>3, <1>5, CacheWriteFileTrue
<1>7. p \in untold' \/ TrueEntry(f, e)
  BY <1>1, <1>3, <1>4, <1>5, <1>6, SeenWider DEF PathTrue
<1> QED BY <1>1, <1>2, <1>4, <1>6, <1>7, IdleBland, CohPut DEF x

\* An answer of the read buffer is as true as the buffer.
LEMMA BufferHitCoh ==
    ASSUME OneTask, TypeInv, CohInv, BufferTrue, NEW t \in Tasks, BufferHit(t) PROVE CohInv'
<1> DEFINE r == task[t]
           p == r.path
           data == BufferRead(rbuf, p, r.off, r.size)
           f == Now(disk[p])
<1>1. /\ r.at = "buffer" /\ data # <<>> /\ CacheWriteFile(p, r.off, data, FALSE) /\ Goto(t, Idle)
      /\ disk' = disk /\ untold' = IF aged THEN untold \cup {p} ELSE untold
  BY DEF BufferHit, Answer
<1>2. PICK R : R = Anything /\ Before(R)
  BY Known
<1>3. RequestOK(r) /\ p \in Files /\ r.off \in Nat /\ r.size \in Nat
  BY <1>1, <1>2, ReadingTask DEF RequestOK, Offsets
<1>4. Sensible(f) /\ PathTrue(r, disk, cache[p], untold, p)
  BY <1>3, Known DEF CohInv
<1>5. Bland(r)
  BY <1>1 DEF Bland
<1> HIDE DEF r, p
<1>6. data \in Seq(Bytes)
  <2>1. Within(R[p], r.off, data)
    BY <1>1, <1>2, <1>3, BeforeStep, BufferReadHeld
  <2> HIDE DEF data
  <2> QED BY <2>1 DEF Within
<1>7. aged \/ Within(f, r.off, data)
  <2> SUFFICES ASSUME ~aged PROVE Within(f, r.off, data)
    OBVIOUS
  <2> DEFINE S == [q \in Files |-> Now(disk[q])]
  <2>1. BufferHeld(S, rbuf)
    <3>1. BufferHeld(R, rbuf)
      BY <1>2, BeforeStep
    <3> QED BY <3>1 DEF BufferHeld, BufferTrue
  <2>2. Within(S[p], r.off, data)
    <3> HIDE DEF S
    <3> QED BY <1>1, <1>3, <2>1, BufferReadHeld
  <2> HIDE DEF data, f
  <2> QED BY <1>3, <2>2 DEF f
<1> HIDE DEF data, f
<1>8. PICK e : /\ cache' = [cache EXCEPT ![p] = e]
               /\ Sensible(f) /\ Within(f, r.off, data) /\ TrueEntry(f, cache[p]) => TrueEntry(f, e)
  BY <1>1, <1>3, <1>6, CacheWriteFileTrue
<1>9. p \in untold' \/ TrueEntry(f, e)
  <2>1. p \in untold \/ TrueEntry(f, cache[p])
    BY <1>4, <1>5, BlandTrue, SeenWider DEF PathTrue, f
  <2> QED BY <1>1, <1>4, <1>7, <1>8, <2>1
<1>10. \A q \in Files \ {p} : q \notin Changed(r) /\ ~Landed(r, q) /\ (q \in untold => q \in untold')
  BY <1>1, <1>5, BlandTrue
<1> QED BY <1>1, <1>3, <1>8, <1>9, <1>10, IdleBland, CohPut DEF r, f

----------------------------------------------------------------------------
(* Creating, resizing, removing and renaming *)

LEMMA CreateFileCoh ==
    ASSUME OneTask, TypeInv, CohInv, NEW t \in Tasks, NEW p \in scope.files, CreateFile(t, p), task[t] = Idle
    PROVE  CohInv'
<1> DEFINE file == Overwrite(disk[p], 0, <<>>)
<1>1. /\ task[t] = Idle /\ p \in Files /\ disk' = [disk EXCEPT ![p] = file] /\ UNCHANGED <<cache, untold>>
  BY Known DEF CreateFile, client
<1>2. PICK y : Bland(y) /\ Goto(t, y)
  BY DEF CreateFile, Bland
<1>3. file \in Seq(Bytes) /\ file # Absent
  <2>1. PICK R : R = Anything /\ Before(R)
    BY Known
  <2>2. Within(R[p], 0, <<>>) /\ 0 + Len(<<>>) <= MaxSize
    BY WithinEmpty, Known
  <2>3. FileHeld(R[p], file)
    BY <1>1, <2>1, <2>2, BeforeStep, OverwriteHeld DEF DiskHeld, AllSensible
  <2> HIDE DEF file
  <2> QED BY <2>3, AbsentAssumption DEF FileHeld, Within, Bytes, Byte
<1>4. Now(file) = Now(disk[p])
  <2>1. \A i \in Nat : (0 <= i /\ i < 0 + Len(<<>>)) \/ Now(file)[i] = Now(disk[p])[i]
    <3>1. disk[p] = Absent \/ disk[p] \in Seq(Bytes)
      BY <1>1, Known
    <3>2. <<>> \in Seq(Bytes) /\ 0 \in Nat
      OBVIOUS
    <3> QED BY <1>3, <3>1, <3>2, OverwriteNow
  <2> HIDE DEF file
  <2>2. \A i \in Nat : Now(file)[i] = Now(disk[p])[i]
    BY <2>1
  <2> QED BY <2>2 DEF Now
<1> HIDE DEF file
<1>5. disk'[p] = file /\ \A q \in Files \ {p} : disk'[q] = disk[q]
  BY <1>1, Known
<1>6. PathTrue(y, disk', cache[p], untold', p)
  <2>1. PathTrue(Idle, disk, cache[p], untold, p) /\ Sensible(Now(disk[p])) /\ Now(disk'[p]) = Now(disk[p])
    BY <1>1, <1>4, <1>5, Known DEF CohInv
  <2> QED BY <1>1, <2>1, IdleBland, BlandTrue, PathKept
<1> QED BY <1>1, <1>2, <1>5, <1>6, IdleBland, BlandTrue, CohDisk

LEMMA SetSizeCoh ==
    ASSUME OneTask, TypeInv, CohInv, NEW t \in Tasks, NEW p \in scope.files, NEW size, SetSize(t, p, size),
           task[t] = Idle
    PROVE  CohInv'
<1> DEFINE y == [at |-> "resized", path |-> p, size |-> size]
<1>1. /\ p \in Files /\ \A q \in Files \ {p} : disk'[q] = disk[q]
      /\ UNCHANGED <<cache, untold>> /\ Goto(t, y)
  BY Known DEF SetSize, client
<1>2. Changed(y) = {p} /\ CallTrue(y, disk', cache, untold')
  BY DEF Changed, CallTrue
<1> HIDE DEF y
<1>3. PathTrue(y, disk', cache[p], untold', p)
  BY <1>2 DEF PathTrue
<1> QED BY <1>1, <1>2, <1>3, IdleBland, CohDisk

LEMMA RemoveCoh ==
    ASSUME OneTask, TypeInv, CohInv, NEW t \in Tasks, NEW p \in scope.files, Remove(t, p), task[t] = Idle
    PROVE  CohInv'
<1> DEFINE y == [at |-> "removed", path |-> p]
<1>1. /\ task[t] = Idle /\ p \in Files /\ \A q \in Files \ {p} : disk'[q] = disk[q]
      /\ UNCHANGED <<cache, untold>> /\ Goto(t, y)
  BY Known DEF Remove, client
<1>2. Changed(y) = {p} /\ CallTrue(y, disk', cache, untold')
  BY DEF Changed, CallTrue
<1> HIDE DEF y
<1>3. PathTrue(y, disk', cache[p], untold', p)
  BY <1>2 DEF PathTrue
<1> QED BY <1>1, <1>2, <1>3, IdleBland, CohDisk

LEMMA RenameCoh ==
    ASSUME OneTask, TypeInv, CohInv, NEW t \in Tasks, NEW p \in scope.files, NEW q \in scope.files, Rename(t, p, q),
           task[t] = Idle
    PROVE  CohInv'
<1> DEFINE y == [at |-> "renamed", path |-> p, to |-> q]
<1>1. /\ task[t] = Idle /\ p \in Files /\ q \in Files /\ p # q
      /\ disk'[q] = disk[p] /\ \A u \in Files \ {p, q} : disk'[u] = disk[u]
      /\ UNCHANGED <<cache, untold>> /\ Goto(t, y)
  BY Known DEF Rename, client
<1>2. y.at = "renamed" /\ y.path = p /\ y.to = q
  OBVIOUS
<1> HIDE DEF y
<1>3. Changed(y) = {p, q}
  BY <1>2 DEF Changed
<1>4. ASSUME NEW u \in Files PROVE PathTrue(y, disk', cache'[u], untold', u)
  <2>1. CASE u \in {p, q}
    BY <1>3, <2>1 DEF PathTrue
  <2>2. CASE u \notin {p, q}
    <3>1. PathTrue(Idle, disk, cache[u], untold, u) /\ Sensible(Now(disk[u])) /\ Now(disk'[u]) = Now(disk[u])
      BY <1>1, <2>2, Known DEF CohInv
    <3> QED BY <1>1, <3>1, IdleBland, BlandTrue, PathKept
  <2> QED BY <2>1, <2>2
<1>5. CallTrue(y, disk', cache', untold')
  <2>1. PathTrue(Idle, disk, cache[p], untold, p) /\ Sensible(Now(disk[p]))
    BY <1>1, Known DEF CohInv
  <2>2. p \in untold \/ TrueEntry(Now(disk[p]), cache[p])
    BY <2>1, IdleBland, BlandTrue, SeenWider DEF PathTrue
  <2> QED BY <1>1, <1>2, <2>2 DEF CallTrue
<1> QED BY <1>1, <1>4, <1>5, CohStep

\* The responses, which tell the cache of it.
LEMMA AnsweredCoh ==
    ASSUME OneTask, TypeInv, CohInv, NEW t \in Tasks, disk' = disk, Created(t) \/ Resized(t) \/ Removed(t)
    PROVE  CohInv'
<1> DEFINE p == task[t].path
           e == [size |-> task[t].size, pages |-> NoPages]
<1>1. task[t].at \in {"created", "resized", "removed"} /\ p \in Files
  <2>1. task[t].at \in {"created", "resized", "removed"}
    BY DEF Created, Resized, Removed
  <2> QED BY <2>1, Known, BeforeStep DEF TasksHeld, TaskHeld
<1>2. Changed(task[t]) \subseteq {p} /\ \A q : ~Landed(task[t], q)
  BY <1>1 DEF Changed, Landed
<1>3. CASE Created(t)
  <2>1. cache' = [cache EXCEPT ![p] = e] /\ untold' = untold \ {p} /\ Goto(t, Idle)
    BY <1>3 DEF Created
  <2>2. TrueEntry(Now(disk[p]), e)
    BY NoneTrue
  <2> HIDE DEF p, e
  <2> QED BY <1>1, <1>2, <2>1, <2>2, IdleBland, CohPut
<1>4. CASE Resized(t)
  <2>1. /\ task[t].at = "resized" /\ CachePutAttr(p, task[t].size) /\ Goto(t, Idle)
        /\ untold' = IF cache[p] = NoEntry THEN untold ELSE untold \cup {p}
    BY <1>4 DEF Resized
  <2> HIDE DEF p, e
  <2>2. PICK x : cache' = [cache EXCEPT ![p] = x] /\ \A f : TrueEntry(f, cache[p]) => TrueEntry(f, x)
    BY <1>1, <2>1, CachePutAttrTrue
  <2>3. p \in untold' \/ TrueEntry(Now(disk[p]), x)
    BY <2>1, <2>2, NoneTrue
  <2>4. \A q \in Files \ {p} : q \in untold => q \in untold'
    BY <2>1
  <2> QED BY <1>1, <1>2, <2>1, <2>2, <2>3, <2>4, IdleBland, CohPut
<1>5. CASE Removed(t)
  <2>1. cache' = [cache EXCEPT ![p] = NoEntry] /\ untold' = untold \ {p} /\ Goto(t, Idle)
    BY <1>5 DEF Removed
  <2>2. TrueEntry(Now(disk[p]), NoEntry)
    BY NoneTrue
  <2> HIDE DEF p
  <2> QED BY <1>1, <1>2, <2>1, <2>2, IdleBland, CohPut
<1> QED BY <1>3, <1>4, <1>5

LEMMA RenamedCoh ==
    ASSUME OneTask, TypeInv, CohInv, NEW t \in Tasks, disk' = disk, Renamed(t) PROVE CohInv'
<1> DEFINE x == task[t]
           p == x.path
           q == x.to
           y == [at |-> "moved", path |-> q, item |-> cache[p], stale |-> p \in untold]
<1>1. /\ x.at = "renamed" /\ cache' = [cache EXCEPT ![p] = NoEntry]
      /\ IF cache[p] = NoEntry
         THEN /\ Goto(t, Idle)
              /\ untold' = IF cache[q] = NoEntry THEN untold ELSE untold \cup {q}
         ELSE Goto(t, y) /\ untold' = untold \ {p}
  BY DEF Renamed
<1>2. p \in Files /\ q \in Files
  BY <1>1, Known, BeforeStep DEF TasksHeld, TaskHeld
<1>3. p # q /\ (p \in untold \/ TrueEntry(Now(disk[q]), cache[p]))
  BY <1>1, <1>2 DEF CohInv, CallTrue
<1>4. Changed(x) = {p, q} /\ \A u : ~Landed(x, u)
  BY <1>1 DEF Changed, Landed
<1>5. cache'[p] = NoEntry /\ \A u \in Files \ {p} : cache'[u] = cache[u]
  BY <1>1, <1>2, Known
<1>7. \A u \in Files : Sensible(Now(disk[u])) /\ PathTrue(x, disk, cache[u], untold, u)
  BY Known DEF CohInv
<1>8. y.at = "moved" /\ y.path = q /\ y.item = cache[p] /\ (y.stale <=> p \in untold)
  OBVIOUS
<1> HIDE DEF x, p, q, y
<1>9. ASSUME NEW z, NEW u \in Files \ {p, q}, \A v \in Files \ {p} : v \in untold => v \in untold'
      PROVE  PathTrue(z, disk', cache'[u], untold', u)
  BY <1>4, <1>5, <1>7, <1>9, PathKept
<1>10. ASSUME NEW z PROVE PathTrue(z, disk', cache'[p], untold', p)
  BY <1>5, NoneTrue DEF PathTrue
<1>11. CASE cache[p] = NoEntry
  <2>1. Goto(t, Idle) /\ untold' = IF cache[q] = NoEntry THEN untold ELSE untold \cup {q}
    BY <1>1, <1>11
  <2>2. PathTrue(Idle, disk', cache'[q], untold', q)
    BY <1>2, <1>3, <1>5, <2>1, NoneTrue DEF PathTrue
  <2>3. \A u \in Files : PathTrue(Idle, disk', cache'[u], untold', u)
    BY <1>9, <1>10, <2>1, <2>2
  <2> QED BY <2>1, <2>3, IdleBland, BlandTrue, CohStep
<1>12. CASE cache[p] # NoEntry
  <2>1. Goto(t, y) /\ untold' = untold \ {p}
    BY <1>1, <1>12
  <2>2. Changed(y) = {q}
    BY <1>8 DEF Changed
  <2>3. PathTrue(y, disk', cache'[q], untold', q)
    BY <2>2 DEF PathTrue
  <2>4. \A u \in Files : PathTrue(y, disk', cache'[u], untold', u)
    BY <1>9, <1>10, <2>1, <2>3
  <2>5. CallTrue(y, disk', cache', untold')
    BY <1>3, <1>8 DEF CallTrue
  <2> QED BY <2>1, <2>4, <2>5, CohStep
<1> QED BY <1>11, <1>12

LEMMA MovedCoh ==
    ASSUME OneTask, TypeInv, CohInv, NEW t \in Tasks, disk' = disk, Moved(t) PROVE CohInv'
<1> DEFINE x == task[t]
           p == x.path
           e == x.item
<1>1. /\ x.at = "moved" /\ cache' = [cache EXCEPT ![p] = e] /\ Goto(t, Idle)
      /\ untold' = IF x.stale THEN untold \cup {p} ELSE untold \ {p}
  BY DEF Moved
<1>2. p \in Files
  BY <1>1, Known, BeforeStep DEF TasksHeld, TaskHeld
<1>3. x.stale \/ TrueEntry(Now(disk[p]), e)
  BY <1>1 DEF CohInv, CallTrue
<1>4. Changed(x) = {p} /\ \A u : ~Landed(x, u)
  BY <1>1 DEF Changed, Landed
<1> HIDE DEF x, p, e
<1>5. p \in untold' \/ TrueEntry(Now(disk[p]), e)
  BY <1>1, <1>3
<1>6. \A u \in Files \ {p} : u \in untold => u \in untold'
  BY <1>1
<1> QED BY <1>1, <1>2, <1>3, <1>4, <1>5, <1>6, IdleBland, CohPut DEF x

\* The response is lost: what the cache has of the files is told apart.
LEMMA ResponseLostCoh ==
    ASSUME OneTask, TypeInv, CohInv, NEW t \in Tasks, ResponseLost(t) PROVE CohInv'
<1> DEFINE x == task[t]
           affected == {x.path} \cup (IF x.at = "renamed" THEN {x.to} ELSE {})
<1>1. /\ x.at \in {"created", "resized", "removed", "renamed"} /\ Goto(t, Idle) /\ UNCHANGED <<disk, cache>>
      /\ untold' = untold \cup {p \in affected : cache[p] # NoEntry}
  BY DEF ResponseLost, client
<1>2. Changed(x) \subseteq affected /\ \A p : ~Landed(x, p)
  BY <1>1 DEF Changed, Landed
<1> HIDE DEF affected
<1>3. ASSUME NEW p \in Files PROVE PathTrue(Idle, disk', cache'[p], untold', p)
  <2>1. Sensible(Now(disk[p])) /\ PathTrue(x, disk, cache[p], untold, p)
    BY Known DEF CohInv
  <2>2. CASE p \in Changed(x)
    BY <1>1, <1>2, <2>2, NoneTrue DEF PathTrue
  <2>3. CASE p \notin Changed(x)
    BY <1>1, <1>2, <2>1, <2>3, PathKept
  <2> QED BY <2>2, <2>3
<1> QED BY <1>1, <1>3, IdleBland, BlandTrue, CohStep

LEMMA ForgetCoh ==
    ASSUME TypeInv, CohInv, NEW p \in Files, Forget(p) PROVE CohInv'
<1>1. cache'[p] = NoEntry /\ (\A q \in Files \ {p} : cache'[q] = cache[q])
      /\ untold' = untold \ {p} /\ UNCHANGED <<disk, task>>
  BY Known DEF Forget
<1>2. ASSUME NEW t \in Tasks, NEW q \in Files PROVE PathTrue(task[t], disk, cache'[q], untold', q)
  <2>1. PathTrue(task[t], disk, cache[q], untold, q)
    BY DEF CohInv
  <2>2. CASE q = p
    BY <1>1, <2>2, NoneTrue DEF PathTrue
  <2>3. CASE q # p
    BY <1>1, <2>1, <2>3 DEF PathTrue
  <2> QED BY <2>2, <2>3
<1>3. ASSUME NEW t \in Tasks PROVE CallTrue(task[t], disk, cache', untold')
  <2> DEFINE x == task[t]
  <2>1. CallTrue(x, disk, cache, untold)
    BY DEF CohInv
  <2>2. x.at = "renamed" => x.path \in Files
    BY Known, BeforeStep DEF TasksHeld, TaskHeld
  <2> HIDE DEF x
  <2>3. x.at = "renamed" => x.path \in untold' \/ TrueEntry(Now(disk[x.to]), cache'[x.path])
    BY <1>1, <2>1, <2>2, NoneTrue DEF CallTrue
  <2> QED BY <2>1, <2>3 DEF CallTrue, x
<1> QED BY <1>1, <1>2, <1>3 DEF CohInv

----------------------------------------------------------------------------
(* Every step *)

LEMMA NextCoh ==
    ASSUME OneTask
    PROVE  TypeInv /\ DoneInv /\ CohInv /\ BufferTrue /\ [Next]_vars => CohInv'
<1> SUFFICES ASSUME TypeInv, DoneInv, CohInv, BufferTrue, [Next]_vars PROVE CohInv'
  OBVIOUS
<1>0. ASSUME UNCHANGED vars PROVE CohInv'
  <2>1. UNCHANGED <<disk, cache, task, untold>>
    BY <1>0 DEF vars, client, track
  <2> QED BY <2>1 DEF CohInv
<1>a. ASSUME NEW t \in Tasks, Acts(t) PROVE CohInv'
  <2>1. CASE task[t] # Idle
    BY <1>0, <1>a, <2>1, ActedTwice
  <2>2. CASE task[t] = Idle
    BY <1>a, <2>2, CreateFileCoh, SetSizeCoh, RemoveCoh, RenameCoh DEF Acts
  <2> QED BY <2>1, <2>2
<1>w. ASSUME NEW t \in Tasks, ServerWrite(t) PROVE CohInv'
  BY <1>0, <1>w, WrittenTwice, ServerWriteCoh
<1>1. ASSUME NEW t \in Tasks, Start(t) PROVE CohInv'
  <2>0. scope.files \subseteq Files
    BY Known
  <2>1. CASE Flush(t)
    BY <2>1, TakesCoh
  <2>2. CASE Acts(t)
    BY <1>a, <2>2
  <2>3. ASSUME NEW p \in scope.files, Fsync(t, p) PROVE CohInv'
    BY <2>0, <2>3, TakesCoh
  <2>4. ASSUME NEW p \in scope.files, NEW off \in Offsets, NEW len \in 1 .. scope.len,
               WriteFile(t, p, off, len) \/ ReadFile(t, p, off, len)
        PROVE  CohInv'
    BY <2>0, <2>4, TakesCoh, LooksCoh
  <2> QED BY <1>1, <2>1, <2>2, <2>3, <2>4 DEF Start, Acts
<1>2. ASSUME NEW t \in Tasks, Respond(t) PROVE CohInv'
  <2>1. disk' = disk
    BY <1>2 DEF Respond
  <2> QED BY <1>2, <2>1, AnsweredCoh, RenamedCoh, MovedCoh DEF Respond
<1>3. ASSUME NEW t \in Tasks, PutAttributes(t) PROVE CohInv'
  <2> DEFINE r == task[t].read
  <2>1. /\ task[t].at = "put_attributes" /\ CachePutAttr(r.path, task[t].size) /\ UNCHANGED <<disk, untold>>
        /\ Goto(t, Idle) \/ Goto(t, r)
    BY <1>3 DEF PutAttributes, Answer, track
  <2>2. Bland(task[t]) /\ Bland(r)
    <3>1. r.at = "lookup"
      BY <2>1, Known DEF Typed, TaskOK
    <3> QED BY <2>1, <3>1 DEF Bland
  <2>3. r.path \in Files
    BY <2>1, Known, BeforeStep DEF TasksHeld, TaskHeld, RequestOK
  <2> HIDE DEF r
  <2> QED BY <2>1, <2>2, <2>3, IdleBland, PutAttributesCoh
<1>4. ASSUME NEW t \in Tasks, Step(t) PROVE CohInv'
  BY <1>2, <1>3, <1>4, <1>w, UploadedCoh, UploadFailsCoh, FsyncInvalidateCoh, LooksCoh, BufferHitCoh,
     FetchDataCoh, FillBufferCoh, StorePagesCoh, ResponseLostCoh DEF Step
<1> QED BY <1>0, <1>1, <1>4, ForgetCoh DEF Next

\* What a step may do to the read buffer and to what it was filled from.
LEMMA BufferKinds ==
    ASSUME [Next]_vars
    PROVE  \/ UNCHANGED <<disk, rbuf, aged>>
           \/ rbuf' = rbuf /\ Ages
           \/ \E t \in Tasks : FillBuffer(t)
<1> DEFINE Kept == UNCHANGED <<disk, rbuf, aged>> \/ (rbuf' = rbuf /\ Ages)
<1>1. ASSUME NEW t \in Tasks, Start(t) PROVE Kept
  <2>1. PICK p, q, off, len :
          \/ Flush(t) \/ Fsync(t, p) \/ CreateFile(t, p) \/ Remove(t, p) \/ Rename(t, p, q)
          \/ SetSize(t, p, len) \/ WriteFile(t, p, off, len) \/ ReadFile(t, p, off, len)
    BY <1>1 DEF Start
  <2> QED BY <2>1 DEF Flush, Fsync, TakeBuffer, CreateFile, Remove, Rename, SetSize, WriteFile, ReadFile,
                      client, track
<1>2. ASSUME NEW t \in Tasks, Step(t), ~FillBuffer(t) PROVE Kept
  BY <1>2 DEF Step, ServerWrite, Uploaded, UploadFails, FsyncInvalidate, FetchAttributes, PutAttributes,
              LookupPages, BufferHit, FetchData, StorePages, Respond, ResponseLost, client, track
<1>3. CASE (\E p \in Files : Forget(p)) \/ UNCHANGED vars
  BY <1>3 DEF Forget, vars, client, track
<1> QED BY <1>1, <1>2, <1>3 DEF Next

LEMMA NextBuffer == TypeInv /\ CohInv /\ BufferTrue /\ [Next]_vars => BufferTrue'
<1> SUFFICES ASSUME TypeInv, CohInv, BufferTrue, [Next]_vars PROVE BufferTrue'
  OBVIOUS
<1>1. CASE UNCHANGED <<disk, rbuf, aged>>
  BY <1>1 DEF BufferTrue
<1>2. CASE rbuf' = rbuf /\ Ages
  BY <1>2 DEF BufferTrue, Ages
<1>3. ASSUME NEW t \in Tasks, FillBuffer(t) PROVE BufferTrue'
  <2> DEFINE x == task[t]
             b == [path |-> x.read.path, offset |-> x.read.off, data |-> x.data]
  <2>1. x.at = "fill" /\ rbuf' = b /\ disk' = disk
    BY <1>3 DEF FillBuffer
  <2>2. Within(Now(disk[x.read.path]), x.read.off, x.data)
    BY <2>1 DEF CohInv, CallTrue
  <2>3. b.path = x.read.path /\ b.offset = x.read.off /\ b.data = x.data
    OBVIOUS
  <2> HIDE DEF x, b
  <2> QED BY <2>1, <2>2, <2>3 DEF BufferTrue
<1> QED BY <1>1, <1>2, <1>3, BufferKinds

LEMMA InitCoh == Init => CohInv /\ BufferTrue
<1> SUFFICES ASSUME Init PROVE CohInv /\ BufferTrue
  OBVIOUS
<1>1. task = [t \in Tasks |-> Idle] /\ cache = [p \in Files |-> NoEntry]
  BY DEF Init
<1>2. \A p \in Files : PathTrue(Idle, disk, cache[p], untold, p)
  BY <1>1, NoneTrue DEF PathTrue
<1>3. CohInv
  BY <1>1, <1>2, IdleBland, BlandTrue DEF CohInv
<1>4. BufferTrue
  BY NoPathAssumption DEF Init, CleanBuffer, BufferTrue
<1> QED BY <1>3, <1>4

LEMMA CohCoherent == OneTask => (TypeInv /\ CohInv => CacheCoherent)
<1> SUFFICES ASSUME OneTask, TypeInv, CohInv, \A t \in Tasks : task[t] = Idle,
                    NEW p \in Files \ untold, cache[p] # NoEntry, NEW i \in Offsets, Valid(cache[p].pages, i)
             PROVE  \/ ByteAt(cache[p].pages, i) = Zero
                    \/ disk[p] # Absent /\ At(disk[p], i + 1) = ByteAt(cache[p].pages, i)
  BY DEF CacheCoherent, Coherent
<1>1. PICK t \in Tasks : task[t] = Idle
  BY DEF OneTask
<1>2. Sensible(Now(disk[p])) /\ PathTrue(Idle, disk, cache[p], untold, p) /\ i \in Nat
  BY <1>1, Known DEF CohInv, Offsets
<1>3. TableHeld(Now(disk[p]), cache[p].pages)
  BY <1>2, IdleBland, BlandTrue, SeenWider DEF PathTrue, TrueEntry
<1>4. ByteAt(cache[p].pages, i) \in Now(disk[p])[i]
  BY <1>2, <1>3, ByteHeld
<1> QED BY <1>2, <1>4 DEF Now

\* If requests come one at a time, whatever they are, however often each is
\* sent and whatever is lost: between requests a cached byte is the server's or
\* a zero in a gap, but for the files whose pages the code leaves behind the
\* server: those that survived a truncation, a rename onto their file from an
\* uncached one, a change whose answer was lost or an upload that met a full
\* page table, and those read from a read buffer that is older than the file.
\* And every byte is in its place.
THEOREM CacheIsCoherent == OneTask => (Spec => []SerialCoherence)
<1> SUFFICES ASSUME OneTask PROVE Spec => []SerialCoherence
  OBVIOUS
<1>1. TypeInv /\ DoneInv /\ [Next]_vars => DoneInv'
  BY NextDone
<1>2. TypeInv /\ DoneInv /\ CohInv /\ BufferTrue /\ [Next]_vars => CohInv'
  BY NextCoh
<1>3. TypeInv /\ CohInv => CacheCoherent
  BY CohCoherent
<1>4. RenamesApart
  BY DEF RenamesApart, OneTask
<1>5. CacheCoherent /\ NoCrossWiring => SerialCoherence
  BY DEF SerialCoherence
<1> QED BY <1>1, <1>2, <1>3, <1>4, <1>5, InitDone, InitCoh, NextBuffer, TypeInvariant, BytesStayInPlace,
           PTL DEF Spec

=============================================================================
