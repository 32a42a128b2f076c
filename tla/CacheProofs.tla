---------------------------- MODULE CacheProofs ----------------------------
(***************************************************************************)
(* Proofs about the client cache for every set of tasks and paths, every   *)
(* capacity, TTL and policy.                                               *)
(***************************************************************************)
EXTENDS Cache, FiniteSetTheorems, TLAPS

----------------------------------------------------------------------------
(* Lemmas about the operators on the map *)

\* Making room keeps a part of the map, entry by entry.
LEMMA MakeRoomFacts ==
    ASSUME NEW map, NEW room \in MakeRoom(map)
    PROVE  /\ DOMAIN room \subseteq DOMAIN map
           /\ \A q \in DOMAIN room : room[q] = map[q]
<1>1. CASE room = map
  BY <1>1
<1>2. CASE room # map
  BY <1>2 DEF MakeRoom, Without, Restrict
<1> QED BY <1>1, <1>2

\* Making room in a map of at most MaxEntries leaves a place free, unless the
\* map is below capacity already.
LEMMA MakeRoomSize ==
    ASSUME NEW map, NEW room \in MakeRoom(map),
           IsFiniteSet(DOMAIN map), Cardinality(DOMAIN map) <= MaxEntries
    PROVE  /\ IsFiniteSet(DOMAIN room)
           /\ Cardinality(DOMAIN room) + 1 <= MaxEntries
<1> USE CapacityAssumption DEF MaxEntries
<1>1. Cardinality(DOMAIN map) \in Nat
  BY FS_CardinalityType
<1>2. CASE Cardinality(DOMAIN map) >= Capacity /\ DOMAIN map # {}
  <2>1. PICK v \in Victims(map) : room = Without(map, {v})
    BY <1>2 DEF MakeRoom
  <2>2. v \in DOMAIN map /\ DOMAIN room = DOMAIN map \ {v}
    BY <2>1 DEF Victims, Without, Restrict
  <2>3. IsFiniteSet(DOMAIN room) /\ Cardinality(DOMAIN room) = Cardinality(DOMAIN map) - 1
    BY <2>2, FS_RemoveElement
  <2> QED BY <1>1, <2>3
<1>3. CASE DOMAIN map = {}
  <2>1. room = map /\ Cardinality(DOMAIN map) = 0
    BY <1>3, FS_EmptySet DEF MakeRoom
  <2> QED BY <2>1
<1>4. CASE ~(Cardinality(DOMAIN map) >= Capacity) /\ DOMAIN map # {}
  BY <1>1, <1>4 DEF MakeRoom
<1> QED BY <1>2, <1>3, <1>4

----------------------------------------------------------------------------
(* Type correctness *)

\* Merging items of one kind, or replacing one by another, gives an item.
LEMMA UpdateType ==
    ASSUME NEW old \in Item, NEW new \in Item
    PROVE  /\ Update(old, new) \in Item
           /\ InvalidateAttributes(Update(old, new)) \in Item
BY DEF Update, Merge, InvalidateAttributes, Item

\* The part of TypeOK about the entries, for any map.
EntriesOK(map, time) ==
    /\ DOMAIN map \subseteq Paths
    /\ map \in [DOMAIN map -> Entry]
    /\ \A p \in DOMAIN map : /\ map[p].created_at <= map[p].last_accessed
                             /\ map[p].last_accessed <= time

LEMMA WithoutType ==
    ASSUME NEW map, NEW S, NEW time, EntriesOK(map, time)
    PROVE  EntriesOK(Without(map, S), time)
BY DEF Without, Restrict, EntriesOK

LEMMA InsertType ==
    ASSUME NEW map, NEW p \in Paths, NEW item \in Item,
           now \in Nat, EntriesOK(map, now)
    PROVE  EntriesOK(Insert(map, p, NewEntry(item)), now)
<1>1. NewEntry(item) \in Entry /\ NewEntry(item).created_at = now
                               /\ NewEntry(item).last_accessed = now
  BY DEF NewEntry, Entry
<1> QED BY <1>1 DEF Insert, EntriesOK

LEMMA MakeRoomType ==
    ASSUME NEW map, NEW room \in MakeRoom(map), NEW time, EntriesOK(map, time)
    PROVE  EntriesOK(room, time)
BY WithoutType DEF MakeRoom

----------------------------------------------------------------------------
(* The inductive invariant *)

LEMMA InvInit == Init => IndInv
<1> SUFFICES ASSUME Init PROVE IndInv
  OBVIOUS
<1>1. TypeOK /\ LeaseKept /\ HitsAreFresh /\ DueIsPending
  BY TTLAssumption DEF Init, TypeOK, LeaseKept, HitsAreFresh, DueIsPending
<1>2. IsFiniteSet(DOMAIN entries) /\ WithinCapacity
  BY FS_EmptySet, CapacityAssumption DEF Init, WithinCapacity, MaxEntries
<1> QED BY <1>1, <1>2 DEF IndInv

\* What every critical section that only takes entries out preserves.
LEMMA RemovalStep ==
    ASSUME IndInv, NEW t \in Tasks, NEW S, NEW added \in SUBSET Paths,
           entries' = Without(entries, S), Settle(t, added, {})
    PROVE  /\ EntriesOK(entries', now)
           /\ IsFiniteSet(DOMAIN entries') /\ WithinCapacity'
           /\ LeaseKept'
           /\ first' \in [Paths -> Nat] /\ due' \in [Tasks -> SUBSET Paths]
           /\ \A u \in Tasks : due'[u] \subseteq due[u] \cup (IF u = t THEN added \ S ELSE {})
           /\ due'[t] \cap S = {}
<1>1. EntriesOK(entries', now)
  BY WithoutType DEF IndInv, TypeOK, EntriesOK
<1>2. /\ DOMAIN entries' = DOMAIN entries \ S
      /\ \A q \in DOMAIN entries' : entries'[q] = entries[q]
  BY DEF Without, Restrict
<1>3. IsFiniteSet(DOMAIN entries') /\ WithinCapacity'
  <2>1. IsFiniteSet(DOMAIN entries') /\ Cardinality(DOMAIN entries') <= Cardinality(DOMAIN entries)
    BY <1>2, FS_Subset DEF IndInv
  <2>2. Cardinality(DOMAIN entries) \in Nat /\ Cardinality(DOMAIN entries') \in Nat
    BY <2>1, FS_CardinalityType DEF IndInv
  <2> QED BY <2>1, <2>2, CapacityAssumption DEF IndInv, WithinCapacity, MaxEntries
<1>4. LeaseKept'
  BY <1>2 DEF IndInv, TypeOK, LeaseKept, Settle
<1>5. first' \in [Paths -> Nat] /\ due' \in [Tasks -> SUBSET Paths]
  BY DEF IndInv, TypeOK, Settle
<1>6. /\ \A u \in Tasks : due'[u] \subseteq due[u] \cup (IF u = t THEN added \ S ELSE {})
      /\ due'[t] \cap S = {}
  BY <1>2 DEF Settle
<1> QED BY <1>1, <1>3, <1>4, <1>5, <1>6

\* What the two insertions preserve: put's, after dropping an expired entry of
\* the same path, and put_new's.
LEMMA InsertionStep ==
    ASSUME IndInv, NEW t \in Tasks, NEW p \in Paths, NEW item \in Item,
           NEW S, NEW room \in MakeRoom(Without(entries, S)), S \subseteq {p},
           entries' = Insert(room, p, NewEntry(item)), Settle(t, {}, {p})
    PROVE  /\ EntriesOK(entries', now)
           /\ IsFiniteSet(DOMAIN entries') /\ WithinCapacity'
           /\ LeaseKept'
           /\ first' \in [Paths -> Nat] /\ due' \in [Tasks -> SUBSET Paths]
           /\ \A u \in Tasks : due'[u] \subseteq due[u]
<1> DEFINE base == Without(entries, S)
<1>1. EntriesOK(entries', now)
  <2>1. EntriesOK(entries, now) /\ now \in Nat
    BY DEF IndInv, TypeOK, EntriesOK
  <2>2. EntriesOK(room, now)
    BY <2>1, WithoutType, MakeRoomType
  <2> QED BY <2>1, <2>2, InsertType
<1>2. DOMAIN base \subseteq DOMAIN entries /\ \A q \in DOMAIN base : base[q] = entries[q]
  BY DEF Without, Restrict
<1>3. DOMAIN room \subseteq DOMAIN entries /\ \A q \in DOMAIN room : room[q] = entries[q]
  BY <1>2, MakeRoomFacts
<1>4. /\ DOMAIN entries' = DOMAIN room \cup {p}
      /\ entries'[p] = NewEntry(item)
      /\ \A q \in DOMAIN room : q # p => entries'[q] = entries[q]
  BY <1>3 DEF Insert
<1>5. IsFiniteSet(DOMAIN entries') /\ WithinCapacity'
  <2>1. IsFiniteSet(DOMAIN base) /\ Cardinality(DOMAIN base) <= Cardinality(DOMAIN entries)
    BY <1>2, FS_Subset DEF IndInv
  <2>2. Cardinality(DOMAIN entries) \in Nat /\ Cardinality(DOMAIN base) \in Nat
    BY <2>1, FS_CardinalityType DEF IndInv
  <2>3. Cardinality(DOMAIN base) <= MaxEntries
    BY <2>1, <2>2, CapacityAssumption DEF IndInv, WithinCapacity, MaxEntries
  <2>4. IsFiniteSet(DOMAIN room) /\ Cardinality(DOMAIN room) + 1 <= MaxEntries
    BY <2>1, <2>3, MakeRoomSize
  <2>5. Cardinality(DOMAIN room) \in Nat
    BY <2>4, FS_CardinalityType
  <2>6. /\ IsFiniteSet(DOMAIN entries')
        /\ \/ Cardinality(DOMAIN entries') = Cardinality(DOMAIN room)
           \/ Cardinality(DOMAIN entries') = Cardinality(DOMAIN room) + 1
    BY <1>4, <2>4, FS_AddElement
  <2> QED BY <2>4, <2>5, <2>6, CapacityAssumption DEF WithinCapacity, MaxEntries
<1>6. LeaseKept'
  BY <1>3, <1>4 DEF IndInv, TypeOK, LeaseKept, Settle, NewEntry
<1>7. first' \in [Paths -> Nat] /\ due' \in [Tasks -> SUBSET Paths]
  BY DEF IndInv, TypeOK, Settle
<1>8. \A u \in Tasks : due'[u] \subseteq due[u]
  BY DEF Settle
<1> QED BY <1>1, <1>5, <1>6, <1>7, <1>8

\* Touching an entry and replacing its item keeps its creation time.
LEMMA TouchType ==
    ASSUME NEW e \in Entry, NEW item \in Item, now \in Nat
    PROVE  /\ Touch(e, item) \in Entry
           /\ Touch(e, item).created_at = e.created_at
           /\ Touch(e, item).last_accessed = now
BY DEF Touch, Entry

\* An entry that is merely touched or merged into keeps its lease.
LEMMA TouchStep ==
    ASSUME IndInv, NEW p \in DOMAIN entries, NEW item \in Item,
           entries' = [entries EXCEPT ![p] = Touch(@, item)],
           first' = first
    PROVE  /\ EntriesOK(entries', now)
           /\ IsFiniteSet(DOMAIN entries') /\ WithinCapacity'
           /\ LeaseKept'
<1>1. entries[p] \in Entry /\ now \in Nat
  BY DEF IndInv, TypeOK
<1> DEFINE x == Touch(entries[p], item)
<1>3. x \in Entry /\ x.created_at = entries[p].created_at /\ x.last_accessed = now
  BY <1>1, TouchType
<1>4. entries' = [entries EXCEPT ![p] = x]
  OBVIOUS
<1> HIDE DEF x
<1>5. /\ DOMAIN entries' = DOMAIN entries
      /\ entries'[p] = x
      /\ \A q \in DOMAIN entries : q # p => entries'[q] = entries[q]
      /\ entries' = [q \in DOMAIN entries |-> entries'[q]]
  BY <1>4
<1>6. entries[p].created_at <= now
  BY <1>1 DEF IndInv, TypeOK, Entry
<1>7. entries' \in [DOMAIN entries' -> Entry]
  BY <1>3, <1>5 DEF IndInv, TypeOK
<1>8. EntriesOK(entries', now)
  <2>1. ASSUME NEW q \in DOMAIN entries
        PROVE  entries'[q].created_at <= entries'[q].last_accessed /\ entries'[q].last_accessed <= now
    <3>1. CASE q = p
      BY <1>1, <1>3, <1>5, <1>6, <3>1
    <3>2. CASE q # p
      BY <1>5, <3>2 DEF IndInv, TypeOK
    <3> QED BY <3>1, <3>2
  <2> QED BY <1>5, <1>7, <2>1 DEF IndInv, TypeOK, EntriesOK
<1>9. LeaseKept'
  BY <1>3, <1>5 DEF IndInv, TypeOK, LeaseKept
<1> QED BY <1>5, <1>8, <1>9 DEF IndInv, WithinCapacity

LEMMA InvStep == IndInv /\ [Next]_vars => IndInv'
<1> SUFFICES ASSUME IndInv, [Next]_vars PROVE IndInv'
  OBVIOUS
<1>p. policy' \in Policies
  <2>1. policy' = policy
    BY DEF Next, vars, Tick, GetHit, GetExpired, PutUpdate, PutInsert, PutNewInvalidateParents,
           PutNewInsert, RemoveEntry, RemoveInvalidateParents, Invalidate
  <2> QED BY <2>1 DEF IndInv, TypeOK
\* What is left to show of an action that one of the three lemmas covers.
<1>a. ASSUME EntriesOK(entries', now), IsFiniteSet(DOMAIN entries'), WithinCapacity', LeaseKept',
             first' \in [Paths -> Nat], due' \in [Tasks -> SUBSET Paths], now' = now,
             pc' \in [Tasks -> {Idle} \cup Pending],
             hitAge' \in Nat, HitsAreFresh', DueIsPending'
      PROVE  IndInv'
  BY <1>a, <1>p DEF IndInv, TypeOK, EntriesOK
<1>b. ASSUME hitAge' = hitAge PROVE hitAge' \in Nat /\ HitsAreFresh'
  BY <1>b DEF IndInv, TypeOK, HitsAreFresh
<1>c. pc \in [Tasks -> {Idle} \cup Pending] /\ due \in [Tasks -> SUBSET Paths]
  BY DEF IndInv, TypeOK
<1>1. CASE Tick
  <2>1. now' = now + 1 /\ now \in Nat
    BY <1>1 DEF Tick, IndInv, TypeOK
  <2>2. TypeOK'
    BY <1>1, <2>1 DEF Tick, IndInv, TypeOK, Entry
  <2> QED BY <1>1, <2>2 DEF Tick, IndInv, WithinCapacity, LeaseKept, HitsAreFresh, DueIsPending
<1>2. ASSUME NEW t \in Tasks, NEW p \in Paths, GetHit(t, p) PROVE IndInv'
  <2>1. p \in DOMAIN entries /\ entries[p] \in Entry /\ now \in Nat
    BY <1>2 DEF GetHit, IndInv, TypeOK
  <2>2. entries[p].item \in Item
    BY <2>1 DEF Entry
  <2>3. EntriesOK(entries', now) /\ IsFiniteSet(DOMAIN entries') /\ WithinCapacity' /\ LeaseKept'
    BY <1>2, <2>1, <2>2, TouchStep DEF GetHit
  <2>4. hitAge' \in Nat /\ HitsAreFresh'
    <3>1. first[p] = entries[p].created_at /\ first[p] <= now /\ first[p] \in Nat
      BY <2>1 DEF IndInv, TypeOK, LeaseKept, Entry
    <3>2. UseTtl => now <= first[p] + TTL
      BY <1>2, <2>1, <3>1, TTLAssumption DEF GetHit, Expired
    <3> QED BY <1>2, <2>1, <3>1, <3>2, TTLAssumption DEF GetHit, HitsAreFresh
  <2>5. DueIsPending'
    BY <1>2 DEF GetHit, IndInv, DueIsPending
  <2> QED BY <1>2, <1>a, <1>c, <2>3, <2>4, <2>5 DEF GetHit, IndInv, TypeOK
<1>3. ASSUME NEW t \in Tasks, NEW p \in Paths, GetExpired(t, p) PROVE IndInv'
  <2>1. entries' = Without(entries, {p}) /\ Settle(t, {}, {}) /\ now' = now /\ pc' = pc /\ hitAge' = hitAge
    BY <1>3 DEF GetExpired
  <2>2. DueIsPending'
    BY <2>1, RemovalStep DEF IndInv, DueIsPending
  <2> QED BY <1>a, <1>b, <1>c, <2>1, <2>2, RemovalStep
<1>4. ASSUME NEW t \in Tasks, NEW p \in Paths, NEW item \in Items, NEW inv \in BOOLEAN,
             PutUpdate(t, p, item, inv)
      PROVE  IndInv'
  <2>1. p \in DOMAIN entries /\ entries[p] \in Entry /\ entries[p].item \in Item /\ item \in Item
    BY <1>4, ItemsAssumption DEF PutUpdate, IndInv, TypeOK, Entry
  <2> DEFINE merged == Update(entries[p].item, item)
             stored == IF inv THEN InvalidateAttributes(merged) ELSE merged
  <2>2. stored \in Item
    BY <2>1, UpdateType
  <2>3. entries' = [entries EXCEPT ![p] = Touch(@, stored)]
    BY <1>4 DEF PutUpdate
  <2>4. UNCHANGED <<now, pc, first, due, hitAge>>
    BY <1>4 DEF PutUpdate
  <2>5. EntriesOK(entries', now) /\ IsFiniteSet(DOMAIN entries') /\ WithinCapacity' /\ LeaseKept'
    <3> HIDE DEF stored
    <3> QED BY <2>1, <2>2, <2>3, <2>4, TouchStep
  <2>6. DueIsPending'
    BY <2>4 DEF IndInv, DueIsPending
  <2> QED BY <1>a, <1>b, <1>c, <2>4, <2>5, <2>6 DEF IndInv, TypeOK
<1>5. ASSUME NEW t \in Tasks, NEW p \in Paths, NEW item \in Items, PutInsert(t, p, item)
      PROVE  IndInv'
  <2>1. PICK room \in MakeRoom(Without(entries, {p})) : entries' = Insert(room, p, NewEntry(item))
    BY <1>5 DEF PutInsert
  <2>2. Settle(t, {}, {p}) /\ now' = now /\ pc' = pc /\ hitAge' = hitAge /\ item \in Item
    BY <1>5, ItemsAssumption DEF PutInsert
  <2>3. /\ EntriesOK(entries', now) /\ IsFiniteSet(DOMAIN entries') /\ WithinCapacity' /\ LeaseKept'
        /\ first' \in [Paths -> Nat] /\ due' \in [Tasks -> SUBSET Paths]
        /\ \A u \in Tasks : due'[u] \subseteq due[u]
    BY <2>1, <2>2, InsertionStep
  <2>4. DueIsPending'
    BY <2>2, <2>3 DEF IndInv, DueIsPending
  <2> QED BY <1>a, <1>b, <1>c, <2>2, <2>3, <2>4
<1>6. ASSUME NEW t \in Tasks, NEW p \in Paths, NEW item \in Items,
             PutNewInvalidateParents(t, p, item)
      PROVE  IndInv'
  <2> DEFINE added == ParentPaths(p) \cap DOMAIN entries
  <2>1. added \in SUBSET Paths /\ item \in Item
    BY ItemsAssumption DEF IndInv, TypeOK
  <2>2. /\ pc[t] = Idle
        /\ entries' = Without(entries, ParentPaths(p)) /\ Settle(t, added, {})
        /\ now' = now /\ hitAge' = hitAge
        /\ pc' = [pc EXCEPT ![t] = [op |-> "put_new", path |-> p, item |-> item]]
    BY <1>6 DEF PutNewInvalidateParents
  <2>3. pc' \in [Tasks -> {Idle} \cup Pending]
    BY <1>c, <2>1, <2>2 DEF Pending
  <2> HIDE DEF added
  <2>4. DueIsPending'
    <3>1. due[t] = {}
      BY <2>2 DEF IndInv, DueIsPending, Idle
    <3>2. due'[t] = {}
      BY <2>1, <2>2, <3>1, RemovalStep DEF added
    <3>3. \A u \in Tasks : u # t => due'[u] \subseteq due[u] /\ pc'[u] = pc[u]
      BY <1>c, <2>1, <2>2, RemovalStep
    <3> QED BY <3>2, <3>3 DEF IndInv, DueIsPending
  <2> QED BY <1>a, <1>b, <2>1, <2>2, <2>3, <2>4, RemovalStep
<1>7. ASSUME NEW t \in Tasks, PutNewInsert(t) PROVE IndInv'
  <2> DEFINE p == pc[t].path
             item == pc[t].item
  <2>1. pc[t].op = "put_new" /\ p \in Paths /\ item \in Item
    BY <1>7, <1>c DEF PutNewInsert, Pending, Idle
  <2>2. PICK room \in MakeRoom(entries) : entries' = Insert(room, p, NewEntry(item))
    BY <1>7 DEF PutNewInsert
  <2>3. Settle(t, {}, {p}) /\ now' = now /\ pc' = [pc EXCEPT ![t] = Idle] /\ hitAge' = hitAge
    BY <1>7 DEF PutNewInsert
  <2>4. pc' \in [Tasks -> {Idle} \cup Pending]
    BY <1>c, <2>3
  <2>5. entries = Without(entries, {})
    BY DEF IndInv, TypeOK, Without, Restrict
  <2> HIDE DEF p, item
  <2>6. /\ EntriesOK(entries', now) /\ IsFiniteSet(DOMAIN entries') /\ WithinCapacity' /\ LeaseKept'
        /\ first' \in [Paths -> Nat] /\ due' \in [Tasks -> SUBSET Paths]
        /\ \A u \in Tasks : due'[u] \subseteq due[u]
    BY <2>1, <2>2, <2>3, <2>5, InsertionStep
  <2>7. DueIsPending'
    <3>1. due[t] = {}
      BY <2>1 DEF IndInv, DueIsPending
    <3> QED BY <1>c, <2>3, <2>6, <3>1 DEF IndInv, DueIsPending
  <2> QED BY <1>a, <1>b, <2>3, <2>4, <2>6, <2>7
<1>8. ASSUME NEW t \in Tasks, NEW p \in Paths, RemoveEntry(t, p) PROVE IndInv'
  <2> DEFINE added == ParentPaths(p) \cap DOMAIN entries
  <2>1. added \in SUBSET Paths /\ added \subseteq ParentPaths(p)
    BY DEF IndInv, TypeOK
  <2>2. /\ pc[t] = Idle
        /\ entries' = Without(entries, {p}) /\ Settle(t, added, {})
        /\ now' = now /\ hitAge' = hitAge
        /\ pc' = [pc EXCEPT ![t] = [op |-> "remove", path |-> p]]
    BY <1>8 DEF RemoveEntry
  <2>3. pc' \in [Tasks -> {Idle} \cup Pending]
    BY <1>c, <2>2 DEF Pending
  <2> HIDE DEF added
  <2>4. DueIsPending'
    <3>1. due[t] = {}
      BY <2>2 DEF IndInv, DueIsPending, Idle
    <3>2. due'[t] \subseteq ParentPaths(p) /\ pc'[t].op = "remove" /\ pc'[t].path = p
      BY <1>c, <2>1, <2>2, <3>1, RemovalStep
    <3>3. \A u \in Tasks : u # t => due'[u] \subseteq due[u] /\ pc'[u] = pc[u]
      BY <1>c, <2>1, <2>2, RemovalStep
    <3> QED BY <3>2, <3>3 DEF IndInv, DueIsPending
  <2> QED BY <1>a, <1>b, <2>1, <2>2, <2>3, <2>4, RemovalStep
<1>9. ASSUME NEW t \in Tasks, RemoveInvalidateParents(t) PROVE IndInv'
  <2> DEFINE S == ParentPaths(pc[t].path)
  <2>1. /\ pc[t].op = "remove"
        /\ entries' = Without(entries, S) /\ Settle(t, {}, {})
        /\ now' = now /\ hitAge' = hitAge /\ pc' = [pc EXCEPT ![t] = Idle]
    BY <1>9 DEF RemoveInvalidateParents
  <2>2. pc' \in [Tasks -> {Idle} \cup Pending]
    BY <1>c, <2>1
  <2>3. due[t] \subseteq S
    BY <2>1 DEF IndInv, DueIsPending
  <2> HIDE DEF S
  <2>4. DueIsPending'
    <3>1. due'[t] = {}
      BY <2>1, <2>3, RemovalStep
    <3>2. \A u \in Tasks : u # t => due'[u] \subseteq due[u] /\ pc'[u] = pc[u]
      BY <1>c, <2>1, RemovalStep
    <3> QED BY <3>1, <3>2 DEF IndInv, DueIsPending
  <2> QED BY <1>a, <1>b, <2>1, <2>2, <2>4, RemovalStep
<1>10. ASSUME NEW t \in Tasks, NEW p \in Paths, Invalidate(t, p) PROVE IndInv'
  <2>1. entries' = Without(entries, {p}) /\ Settle(t, {}, {}) /\ now' = now /\ pc' = pc /\ hitAge' = hitAge
    BY <1>10 DEF Invalidate
  <2>2. DueIsPending'
    BY <2>1, RemovalStep DEF IndInv, DueIsPending
  <2> QED BY <1>a, <1>b, <1>c, <2>1, <2>2, RemovalStep
<1>11. CASE UNCHANGED vars
  BY <1>11 DEF vars, IndInv, TypeOK, WithinCapacity, LeaseKept, HitsAreFresh, DueIsPending
<1> QED
  BY <1>1, <1>2, <1>3, <1>4, <1>5, <1>6, <1>7, <1>8, <1>9, <1>10, <1>11 DEF Next

----------------------------------------------------------------------------
(* Eviction *)

\* What leaves the map to make room is one entry of the least rank, if any.
LEMMA MakeRoomEvicts ==
    ASSUME NEW map, NEW room \in MakeRoom(map), NEW p \in DOMAIN map \ DOMAIN room
    PROVE  /\ DOMAIN map \ DOMAIN room = {p} /\ Cardinality(DOMAIN map) >= Capacity
           /\ \A q \in DOMAIN map : Rank(map[p]) <= Rank(map[q])
<1>1. PICK v \in Victims(map) : room = Without(map, {v}) /\ Cardinality(DOMAIN map) >= Capacity
  BY DEF MakeRoom
<1>2. DOMAIN map \ DOMAIN room = {v}
  BY <1>1 DEF Victims, Without, Restrict
<1> QED BY <1>1, <1>2 DEF Victims

\* Of an insertion after the entries at S have gone: if it is the replaced entry
\* itself that has gone, nothing else has to.
LEMMA InsertionEvicts ==
    ASSUME IndInv, NEW x \in Paths, NEW e, NEW S, S \subseteq {x},
           NEW room \in MakeRoom(Without(entries, S)), entries' = Insert(room, x, e),
           NEW p \in Lost
    PROVE  Lost = {p} /\ \A q \in Kept : Rank(entries[p]) <= Rank(entries[q])
<1> DEFINE base == Without(entries, S)
<1>1. DOMAIN base = DOMAIN entries \ S /\ \A q \in DOMAIN base : base[q] = entries[q]
  BY DEF Without, Restrict
<1>2. DOMAIN room \subseteq DOMAIN base /\ DOMAIN entries' = DOMAIN room \cup {x}
  BY MakeRoomFacts DEF Insert
<1> HIDE DEF base
<1>3. p \in DOMAIN base \ DOMAIN room /\ p # x
  BY <1>1, <1>2 DEF Lost
<1>4. /\ DOMAIN base \ DOMAIN room = {p} /\ Cardinality(DOMAIN base) >= Capacity
      /\ \A q \in DOMAIN base : Rank(base[p]) <= Rank(base[q])
  BY <1>3, MakeRoomEvicts DEF base
<1>5. Lost = {p}
  BY <1>1, <1>2, <1>3, <1>4 DEF Lost
<1>6. DOMAIN base = DOMAIN entries
  <2> SUFFICES ASSUME x \in DOMAIN entries, DOMAIN base = DOMAIN entries \ {x} PROVE FALSE
    BY <1>1
  <2>1. IsFiniteSet(DOMAIN entries) /\ WithinCapacity
    BY DEF IndInv
  <2>2. /\ Cardinality(DOMAIN base) = Cardinality(DOMAIN entries) - 1
        /\ Cardinality(DOMAIN entries) \in Nat /\ Cardinality(DOMAIN base) \in Nat
        /\ IsFiniteSet(DOMAIN base)
    BY <2>1, FS_RemoveElement, FS_CardinalityType
  <2>3. Cardinality(DOMAIN base) # 0
    BY <1>3, <2>2, FS_EmptySet
  <2> QED BY <1>4, <2>1, <2>2, <2>3, CapacityAssumption DEF WithinCapacity, MaxEntries
<1>7. \A q \in Kept : q \in DOMAIN base
  BY <1>6 DEF Kept
<1> QED BY <1>1, <1>3, <1>4, <1>5, <1>7

----------------------------------------------------------------------------
(* The theorems *)

\* The inductive invariant holds in every reachable state of the cache.
THEOREM Invariance == Spec => []IndInv
BY InvInit, InvStep, PTL DEF Spec

\* Every operation of the cache keeps the map well formed, each entry created
\* before it was last used and used no later than now.
THEOREM TypeCorrect == Spec => []TypeOK
<1>1. IndInv => TypeOK
  BY DEF IndInv
<1> QED BY <1>1, Invariance, PTL

\* Cache::put and Cache::put_new keep the map within its configured capacity
\* (one entry for capacity 0), for every capacity and policy and any number
\* of concurrent requests.
THEOREM CapacityBound == Spec => []WithinCapacity
<1>1. IndInv => WithinCapacity
  BY DEF IndInv
<1> QED BY <1>1, Invariance, PTL

\* Cache::get never serves an entry older than the TTL, because Cache::put
\* merges into a valid entry without renewing created_at.
THEOREM Freshness == Spec => []HitsAreFresh
<1>1. IndInv => HitsAreFresh
  BY DEF IndInv
<1> QED BY <1>1, Invariance, PTL

\* When put_new or remove returns, every ancestor entry of the path that was
\* cached when it began has been dropped, in spite of the two lock sections.
THEOREM ParentInvalidation == Spec => []AncestorsDropped
<1>1. IndInv => AncestorsDropped
  BY DEF IndInv, DueIsPending, AncestorsDropped, Idle
<1> QED BY <1>1, Invariance, PTL

\* Cache::put and Cache::put_new evict at most one entry to insert one, and the
\* least recently or least often used of all, whatever other requests did since
\* the call began.
THEOREM EvictionIsRight == Spec => EvictsLeastUsed
<1> DEFINE Right == \A p \in Lost : /\ Lost = {p}
                                    /\ \A q \in Kept : Rank(entries[p]) <= Rank(entries[q])
<1>1. ASSUME IndInv, Inserts PROVE Right
  <2> SUFFICES ASSUME NEW p \in Lost
               PROVE  Lost = {p} /\ \A q \in Kept : Rank(entries[p]) <= Rank(entries[q])
    OBVIOUS
  <2>1. ASSUME NEW t \in Tasks, PutNewInsert(t)
        PROVE  Lost = {p} /\ \A q \in Kept : Rank(entries[p]) <= Rank(entries[q])
    <3>1. pc[t].path \in Paths
      BY <1>1, <2>1 DEF PutNewInsert, IndInv, TypeOK, Pending, Idle
    <3>2. entries = Without(entries, {})
      BY <1>1 DEF IndInv, TypeOK, Without, Restrict
    <3>3. PICK room \in MakeRoom(entries) : entries' = Insert(room, pc[t].path, NewEntry(pc[t].item))
      BY <2>1 DEF PutNewInsert
    <3> QED BY <1>1, <3>1, <3>2, <3>3, InsertionEvicts
  <2>2. ASSUME NEW t \in Tasks, NEW x \in Paths, NEW item \in Items, PutInsert(t, x, item)
        PROVE  Lost = {p} /\ \A q \in Kept : Rank(entries[p]) <= Rank(entries[q])
    <3>1. PICK room \in MakeRoom(Without(entries, {x})) : entries' = Insert(room, x, NewEntry(item))
      BY <2>2 DEF PutInsert
    <3> QED BY <1>1, <3>1, InsertionEvicts
  <2> QED BY <1>1, <2>1, <2>2 DEF Inserts
<1>2. IndInv => [Inserts => Right]_vars
  BY <1>1
<1>3. (Spec => [][Inserts => Right]_vars)
  BY <1>2, Invariance, PTL
<1> QED BY <1>3 DEF EvictsLeastUsed

============================================================================
