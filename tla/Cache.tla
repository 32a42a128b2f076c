------------------------------- MODULE Cache -------------------------------
(***************************************************************************)
(* The client's metadata cache (client/src/cache.rs): a bounded map from   *)
(* paths to entries behind one RwLock, shared by all file-system requests. *)
(* Every critical section of the code is one action; put_new and remove    *)
(* take the lock twice, so each of them is two actions and other requests  *)
(* may run in between.                                                     *)
(*                                                                         *)
(* The callers are arbitrary here: any request may call any operation with *)
(* any item.  A path is the sequence of its components, <<>> is the root.  *)
(* The pages of a cached file are not tracked (module PagedFile has them): *)
(* a File item has a body only in the sense of a Directory's children or a *)
(* SymLink's target.                                                       *)
(***************************************************************************)
EXTENDS Naturals, Sequences, FiniteSets, Functions

CONSTANTS
    Tasks,      \* concurrent file-system requests
    Paths,      \* paths, as sequences of names
    Values,     \* attributes, children lists and link targets
    NoValue,    \* Option::None in their place
    Items,      \* the items the callers put
    Capacity,   \* cfg.capacity
    TTL,        \* cfg.ttl, in clock ticks
    UseTtl,     \* cfg.use_ttl
    Policies,   \* the values of cfg.policy in this instance
    MaxTime,    \* bound on the clock
    MaxAccess   \* bound on the access counter of one entry

Item == [kind : {"File", "Directory", "SymLink"},
         attr : Values \cup {NoValue},
         body : Values \cup {NoValue}]

ASSUME ItemsAssumption == Items \subseteq Item
ASSUME CapacityAssumption == Capacity \in Nat
ASSUME TTLAssumption == TTL \in Nat /\ UseTtl \in BOOLEAN
ASSUME PolicyAssumption == Policies \subseteq {"Lru", "Lfu"}
ASSUME BoundAssumption == MaxTime \in Nat /\ MaxAccess \in Nat

VARIABLES
    entries,    \* the map: a function on the set of cached paths
    policy,     \* cfg.policy, the same for the life of the cache
    now,        \* Instant::now()
    pc,         \* what each task still has to do
    first,      \* history: when each present entry came in (0 for the others)
    due,        \* history: the ancestors each running change has to drop
    hitAge      \* history: age of the entry behind the latest hit

vars == <<entries, policy, now, pc, first, due, hitAge>>

----------------------------------------------------------------------------
(* Items and entries *)

Merge(old, new) ==
    [kind |-> new.kind,
     attr |-> IF new.attr = NoValue THEN old.attr ELSE new.attr,
     body |-> IF new.body = NoValue THEN old.body ELSE new.body]

Update(old, new) == IF old.kind = new.kind THEN Merge(old, new) ELSE new

InvalidateAttributes(item) == [item EXCEPT !.attr = NoValue]

NewEntry(item) ==
    [item |-> item, created_at |-> now, last_accessed |-> now, access_count |-> 0]

\* Fault: a hit or a merge that renews the age of an entry instead of its last use.
TouchRenewing(e, item) ==
    [item |-> item, created_at |-> now,
     last_accessed |-> e.last_accessed, access_count |-> e.access_count + 1]

Expired(e) == UseTtl /\ e.created_at + TTL < now

\* One more use of an entry, which from now on holds this item.
Touch(e, item) ==
    [item |-> item, created_at |-> e.created_at,
     last_accessed |-> now, access_count |-> e.access_count + 1]

----------------------------------------------------------------------------
(* Operators on the map *)

ParentPaths(p) == {SubSeq(p, 1, n) : n \in 0 .. Len(p) - 1}

Without(map, S) == Restrict(map, DOMAIN map \ S)

Insert(map, p, e) == [q \in DOMAIN map \cup {p} |-> IF q = p THEN e ELSE map[q]]

Rank(e) == IF policy = "Lru" THEN e.last_accessed ELSE e.access_count

\* Fault: eviction of the entry with the greatest key.
MostUsed(map) ==
    {v \in DOMAIN map : \A q \in DOMAIN map : Rank(map[v]) >= Rank(map[q])}

\* min_by_key over a HashMap: any of the entries with the least key.
Victims(map) ==
    {v \in DOMAIN map : \A q \in DOMAIN map : Rank(map[v]) <= Rank(map[q])}

\* Fault: room is made one insertion too late.
MakeRoomLate(map) ==
    IF Cardinality(DOMAIN map) > Capacity /\ DOMAIN map # {}
    THEN {Without(map, {v}) : v \in Victims(map)}
    ELSE {map}

\* What the map may be once room has been made for one insertion.
MakeRoom(map) ==
    IF Cardinality(DOMAIN map) >= Capacity /\ DOMAIN map # {}
    THEN {Without(map, {v}) : v \in Victims(map)}
    ELSE {map}

----------------------------------------------------------------------------
Idle == [op |-> "idle"]

\* History: what leaves the map, or is replaced, is no longer due; "added"
\* becomes due for task t, and "new" has just come in.
Settle(t, added, new) ==
    /\ due' = [u \in Tasks |-> (due[u] \cup (IF u = t THEN added ELSE {}))
                                 \cap (DOMAIN entries' \ new)]
    /\ first' = [p \in Paths |-> IF p \in new THEN now
                                 ELSE IF p \in DOMAIN entries' THEN first[p] ELSE 0]

Entry == [item : Item, created_at : Nat, last_accessed : Nat, access_count : Nat]

Pending == [op : {"put_new"}, path : Paths, item : Item] \cup [op : {"remove"}, path : Paths]

\* The clock values of an entry are in the past, in order.
TypeOK ==
    /\ DOMAIN entries \subseteq Paths
    /\ entries \in [DOMAIN entries -> Entry]
    /\ \A p \in DOMAIN entries :
         /\ entries[p].created_at <= entries[p].last_accessed
         /\ entries[p].last_accessed <= now
    /\ policy \in Policies
    /\ now \in Nat
    /\ pc \in [Tasks -> {Idle} \cup Pending]
    /\ first \in [Paths -> Nat]
    /\ due \in [Tasks -> SUBSET Paths]
    /\ hitAge \in Nat

Init ==
    /\ entries = [p \in {} |-> Idle]
    /\ policy \in Policies
    /\ now = 0
    /\ pc = [t \in Tasks |-> Idle]
    /\ first = [p \in Paths |-> 0]
    /\ due = [t \in Tasks |-> {}]
    /\ hitAge = 0

Tick == /\ now < MaxTime
        /\ now' = now + 1
        /\ UNCHANGED <<policy, entries, pc, first, due, hitAge>>

\* Cache::get on a present and valid entry.
GetHit(t, p) ==
    /\ pc[t] = Idle
    /\ p \in DOMAIN entries /\ ~Expired(entries[p])
    /\ entries[p].access_count < MaxAccess
    /\ entries' = [entries EXCEPT ![p] = Touch(@, @.item)]
    /\ hitAge' = now - first[p]
    /\ UNCHANGED <<policy, now, pc, first, due>>

\* Cache::get on an expired entry, which it drops.
GetExpired(t, p) ==
    /\ pc[t] = Idle
    /\ p \in DOMAIN entries /\ Expired(entries[p])
    /\ entries' = Without(entries, {p})
    /\ Settle(t, {}, {})
    /\ UNCHANGED <<policy, now, pc, hitAge>>

\* Fault: a put that makes a new entry of the merged item.
PutRenew(t, p, item, invalidate_attributes) ==
    /\ pc[t] = Idle
    /\ p \in DOMAIN entries /\ ~Expired(entries[p])
    /\ entries' = [entries EXCEPT ![p] = NewEntry(Update(@.item, item))]
    /\ UNCHANGED <<policy, now, pc, first, due, hitAge>>

\* Cache::put on a present and valid entry: the age of the entry stays.
PutUpdate(t, p, item, invalidate_attributes) ==
    /\ pc[t] = Idle
    /\ p \in DOMAIN entries /\ ~Expired(entries[p])
    /\ entries[p].access_count < MaxAccess
    /\ LET merged == Update(entries[p].item, item)
       IN  entries' = [entries EXCEPT ![p] =
             Touch(@, IF invalidate_attributes THEN InvalidateAttributes(merged) ELSE merged)]
    /\ UNCHANGED <<policy, now, pc, first, due, hitAge>>

\* Cache::put on a missing or expired entry.
PutInsert(t, p, item) ==
    /\ pc[t] = Idle
    /\ p \in DOMAIN entries => Expired(entries[p])
    /\ \E map \in MakeRoom(Without(entries, {p})) :
          entries' = Insert(map, p, NewEntry(item))
    /\ Settle(t, {}, {p})
    /\ UNCHANGED <<policy, now, pc, hitAge>>

\* Cache::put_new, first critical section: invalidate_parents.
PutNewInvalidateParents(t, p, item) ==
    /\ pc[t] = Idle
    /\ entries' = Without(entries, ParentPaths(p))
    /\ pc' = [pc EXCEPT ![t] = [op |-> "put_new", path |-> p, item |-> item]]
    /\ Settle(t, ParentPaths(p) \cap DOMAIN entries, {})
    /\ UNCHANGED <<policy, now, hitAge>>

\* Cache::put_new, second critical section: evict if full, then insert.
PutNewInsert(t) ==
    /\ pc[t].op = "put_new"
    /\ LET p == pc[t].path
       IN  /\ \E map \in MakeRoom(entries) :
                 entries' = Insert(map, p, NewEntry(pc[t].item))
           /\ Settle(t, {}, {p})
    /\ pc' = [pc EXCEPT ![t] = Idle]
    /\ UNCHANGED <<policy, now, hitAge>>

\* Cache::remove, first critical section: the entry itself, whatever its age.
RemoveEntry(t, p) ==
    /\ pc[t] = Idle
    /\ entries' = Without(entries, {p})
    /\ pc' = [pc EXCEPT ![t] = [op |-> "remove", path |-> p]]
    /\ Settle(t, ParentPaths(p) \cap DOMAIN entries, {})
    /\ UNCHANGED <<policy, now, hitAge>>

\* Fault: a remove that invalidates the immediate parent alone.
RemoveInvalidateParent(t) ==
    /\ pc[t].op = "remove"
    /\ LET p == pc[t].path
       IN  entries' = Without(entries, {SubSeq(p, 1, Len(p) - 1)} \ {p})
    /\ pc' = [pc EXCEPT ![t] = Idle]
    /\ Settle(t, {}, {})
    /\ UNCHANGED <<policy, now, hitAge>>

\* Cache::remove, second critical section: invalidate_parents.
RemoveInvalidateParents(t) ==
    /\ pc[t].op = "remove"
    /\ entries' = Without(entries, ParentPaths(pc[t].path))
    /\ pc' = [pc EXCEPT ![t] = Idle]
    /\ Settle(t, {}, {})
    /\ UNCHANGED <<policy, now, hitAge>>

\* Cache::invalidate: this path only.
Invalidate(t, p) ==
    /\ pc[t] = Idle
    /\ p \in DOMAIN entries
    /\ entries' = Without(entries, {p})
    /\ Settle(t, {}, {})
    /\ UNCHANGED <<policy, now, pc, hitAge>>

Next ==
    \/ Tick
    \/ \E t \in Tasks :
         \/ \E p \in Paths :
              \/ GetHit(t, p)
              \/ GetExpired(t, p)
              \/ RemoveEntry(t, p)
              \/ Invalidate(t, p)
              \/ \E item \in Items :
                   \/ \E inv \in BOOLEAN : PutUpdate(t, p, item, inv)
                   \/ PutInsert(t, p, item)
                   \/ PutNewInvalidateParents(t, p, item)
         \/ PutNewInsert(t)
         \/ RemoveInvalidateParents(t)

Spec == Init /\ [][Next]_vars

----------------------------------------------------------------------------
(* Properties *)

\* config/cache.rs calls capacity the "Maximum number of entries in cache".
\* The map never outgrows it; capacity 0 still lets one entry in, because
\* put inserts after an eviction that found nothing to evict.
MaxEntries == IF Capacity = 0 THEN 1 ELSE Capacity
WithinCapacity == Cardinality(DOMAIN entries) <= MaxEntries

\* A hit never serves an entry that came in more than TTL ago, however often
\* put merged newer data into it since: a merge does not renew the lease.
HitsAreFresh == UseTtl => hitAge <= TTL

\* Once put_new or remove on a path has returned, no entry of an ancestor
\* that was cached when the call began is still there, whatever the other
\* requests put, evicted or removed between the two critical sections.
AncestorsDropped == \A t \in Tasks : pc[t] = Idle => due[t] = {}

\* An insertion takes at most one other entry out of the map, and never one
\* used more recently (Lru) or more often (Lfu) than an entry it keeps.
Inserts == \E t \in Tasks : \/ PutNewInsert(t)
                            \/ \E p \in Paths, item \in Items : PutInsert(t, p, item)
Lost == DOMAIN entries \ DOMAIN entries'
Kept == DOMAIN entries \cap DOMAIN entries'
EvictsLeastUsed ==
    [][Inserts => \A p \in Lost : /\ Lost = {p}
                                  /\ \A q \in Kept : Rank(entries[p]) <= Rank(entries[q])]_vars

----------------------------------------------------------------------------
(* The inductive invariant behind them *)

\* created_at is the time the entry came in, through every merge.
LeaseKept == \A p \in DOMAIN entries : first[p] = entries[p].created_at

\* Only a remove between its two critical sections has ancestors left to drop.
DueIsPending ==
    \A t \in Tasks : \/ due[t] = {}
                     \/ pc[t].op = "remove" /\ due[t] \subseteq ParentPaths(pc[t].path)

IndInv ==
    /\ TypeOK
    /\ IsFiniteSet(DOMAIN entries) /\ WithinCapacity
    /\ LeaseKept /\ HitsAreFresh
    /\ DueIsPending

============================================================================
