-------------------------------- MODULE Dict --------------------------------
(***************************************************************************)
(* The hash table of src/src/dict.h: open addressing over control bytes    *)
(* that are looked at in groups of GroupWidth, and a header of operations  *)
(* the compiler uses for its symbols, strings and types.                   *)
(*                                                                         *)
(* A key is its hash and a number.  Keys of one hash are interchangeable,  *)
(* so a key that comes new takes the least number that is free.  Putting   *)
(* the deferred element in its slot (the callers of dict_deferred_insert)  *)
(* is part of the insertion.                                               *)
(*                                                                         *)
(* The compiler itself makes tables, inserts, finds and destroys; it never *)
(* erases, resizes or reserves (MaxExtras = 0).                            *)
(***************************************************************************)
EXTENDS Integers, FiniteSets, FiniteSetsExt

CONSTANTS GroupWidth,     (* DictGroupWidth: 8, or 16 with SSE2              *)
          LoadDivisor,    (* 8: one slot in so many stays empty              *)
          Hashes,         (* [h1, h2]: the two parts of the hashes           *)
          Seeds,          (* what dict_hash_seed can make of an address      *)
          Mixed(_, _),    (* h1 ^ seed                                       *)
          Requests,       (* the n of dict_new, dict_rehash, dict_reserve    *)
          MaxKeys,        (* bound: keys in the table                        *)
          MaxCapacity,    (* bound: slots of the table                       *)
          MaxExtras,      (* bound: erasures, rehashes and reservations      *)
          SizeMax         (* SIZE_MAX, scaled                                *)

ASSUME DictAssumption ==
    /\ GroupWidth \in Nat \ {0} /\ LoadDivisor \in Nat \ {0, 1}
    /\ \A h \in Hashes : h.h1 \in Nat /\ h.h2 \in 0 .. 127
    /\ \A h \in Hashes, s \in Seeds \cup {0} : Mixed(h.h1, s) \in Nat
    /\ Requests \subseteq Nat
    /\ {MaxKeys, MaxCapacity, MaxExtras, SizeMax} \subseteq Nat
    /\ MaxCapacity < SizeMax

Empty == -128
Deleted == -2
Sentinel == -1

Key == [hash : Hashes, number : 1 .. MaxKeys]

\* Stands for the contents of a slot that holds no key; they are never read.
Unwritten == [hash |-> [h1 |-> 0, h2 |-> 0], number |-> 0]

VARIABLES tab,         \* capacity, ctrl, slots of the DictImpl, and the seed of ctrl
          size,        \* size
          growthLeft,  \* growth_left
          rehash,      \* dict_drop_deletes_without_resize: the loop and the key it is for
          extras       \* erasures, rehashes and reservations so far

vars == <<tab, size, growthLeft, rehash, extras>>

NoRehash == [on |-> FALSE, at |-> 0, key |-> Unwritten]

----------------------------------------------------------------------------
(* Capacities *)

\* dict_normalize_capacity: the least 2^m - 1 that holds n, one at least.
NormalizeCapacity(n) ==
    LET c[m \in Nat] == IF m >= n THEN m ELSE c[2 * m + 1] IN c[1]

\* A size_t can count the slots of a table that is asked for.
ASSUME RequestsAssumption ==
    \A n \in Requests \ {0} : NormalizeCapacity(n) <= SizeMax

\* Mutant: the table of one group may fill up.
CapacityToGrowthNoSpecial(capacity) == capacity - capacity \div LoadDivisor

\* dict_capacity_to_growth, with the table that is one group as its special case.
CapacityToGrowth(capacity) ==
    IF GroupWidth = LoadDivisor /\ capacity = GroupWidth - 1 THEN capacity - 1
    ELSE capacity - capacity \div LoadDivisor

\* dict_growth_to_lower_bound_capacity; the division truncates.
GrowthToLowerBound(growth) ==
    IF GroupWidth = LoadDivisor /\ growth = GroupWidth - 1 THEN growth + 1
    ELSE IF growth = 0 THEN 0
    ELSE growth + (growth - 1) \div (LoadDivisor - 1)

----------------------------------------------------------------------------
(* Control bytes *)

\* dict_slot_offset: capacity + 1 bytes and the clones.
Bytes(capacity) == 0 .. capacity + GroupWidth - 1

\* dict_reset_ctrl.
ResetCtrl(capacity) ==
    [b \in Bytes(capacity) |-> IF b = capacity THEN Sentinel ELSE Empty]

\* dict_empty_group: what ctrl is before there are slots.
EmptyGroup == [b \in Bytes(0) |-> IF b = 0 THEN Sentinel ELSE Empty]

\* Mutant: the clone of a byte is written one place too late.
MirrorLate(i, capacity) ==
    ((i - GroupWidth) % (capacity + 1)) + ((GroupWidth - 1) % (capacity + 1))

\* The clone of control byte i, or i itself.
Mirror(i, capacity) ==
    ((i - (GroupWidth - 1)) % (capacity + 1)) + ((GroupWidth - 1) % (capacity + 1))

\* dict_set_ctrl.
SetCtrl(t, i, byte) ==
    [t EXCEPT !.ctrl[i] = byte, !.ctrl[Mirror(i, t.capacity)] = byte]

\* Mutant: the sentinel is not put back.
ConvertedNoSentinel(t) ==
    LET byte(b) == IF t.ctrl[b] < 0 THEN Empty ELSE Deleted
    IN  [t EXCEPT !.ctrl = [b \in Bytes(t.capacity) |->
            IF b <= t.capacity THEN byte(b) ELSE byte(b - t.capacity - 1)]]

\* dict_convert_deleted_to_empty_and_full_to_deleted.
Converted(t) ==
    LET byte(b) == IF t.ctrl[b] < 0 THEN Empty ELSE Deleted
    IN  [t EXCEPT !.ctrl = [b \in Bytes(t.capacity) |->
            IF b = t.capacity THEN Sentinel
            ELSE IF b < t.capacity THEN byte(b) ELSE byte(b - t.capacity - 1)]]

----------------------------------------------------------------------------
(* Probing *)

\* dict_probeseq_start: where the probing for a hash starts.
Start(t, hash) == Mixed(hash.h1, t.seed) % (t.capacity + 1)

\* dict_probeseq_next, n times: the strides grow by a group each time.
Offset(t, hash, n) ==
    (Start(t, hash) + GroupWidth * ((n * (n + 1)) \div 2)) % (t.capacity + 1)

\* The steps a probing takes before its ASSERT says the table is full.
Steps(t) == 0 .. t.capacity \div GroupWidth

\* The bytes of a group, by their place in it, that are in a set.
Match(t, offset, bytes) ==
    {j \in 0 .. GroupWidth - 1 : t.ctrl[offset + j] \in bytes}

\* The steps at which a group of the probing has one of the bytes.
StepsWith(t, hash, bytes) ==
    {n \in Steps(t) : Match(t, Offset(t, hash, n), bytes) # {}}

\* dict_find_first_non_full, for a probing that ends.
FirstNonFull(t, hash) ==
    LET free == {Empty, Deleted}
        offset == Offset(t, hash, Min(StepsWith(t, hash, free)))
    IN  (offset + Min(Match(t, offset, free))) % (t.capacity + 1)

\* The probing of dict_find and dict_find_or_prepare_insert gets to slot i: no group
\* before its own has an Empty.
Reached(t, hash, i) ==
    \E n \in Steps(t) :
        /\ (i - Offset(t, hash, n)) % (t.capacity + 1) < GroupWidth
        /\ \A m \in 0 .. n - 1 : Match(t, Offset(t, hash, m), {Empty}) = {}

\* The slot a key is found at, if it is found.
Found(t, k) ==
    {i \in DOMAIN t.slots :
        t.slots[i] = k /\ t.ctrl[i] = k.hash.h2 /\ Reached(t, k.hash, i)}

----------------------------------------------------------------------------
(* Tables *)

\* dict_initialize_slots, at an address that makes a seed.
NewTable(capacity, seed) ==
    [capacity |-> capacity, ctrl |-> ResetCtrl(capacity), seed |-> seed,
     slots |-> [i \in 0 .. capacity - 1 |-> Unwritten]]

\* dict_new without slots.
NoTable ==
    [capacity |-> 0, ctrl |-> EmptyGroup, seed |-> 0, slots |-> << >>]

\* What dict_destroy leaves of one: ctrl is NULL.
Destroyed == [NoTable EXCEPT !.ctrl = << >>]

\* A key put in a slot.
Put(t, i, k) == [SetCtrl(t, i, k.hash.h2) EXCEPT !.slots[i] = k]

\* A key taken out of a slot.
Freed(t, i, byte) == [SetCtrl(t, i, byte) EXCEPT !.slots[i] = Unwritten]

\* A key put in the slot that is found for it.
PutFirst(t, k) == Put(t, FirstNonFull(t, k.hash), k)

\* dict_resize: the keys in use, in the order of their slots, go into a new table.
Resized(t, capacity, seed) ==
    LET moved[n \in 0 .. t.capacity] ==   \* what the first n slots leave there
            IF n = 0 THEN NewTable(capacity, seed)
            ELSE IF t.ctrl[n - 1] >= 0 THEN PutFirst(moved[n - 1], t.slots[n - 1])
            ELSE moved[n - 1]
    IN  moved[t.capacity]

\* dict_resize sets growth_left from size, which the keys it moves do not change.
Resize(capacity) ==
    /\ capacity <= MaxCapacity /\ extras < MaxExtras
    /\ \E seed \in Seeds : tab' = Resized(tab, capacity, seed)
    /\ extras' = extras + 1
    /\ growthLeft' = CapacityToGrowth(capacity) - size

----------------------------------------------------------------------------
(* Operations *)

\* The table can be used: no rehash in place is going on, and ctrl is not NULL.
Usable == ~rehash.on /\ tab # Destroyed

\* dict_new.
Init ==
    /\ \/ tab = NoTable /\ growthLeft = 0
       \/ \E n \in Requests \ {0}, seed \in Seeds :
            /\ tab = NewTable(NormalizeCapacity(n), seed)
            /\ growthLeft = CapacityToGrowth(NormalizeCapacity(n))
    /\ size = 0
    /\ rehash = NoRehash
    /\ extras = 0

\* The numbered keys of the table.
Contents == {tab.slots[i] : i \in {s \in DOMAIN tab.slots : tab.ctrl[s] >= 0}}

\* The key of a hash that is inserted next.
NewKey(hash) ==
    [hash |-> hash,
     number |-> Min({n \in 1 .. MaxKeys : [hash |-> hash, number |-> n] \notin Contents})]

\* The end of dict_prepare_insert, and the element in its slot.
Place(t, left, k) ==
    LET i == FirstNonFull(t, k.hash)
        taken == IF t.ctrl[i] = Empty THEN 1 ELSE 0
    IN  /\ tab' = Put(t, i, k)
        /\ size' = size + 1
        /\ growthLeft' = (left - taken) % (SizeMax + 1)

\* The condition under which dict_prepare_insert makes room first.
MustGrow(k) == growthLeft = 0 /\ tab.ctrl[FirstNonFull(tab, k.hash)] # Deleted

\* dict_rehash_and_grow_if_necessary: many slots are free but Deleted.
DropsDeletes ==
    tab.capacity > GroupWidth /\ size * 32 <= tab.capacity * 25

\* An insertion that probes without end stops the program (EveryProbeEnds).
CanInsert(k) ==
    Usable /\ size < MaxKeys /\ StepsWith(tab, k.hash, {Empty, Deleted}) # {}

\* dict_insert (dict_deferred_insert) of a new key that has room.
Insert(k) ==
    /\ CanInsert(k) /\ ~MustGrow(k)
    /\ Place(tab, growthLeft, k)
    /\ UNCHANGED <<rehash, extras>>

\* dict_insert of a new key that makes the table larger first.
InsertGrowing(k) ==
    LET capacity == IF tab.capacity = 0 THEN 1 ELSE tab.capacity * 2 + 1
    IN  /\ CanInsert(k) /\ MustGrow(k) /\ ~DropsDeletes
        /\ capacity <= MaxCapacity
        /\ \E seed \in Seeds :
            Place(Resized(tab, capacity, seed), CapacityToGrowth(capacity) - size, k)
        /\ UNCHANGED <<rehash, extras>>

\* dict_insert of a new key that starts a rehash in place.
InsertDropping(k) ==
    /\ CanInsert(k) /\ MustGrow(k) /\ DropsDeletes
    /\ rehash' = [on |-> TRUE, at |-> 0, key |-> k]
    /\ tab' = Converted(tab)
    /\ UNCHANGED <<size, growthLeft, extras>>

\* The slots the loop of dict_drop_deletes_without_resize still has to look at.
ToRehash == {i \in rehash.at .. tab.capacity - 1 : tab.ctrl[i] = Deleted}

\* dict_probe_index: the group of a hash's probing a slot is in.
ProbeIndex(t, hash, i) == ((i - Start(t, hash)) % (t.capacity + 1)) \div GroupWidth

\* Mutant: the slot the two elements are swapped into is not marked.
SwappedUnmarked(t, i, j) ==
    [t EXCEPT !.slots = [@ EXCEPT ![i] = t.slots[j], ![j] = t.slots[i]]]

\* The element of slot i goes to slot j, which is then in use, and j's to i.
Swapped(t, i, j) ==
    [SetCtrl(t, j, t.slots[i].hash.h2) EXCEPT
        !.slots = [@ EXCEPT ![i] = t.slots[j], ![j] = t.slots[i]]]

\* One round of that loop.  An element that stays skips the end of the loop body,
\* and with it the reset of growth_left.
RehashSlot ==
    /\ rehash.on /\ ToRehash # {}
    /\ LET i == Min(ToRehash)
           k == tab.slots[i]
           j == FirstNonFull(tab, k.hash)
           stays == ProbeIndex(tab, k.hash, i) = ProbeIndex(tab, k.hash, j)
       IN  /\ \/ /\ stays
                 /\ tab' = SetCtrl(tab, i, k.hash.h2)
                 /\ rehash' = [rehash EXCEPT !.at = i + 1]
              \/ /\ ~stays /\ tab.ctrl[j] = Empty
                 /\ tab' = Freed(Put(tab, j, k), i, Empty)
                 /\ rehash' = [rehash EXCEPT !.at = i + 1]
              \/ /\ ~stays /\ tab.ctrl[j] = Deleted
                 /\ tab' = Swapped(tab, i, j)
                 /\ rehash' = [rehash EXCEPT !.at = i]
           /\ growthLeft' = IF stays THEN growthLeft
                            ELSE CapacityToGrowth(tab.capacity) - size
    /\ UNCHANGED <<size, extras>>

\* The end of the loop, and of the insertion it was for.
RehashDone ==
    /\ rehash.on /\ ToRehash = {}
    /\ Place(tab, growthLeft, rehash.key)
    /\ rehash' = NoRehash
    /\ UNCHANGED extras

\* Mutant: a slot in a full run of a group is freed as if it had never been full.
WasNeverFullLoose(t, i) ==
    LET before == (i - GroupWidth) % (t.capacity + 1)
    IN  Match(t, i, {Empty}) # {} /\ Match(t, before, {Empty}) # {}

\* dict_erase_meta_only: no group that a probing looked at can have been full.
WasNeverFull(t, i) ==
    LET before == (i - GroupWidth) % (t.capacity + 1)
        emptyAfter == Match(t, i, {Empty})
        emptyBefore == Match(t, before, {Empty})
    IN  /\ emptyAfter # {} /\ emptyBefore # {}
        /\ Min(emptyAfter) + (GroupWidth - 1 - Max(emptyBefore)) < GroupWidth

\* dict_erase of a key that is there.
Erase(k) ==
    /\ Usable /\ extras < MaxExtras
    /\ \E i \in Found(tab, k) :
        LET free == WasNeverFull(tab, i)
        IN  /\ tab' = Freed(tab, i, IF free THEN Empty ELSE Deleted)
            /\ growthLeft' = (growthLeft + (IF free THEN 1 ELSE 0)) % (SizeMax + 1)
    /\ size' = size - 1
    /\ extras' = extras + 1
    /\ UNCHANGED rehash

\* dict_destroy.
Destroy ==
    /\ Usable /\ tab.capacity # 0
    /\ tab' = Destroyed
    /\ size' = 0 /\ growthLeft' = 0
    /\ UNCHANGED <<rehash, extras>>

\* dict_rehash; without an argument it destroys an empty table and resizes any other.
Rehash(n) ==
    LET m == Max({NormalizeCapacity(n), NormalizeCapacity(GrowthToLowerBound(size))})
    IN  /\ Usable
        /\ \/ n = 0 /\ size = 0 /\ Destroy
           \/ /\ (n = 0 /\ size # 0) \/ (n # 0 /\ m > tab.capacity)
              /\ Resize(m)
              /\ UNCHANGED <<size, rehash>>

\* dict_reserve.
Reserve(n) ==
    /\ Usable /\ n > (size + growthLeft) % (SizeMax + 1)
    /\ Resize(NormalizeCapacity(GrowthToLowerBound(n)))
    /\ UNCHANGED <<size, rehash>>

Next ==
    \/ \E h \in Hashes : \/ Insert(NewKey(h))
                         \/ InsertGrowing(NewKey(h))
                         \/ InsertDropping(NewKey(h))
    \/ \E k \in Contents : Erase(k)
    \/ RehashSlot
    \/ RehashDone
    \/ Destroy
    \/ \E n \in Requests : Rehash(n) \/ Reserve(n)

\* One thread runs a rehash in place to its end once it has started it.
Spec == Init /\ [][Next]_vars /\ WF_vars(RehashSlot) /\ WF_vars(RehashDone)

----------------------------------------------------------------------------
(* Properties *)

\* The state is of the right type.
TypeOK ==
    /\ tab = Destroyed \/
       /\ NormalizeCapacity(tab.capacity) = tab.capacity \/ tab.capacity = 0
       /\ tab.ctrl \in [Bytes(tab.capacity) -> {Empty, Deleted, Sentinel} \cup 0 .. 127]
       /\ tab.ctrl[tab.capacity] = Sentinel
       /\ \A i \in DOMAIN tab.slots : tab.slots[i] \in Key \cup {Unwritten}
    /\ DOMAIN tab.slots = 0 .. tab.capacity - 1
    /\ size \in 0 .. tab.capacity
    /\ growthLeft \in 0 .. SizeMax
    /\ rehash.on \in BOOLEAN /\ rehash.at \in 0 .. tab.capacity
    /\ extras \in 0 .. MaxExtras

\* The defect of dict_drop_deletes_without_resize: nothing moved, growth_left stayed 0,
\* and the insertion that followed took one from it.
Overdrawn == growthLeft > CapacityToGrowth(tab.capacity)

\* A lookup of any key at all ends ("table should not be full", dict_find), and sees the
\* same bytes where a group runs over the end of the table, unless growth_left wrapped.
EveryProbeEnds ==
    Usable /\ tab.capacity # 0 =>
        /\ ~Overdrawn => \A h \in Hashes : StepsWith(tab, h, {Empty}) # {}
        /\ \A i \in DOMAIN tab.slots : tab.ctrl[Mirror(i, tab.capacity)] = tab.ctrl[i]
        /\ \A i \in DOMAIN tab.slots : i < GroupWidth - 1 =>
            tab.ctrl[i + tab.capacity + 1] = tab.ctrl[i]

\* What dict_find finds; while a rehash in place is going on, what it has to move.
Present ==
    IF tab = Destroyed THEN {}
    ELSE IF rehash.on THEN {tab.slots[i] : i \in {s \in DOMAIN tab.slots : tab.ctrl[s] # Empty}}
    ELSE {tab.slots[i] : i \in {s \in DOMAIN tab.slots : s \in Found(tab, tab.slots[s])}}

\* The table is a set: a key that was inserted is found, whatever tables it has been
\* moved through and whatever was erased around it, until it is erased itself.
Set == INSTANCE KeySet WITH keys <- Present
ImplementsKeySet == Set!Spec

\* The loop that repeats a slot after a swap ("--i; // repeat") comes to its end.
RehashEnds == rehash.on ~> ~rehash.on
============================================================================
