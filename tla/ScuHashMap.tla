------------------------------ MODULE ScuHashMap -------------------------------
(***************************************************************************)
(* The Robin Hood hash map of src/hash-map.c.  The client makes one call   *)
(* at a time.  The probing, placing and shifting loops are modelled one    *)
(* iteration a step; loops that only read or only reset buckets are one    *)
(* step with the call they are in.  Every allocation may fail.             *)
(*                                                                         *)
(* Keys and values are model values, a hash is a natural number.  A bucket *)
(* that is not occupied is Vacant: its bytes are never looked at.          *)
(***************************************************************************)
EXTENDS Integers, FiniteSets

CONSTANTS
    Key,
    Value,
    Vacant,             \* a bucket with isOccupied = false
    None,               \* no key, no value
    HashFuncs,          \* the hash functions a client creates maps with
    InitialCapacities,  \* the capacities scu_hash_map_new_with_capacity is called with
    WantedCapacities    \* the capacities scu_hash_map_ensure_capacity is called with

ASSUME HashAssumption == HashFuncs \subseteq [Key -> Nat]
ASSUME CapacitiesAssumption == InitialCapacities \subseteq Nat /\ WantedCapacities \subseteq Nat
ASSUME NoneAssumption == None \notin Key /\ None \notin Value
ASSUME NoSetAssumption == \A S \in SUBSET Key : S # None

VARIABLES
    allocated,          \* whether the client holds a map (not nullptr)
    keyHashFunc,
    capacity,
    count,
    buckets,            \* buckets[0 .. capacity - 1]
    iterIndex,          \* ScuHashMapIter.index; NoIter when no iterator is valid
    pc,                 \* where the current call is; "idle" between calls
    call,               \* the current call and its arguments
    index, distance,    \* the locals of the probing loops
    carried,            \* *tempBucket, or the old bucket a rehash is placing
    oldBuckets, oldCapacity,
    next,               \* the index of the next old bucket to rehash
    last                \* the answer to the last call, until the next one begins: the call,
                        \* its key and value (given or handed out), its outcome

table == <<allocated, keyHashFunc, capacity, count, buckets>>
locals == <<index, distance, carried, oldBuckets, oldCapacity, next>>
vars == <<table, iterIndex, pc, call, locals, last>>

NoIter == -2

Bucket == [hash : Nat, key : Key, value : Value]
ASSUME VacantAssumption == Vacant \notin Bucket

Cell == Bucket \cup {Vacant}
Cells(n) == [0..(n - 1) -> Cell]
Cleared(n) == [j \in 0..(n - 1) |-> Vacant]

--------------------------------------------------------------------------------
(* Sizes *)

SCU_DEFAULT_CAPACITY == 8
SCU_MAX_LOAD_FACTOR_NUM == 9
SCU_MAX_LOAD_FACTOR_DEN == 10
SCU_GROWTH_FACTOR == 2

\* The power of two scu_next_power_of_two returns, as a set of one.
NextPowersOfTwo(n) ==
    IF n <= 1 THEN {1} ELSE {p \in n..(2 * n - 1) : \E k \in 1..n : p = 2^k}

\* The fewest buckets that hold n pairs within the load factor.
MinCapacity(n) ==
    (n * SCU_MAX_LOAD_FACTOR_DEN + SCU_MAX_LOAD_FACTOR_NUM - 1) \div SCU_MAX_LOAD_FACTOR_NUM

AtMaxLoad == count * SCU_MAX_LOAD_FACTOR_DEN >= capacity * SCU_MAX_LOAD_FACTOR_NUM

GrownCapacity ==
    IF capacity = 0 THEN SCU_DEFAULT_CAPACITY ELSE capacity * SCU_GROWTH_FACTOR

--------------------------------------------------------------------------------
(* Positions.  capacity is a power of two, so that masking is %.            *)

IdealIndex(hash) == hash % capacity

\* Mutant: an index does not wrap.
UnwrappedIndex(i) == i
WrapIndex(i) == i % capacity
ProbeDistance(b, i) == WrapIndex(i - IdealIndex(b.hash))

\* The bucket the loop looks at.
bucket == buckets[index]
otherDistance == ProbeDistance(bucket, index)

SameKey(b, hash, key) == b.hash = hash /\ b.key = key

\* The first occupied bucket at or behind from, or n behind the last; as a set of one.
NextOccupied(bs, n, from) ==
    {j \in from..n : /\ j < n => bs[j] # Vacant
                     /\ \A i \in from..(j - 1) : bs[i] = Vacant}

--------------------------------------------------------------------------------
(* Calls and returns *)

NoCall == [op |-> "none", key |-> None, value |-> None]
NoAnswer == [op |-> "none", key |-> None, value |-> None, outcome |-> "NONE"]
Call(op, k, v) == [op |-> op, key |-> k, value |-> v]

\* The calls that end the life of an iterator.
Modifiers ==
    {"new", "clone", "free", "ensure_capacity", "try_add", "set", "remove", "clear", "trim_excess"}

DropIter(c) == iterIndex' = IF c.op \in Modifiers THEN NoIter ELSE iterIndex

DropLocals ==
    /\ index' = 0 /\ distance' = 0
    /\ carried' = Vacant
    /\ oldBuckets' = Cleared(0) /\ oldCapacity' = 0 /\ next' = 0

Answer(c, v, outcome) ==
    /\ pc' = "idle"
    /\ call' = NoCall
    /\ last' = [op |-> c.op, key |-> c.key, value |-> v, outcome |-> outcome]
    /\ DropIter(c)
    /\ DropLocals

Return(c, outcome) == Answer(c, c.value, outcome)

OutOfMemory(c) ==
    /\ UNCHANGED table
    /\ Return(c, "OUT_OF_MEMORY")

\* The current call goes on at pc = label.
Continue(c, label) ==
    /\ pc' = label
    /\ call' = c
    /\ DropIter(c)
    /\ last' = NoAnswer

\* A loop starts at the ideal bucket of hash.
StartAt(hash) ==
    /\ index' = IdealIndex(hash)
    /\ distance' = 0

Advance ==
    /\ index' = WrapIndex(index + 1)
    /\ UNCHANGED <<oldBuckets, oldCapacity, next>>

SetTable(n, c, bs) ==
    /\ capacity' = n
    /\ count' = c
    /\ buckets' = bs
    /\ UNCHANGED <<allocated, keyHashFunc>>

--------------------------------------------------------------------------------
(* Lookup: the loop of try_get, contains_key, remove and the first half of set *)

\* What a call does that knows its key is not present.
Miss(c) ==
    \/ /\ c.op = "set"
       /\ Continue(c, "reserve")
       /\ DropLocals
       /\ UNCHANGED table
    \/ /\ c.op # "set"
       /\ UNCHANGED table
       /\ Answer(c, None, "FALSE")

StartLookup(c) ==
    /\ pc = "idle"
    /\ allocated
    /\ \/ /\ count = 0
          /\ Miss(c)
       \/ /\ count > 0
          /\ Continue(c, "probe")
          /\ StartAt(keyHashFunc[c.key])
          /\ UNCHANGED <<table, carried, oldBuckets, oldCapacity, next>>

TryGet(k) == StartLookup(Call("try_get", k, None))
ContainsKey(k) == StartLookup(Call("contains_key", k, None))
Remove(k) == StartLookup(Call("remove", k, None))
Set(k, v) == StartLookup(Call("set", k, v))

\* Mutant: the lookup gives up a bucket too early.
PassedByTooEarly == bucket # Vacant => distance >= otherDistance
\* A vacant bucket, or a pair that is closer to its ideal bucket than the key would be.
PassedBy == bucket # Vacant => distance > otherDistance

ProbeMiss ==
    /\ pc = "probe"
    /\ PassedBy
    /\ Miss(call)

ProbeHit ==
    /\ pc = "probe"
    /\ ~PassedBy
    /\ SameKey(bucket, keyHashFunc[call.key], call.key)
    /\ \/ /\ call.op = "try_get"
          /\ Answer(call, bucket.value, "TRUE")
          /\ UNCHANGED table
       \/ /\ call.op = "contains_key"
          /\ Answer(call, None, "TRUE")
          /\ UNCHANGED table
       \/ /\ call.op = "set"
          /\ SetTable(capacity, count, [buckets EXCEPT ![index].value = call.value])
          /\ Return(call, "NONE")
       \/ /\ call.op = "remove"
          /\ Continue(call, "shift")
          /\ UNCHANGED <<table, locals>>

\* Mutant: the lookup does not count its steps.
ProbeOnUncounted ==
    /\ pc = "probe"
    /\ ~PassedBy
    /\ ~SameKey(bucket, keyHashFunc[call.key], call.key)
    /\ Advance
    /\ UNCHANGED <<table, distance, carried>>
    /\ Continue(call, "probe")

ProbeOn ==
    /\ pc = "probe"
    /\ ~PassedBy
    /\ ~SameKey(bucket, keyHashFunc[call.key], call.key)
    /\ Advance
    /\ distance' = distance + 1
    /\ UNCHANGED <<table, carried>>
    /\ Continue(call, "probe")

--------------------------------------------------------------------------------
(* Removal: the pairs behind the removed one move back by a bucket *)

nextIndex == WrapIndex(index + 1)

\* Mutant: pairs in their ideal bucket move back, too.
AnythingMovesBack == buckets[nextIndex] # Vacant

MovesBack ==
    /\ buckets[nextIndex] # Vacant
    /\ ProbeDistance(buckets[nextIndex], nextIndex) # 0

ShiftBack ==
    /\ pc = "shift"
    /\ MovesBack
    /\ SetTable(capacity, count, [buckets EXCEPT ![index] = buckets[nextIndex]])
    /\ Advance
    /\ UNCHANGED <<distance, carried>>
    /\ Continue(call, "shift")

ShiftEnd ==
    /\ pc = "shift"
    /\ ~MovesBack
    /\ SetTable(capacity, count - 1, [buckets EXCEPT ![index] = Vacant])
    /\ Answer(call, None, "TRUE")

--------------------------------------------------------------------------------
(* Growth *)

\* Behind scu_hash_map_ensure_capacity the call goes on, or it is the call that returns.
AfterResize(c) ==
    \/ /\ c.op \in {"try_add", "set"}
       /\ Continue(c, "allocate")
       /\ DropLocals
    \/ /\ c.op \in {"ensure_capacity", "trim_excess"}
       /\ Return(c, "NONE")

\* Mutant: the rehash counts the pairs again without a reset.
ReallocateCountingOn(c, n) ==
    /\ SetTable(n, count, Cleared(n))
    /\ \/ /\ count > 0
          /\ Continue(c, "next_old")
          /\ oldBuckets' = buckets
          /\ oldCapacity' = capacity
          /\ next' = 0
          /\ UNCHANGED <<index, distance, carried>>
       \/ /\ count = 0
          /\ AfterResize(c)

\* scu_calloc returned n buckets: they become the table, the old ones are rehashed.
Reallocate(c, n) ==
    /\ SetTable(n, 0, Cleared(n))
    /\ \/ /\ count > 0
          /\ Continue(c, "next_old")
          /\ oldBuckets' = buckets
          /\ oldCapacity' = capacity
          /\ next' = 0
          /\ UNCHANGED <<index, distance, carried>>
       \/ /\ count = 0
          /\ AfterResize(c)

Resize(c, wanted) ==
    \/ /\ capacity >= MinCapacity(wanted)
       /\ UNCHANGED table
       /\ AfterResize(c)
    \/ /\ capacity < MinCapacity(wanted)
       /\ \/ \E n \in NextPowersOfTwo(MinCapacity(wanted)) : Reallocate(c, n)
          \/ OutOfMemory(c)

EnsureCapacity(wanted) ==
    /\ pc = "idle"
    /\ allocated
    /\ Resize(Call("ensure_capacity", None, None), wanted)

TrimExcess ==
    LET c == Call("trim_excess", None, None)
    IN  /\ pc = "idle"
        /\ allocated
        /\ \/ /\ count = 0
              /\ SetTable(0, 0, Cleared(0))
              /\ Return(c, "NONE")
           \/ /\ count > 0
              /\ \E n \in NextPowersOfTwo(MinCapacity(count)) :
                    \/ /\ capacity <= n
                       /\ UNCHANGED table
                       /\ Return(c, "NONE")
                    \/ /\ capacity > n
                       /\ Reallocate(c, n) \/ OutOfMemory(c)

\* try_add grows before it looks whether the key is present, set when it is not.
Reserve ==
    /\ pc = "reserve"
    /\ \/ /\ ~AtMaxLoad
          /\ Continue(call, "allocate")
          /\ UNCHANGED <<table, locals>>
       \/ /\ AtMaxLoad
          /\ Resize(call, GrownCapacity)

\* The outer loop of scu_hash_map_rehash_buckets.
NextOld ==
    /\ pc = "next_old"
    /\ \E j \in NextOccupied(oldBuckets, oldCapacity, next) :
          \/ /\ j < oldCapacity
             /\ carried' = oldBuckets[j]
             /\ StartAt(oldBuckets[j].hash)
             /\ next' = j + 1
             /\ Continue(call, "rehash")
             /\ UNCHANGED <<oldBuckets, oldCapacity>>
          \/ /\ j = oldCapacity
             /\ AfterResize(call)
    /\ UNCHANGED table

--------------------------------------------------------------------------------
(* Placing a pair: the loop of try_add, set and, for every old pair, of a rehash *)

TryAdd(k, v) ==
    /\ pc = "idle"
    /\ allocated
    /\ Continue(Call("try_add", k, v), "reserve")
    /\ UNCHANGED <<table, locals>>

\* The allocation of tempBucket.
Allocate ==
    /\ pc = "allocate"
    /\ \/ /\ carried' = [hash |-> keyHashFunc[call.key], key |-> call.key, value |-> call.value]
          /\ StartAt(keyHashFunc[call.key])
          /\ Continue(call, "insert")
          /\ UNCHANGED <<table, oldBuckets, oldCapacity, next>>
       \/ OutOfMemory(call)

Placing == pc \in {"insert", "rehash"}

PlaceVacant ==
    /\ Placing
    /\ bucket = Vacant
    /\ SetTable(capacity, count + 1, [buckets EXCEPT ![index] = carried])
    /\ \/ /\ pc = "insert"
          /\ Return(call, "NONE")
       \/ /\ pc = "rehash"
          /\ Continue(call, "next_old")
          /\ index' = 0 /\ distance' = 0 /\ carried' = Vacant
          /\ UNCHANGED <<oldBuckets, oldCapacity, next>>

\* Mutant: try_add looks for its key in the ideal bucket only.
PresentAtHome ==
    /\ pc = "insert"
    /\ call.op = "try_add"
    /\ distance = 0
    /\ SameKey(bucket, carried.hash, carried.key)

\* Only try_add compares keys on its way.
AlreadyPresent ==
    /\ pc = "insert"
    /\ call.op = "try_add"
    /\ SameKey(bucket, carried.hash, carried.key)

PlacePresent ==
    /\ Placing
    /\ bucket # Vacant
    /\ AlreadyPresent
    /\ UNCHANGED table
    /\ Return(call, "ALREADY_PRESENT")

\* Robin Hood: the pair that travelled farther takes the bucket.
PlaceOn ==
    /\ Placing
    /\ bucket # Vacant
    /\ ~AlreadyPresent
    /\ \/ /\ distance > otherDistance
          /\ SetTable(capacity, count, [buckets EXCEPT ![index] = carried])
          /\ carried' = bucket
          /\ distance' = otherDistance + 1
       \/ /\ distance <= otherDistance
          /\ distance' = distance + 1
          /\ UNCHANGED <<table, carried>>
    /\ Advance
    /\ Continue(call, pc)

--------------------------------------------------------------------------------
(* The other calls *)

NewMap(cap, f) ==
    LET c == Call("new", None, None)
    IN  /\ pc = "idle"
        /\ ~allocated
        /\ \/ /\ allocated' = TRUE
              /\ keyHashFunc' = f
              /\ capacity' \in IF cap > 0 THEN NextPowersOfTwo(cap) ELSE {0}
              /\ count' = 0
              /\ buckets' = Cleared(capacity')
              /\ Return(c, "NONE")
           \/ OutOfMemory(c)

\* The client goes on with the clone: the original is only read.
Clone ==
    /\ pc = "idle"
    /\ allocated
    /\ UNCHANGED table
    /\ \E outcome \in {"NONE", "OUT_OF_MEMORY"} : Return(Call("clone", None, None), outcome)

Free ==
    /\ pc = "idle"
    /\ allocated
    /\ allocated' = FALSE
    /\ capacity' = 0 /\ count' = 0 /\ buckets' = Cleared(0)
    /\ UNCHANGED keyHashFunc
    /\ Return(Call("free", None, None), "NONE")

Clear ==
    /\ pc = "idle"
    /\ allocated
    /\ \/ /\ count > 0
          /\ SetTable(capacity, 0, Cleared(capacity))
       \/ /\ count = 0
          /\ UNCHANGED table
    /\ Return(Call("clear", None, None), "NONE")

Occupied == {j \in 0..(capacity - 1) : buckets[j] # Vacant}

ContainsValue(v) ==
    /\ pc = "idle"
    /\ allocated
    /\ \/ /\ count > 0 /\ \E j \in Occupied : buckets[j].value = v
          /\ Return(Call("contains_value", None, v), "TRUE")
       \/ /\ count = 0 \/ \A j \in Occupied : buckets[j].value # v
          /\ Return(Call("contains_value", None, v), "FALSE")
    /\ UNCHANGED table

\* scu_hash_map_iter and scu_hash_map_iter_reset.
IterStart ==
    /\ pc = "idle"
    /\ allocated
    /\ iterIndex' = -1
    /\ last' = [op |-> "iter", key |-> None, value |-> None, outcome |-> "NONE"]
    /\ UNCHANGED <<table, pc, call, locals>>

\* One turn of a foreach loop: move_next, and current when it returned true.
IterMoveNext ==
    /\ pc = "idle"
    /\ iterIndex # NoIter
    /\ \E j \in IF count = 0 \/ iterIndex = capacity THEN {capacity}
                ELSE NextOccupied(buckets, capacity, iterIndex + 1) :
          /\ iterIndex' = j
          /\ last' = IF j < capacity
                     THEN [op |-> "iter_move_next", key |-> buckets[j].key,
                           value |-> buckets[j].value, outcome |-> "TRUE"]
                     ELSE [op |-> "iter_move_next", key |-> None, value |-> None,
                           outcome |-> "FALSE"]
    /\ UNCHANGED <<table, pc, call, locals>>

--------------------------------------------------------------------------------
(* The specification *)

Init ==
    /\ allocated = FALSE
    /\ keyHashFunc \in HashFuncs
    /\ capacity = 0 /\ count = 0 /\ buckets = Cleared(0)
    /\ iterIndex = NoIter
    /\ pc = "idle" /\ call = NoCall
    /\ index = 0 /\ distance = 0 /\ carried = Vacant
    /\ oldBuckets = Cleared(0) /\ oldCapacity = 0 /\ next = 0
    /\ last = NoAnswer

\* The client makes a call.
ClientCall ==
    \/ \E cap \in InitialCapacities, f \in HashFuncs : NewMap(cap, f)
    \/ \E k \in Key, v \in Value : TryAdd(k, v) \/ Set(k, v)
    \/ \E k \in Key : TryGet(k) \/ ContainsKey(k) \/ Remove(k)
    \/ \E v \in Value : ContainsValue(v)
    \/ \E wanted \in WantedCapacities : EnsureCapacity(wanted)
    \/ Clone \/ Free \/ Clear \/ TrimExcess
    \/ IterStart \/ IterMoveNext

\* The library goes on with the current call.
Work ==
    \/ ProbeMiss \/ ProbeHit \/ ProbeOn
    \/ ShiftBack \/ ShiftEnd
    \/ Reserve \/ NextOld \/ Allocate
    \/ PlaceVacant \/ PlacePresent \/ PlaceOn

Next == ClientCall \/ Work

Spec == Init /\ [][Next]_vars

\* The library computes on until it returns; the client need not call.
FairSpec == Spec /\ WF_vars(Work)

--------------------------------------------------------------------------------
(* Properties *)

Ops == Modifiers \cup {"none", "try_get", "contains_key", "contains_value", "iter", "iter_move_next"}

\* The types of the fields of struct ScuHashMap and of the locals of its functions.
TypeOK ==
    /\ allocated \in BOOLEAN
    /\ keyHashFunc \in HashFuncs
    /\ capacity \in Nat
    /\ count \in 0..capacity
    /\ buckets \in Cells(capacity)
    /\ iterIndex \in {NoIter} \cup (-1..capacity)
    /\ pc \in {"idle", "probe", "shift", "reserve", "allocate", "next_old", "insert", "rehash"}
    /\ call \in [op : Ops, key : Key \cup {None}, value : Value \cup {None}]
    /\ pc \in {"probe", "shift", "insert", "rehash"} => index \in 0..(capacity - 1)
    /\ distance \in 0..capacity
    /\ carried \in Cell
    /\ oldCapacity \in Nat
    /\ oldBuckets \in Cells(oldCapacity)
    /\ next \in 0..oldCapacity
    /\ last \in [op : Ops, key : Key \cup {None}, value : Value \cup {None},
                 outcome : {"NONE", "OUT_OF_MEMORY", "ALREADY_PRESENT", "TRUE", "FALSE"}]

\* The Robin Hood invariant the early exits of the lookups rely on: a pair d buckets behind
\* its ideal one has, e buckets before it, a pair at least d - e behind its own; and so
\* has the pair that is being placed.  It holds within the calls too.
ChainBehind(b, j, first) ==
    \A e \in first..ProbeDistance(b, j) :
        LET i == WrapIndex(j - e)
        IN  /\ buckets[i] # Vacant
            /\ ProbeDistance(buckets[i], i) >= ProbeDistance(b, j) - e

RobinHood ==
    /\ \A j \in Occupied : ChainBehind(buckets[j], j, 0)
    /\ Placing => /\ distance = ProbeDistance(carried, index)
                  /\ ChainBehind(carried, index, 1)

\* count is the number of occupied buckets, also while a call is under way.
CountMatches == count = Cardinality(Occupied)

\* The pairs the map holds: in its buckets, in those a rehash has not placed yet, in the
\* temporary bucket.  The bucket a removal is about to overwrite holds none.
Places ==
    {<<"bucket", j>> : j \in IF pc = "shift" THEN Occupied \ {index} ELSE Occupied}
        \cup {<<"old", j>> : j \in {i \in next..(oldCapacity - 1) : oldBuckets[i] # Vacant}}
        \cup {<<"carried", 0>> : j \in IF carried = Vacant THEN {} ELSE {0}}

PairAt(place) ==
    CASE place[1] = "bucket"  -> buckets[place[2]]
      [] place[1] = "old"     -> oldBuckets[place[2]]
      [] place[1] = "carried" -> carried

\* A key is in one place only.  The exception is the pair try_add has not compared with the
\* rest of its chain yet.
OnePlaceForAKey ==
    \A p, q \in Places :
        PairAt(p).key = PairAt(q).key =>
            \/ p = q
            \/ pc = "insert" /\ call.op = "try_add" /\ <<"carried", 0>> \in {p, q}

\* The pairs of the map as its client sees them.  A pair that is being added is there once
\* the call has returned, a pair that is being removed until it was found.
Pairs ==
    LET Adding == pc = "insert"
        Visible == IF Adding /\ carried.key = call.key THEN Places \ {<<"carried", 0>>}
                   ELSE IF Adding THEN {p \in Places : PairAt(p).key # call.key}
                   ELSE Places
    IN  [k \in Key |->
            IF \E p \in Visible : PairAt(p).key = k
            THEN PairAt(CHOOSE p \in Visible : PairAt(p).key = k).value
            ELSE None]

Seen ==
    IF iterIndex = NoIter THEN None
    ELSE {buckets[j].key : j \in {i \in Occupied : i <= iterIndex}}

Dict == INSTANCE Dictionary WITH
    dict <- Pairs,
    seen <- Seen,
    last <- IF pc = "shift"
            THEN [op |-> "remove", key |-> call.key, value |-> None, outcome |-> "TRUE"]
            ELSE last

\* hash-map.h calls the map a collection of key-value pairs; whatever is displaced, rehashed,
\* shifted or fails, its calls do what those of a dictionary do.
DictionarySpec == Dict!Spec

\* Every call returns: no probing, placing or shifting loop runs for ever, not even in a
\* table without a vacant bucket.
CallsReturn == [](pc # "idle" => <>(pc = "idle"))
================================================================================
