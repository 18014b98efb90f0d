---------------------------- MODULE ScuQueueProofs -----------------------------
(***************************************************************************)
(* Theorems about ScuQueue for every set of elements, every set of initial *)
(* capacities and every bound.                                             *)
(***************************************************************************)
EXTENDS ScuQueue, SequenceTheorems, TLAPS

--------------------------------------------------------------------------------
(* Facts about % *)

\* A remainder is one of the c indices of an array of c slots.
LEMMA ModRange ==
    ASSUME NEW c \in Nat \ {0}, NEW a \in Int
    PROVE  a % c \in 0..(c - 1)
BY SMT

\* An index inside the array is its own remainder.
LEMMA ModInside ==
    ASSUME NEW c \in Nat \ {0}, NEW a \in 0..(c - 1)
    PROVE  a % c = a
BY SMT

\* An index that ran over the end once comes back at the front.
LEMMA ModAbove ==
    ASSUME NEW c \in Nat \ {0}, NEW a \in c..(2 * c - 1)
    PROVE  a % c = a - c
BY SMTT(30)

\* The slot of the element i places behind index h, for i up to a whole turn.
LEMMA RingSlot ==
    ASSUME NEW c \in Nat \ {0}, NEW h \in 0..(c - 1), NEW i \in 0..c
    PROVE  (h + i) % c = IF h + i < c THEN h + i ELSE h + i - c
<1>1. CASE h + i < c
    <2>1. h + i \in 0..(c - 1)
        BY <1>1
    <2>2. (h + i) % c = h + i
        BY <2>1, ModInside, Zenon
    <2> QED BY <1>1, <2>2
<1>2. CASE ~(h + i < c)
    <2>1. h + i \in c..(2 * c - 1)
        BY <1>2
    <2>2. (h + i) % c = (h + i) - c
        BY <2>1, ModAbove, Zenon
    <2> QED BY <1>2, <2>2
<1>3. QED BY <1>1, <1>2

\* Two different places less than a turn apart are two different slots.
LEMMA RingSlotInjective ==
    ASSUME NEW c \in Nat \ {0}, NEW h \in 0..(c - 1),
           NEW i \in 0..(c - 1), NEW j \in 0..(c - 1), i # j
    PROVE  (h + i) % c # (h + j) % c
<1>1. i \in 0..c /\ j \in 0..c
    OBVIOUS
<1>2. (h + i) % c = IF h + i < c THEN h + i ELSE h + i - c
    BY <1>1, RingSlot, Zenon
<1>3. (h + j) % c = IF h + j < c THEN h + j ELSE h + j - c
    BY <1>1, RingSlot, Zenon
<1>4. QED BY <1>2, <1>3

--------------------------------------------------------------------------------
(* The ring as an operator of its fields *)

\* Junk and the elements are what a slot can hold.
LEMMA CellHolds == Junk \in Cell /\ \A e \in Elem : e \in Cell
BY DEF Cell

Ring(c, n, h, es) == [i \in 1..n |-> es[(h + (i - 1)) % c]]

LEMMA ContentsIsRing == Contents = Ring(capacity, count, head, elems)
BY DEF Contents, Ring, Slot

\* A ring of no element is the empty sequence.
LEMMA RingEmpty ==
    ASSUME NEW c, NEW h, NEW es
    PROVE  Ring(c, 0, h, es) = << >>
BY DEF Ring

\* A ring of n elements is a sequence of length n.
LEMMA RingIsSeq ==
    ASSUME NEW c \in Nat \ {0}, NEW n \in 0..c, NEW h \in 0..(c - 1),
           NEW es \in [0..(c - 1) -> Cell]
    PROVE  /\ Ring(c, n, h, es) \in Seq(Cell)
           /\ Len(Ring(c, n, h, es)) = n
<1>1. ASSUME NEW i \in 1..n PROVE es[(h + (i - 1)) % c] \in Cell
    <2>1. h + (i - 1) \in Int
        BY <1>1
    <2> QED BY <2>1, ModRange
<1>2. Ring(c, n, h, es) \in [1..n -> Cell]
    BY <1>1 DEF Ring
<1>3. QED BY <1>2, SeqDef, LenProperties, n \in Nat

\* Writing the slot behind the newest element appends to the ring.
LEMMA RingAppend ==
    ASSUME NEW c \in Nat \ {0}, NEW n \in 0..(c - 1), NEW h \in 0..(c - 1),
           NEW es \in [0..(c - 1) -> Cell], NEW e \in Cell
    PROVE  LET t == (h + n) % c
           IN  Ring(c, n + 1, h, [es EXCEPT ![t] = e]) = Append(Ring(c, n, h, es), e)
<1> DEFINE t == (h + n) % c
           fs == [es EXCEPT ![t] = e]
           old == Ring(c, n, h, es)
           new == Ring(c, n + 1, h, fs)
<1>0. t \in 0..(c - 1) /\ h + n \in Int
    BY ModRange
<1>1. fs \in [0..(c - 1) -> Cell]
    BY <1>0
<1>2. old \in Seq(Cell) /\ Len(old) = n
    BY RingIsSeq
<1>3. new \in Seq(Cell) /\ Len(new) = n + 1
    <2>1. n + 1 \in 0..c
        OBVIOUS
    <2>2. ASSUME NEW gs \in [0..(c - 1) -> Cell], NEW m \in 0..c
          PROVE  Ring(c, m, h, gs) \in Seq(Cell) /\ Len(Ring(c, m, h, gs)) = m
        BY RingIsSeq
    <2> QED BY <1>1, <2>1, <2>2, Zenon
<1>4. Append(old, e) \in Seq(Cell) /\ Len(Append(old, e)) = n + 1
    BY <1>2, AppendProperties
<1>5. ASSUME NEW i \in 1..(n + 1) PROVE new[i] = Append(old, e)[i]
    <2>1. new[i] = fs[(h + (i - 1)) % c]
        BY DEF Ring
    <2>2. (h + (i - 1)) % c \in 0..(c - 1)
        BY ModRange
    <2>3. CASE i = n + 1
        BY <2>1, <2>3, <1>0, <1>2, AppendProperties
    <2>4. CASE i # n + 1
        <3>1. (h + (i - 1)) % c # t
            <4>1. i - 1 \in 0..(c - 1) /\ i - 1 # n
                BY <2>4
            <4> QED BY <4>1, RingSlotInjective, Zenon
        <3>2. new[i] = es[(h + (i - 1)) % c]
            BY <2>1, <2>2, <3>1
        <3>3. i \in 1..n
            BY <2>4
        <3>4. Append(old, e)[i] = old[i]
            BY <3>3, <1>2, AppendProperties
        <3>5. old[i] = es[(h + (i - 1)) % c]
            BY <3>3 DEF Ring
        <3> QED BY <3>2, <3>4, <3>5
    <2> QED BY <2>3, <2>4
<1>6. QED BY <1>3, <1>4, <1>5, SeqEqual

\* Moving head one slot on drops the oldest element.
LEMMA RingTail ==
    ASSUME NEW c \in Nat \ {0}, NEW n \in 1..c, NEW h \in 0..(c - 1),
           NEW es \in [0..(c - 1) -> Cell]
    PROVE  /\ Ring(c, n, h, es) # << >>
           /\ Head(Ring(c, n, h, es)) = es[h]
           /\ Ring(c, n - 1, (h + 1) % c, es) = Tail(Ring(c, n, h, es))
<1> DEFINE old == Ring(c, n, h, es)
           g == (h + 1) % c
           new == Ring(c, n - 1, g, es)
<1>1. old \in Seq(Cell) /\ Len(old) = n
    BY RingIsSeq
<1>2. old # << >>
    BY <1>1, EmptySeq
<1>3. g \in 0..(c - 1) /\ g = IF h + 1 < c THEN h + 1 ELSE h + 1 - c
    <2>1. 1 \in 0..c /\ h + 1 \in Int
        OBVIOUS
    <2>2. g = IF h + 1 < c THEN h + 1 ELSE h + 1 - c
        BY <2>1, RingSlot, Zenon
    <2> QED BY <2>2
<1>4. new \in Seq(Cell) /\ Len(new) = n - 1
    <2>1. n - 1 \in 0..c
        OBVIOUS
    <2>2. ASSUME NEW k \in 0..(c - 1), NEW m \in 0..c
          PROVE  Ring(c, m, k, es) \in Seq(Cell) /\ Len(Ring(c, m, k, es)) = m
        BY RingIsSeq
    <2> HIDE DEF g
    <2> QED BY <1>3, <2>1, <2>2, Zenon
<1>5. Head(old) = es[h]
    <2>1. Head(old) = old[1]
        BY <1>1, <1>2, HeadTailProperties
    <2>2. old[1] = es[(h + 0) % c]
        BY DEF Ring
    <2> QED BY <2>1, <2>2, ModInside
<1>6. Tail(old) \in Seq(Cell) /\ Len(Tail(old)) = n - 1
    BY <1>1, <1>2, HeadTailProperties
<1>7. ASSUME NEW i \in 1..(n - 1) PROVE new[i] = Tail(old)[i]
    <2>1. new[i] = es[(g + (i - 1)) % c]
        BY DEF Ring
    <2>2. Tail(old)[i] = old[i + 1]
        BY <1>1, <1>2, <1>6, HeadTailProperties
    <2>3. old[i + 1] = es[(h + i) % c]
        BY DEF Ring
    <2> i \in 0..c /\ i - 1 \in 0..c
        OBVIOUS
    <2>4. (h + i) % c = IF h + i < c THEN h + i ELSE h + i - c
        BY RingSlot, Zenon
    <2>5. (g + (i - 1)) % c = IF g + (i - 1) < c THEN g + (i - 1) ELSE g + (i - 1) - c
        <3> HIDE DEF g
        <3> QED BY RingSlot, <1>3, Zenon
    <2>6. (g + (i - 1)) % c = (h + i) % c
        <3> HIDE DEF g
        <3> QED BY <2>4, <2>5, <1>3
    <2> QED BY <2>1, <2>2, <2>3, <2>6
<1>8. QED BY <1>2, <1>4, <1>5, <1>6, <1>7, SeqEqual
--------------------------------------------------------------------------------
(* The inductive invariant *)

\* What TypeOK leaves open: an empty array has its indices at 0, head is inside the array,
\* and tail stands where head and count say.
Shape ==
    /\ ~allocated => capacity = 0
    /\ capacity = 0 => head = 0 /\ tail = 0
    /\ capacity > 0 => head < capacity
    /\ TailTracksCount

IInv == TypeOK /\ Shape /\ WindowInitialised

\* The two chunks copied by clone, ensure_capacity and trim_excess are the contents in order.
LEMMA PackedKeepsContents ==
    ASSUME TypeOK, Shape, NEW n \in Nat, n >= count
    PROVE  /\ Packed(n) \in [0..(n - 1) -> Cell]
           /\ Ring(n, count, 0, Packed(n)) = Contents
<1> USE CellHolds DEF TypeOK
<1>1. /\ FirstChunk \in 0..count
      /\ FirstChunk <= capacity - head
      /\ FirstChunk = capacity - head \/ FirstChunk = count
    BY DEF FirstChunk, Shape
<1>2. ASSUME NEW j \in 0..(n - 1) PROVE Packed(n)[j] \in Cell
    <2>1. CASE j < FirstChunk
        <3>1. head + j \in 0..(capacity - 1)
            BY <1>1, <2>1
        <3>2. Packed(n)[j] = elems[head + j]
            BY <1>1, <2>1 DEF Packed
        <3> QED BY <3>1, <3>2
    <2>2. CASE FirstChunk <= j /\ j < count
        <3>1. j - FirstChunk \in 0..(capacity - 1)
            BY <1>1, <2>2
        <3>2. Packed(n)[j] = elems[j - FirstChunk]
            BY <1>1, <2>2 DEF Packed
        <3> QED BY <3>1, <3>2
    <2>3. CASE count <= j
        <3>1. Packed(n)[j] = Junk
            BY <1>1, <2>3 DEF Packed
        <3> QED BY <3>1
    <2> QED BY <1>1, <2>1, <2>2, <2>3
<1>3. Packed(n) \in [0..(n - 1) -> Cell]
    BY <1>2 DEF Packed
<1>4. ASSUME NEW i \in 1..count
      PROVE  Packed(n)[(0 + (i - 1)) % n] = elems[(head + (i - 1)) % capacity]
    <2>1. /\ capacity \in Nat \ {0} /\ n \in Nat \ {0}
          /\ i - 1 \in 0..(n - 1) /\ i - 1 \in 0..capacity
          /\ head \in 0..(capacity - 1)
        BY DEF Shape
    <2>2. (0 + (i - 1)) % n = i - 1
        BY <2>1, ModInside, 0 + (i - 1) = i - 1
    <2>3. (head + (i - 1)) % capacity =
             IF head + (i - 1) < capacity THEN head + (i - 1) ELSE head + (i - 1) - capacity
        BY <2>1, RingSlot, Zenon
    <2>4. CASE i - 1 < FirstChunk
        <3>1. Packed(n)[i - 1] = elems[head + (i - 1)]
            BY <1>1, <2>1, <2>4 DEF Packed
        <3> QED BY <1>1, <2>1, <2>2, <2>3, <2>4, <3>1
    <2>5. CASE FirstChunk <= i - 1
        <3>1. FirstChunk = capacity - head
            BY <1>1, <2>5
        <3>2. Packed(n)[i - 1] = elems[(i - 1) - FirstChunk]
            BY <1>1, <2>1, <2>5 DEF Packed
        <3>3. (i - 1) - FirstChunk = head + (i - 1) - capacity /\ ~(head + (i - 1) < capacity)
            BY <2>5, <3>1
        <3> QED BY <2>2, <2>3, <3>2, <3>3
    <2> QED BY <1>1, <2>4, <2>5
<1>5. QED BY <1>3, <1>4 DEF Ring, Contents, Slot

\* GrownCapacities only holds capacities with the room asked for.
LEMMA GrownEnough ==
    ASSUME NEW wanted \in Nat, NEW n \in GrownCapacities(wanted)
    PROVE  n \in Nat /\ n >= wanted
BY DEF GrownCapacities

--------------------------------------------------------------------------------
(* The indices agree *)

\* What TailTracksCount says, of given fields.
TailFits(c, n, h, t) ==
    \/ t = (h + n) % c
    \/ t = c /\ (h + n = c \/ h + n = 0)

\* After an enqueue tail is behind the new element again, even from one past the array.
LEMMA TailAfterEnqueue ==
    ASSUME NEW c \in Nat \ {0}, NEW n \in 0..(c - 1), NEW h \in 0..(c - 1), NEW t \in 0..c,
           TailFits(c, n, h, t)
    PROVE  (t + 1) % c = (h + (n + 1)) % c
<1>1. n \in 0..c /\ n + 1 \in 0..c /\ 1 \in 0..c
    OBVIOUS
<1>2. (h + n) % c = IF h + n < c THEN h + n ELSE h + n - c
    BY <1>1, RingSlot, Zenon
<1>3. (h + (n + 1)) % c = IF h + (n + 1) < c THEN h + (n + 1) ELSE h + (n + 1) - c
    BY <1>1, RingSlot, Zenon
<1>4. CASE t = (h + n) % c
    <2>1. t \in 0..(c - 1)
        BY <1>2, <1>4
    <2>2. (t + 1) % c = IF t + 1 < c THEN t + 1 ELSE t + 1 - c
        BY <1>1, <2>1, RingSlot, Zenon
    <2> QED BY <1>2, <1>3, <1>4, <2>2
<1>5. CASE t = c /\ (h + n = c \/ h + n = 0)
    <2>1. CASE c = 1
        <3>1. (t + 1) % c \in 0..(c - 1) /\ (h + (n + 1)) % c \in 0..(c - 1)
            BY ModRange, t + 1 \in Int, h + (n + 1) \in Int
        <3> QED BY <2>1, <3>1
    <2>2. CASE c > 1
        <3>1. c + 1 \in c..(2 * c - 1)
            BY <2>2
        <3>2. (c + 1) % c = (c + 1) - c
            BY <3>1, ModAbove, Zenon
        <3> QED BY <1>3, <1>5, <2>2, <3>2
    <2> QED BY <2>1, <2>2
<1>6. QED BY <1>4, <1>5 DEF TailFits

\* A dequeue leaves tail alone and it still fits.
LEMMA TailAfterDequeue ==
    ASSUME NEW c \in Nat \ {0}, NEW n \in 1..c, NEW h \in 0..(c - 1), NEW t \in 0..c,
           TailFits(c, n, h, t)
    PROVE  TailFits(c, n - 1, (h + 1) % c, t)
<1> DEFINE g == (h + 1) % c
<1>1. n \in 0..c /\ n - 1 \in 0..c /\ 1 \in 0..c
    OBVIOUS
<1>2. g = IF h + 1 < c THEN h + 1 ELSE h + 1 - c
    BY <1>1, RingSlot, Zenon
<1>3. g \in 0..(c - 1)
    BY <1>2
<1>4. (h + n) % c = IF h + n < c THEN h + n ELSE h + n - c
    BY <1>1, RingSlot, Zenon
<1> HIDE DEF g
<1>5. (g + (n - 1)) % c = IF g + (n - 1) < c THEN g + (n - 1) ELSE g + (n - 1) - c
    BY <1>1, <1>3, RingSlot, Zenon
<1>6. TailFits(c, n - 1, g, t)
    BY <1>2, <1>4, <1>5 DEF TailFits
<1>7. QED BY <1>6 DEF g

\* Moving the elements to the front of an array of m slots: tail is count.
LEMMA TailAfterPack ==
    ASSUME NEW m \in Nat, NEW n \in 0..m, m > 0
    PROVE  TailFits(m, n, 0, n)
<1>1. CASE n < m
    <2>1. n \in 0..(m - 1) /\ m \in Nat \ {0} /\ 0 + n = n
        BY <1>1
    <2>2. n % m = n
        BY <2>1, ModInside
    <2> QED BY <2>1, <2>2 DEF TailFits
<1>2. CASE n = m
    BY <1>2 DEF TailFits
<1>3. QED BY <1>1, <1>2

LEMMA TailTracksIsFits ==
    TailTracksCount <=> (capacity > 0 => TailFits(capacity, count, head, tail))
BY DEF TailTracksCount, TailFits, Slot

\* The indices after the elements moved to the front of an array of n slots.
LEMMA PackedShape ==
    ASSUME TypeOK, Shape, allocated, NEW n \in Nat, n >= count, n > 0,
           capacity' = n, count' = count, head' = 0, tail' = count, allocated' = allocated
    PROVE  Shape'
<1>1. count \in 0..n
    BY DEF TypeOK
<1>2. TailFits(n, count, 0, count)
    BY <1>1, TailAfterPack
<1>3. (0 + count) % n = Slot(count)'
    BY DEF Slot
<1>4. TailTracksCount'
    BY <1>2, <1>3 DEF TailFits, TailTracksCount
<1>5. QED BY <1>4 DEF Shape

LEMMA ShapeInit == Init => TypeOK /\ Shape
<1> SUFFICES ASSUME Init PROVE TypeOK /\ Shape
    OBVIOUS
<1> USE CellHolds
<1>1. elems \in [0..(capacity - 1) -> Cell]
    BY DEF Init
<1>2. TypeOK
    <2>1. /\ capacity \in Nat /\ count \in 0..capacity
          /\ head \in 0..capacity /\ tail \in 0..capacity
        BY DEF Init
    <2>2. /\ allocated \in BOOLEAN /\ overrun \in BOOLEAN
          /\ call \in Calls /\ error \in {"NONE", "OUT_OF_MEMORY", "EMPTY"}
          /\ iterIndex = NoIter /\ elem \in Cell
        BY DEF Init, Calls
    <2> QED BY <1>1, <2>1, <2>2 DEF TypeOK
<1>3. Shape
    BY DEF Init, Shape, TailTracksCount
<1>4. QED BY <1>2, <1>3

\* The write of an enqueue, in an array whose tail fits.
LEMMA PutShape ==
    ASSUME TypeOK, allocated, NEW e \in Elem,
           NEW c \in Nat \ {0}, NEW h \in 0..(c - 1), NEW t \in 0..c, count < c,
           NEW es \in [0..(c - 1) -> Cell],
           TailFits(c, count, h, t),
           Put(e, c, h, t, es)
    PROVE  TypeOK' /\ Shape'
<1> USE CellHolds DEF TypeOK, Put, SetFields, Report, InvalidateIter, Calls
<1>1. count \in 0..(c - 1)
    OBVIOUS
<1>2. (t + 1) % c = (h + (count + 1)) % c
    BY <1>1, TailAfterEnqueue, Zenon
<1>3. (t + 1) % c \in 0..(c - 1)
    BY ModRange, t + 1 \in Int
<1>4. tail' = (t + 1) % c /\ tail' \in 0..capacity'
    BY <1>3 DEF NextIndex
<1>5. elems' \in [0..(capacity' - 1) -> Cell]
    <2>1. CASE t < c
        BY <2>1
    <2>2. CASE ~(t < c)
        BY <2>2
    <2> QED BY <2>1, <2>2
<1>6. TypeOK'
    BY <1>4, <1>5, (t >= c) \in BOOLEAN
<1>7. TailTracksCount'
    BY <1>2, <1>4 DEF TailTracksCount, Slot
<1>8. QED BY <1>6, <1>7 DEF Shape

\* Every call keeps the types and the shape, an enqueue one past the array included.
LEMMA ShapeStep == TypeOK /\ Shape /\ [Next]_vars => TypeOK' /\ Shape'
<1> SUFFICES ASSUME TypeOK, Shape, [Next]_vars
             PROVE  TypeOK' /\ Shape'
    OBVIOUS
<1> USE CellHolds DEF TypeOK, queue, SetFields, Report, InvalidateIter, Calls
<1>0. ASSUME UNCHANGED queue
      PROVE  Shape'
    BY <1>0 DEF Shape, TailTracksCount, Slot
<1>1. ASSUME NEW operation \in Calls, OutOfMemory(operation)
      PROVE  TypeOK' /\ Shape'
    BY <1>0, <1>1 DEF OutOfMemory
<1>2. ASSUME NEW cap \in InitialCapacities, New(cap)
      PROVE  TypeOK' /\ Shape'
    <2>1. CASE OutOfMemory("new")
        BY <1>1, <2>1
    <2>2. CASE ~OutOfMemory("new")
        <3>1. /\ allocated' = TRUE /\ SetFields(cap, 0, 0, 0, [j \in 0..(cap - 1) |-> Junk])
              /\ UNCHANGED overrun /\ InvalidateIter /\ Report("new", "NONE", Junk)
            BY <1>2, <2>2 DEF New
        <3>2. cap \in Nat
            BY CapacitiesAssumption
        <3>3. TypeOK'
            BY <3>1, <3>2
        <3>4. cap > 0 => 0 = (0 + 0) % cap
            BY <3>2, ModInside
        <3>5. Shape'
            BY <3>1, <3>2, <3>4 DEF Shape, TailTracksCount, Slot
        <3> QED BY <3>3, <3>5
    <2> QED BY <2>1, <2>2
<1>3. ASSUME Free PROVE TypeOK' /\ Shape'
    <2>1. capacity' = 0 /\ count' = 0 /\ head' = 0 /\ tail' = 0 /\ allocated' = FALSE
        BY <1>3 DEF Free
    <2>2. /\ overrun' \in BOOLEAN /\ iterIndex' = NoIter
          /\ call' \in Calls /\ error' \in {"NONE", "OUT_OF_MEMORY", "EMPTY"} /\ elem' \in Cell
        BY <1>3 DEF Free
    <2>3. elems' \in [0..(capacity' - 1) -> Cell]
        BY <1>3, <2>1 DEF Free
    <2>5. /\ capacity' \in Nat /\ count' \in 0..capacity'
          /\ head' \in 0..capacity' /\ tail' \in 0..capacity'
        BY <2>1
    <2>6. TypeOK'
        BY <2>1, <2>2, <2>3, <2>5, Zenon
    <2>4. Shape'
        BY <2>1 DEF Shape, TailTracksCount
    <2> QED BY <2>4, <2>6
<1>4. ASSUME Clone PROVE TypeOK' /\ Shape'
    <2>1. CASE OutOfMemory("clone")
        BY <1>1, <2>1
    <2>2. CASE ~OutOfMemory("clone")
        <3>1. /\ SetFields(capacity, count, 0, IF capacity > 0 THEN count ELSE 0, Packed(capacity))
              /\ UNCHANGED <<allocated, overrun>> /\ InvalidateIter
              /\ Report("clone", "NONE", Junk) /\ allocated
            BY <1>4, <2>2 DEF Clone
        <3>2. Packed(capacity) \in [0..(capacity - 1) -> Cell]
            BY PackedKeepsContents
        <3>3. TypeOK'
            BY <3>1, <3>2
        <3>4. CASE capacity > 0
            BY <3>1, <3>3, <3>4, PackedShape
        <3>5. CASE capacity = 0
            BY <3>1, <3>3, <3>5 DEF Shape, TailTracksCount
        <3> QED BY <3>4, <3>5
    <2> QED BY <2>1, <2>2
<1>5. ASSUME NEW wanted \in 0..MaxCount, EnsureCapacity(wanted) PROVE TypeOK' /\ Shape'
    <2>1. CASE UNCHANGED queue
        BY <1>0, <1>5, <2>1, MaxCountAssumption DEF EnsureCapacity, OutOfMemory
    <2>2. CASE ~UNCHANGED queue
        <3>1. PICK n \in GrownCapacities(wanted) : SetFields(n, count, 0, count, Packed(n))
            BY <1>5, <2>2 DEF EnsureCapacity, OutOfMemory
        <3>2. /\ capacity < wanted /\ UNCHANGED <<allocated, overrun>> /\ InvalidateIter
              /\ Report("ensure_capacity", "NONE", Junk) /\ allocated
            BY <1>5, <2>2 DEF EnsureCapacity, OutOfMemory
        <3>3. wanted \in Nat
            BY MaxCountAssumption
        <3>4. n \in Nat /\ n >= count /\ n > 0
            BY <3>2, <3>3, GrownEnough
        <3>5. Packed(n) \in [0..(n - 1) -> Cell]
            BY <3>4, PackedKeepsContents
        <3>6. TypeOK'
            BY <3>1, <3>2, <3>4, <3>5
        <3>7. Shape'
            BY <3>1, <3>2, <3>4, PackedShape
        <3> QED BY <3>6, <3>7
    <2> QED BY <2>1, <2>2
<1>6. ASSUME NEW e \in Elem, Enqueue(e) PROVE TypeOK' /\ Shape'
    <2>1. CASE capacity >= count + 1 /\ Put(e, capacity, head, tail, elems)
        <3>1. capacity \in Nat \ {0} /\ head \in 0..(capacity - 1) /\ tail \in 0..capacity /\ count < capacity
            BY <2>1 DEF Shape
        <3>2. TailFits(capacity, count, head, tail)
            BY <3>1, TailTracksIsFits DEF Shape
        <3> QED BY <1>6, <2>1, <3>1, <3>2, PutShape DEF Enqueue
    <2>2. CASE /\ capacity < count + 1
               /\ \E n \in GrownCapacities(count + 1) : Put(e, n, 0, count, Packed(n))
        <3>1. PICK n \in GrownCapacities(count + 1) : Put(e, n, 0, count, Packed(n))
            BY <2>2
        <3>2. n \in Nat \ {0} /\ count < n /\ n >= count /\ count \in 0..n /\ 0 \in 0..(n - 1)
            BY GrownEnough, count + 1 \in Nat
        <3>3. Packed(n) \in [0..(n - 1) -> Cell]
            BY <3>2, PackedKeepsContents
        <3>4. TailFits(n, count, 0, count)
            BY <3>2, TailAfterPack
        <3> QED BY <1>6, <3>1, <3>2, <3>3, <3>4, PutShape DEF Enqueue
    <2>3. CASE OutOfMemory("enqueue")
        BY <1>1, <2>3
    <2> QED BY <1>6, <2>1, <2>2, <2>3 DEF Enqueue
<1>7. ASSUME TryDequeue PROVE TypeOK' /\ Shape'
    <2>1. CASE count = 0
        BY <1>0, <1>7, <2>1 DEF TryDequeue
    <2>2. CASE count > 0
        <3>1. /\ SetFields(capacity, count - 1, NextIndex(head, capacity), tail, elems)
              /\ UNCHANGED <<allocated, overrun>> /\ InvalidateIter
              /\ Report("try_dequeue", "NONE", elems[head])
            BY <1>7, <2>2, count # 0 DEF TryDequeue
        <3>2. capacity \in Nat \ {0} /\ count \in 1..capacity /\ head \in 0..(capacity - 1)
            BY <2>2 DEF Shape
        <3>3. (head + 1) % capacity \in 0..(capacity - 1)
            BY <3>2, ModRange, head + 1 \in Int
        <3>4. TypeOK'
            BY <3>1, <3>2, <3>3 DEF NextIndex
        <3>5. TailFits(capacity, count, head, tail)
            BY <3>2, TailTracksIsFits DEF Shape
        <3>6. TailFits(capacity, count - 1, (head + 1) % capacity, tail)
            BY <3>2, <3>5, TailAfterDequeue
        <3>7. TailTracksCount'
            BY <3>1, <3>6 DEF NextIndex, TailFits, TailTracksCount, Slot
        <3>8. Shape'
            BY <1>7, <3>1, <3>2, <3>3, <3>7 DEF NextIndex, Shape, TryDequeue
        <3> QED BY <3>4, <3>8
    <2> QED BY <2>1, <2>2
<1>8. ASSUME TryPeek PROVE TypeOK' /\ Shape'
    <2>1. TypeOK'
        BY <1>8 DEF TryPeek, Shape
    <2> QED BY <1>0, <1>8, <2>1 DEF TryPeek
<1>9. ASSUME Clear PROVE TypeOK' /\ Shape'
    <2>1. TypeOK'
        BY <1>9 DEF Clear
    <2>2. capacity > 0 => 0 = (0 + 0) % capacity
        BY ModInside
    <2> QED BY <1>9, <2>1, <2>2 DEF Clear, Shape, TailTracksCount, Slot
<1>10. ASSUME TrimExcess PROVE TypeOK' /\ Shape'
    <2>1. CASE capacity <= count
        <3>1. ~(capacity > count)
            BY <2>1
        <3>2. UNCHANGED queue /\ InvalidateIter /\ Report("trim_excess", "NONE", Junk)
            BY <1>10, <3>1, Zenon DEF TrimExcess
        <3>3. TypeOK'
            BY <3>2
        <3> QED BY <1>0, <3>2, <3>3
    <2>2. CASE capacity > count /\ count = 0
        <3>1. /\ SetFields(0, 0, 0, 0, [j \in 0..-1 |-> Junk])
              /\ UNCHANGED <<allocated, overrun>> /\ InvalidateIter
              /\ Report("trim_excess", "NONE", Junk) /\ allocated
            BY <1>10, <2>2 DEF TrimExcess
        <3>2. elems' \in [0..(capacity' - 1) -> Cell]
            BY <3>1
        <3>3. TypeOK'
            BY <3>1, <3>2
        <3>4. Shape'
            BY <3>1 DEF Shape, TailTracksCount
        <3> QED BY <3>3, <3>4
    <2>3. CASE capacity > count /\ count > 0 /\ ~OutOfMemory("trim_excess")
        <3>1. /\ SetFields(count, count, 0, count, Packed(count))
              /\ UNCHANGED <<allocated, overrun>> /\ InvalidateIter
              /\ Report("trim_excess", "NONE", Junk) /\ allocated
            <4>1. ~(capacity <= count) /\ count # 0
                BY <2>3
            <4> QED BY <1>10, <2>3, <4>1, Zenon DEF TrimExcess
        <3>2. Packed(count) \in [0..(count - 1) -> Cell]
            BY PackedKeepsContents
        <3>3. TypeOK'
            BY <3>1, <3>2
        <3>4. Shape'
            BY <2>3, <3>1, PackedShape
        <3> QED BY <3>3, <3>4
    <2>4. CASE OutOfMemory("trim_excess")
        BY <1>1, <2>4
    <2> QED BY <2>1, <2>2, <2>3, <2>4
<1>11. ASSUME IterStart PROVE TypeOK' /\ Shape'
    BY <1>0, <1>11 DEF IterStart
<1>12. ASSUME IterMoveNext PROVE TypeOK' /\ Shape'
    <2>1. iterIndex + 1 < count => elems[Slot(iterIndex + 1)] \in Cell
        <3>1. iterIndex + 1 < count => capacity \in Nat \ {0} /\ head + (iterIndex + 1) \in Int
            BY <1>12 DEF IterMoveNext
        <3> QED BY <3>1, ModRange DEF Slot
    <2>2. TypeOK'
        BY <1>12, <2>1 DEF IterMoveNext, NoIter
    <2> QED BY <1>0, <1>12, <2>2 DEF IterMoveNext
<1>13. ASSUME UNCHANGED vars PROVE TypeOK' /\ Shape'
    BY <1>0, <1>13 DEF vars
<1>14. QED
    BY <1>2, <1>3, <1>4, <1>5, <1>6, <1>7, <1>8, <1>9, <1>10, <1>11, <1>12, <1>13
    DEF Next, OtherCall

--------------------------------------------------------------------------------
(* The contents *)

\* The contents of a queue are a sequence as long as its count.
LEMMA ContentsIsSeq ==
    ASSUME TypeOK, Shape
    PROVE  Contents \in Seq(Cell) /\ Len(Contents) = count
<1>1. CASE capacity > 0
    <2>1. /\ capacity \in Nat \ {0} /\ count \in 0..capacity /\ head \in 0..(capacity - 1)
          /\ elems \in [0..(capacity - 1) -> Cell]
        BY <1>1 DEF TypeOK, Shape
    <2>2. /\ Ring(capacity, count, head, elems) \in Seq(Cell)
          /\ Len(Ring(capacity, count, head, elems)) = count
        BY <2>1, RingIsSeq
    <2> QED BY <2>2, ContentsIsRing
<1>2. CASE capacity = 0
    <2>1. count = 0
        BY <1>2 DEF TypeOK
    <2>2. Contents = << >>
        BY <2>1, RingEmpty, ContentsIsRing
    <2> QED BY <2>1, <2>2, EmptySeq
<1>3. QED BY <1>1, <1>2 DEF TypeOK

\* WindowInitialised says that the contents are a sequence of elements.
LEMMA WindowIsSeq ==
    ASSUME TypeOK, Shape
    PROVE  WindowInitialised <=> (~overrun => Contents \in Seq(Elem))
<1>1. Contents \in Seq(Cell) /\ Len(Contents) = count /\ count \in Nat
    BY ContentsIsSeq DEF TypeOK
<1>2. Contents \in [1..count -> Cell]
    BY <1>1, LenProperties
<1>3. (\A i \in 1..count : Contents[i] \in Elem) <=> Contents \in [1..count -> Elem]
    BY <1>2
<1>4. Contents \in [1..count -> Elem] => Contents \in Seq(Elem)
    BY <1>1, SeqDef
<1>5. Contents \in Seq(Elem) => Contents \in [1..count -> Elem]
    BY <1>1, LenProperties
<1>6. QED BY <1>3, <1>4, <1>5 DEF WindowInitialised

\* The five ways in which a call changes the contents.
LEMMA ContentsUnchanged ==
    ASSUME UNCHANGED queue
    PROVE  Contents' = Contents
BY DEF queue, Contents, Slot

LEMMA ContentsPacked ==
    ASSUME TypeOK, Shape, NEW n \in Nat, n >= count,
           SetFields(n, count, 0, count, Packed(n))
    PROVE  Contents' = Contents
<1>1. Contents' = Ring(n, count, 0, Packed(n))
    BY DEF SetFields, Contents, Ring, Slot
<1>2. QED BY <1>1, PackedKeepsContents

LEMMA ContentsEmptied ==
    ASSUME count' = 0
    PROVE  Contents' = << >>
BY DEF Contents

LEMMA ContentsAppended ==
    ASSUME TypeOK, Shape, NEW e \in Elem, capacity > count, tail < capacity,
           Put(e, capacity, head, tail, elems)
    PROVE  Contents' = Append(Contents, e)
<1>1. /\ capacity \in Nat \ {0} /\ count \in 0..(capacity - 1) /\ head \in 0..(capacity - 1)
      /\ elems \in [0..(capacity - 1) -> Cell] /\ e \in Cell
    BY CellHolds DEF TypeOK, Shape
<1>2. tail = (head + count) % capacity
    BY <1>1 DEF Shape, TailTracksCount, Slot
<1>3. Contents' = Ring(capacity, count + 1, head, [elems EXCEPT ![tail] = e])
    <2>1. /\ capacity' = capacity /\ count' = count + 1 /\ head' = head
          /\ elems' = [elems EXCEPT ![tail] = e]
        BY DEF Put, SetFields
    <2> QED BY <2>1 DEF Contents, Ring, Slot
<1>4. Contents' = Append(Ring(capacity, count, head, elems), e)
    BY <1>1, <1>2, <1>3, RingAppend
<1>5. QED BY <1>4, ContentsIsRing

LEMMA ContentsAppendedAfterGrowth ==
    ASSUME TypeOK, Shape, NEW e \in Elem, NEW n \in Nat, n > count,
           Put(e, n, 0, count, Packed(n))
    PROVE  Contents' = Append(Contents, e)
<1>1. /\ n \in Nat \ {0} /\ count \in 0..(n - 1) /\ 0 \in 0..(n - 1)
      /\ Packed(n) \in [0..(n - 1) -> Cell] /\ e \in Cell
    BY PackedKeepsContents, CellHolds DEF TypeOK
<1>2. count = (0 + count) % n
    BY <1>1, ModInside, 0 + count = count
<1>3. Contents' = Ring(n, count + 1, 0, [Packed(n) EXCEPT ![count] = e])
    <2>1. /\ capacity' = n /\ count' = count + 1 /\ head' = 0
          /\ elems' = [Packed(n) EXCEPT ![count] = e]
        BY <1>1 DEF Put, SetFields
    <2> QED BY <2>1 DEF Contents, Ring, Slot
<1>4. Contents' = Append(Ring(n, count, 0, Packed(n)), e)
    <2>1. Ring(n, count + 1, 0, [Packed(n) EXCEPT ![(0 + count) % n] = e])
             = Append(Ring(n, count, 0, Packed(n)), e)
        BY <1>1, RingAppend
    <2> QED BY <1>2, <1>3, <2>1
<1>5. Ring(n, count, 0, Packed(n)) = Contents
    BY <1>1, PackedKeepsContents
<1>6. QED BY <1>4, <1>5

LEMMA ContentsDropped ==
    ASSUME TypeOK, Shape, count > 0,
           SetFields(capacity, count - 1, NextIndex(head, capacity), tail, elems)
    PROVE  /\ Contents # << >>
           /\ Head(Contents) = elems[head]
           /\ Contents' = Tail(Contents)
<1>1. /\ capacity \in Nat \ {0} /\ count \in 1..capacity /\ head \in 0..(capacity - 1)
      /\ elems \in [0..(capacity - 1) -> Cell]
    BY DEF TypeOK, Shape
<1>2. Contents' = Ring(capacity, count - 1, (head + 1) % capacity, elems)
    BY DEF SetFields, NextIndex, Contents, Ring, Slot
<1>3. /\ Ring(capacity, count, head, elems) # << >>
      /\ Head(Ring(capacity, count, head, elems)) = elems[head]
      /\ Contents' = Tail(Ring(capacity, count, head, elems))
    BY <1>1, <1>2, RingTail
<1>4. QED BY <1>3, ContentsIsRing

\* The oldest element is the one at head.
LEMMA ContentsHead ==
    ASSUME TypeOK, Shape, count > 0
    PROVE  Contents # << >> /\ Head(Contents) = elems[head]
<1>1. /\ capacity \in Nat \ {0} /\ count \in 1..capacity /\ head \in 0..(capacity - 1)
      /\ elems \in [0..(capacity - 1) -> Cell]
    BY DEF TypeOK, Shape
<1>2. /\ Ring(capacity, count, head, elems) # << >>
      /\ Head(Ring(capacity, count, head, elems)) = elems[head]
    BY <1>1, RingTail
<1>3. QED BY <1>2, ContentsIsRing

\* The element an iterator hands out is the one at its position in the contents.
LEMMA ContentsAt ==
    ASSUME TypeOK, NEW i \in 0..(count - 1)
    PROVE  Contents[i + 1] = elems[Slot(i)]
<1>1. i + 1 \in 1..count /\ (i + 1) - 1 = i
    BY DEF TypeOK
<1>2. QED BY <1>1 DEF Contents

\* No step but one that writes past the array raises overrun, and none lowers it.
LEMMA OverrunStays ==
    ASSUME TypeOK, Next, ~overrun'
    PROVE  ~overrun
BY Zenon DEF Next, OtherCall, New, Free, Clone, EnsureCapacity, Enqueue, Put, TryDequeue, TryPeek,
       Clear, TrimExcess, IterStart, IterMoveNext, OutOfMemory, queue

\* A step that writes inside the array is a step of the FIFO specification, and leaves
\* the window initialised.
LEMMA FifoStep ==
    ASSUME TypeOK, Shape, WindowInitialised, Next, ~overrun'
    PROVE  Fifo!Next /\ Contents' \in Seq(Elem)
<1> USE DEF Fifo!Next, Fifo!Report, Fifo!NoIterator, Report, InvalidateIter, NoIter
<1>1. ~overrun /\ Contents \in Seq(Elem) /\ Len(Contents) = count /\ count \in Nat
    BY OverrunStays, WindowIsSeq, ContentsIsSeq DEF TypeOK
<1>e. << >> \in Seq(Elem)
    BY EmptySeq
<1>2. ASSUME NEW operation \in {"new", "enqueue", "ensure_capacity", "trim_excess", "clone"},
             OutOfMemory(operation)
      PROVE  Fifo!Next /\ Contents' \in Seq(Elem)
    <2>1. Contents' = Contents
        BY <1>2, ContentsUnchanged DEF OutOfMemory
    <2>2. Fifo!OutOfMemory(operation)
        BY <1>2, <2>1 DEF OutOfMemory, Fifo!OutOfMemory
    <2> QED BY <1>1, <2>1, <2>2
<1>3. ASSUME NEW operation \in {"ensure_capacity", "trim_excess", "clone"},
             Contents' = Contents, InvalidateIter, Report(operation, "NONE", Junk)
      PROVE  Fifo!Next /\ Contents' \in Seq(Elem)
    <2>1. Fifo!Reorganise(operation)
        BY <1>3 DEF Fifo!Reorganise
    <2> QED BY <1>1, <1>3, <2>1
<1>4. ASSUME NEW operation \in {"new", "clear", "free"},
             count' = 0, InvalidateIter, Report(operation, "NONE", Junk)
      PROVE  Fifo!Next /\ Contents' \in Seq(Elem)
    <2>1. Contents' = << >>
        BY <1>4, ContentsEmptied
    <2>2. Fifo!Empty(operation)
        BY <1>4, <2>1 DEF Fifo!Empty
    <2> QED BY <1>e, <2>1, <2>2
<1>5. ASSUME NEW e \in Elem, Contents' = Append(Contents, e), InvalidateIter,
             Report("enqueue", "NONE", e)
      PROVE  Fifo!Next /\ Contents' \in Seq(Elem)
    <2>1. Fifo!Enqueue(e)
        BY <1>5 DEF Fifo!Enqueue
    <2>2. Append(Contents, e) \in Seq(Elem)
        BY <1>1, AppendProperties
    <2> QED BY <1>5, <2>1, <2>2
<1>6. ASSUME NEW cap \in InitialCapacities, New(cap)
      PROVE  Fifo!Next /\ Contents' \in Seq(Elem)
    BY <1>2, <1>4, <1>6 DEF New, SetFields
<1>7. ASSUME Free PROVE Fifo!Next /\ Contents' \in Seq(Elem)
    BY <1>4, <1>7 DEF Free, SetFields
<1>8. ASSUME Clone PROVE Fifo!Next /\ Contents' \in Seq(Elem)
    <2>1. CASE OutOfMemory("clone")
        BY <1>2, <2>1
    <2>2. CASE ~OutOfMemory("clone")
        <3>1. /\ SetFields(capacity, count, 0, IF capacity > 0 THEN count ELSE 0, Packed(capacity))
              /\ InvalidateIter /\ Report("clone", "NONE", Junk)
            BY <1>8, <2>2 DEF Clone
        <3>2. (IF capacity > 0 THEN count ELSE 0) = count /\ capacity \in Nat /\ capacity >= count
            BY DEF TypeOK
        <3>3. Contents' = Contents
            BY <3>1, <3>2, ContentsPacked
        <3> QED BY <1>3, <3>1, <3>3
    <2> QED BY <2>1, <2>2
<1>9. ASSUME NEW wanted \in 0..MaxCount, EnsureCapacity(wanted)
      PROVE  Fifo!Next /\ Contents' \in Seq(Elem)
    <2>1. CASE OutOfMemory("ensure_capacity")
        BY <1>2, <2>1
    <2>2. CASE ~OutOfMemory("ensure_capacity")
        <3>1. InvalidateIter /\ Report("ensure_capacity", "NONE", Junk)
            BY <1>9, <2>2 DEF EnsureCapacity
        <3>2. CASE UNCHANGED queue
            BY <1>3, <3>1, <3>2, ContentsUnchanged
        <3>3. CASE /\ capacity < wanted
                   /\ \E n \in GrownCapacities(wanted) : SetFields(n, count, 0, count, Packed(n))
            <4>1. PICK n \in GrownCapacities(wanted) : SetFields(n, count, 0, count, Packed(n))
                BY <3>3
            <4>2. n \in Nat /\ n >= count
                BY <3>3, GrownEnough, MaxCountAssumption DEF TypeOK
            <4>3. Contents' = Contents
                BY <4>1, <4>2, ContentsPacked
            <4> QED BY <1>3, <3>1, <4>3
        <3> QED BY <1>9, <2>2, <3>2, <3>3 DEF EnsureCapacity
    <2> QED BY <2>1, <2>2
<1>10. ASSUME NEW e \in Elem, Enqueue(e) PROVE Fifo!Next /\ Contents' \in Seq(Elem)
    <2>1. CASE capacity >= count + 1 /\ Put(e, capacity, head, tail, elems)
        <3>1. tail < capacity
            <4>1. ~(tail >= capacity)
                BY <2>1, Zenon DEF Put
            <4> QED BY <4>1 DEF TypeOK
        <3>2. Contents' = Append(Contents, e)
            BY <2>1, <3>1, ContentsAppended DEF TypeOK
        <3> QED BY <1>5, <2>1, <3>2 DEF Put
    <2>2. CASE \E n \in GrownCapacities(count + 1) : Put(e, n, 0, count, Packed(n))
        <3>1. PICK n \in GrownCapacities(count + 1) : Put(e, n, 0, count, Packed(n))
            BY <2>2
        <3>2. n \in Nat /\ n > count
            BY <1>1, GrownEnough
        <3>3. Contents' = Append(Contents, e)
            BY <3>1, <3>2, ContentsAppendedAfterGrowth
        <3> QED BY <1>5, <3>1, <3>3 DEF Put
    <2>3. CASE OutOfMemory("enqueue")
        BY <1>2, <2>3
    <2> QED BY <1>10, <2>1, <2>2, <2>3 DEF Enqueue
<1>11. ASSUME TryDequeue PROVE Fifo!Next /\ Contents' \in Seq(Elem)
    <2>1. CASE count = 0
        <3>1. ~(count > 0)
            BY <2>1
        <3>2. UNCHANGED queue /\ InvalidateIter /\ Report("try_dequeue", "EMPTY", Junk)
            BY <1>11, <3>1, Zenon DEF TryDequeue
        <3>3. Contents' = Contents /\ Contents = << >>
            BY <1>1, <2>1, <3>2, ContentsUnchanged, EmptySeq
        <3>4. Fifo!FoundEmpty("try_dequeue")
            BY <3>2, <3>3 DEF Fifo!FoundEmpty
        <3> QED BY <1>1, <3>3, <3>4
    <2>2. CASE count > 0
        <3>1. /\ SetFields(capacity, count - 1, NextIndex(head, capacity), tail, elems)
              /\ InvalidateIter /\ Report("try_dequeue", "NONE", elems[head])
            BY <1>11, <2>2, count # 0 DEF TryDequeue
        <3>2. Contents # << >> /\ Head(Contents) = elems[head] /\ Contents' = Tail(Contents)
            BY <2>2, <3>1, ContentsDropped
        <3>3. Fifo!Dequeue
            BY <3>1, <3>2 DEF Fifo!Dequeue
        <3>4. Tail(Contents) \in Seq(Elem)
            BY <1>1, <3>2, HeadTailProperties
        <3> QED BY <3>2, <3>3, <3>4
    <2> QED BY <1>1, <2>1, <2>2
<1>12. ASSUME TryPeek PROVE Fifo!Next /\ Contents' \in Seq(Elem)
    <2>1. Contents' = Contents /\ iterIndex' = iterIndex
        BY <1>12, ContentsUnchanged DEF TryPeek
    <2>2. CASE count = 0 /\ Report("try_peek", "EMPTY", Junk)
        <3>1. Contents = << >>
            BY <1>1, <2>2, EmptySeq
        <3>2. Fifo!FoundEmpty("try_peek")
            BY <2>1, <2>2, <3>1 DEF Fifo!FoundEmpty
        <3> QED BY <1>1, <2>1, <3>2
    <2>3. CASE count > 0 /\ Report("try_peek", "NONE", elems[head])
        <3>1. Contents # << >> /\ Head(Contents) = elems[head]
            BY <2>3, ContentsHead
        <3>2. Fifo!Peek
            BY <2>1, <2>3, <3>1 DEF Fifo!Peek
        <3> QED BY <1>1, <2>1, <3>2
    <2> QED BY <1>12, <2>2, <2>3 DEF TryPeek
<1>13. ASSUME Clear PROVE Fifo!Next /\ Contents' \in Seq(Elem)
    BY <1>4, <1>13 DEF Clear, SetFields
<1>14. ASSUME TrimExcess PROVE Fifo!Next /\ Contents' \in Seq(Elem)
    <2>1. CASE OutOfMemory("trim_excess")
        BY <1>2, <2>1
    <2>2. CASE ~OutOfMemory("trim_excess")
        <3>1. InvalidateIter /\ Report("trim_excess", "NONE", Junk)
            BY <1>14, <2>2, Zenon DEF TrimExcess
        <3>2. CASE UNCHANGED queue
            BY <1>3, <3>1, <3>2, ContentsUnchanged
        <3>3. CASE count = 0 /\ SetFields(0, 0, 0, 0, [j \in 0..-1 |-> Junk])
            <4>1. Contents = << >> /\ Contents' = << >>
                BY <1>1, <3>3, ContentsEmptied, EmptySeq DEF SetFields
            <4> QED BY <1>3, <3>1, <4>1
        <3>4. CASE SetFields(count, count, 0, count, Packed(count))
            BY <1>1, <1>3, <3>1, <3>4, ContentsPacked
        <3> QED BY <1>14, <2>2, <3>2, <3>3, <3>4, Zenon DEF TrimExcess
    <2> QED BY <2>1, <2>2
<1>15. ASSUME IterStart PROVE Fifo!Next /\ Contents' \in Seq(Elem)
    <2>1. Contents' = Contents
        BY <1>15, ContentsUnchanged DEF IterStart
    <2>2. Fifo!IterStart
        BY <1>15, <2>1 DEF IterStart, Fifo!IterStart
    <2> QED BY <1>1, <2>1, <2>2
<1>16. ASSUME IterMoveNext PROVE Fifo!Next /\ Contents' \in Seq(Elem)
    <2>1. Contents' = Contents
        BY <1>16, ContentsUnchanged DEF IterMoveNext
    <2>2. iterIndex \in -1..(count - 1)
        BY <1>16 DEF IterMoveNext, TypeOK
    <2>3. CASE iterIndex + 1 < count
        <3>1. iterIndex' = iterIndex + 1 /\ Report("iter_move_next", "NONE", elems[Slot(iterIndex + 1)])
            BY <1>16, <2>2, <2>3, <1>1 DEF IterMoveNext
        <3>2. iterIndex + 1 \in 0..(count - 1)
            BY <1>1, <2>2, <2>3
        <3>3. Contents[(iterIndex + 1) + 1] = elems[Slot(iterIndex + 1)]
            BY <3>2, ContentsAt
        <3>4. Fifo!IterNext
            BY <1>1, <2>1, <3>1, <3>2, <3>3 DEF Fifo!IterNext
        <3> QED BY <1>1, <2>1, <3>4
    <2>4. CASE iterIndex + 1 >= count
        <3>1. iterIndex' = iterIndex /\ Report("iter_move_next", "EMPTY", Junk)
            BY <1>16, <2>2, <2>4, <1>1 DEF IterMoveNext
        <3>2. iterIndex + 1 = Len(Contents)
            BY <1>1, <2>2, <2>4
        <3>3. Fifo!IterEnd
            BY <2>1, <3>1, <3>2 DEF Fifo!IterEnd
        <3> QED BY <1>1, <2>1, <3>3
    <2> QED BY <1>1, <2>2, <2>3, <2>4
<1>17. QED
    BY <1>6, <1>7, <1>8, <1>9, <1>10, <1>11, <1>12, <1>13, <1>14, <1>15, <1>16, Zenon
    DEF Next, OtherCall

LEMMA ContentsLength == TypeOK /\ Shape => Len(Contents) = count
BY ContentsIsSeq

LEMMA ContentsLengthPrimed == TypeOK' /\ Shape' => Len(Contents') = count'
<1>1. (TypeOK /\ Shape => Len(Contents) = count)'
    BY ContentsLength, PTL
<1>2. QED BY <1>1

\* A step keeps the window initialised, whether or not it overruns the array.
LEMMA WindowStep == IInv /\ [Next]_vars => WindowInitialised'
<1> SUFFICES ASSUME IInv, [Next]_vars
             PROVE  WindowInitialised'
    OBVIOUS
<1>1. CASE UNCHANGED vars
    <2>1. UNCHANGED queue /\ overrun' = overrun /\ count' = count
        BY <1>1 DEF vars, queue
    <2> QED BY <2>1, ContentsUnchanged DEF IInv, WindowInitialised
<1>2. CASE Next /\ ~overrun'
    <2>1. Contents' \in Seq(Elem)
        BY <1>2, FifoStep DEF IInv
    <2>2. TypeOK' /\ Shape'
        BY ShapeStep DEF IInv
    <2>3. Len(Contents') = count'
        BY <2>2, ContentsLengthPrimed
    <2>4. Contents' \in [1..count' -> Elem]
        BY <2>1, <2>3, LenProperties
    <2> QED BY <2>4 DEF WindowInitialised
<1>3. CASE overrun'
    BY <1>3 DEF WindowInitialised
<1>4. QED BY <1>1, <1>2, <1>3

LEMMA IInvInit == Init => IInv
<1> SUFFICES ASSUME Init PROVE IInv
    OBVIOUS
<1>1. WindowInitialised
    BY DEF Init, WindowInitialised
<1>2. QED BY <1>1, ShapeInit DEF IInv

LEMMA IInvStep == IInv /\ [Next]_vars => IInv'
BY ShapeStep, WindowStep DEF IInv

--------------------------------------------------------------------------------
(* Theorems *)

\* The inductive invariant holds in every reachable state.
THEOREM Invariance == Spec => []IInv
BY IInvInit, IInvStep, PTL DEF Spec

\* The fields of struct ScuQueue always have their types: count never exceeds capacity and
\* no index leaves 0..capacity.
THEOREM TypeCorrect == Spec => []TypeOK
BY Invariance, PTL DEF IInv

\* head, tail and count always agree, for every capacity and every history of calls.
THEOREM TailCorrect == Spec => []TailTracksCount
<1>1. IInv => TailTracksCount
    BY DEF IInv, Shape
<1>2. QED BY <1>1, Invariance, PTL

\* No call reads a slot nobody wrote, until an element was written outside the array.
THEOREM WindowCorrect == Spec => []WindowInitialised
BY Invariance, PTL DEF IInv

\* Every call that writes inside the array is a first-in-first-out step.
THEOREM FifoCorrect == Spec => FifoUnlessOverrun
<1>1. IInv /\ [Next]_vars => [~overrun' => [Fifo!Next]_(Fifo!vars)]_vars
    BY FifoStep DEF IInv
<1>2. QED BY <1>1, Invariance, PTL DEF Spec, FifoUnlessOverrun

\* A client that packs no queue until it is full never overruns the array.
UInv == IInv /\ TailInBounds /\ ~overrun

LEMMA UInvStep == UInv /\ [UnpackedNext]_vars => UInv'
<1> SUFFICES ASSUME UInv, [UnpackedNext]_vars
             PROVE  UInv'
    OBVIOUS
<1>1. [Next]_vars
    BY DEF UnpackedNext, Next
<1>2. IInv'
    BY <1>1, IInvStep DEF UInv
<1>3. /\ capacity \in Nat /\ count \in 0..capacity /\ ~overrun
      /\ capacity > 0 => tail < capacity
      /\ capacity = 0 => tail = 0
    BY DEF UInv, IInv, TypeOK, Shape, TailInBounds
<1> DEFINE Goal == TailInBounds' /\ ~overrun'
<1>4. ASSUME UNCHANGED queue PROVE Goal
    BY <1>3, <1>4 DEF queue, TailInBounds
<1>5. ASSUME NEW operation, OutOfMemory(operation) PROVE Goal
    BY <1>4, <1>5 DEF OutOfMemory
<1>6. ASSUME NEW cap \in InitialCapacities, New(cap) PROVE Goal
    <2>1. CASE OutOfMemory("new")
        BY <1>5, <2>1
    <2>2. CASE ~OutOfMemory("new")
        <3>1. tail' = 0 /\ capacity' = cap /\ overrun' = overrun /\ cap \in Nat
            BY <1>6, <2>2, CapacitiesAssumption DEF New, SetFields
        <3> QED BY <1>3, <3>1 DEF TailInBounds
    <2> QED BY <2>1, <2>2
<1>7. ASSUME Free PROVE Goal
    BY <1>3, <1>7 DEF Free, SetFields, TailInBounds
<1>8. ASSUME Clone, count < capacity \/ capacity = 0 PROVE Goal
    <2>1. CASE OutOfMemory("clone")
        BY <1>5, <2>1
    <2>2. CASE ~OutOfMemory("clone")
        <3>1. /\ tail' = (IF capacity > 0 THEN count ELSE 0) /\ capacity' = capacity
              /\ overrun' = overrun
            BY <1>8, <2>2 DEF Clone, SetFields
        <3> QED BY <1>3, <1>8, <3>1 DEF TailInBounds
    <2> QED BY <2>1, <2>2
<1>9. ASSUME NEW wanted \in 0..MaxCount, EnsureCapacity(wanted) PROVE Goal
    <2>1. CASE UNCHANGED queue
        BY <1>4, <2>1
    <2>2. CASE /\ capacity < wanted
               /\ \E n \in GrownCapacities(wanted) : SetFields(n, count, 0, count, Packed(n))
               /\ UNCHANGED <<allocated, overrun>>
        <3>1. PICK n \in GrownCapacities(wanted) : SetFields(n, count, 0, count, Packed(n))
            BY <2>2
        <3>2. n \in Nat /\ n >= wanted /\ wanted > capacity
            BY <2>2, GrownEnough, MaxCountAssumption
        <3>3. tail' = count /\ capacity' = n
            BY <3>1 DEF SetFields
        <3> QED BY <1>3, <2>2, <3>2, <3>3 DEF TailInBounds
    <2> QED BY <1>9, <2>1, <2>2 DEF EnsureCapacity, OutOfMemory
<1>10. ASSUME NEW e \in Elem, Enqueue(e) PROVE Goal
    <2>1. ASSUME NEW c \in Nat \ {0}, NEW h, NEW t \in 0..(c - 1), NEW es, Put(e, c, h, t, es)
          PROVE  Goal
        <3>1. (t + 1) % c \in 0..(c - 1) /\ ~(t >= c)
            BY ModRange, t + 1 \in Int
        <3>2. tail' = (t + 1) % c /\ capacity' = c /\ overrun' = (overrun \/ t >= c)
            BY <2>1, Zenon DEF Put, SetFields, NextIndex
        <3>3. ~overrun'
            BY <1>3, <3>1, <3>2, Zenon
        <3> QED BY <3>1, <3>2, <3>3 DEF TailInBounds
    <2>2. CASE capacity >= count + 1 /\ Put(e, capacity, head, tail, elems)
        <3>1. capacity \in Nat \ {0} /\ tail \in 0..(capacity - 1)
            BY <1>3, <2>2 DEF UInv, IInv, TypeOK
        <3> QED BY <2>1, <2>2, <3>1
    <2>3. CASE \E n \in GrownCapacities(count + 1) : Put(e, n, 0, count, Packed(n))
        <3>1. PICK n \in GrownCapacities(count + 1) : Put(e, n, 0, count, Packed(n))
            BY <2>3
        <3>2. n \in Nat \ {0} /\ count \in 0..(n - 1)
            BY <1>3, GrownEnough, count + 1 \in Nat
        <3> QED BY <2>1, <3>1, <3>2
    <2> QED BY <1>5, <1>10, <2>2, <2>3 DEF Enqueue
<1>11. ASSUME TryDequeue PROVE Goal
    <2>1. tail' = tail /\ capacity' = capacity /\ overrun' = overrun
        BY <1>11 DEF TryDequeue, SetFields, queue
    <2> QED BY <1>3, <2>1 DEF TailInBounds
<1>12. ASSUME Clear PROVE Goal
    <2>1. tail' = 0 /\ capacity' = capacity /\ overrun' = overrun
        BY <1>12 DEF Clear, SetFields
    <2> QED BY <1>3, <2>1 DEF TailInBounds
<1>13. ASSUME TrimExcess, count = 0 \/ count = capacity PROVE Goal
    <2>1. CASE UNCHANGED queue
        BY <1>4, <2>1
    <2>2. CASE SetFields(0, 0, 0, 0, [j \in 0..-1 |-> Junk]) /\ UNCHANGED <<allocated, overrun>>
        BY <1>3, <2>2 DEF SetFields, TailInBounds
    <2>3. ~(capacity > count /\ count > 0)
        BY <1>3, <1>13
    <2> QED BY <1>13, <2>1, <2>2, <2>3, Zenon DEF TrimExcess, OutOfMemory
<1>14. ASSUME TryPeek \/ IterStart \/ IterMoveNext \/ UNCHANGED vars PROVE Goal
    BY <1>4, <1>14 DEF TryPeek, IterStart, IterMoveNext, vars
<1>15. Goal
    BY <1>6, <1>7, <1>8, <1>9, <1>10, <1>11, <1>12, <1>13, <1>14, Zenon
    DEF UnpackedNext, OtherCall
<1>16. QED BY <1>2, <1>15 DEF UInv

LEMMA UInvInit == Init => UInv
BY IInvInit DEF UInv, Init, TailInBounds

LEMMA UnpackedInvariance == UnpackedSpec => []UInv
BY UInvInit, UInvStep, PTL DEF UnpackedSpec

\* A client that packs no queue until it is full always enqueues inside the array.
THEOREM UnpackedInBounds == UnpackedSpec => []TailInBounds
BY UnpackedInvariance, PTL DEF UInv

\* For such a client the ring buffer implements the FIFO queue of queue.h.
THEOREM UnpackedImplementsFifo == UnpackedSpec => FifoSpec
<1>1. Init => Fifo!Init
    <2>1. Init => Contents = << >>
        BY DEF Init, Contents
    <2> QED BY <2>1 DEF Init, Fifo!Init, Fifo!NoIterator, NoIter
<1>2. UInv /\ UInv' /\ [UnpackedNext]_vars => [Fifo!Next]_(Fifo!vars)
    <2> SUFFICES ASSUME UInv, UInv', [UnpackedNext]_vars
                 PROVE  [Fifo!Next]_(Fifo!vars)
        OBVIOUS
    <2>1. CASE UNCHANGED vars
        BY <2>1, ContentsUnchanged DEF vars, queue, Fifo!vars
    <2>2. CASE UnpackedNext
        <3>1. Next
            BY <2>2 DEF UnpackedNext, Next
        <3> QED BY <3>1, FifoStep DEF UInv, IInv
    <2> QED BY <2>1, <2>2
<1>3. QED BY <1>1, <1>2, UnpackedInvariance, PTL DEF UnpackedSpec, FifoSpec, Fifo!Spec
================================================================================
