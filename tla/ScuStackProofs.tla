---------------------------- MODULE ScuStackProofs -----------------------------
(***************************************************************************)
(* Theorems about ScuStack for every set of elements, every set of initial *)
(* capacities and every bound.                                             *)
(***************************************************************************)
EXTENDS ScuStack, SequenceTheorems, TLAPS

--------------------------------------------------------------------------------
(* Type correctness *)

\* The types of the struct alone.
StackType(cap, n, d) ==
    /\ cap \in Nat
    /\ n \in 0..cap
    /\ d \in [0..(cap - 1) -> Cell]
    /\ \A i \in 0..(n - 1) : d[i] \in Elem

\* GrownCapacities only holds capacities with the room asked for.
LEMMA GrownEnough ==
    ASSUME NEW wanted \in Nat, NEW n \in GrownCapacities(wanted)
    PROVE  n \in Nat /\ n >= wanted
BY DEF GrownCapacities

\* A reallocated array with room for the elements holds them.
LEMMA ResizedKeeps ==
    ASSUME TypeOK, NEW n \in Nat, n >= count
    PROVE  /\ StackType(n, count, Resized(n))
           /\ \A i \in 0..(count - 1) : Resized(n)[i] = data[i]
BY DEF TypeOK, StackType, Resized, Cell

\* A call that changes the struct as SetStack does, to fields of the right types, and leaves
\* no iterator.
LEMMA SetStackType ==
    ASSUME TypeOK, NEW cap, NEW n, NEW d, StackType(cap, n, d),
           SetStack(cap, n, d), DropIter, last'.elem \in Cell
    PROVE  TypeOK'
BY DEF TypeOK, StackType, SetStack, DropIter, NoIter

\* A call that leaves the struct alone.
LEMMA UnchangedType ==
    ASSUME TypeOK, UNCHANGED stack, iterIndex' \in {NoIter} \cup 0..count, last'.elem \in Cell
    PROVE  TypeOK'
BY DEF TypeOK, stack, NoIter

LEMMA AnswerType ==
    ASSUME NEW op, NEW outcome, NEW e \in Cell, Answer(op, outcome, e)
    PROVE  last'.elem \in Cell
BY DEF Answer

\* There is no memory.
LEMMA OutOfMemoryType ==
    ASSUME TypeOK, NEW op, OutOfMemory(op), DropIter
    PROVE  TypeOK'
<1>1. last'.elem \in Cell
    BY AnswerType DEF OutOfMemory, Cell
<1>2. QED BY <1>1, UnchangedType DEF OutOfMemory, DropIter

\* The element is put into an array with room for it.
LEMMA PutType ==
    ASSUME TypeOK, NEW e \in Elem, NEW cap, NEW d, StackType(cap, count, d), cap >= count + 1,
           Put(e, cap, d), DropIter
    PROVE  TypeOK'
<1>1. StackType(cap, count + 1, [d EXCEPT ![count] = e])
    BY DEF StackType, TypeOK, Cell
<1>2. last'.elem \in Cell
    BY AnswerType DEF Put, Cell
<1>3. QED BY <1>1, <1>2, SetStackType DEF Put

LEMMA TypeStep == TypeOK /\ [Next]_vars => TypeOK'
<1> SUFFICES ASSUME TypeOK, [Next]_vars
             PROVE  TypeOK'
    OBVIOUS
<1>a. Junk \in Cell /\ Elem \subseteq Cell
    BY DEF Cell
<1>b. StackType(capacity, count, data)
    BY DEF TypeOK, StackType
<1>1. ASSUME NEW cap \in InitialCapacities, New(cap) PROVE TypeOK'
    <2>1. CASE OutOfMemory("new")
        BY <1>1, <2>1, OutOfMemoryType DEF New
    <2>2. CASE ~OutOfMemory("new")
        <3>1. cap \in Nat /\ StackType(cap, 0, Unwritten(cap))
            BY <1>a, CapacitiesAssumption DEF StackType, Unwritten
        <3>2. last'.elem \in Cell
            BY <1>1, <2>2, <1>a, AnswerType DEF New
        <3> QED BY <1>1, <2>2, <3>1, <3>2 DEF New, TypeOK, StackType, DropIter, NoIter
    <2> QED BY <2>1, <2>2
<1>2. ASSUME Free PROVE TypeOK'
    <2>1. StackType(0, 0, Unwritten(0))
        BY <1>a DEF StackType, Unwritten
    <2>2. last'.elem \in Cell
        BY <1>2, <1>a, AnswerType DEF Free
    <2> QED BY <1>2, <2>1, <2>2 DEF Free, TypeOK, StackType, DropIter, NoIter
<1>3. ASSUME Clone PROVE TypeOK'
    <2>1. CASE OutOfMemory("clone")
        BY <1>3, <2>1, OutOfMemoryType DEF Clone
    <2>2. CASE ~OutOfMemory("clone")
        <3> DEFINE d == [j \in 0..(capacity - 1) |-> IF j < count THEN data[j] ELSE Junk]
        <3>1. StackType(capacity, count, d)
            BY <1>a, <1>b DEF StackType
        <3>2. SetStack(capacity, count, d) /\ DropIter /\ last'.elem \in Cell
            BY <1>3, <2>2, <1>a, AnswerType DEF Clone
        <3> HIDE DEF d
        <3> QED BY <3>1, <3>2, SetStackType
    <2> QED BY <2>1, <2>2
<1>4. ASSUME NEW wanted \in 0..MaxCount, EnsureCapacity(wanted) PROVE TypeOK'
    <2>1. CASE OutOfMemory("ensure_capacity")
        BY <1>4, <2>1, OutOfMemoryType DEF EnsureCapacity
    <2>2. CASE UNCHANGED stack /\ Answer("ensure_capacity", "NONE", Junk)
        BY <1>4, <2>2, <1>a, AnswerType, UnchangedType DEF EnsureCapacity, DropIter
    <2>3. ASSUME NEW n \in GrownCapacities(wanted), capacity < wanted,
                 SetStack(n, count, Resized(n)), Answer("ensure_capacity", "NONE", Junk)
          PROVE  TypeOK'
        <3>1. n \in Nat /\ n >= count
            BY <2>3, GrownEnough, MaxCountAssumption DEF TypeOK
        <3>2. StackType(n, count, Resized(n))
            BY <3>1, ResizedKeeps
        <3>3. last'.elem \in Cell /\ DropIter
            BY <1>4, <2>3, <1>a, AnswerType DEF EnsureCapacity
        <3> QED BY <2>3, <3>2, <3>3, SetStackType
    <2> QED BY <1>4, <2>1, <2>2, <2>3 DEF EnsureCapacity
<1>5. ASSUME NEW e \in Elem, Push(e) PROVE TypeOK'
    <2>1. CASE OutOfMemory("push")
        BY <1>5, <2>1, OutOfMemoryType DEF Push
    <2>2. CASE capacity >= count + 1 /\ Put(e, capacity, data)
        BY <1>5, <2>2, <1>b, PutType DEF Push
    <2>3. ASSUME NEW n \in GrownCapacities(count + 1), Put(e, n, Resized(n)) PROVE TypeOK'
        <3>1. n \in Nat /\ n >= count + 1
            BY GrownEnough DEF TypeOK
        <3>2. StackType(n, count, Resized(n))
            BY <3>1, ResizedKeeps DEF TypeOK
        <3> QED BY <1>5, <2>3, <3>1, <3>2, PutType DEF Push
    <2> QED BY <1>5, <2>1, <2>2, <2>3 DEF Push
<1>6. ASSUME TrimExcess PROVE TypeOK'
    <2>1. CASE OutOfMemory("trim_excess")
        BY <1>6, <2>1, OutOfMemoryType DEF TrimExcess
    <2>2. CASE UNCHANGED stack /\ Answer("trim_excess", "NONE", Junk)
        BY <1>6, <2>2, <1>a, AnswerType, UnchangedType DEF TrimExcess, DropIter
    <2>3. CASE SetStack(count, count, Resized(count)) /\ Answer("trim_excess", "NONE", Junk)
        <3>1. StackType(count, count, Resized(count))
            BY ResizedKeeps DEF TypeOK
        <3>2. last'.elem \in Cell /\ DropIter
            BY <1>6, <2>3, <1>a, AnswerType DEF TrimExcess
        <3> QED BY <2>3, <3>1, <3>2, SetStackType
    <2> QED BY <1>6, <2>1, <2>2, <2>3 DEF TrimExcess
<1>7. ASSUME Clear PROVE TypeOK'
    <2>1. StackType(capacity, 0, data)
        BY <1>b DEF StackType
    <2>2. last'.elem \in Cell
        BY <1>7, <1>a, AnswerType DEF Clear
    <2> QED BY <1>7, <2>1, <2>2, SetStackType DEF Clear
<1>8. ASSUME TryPop PROVE TypeOK'
    <2>1. CASE count = 0
        BY <1>8, <2>1, <1>a, AnswerType, UnchangedType DEF TryPop, DropIter
    <2>2. CASE count > 0
        <3>1. StackType(capacity, count - 1, data) /\ data[count - 1] \in Cell
            BY <2>2, <1>a, <1>b DEF StackType
        <3>2. last'.elem \in Cell
            BY <1>8, <2>2, <3>1, AnswerType DEF TryPop
        <3> QED BY <1>8, <2>2, <3>1, <3>2, SetStackType DEF TryPop
    <2> QED BY <2>1, <2>2 DEF TypeOK
<1>9. ASSUME TryPeek PROVE TypeOK'
    <2>1. count > 0 => data[count - 1] \in Cell
        BY <1>a, <1>b DEF StackType
    <2>2. last'.elem \in Cell
        BY <1>9, <2>1, <1>a, AnswerType DEF TryPeek
    <2> QED BY <1>9, <2>2, UnchangedType DEF TryPeek, TypeOK
<1>10. ASSUME IterStart PROVE TypeOK'
    <2>1. last'.elem \in Cell
        BY <1>10, <1>a, AnswerType DEF IterStart
    <2> QED BY <1>10, <2>1, UnchangedType DEF IterStart, TypeOK
<1>11. ASSUME IterMoveNext PROVE TypeOK'
    <2>1. iterIndex > 0 => data[iterIndex - 1] \in Cell
        BY <1>a, <1>b DEF StackType, TypeOK, NoIter
    <2>2. last'.elem \in Cell
        BY <1>11, <2>1, <1>a, AnswerType DEF IterMoveNext
    <2>3. iterIndex' \in {NoIter} \cup 0..count
        BY <1>11 DEF IterMoveNext, TypeOK, NoIter
    <2> QED BY <1>11, <2>2, <2>3, UnchangedType DEF IterMoveNext
<1>12. CASE UNCHANGED vars
    BY <1>12, UnchangedType DEF vars, TypeOK
<1>13. QED
    BY <1>1, <1>2, <1>3, <1>4, <1>5, <1>6, <1>7, <1>8, <1>9, <1>10, <1>11, <1>12 DEF Next

\* For every capacity and history of calls the fields stay within their types, and the
\* elements in use have been written.
THEOREM TypeCorrect == Spec => []TypeOK
<1>1. ASSUME Init PROVE TypeOK
    <2>1. Unwritten(0) \in [0..(0 - 1) -> Cell] /\ Junk \in Cell
        BY DEF Unwritten, Cell
    <2>2. capacity = 0 /\ count = 0 /\ data = Unwritten(0) /\ iterIndex = NoIter
        BY <1>1 DEF Init
    <2>3. allocated \in BOOLEAN /\ last.elem \in Cell
        BY <1>1, <2>1 DEF Init
    <2> QED BY <2>1, <2>2, <2>3 DEF TypeOK
<1>2. QED BY <1>1, TypeStep, PTL DEF Spec

--------------------------------------------------------------------------------
(* Refinement *)

\* The contents as a sequence.
LEMMA ContentsSeq ==
    ASSUME TypeOK
    PROVE  /\ Contents \in Seq(Elem)
           /\ Len(Contents) = count
           /\ \A i \in 1..count : Contents[i] = data[i - 1]
<1>1. count \in Nat /\ \A i \in 1..count : data[i - 1] \in Elem
    BY DEF TypeOK
<1>2. Contents \in [1..count -> Elem]
    BY <1>1 DEF Contents
<1>3. QED BY <1>1, <1>2 DEF Contents

\* Without a change of the elements in use the contents are what they were.
LEMMA ContentsKept ==
    ASSUME TypeOK, count' = count, \A i \in 0..(count - 1) : data'[i] = data[i]
    PROVE  Contents' = Contents
<1>1. count \in Nat /\ \A i \in 1..count : data'[i - 1] = data[i - 1]
    BY DEF TypeOK
<1>2. QED BY <1>1 DEF Contents

LEMMA ContentsUnchanged ==
    ASSUME UNCHANGED stack
    PROVE  Contents' = Contents
BY DEF stack, Contents

LEMMA ContentsEmpty ==
    ASSUME count' = 0
    PROVE  Contents' = << >>
BY DEF Contents

\* Writing behind the elements in use appends.
LEMMA ContentsPut ==
    ASSUME TypeOK, NEW e \in Elem, NEW cap, NEW d, StackType(cap, count, d), cap >= count + 1,
           \A i \in 0..(count - 1) : d[i] = data[i],
           Put(e, cap, d)
    PROVE  Contents' = Append(Contents, e)
<1>1. count' = count + 1 /\ data' = [d EXCEPT ![count] = e]
    BY DEF Put, SetStack
<1>2. /\ count \in Nat /\ data'[count] = e
      /\ \A i \in 0..(count - 1) : data'[i] = data[i]
    BY <1>1 DEF TypeOK, StackType
<1>3. Contents' = [i \in 1..(count + 1) |-> data'[i - 1]]
    BY <1>1 DEF Contents
<1>4. \A i \in 1..count : data'[i - 1] = Contents[i]
    BY <1>2, ContentsSeq
<1>5. /\ Append(Contents, e) \in Seq(Elem)
      /\ Len(Append(Contents, e)) = count + 1
      /\ \A i \in 1..count : Append(Contents, e)[i] = Contents[i]
      /\ Append(Contents, e)[count + 1] = e
    BY ContentsSeq, AppendProperties
<1>6. \A i \in 1..(count + 1) : data'[i - 1] = Append(Contents, e)[i]
    BY <1>2, <1>4, <1>5
<1>7. \A i \in 1..(count + 1) : data'[i - 1] \in Elem
    BY <1>2, <1>5, <1>6, ElementOfSeq
<1>8. Contents' \in Seq(Elem) /\ Len(Contents') = count + 1
      /\ \A i \in 1..(count + 1) : Contents'[i] = data'[i - 1]
    <2>1. count + 1 \in Nat
        BY <1>2
    <2> QED BY <1>3, <1>7, <2>1
<1>9. QED BY <1>5, <1>6, <1>8, SeqEqual

\* One element less is the sequence without its last.
LEMMA ContentsPopped ==
    ASSUME TypeOK, count > 0, count' = count - 1, data' = data
    PROVE  /\ Contents' = SubSeq(Contents, 1, Len(Contents) - 1)
           /\ Contents # << >>
           /\ Contents[Len(Contents)] = data[count - 1]
<1>1. count \in Nat
    BY DEF TypeOK
<1>2. Contents' = [i \in 1..(count - 1) |-> data[i - 1]]
    BY DEF Contents
<1>3. QED BY <1>1, <1>2, ContentsSeq

LEMMA OutOfMemoryStep ==
    ASSUME TypeOK, NEW op \in {"new", "push", "ensure_capacity", "trim_excess", "clone"},
           OutOfMemory(op), DropIter
    PROVE  Lifo!Next
<1>1. Contents' = Contents
    BY ContentsUnchanged DEF OutOfMemory
<1>2. Lifo!Reorganise(op, "OUT_OF_MEMORY")
    BY <1>1 DEF OutOfMemory, Answer, DropIter, NoIter, Lifo!Reorganise, Lifo!Change, Lifo!Answer,
                Lifo!NoIterator
<1>3. QED BY <1>2 DEF Lifo!Next

\* The storage changes, the elements do not.
LEMMA ReorganiseStep ==
    ASSUME NEW op \in {"ensure_capacity", "trim_excess", "clone"},
           Contents' = Contents, Answer(op, "NONE", Junk), DropIter
    PROVE  Lifo!Next
<1>1. Lifo!Reorganise(op, "NONE")
    BY DEF Answer, DropIter, NoIter, Lifo!Reorganise, Lifo!Change, Lifo!Answer, Lifo!NoIterator
<1>2. QED BY <1>1 DEF Lifo!Next

LEMMA EmptyStep ==
    ASSUME NEW op \in {"new", "clear", "free"}, count' = 0, Answer(op, "NONE", Junk), DropIter
    PROVE  Lifo!Next
<1>1. Lifo!Empty(op)
    BY ContentsEmpty DEF Answer, DropIter, NoIter, Lifo!Empty, Lifo!Change, Lifo!Answer,
                         Lifo!NoIterator
<1>2. QED BY <1>1 DEF Lifo!Next

LEMMA PushStep ==
    ASSUME NEW e \in Elem, Contents' = Append(Contents, e), Answer("push", "NONE", e), DropIter
    PROVE  Lifo!Next
<1>1. Lifo!Push(e)
    BY DEF Answer, DropIter, NoIter, Lifo!Push, Lifo!Change, Lifo!Answer, Lifo!NoIterator
<1>2. QED BY <1>1 DEF Lifo!Next

\* Every call is one of the last-in-first-out collection.
LEMMA LifoStep == TypeOK /\ [Next]_vars => [Lifo!Next]_(Lifo!vars)
<1> SUFFICES ASSUME TypeOK, [Next]_vars
             PROVE  [Lifo!Next]_(Lifo!vars)
    OBVIOUS
<1>a. capacity \in Nat /\ count \in Nat /\ count <= capacity
    BY DEF TypeOK
<1>b. StackType(capacity, count, data)
    BY DEF TypeOK, StackType
<1>1. ASSUME NEW cap \in InitialCapacities, New(cap) PROVE Lifo!Next
    <2>1. CASE OutOfMemory("new")
        BY <1>1, <2>1, OutOfMemoryStep DEF New
    <2>2. CASE ~OutOfMemory("new")
        BY <1>1, <2>2, EmptyStep DEF New
    <2> QED BY <2>1, <2>2
<1>2. ASSUME Free PROVE Lifo!Next
    BY <1>2, EmptyStep DEF Free
<1>3. ASSUME Clone PROVE Lifo!Next
    <2>1. CASE OutOfMemory("clone")
        BY <1>3, <2>1, OutOfMemoryStep DEF Clone
    <2>2. CASE ~OutOfMemory("clone")
        <3>1. count' = count
              /\ data' = [j \in 0..(capacity - 1) |-> IF j < count THEN data[j] ELSE Junk]
            BY <1>3, <2>2 DEF Clone, SetStack
        <3>2. Contents' = Contents
            BY <1>a, <3>1, ContentsKept
        <3> QED BY <1>3, <2>2, <3>2, ReorganiseStep DEF Clone
    <2> QED BY <2>1, <2>2
<1>4. ASSUME NEW wanted \in 0..MaxCount, EnsureCapacity(wanted) PROVE Lifo!Next
    <2>1. CASE OutOfMemory("ensure_capacity")
        BY <1>4, <2>1, OutOfMemoryStep DEF EnsureCapacity
    <2>2. CASE UNCHANGED stack /\ Answer("ensure_capacity", "NONE", Junk)
        BY <1>4, <2>2, ContentsUnchanged, ReorganiseStep DEF EnsureCapacity
    <2>3. ASSUME NEW n \in GrownCapacities(wanted), capacity < wanted,
                 SetStack(n, count, Resized(n)), Answer("ensure_capacity", "NONE", Junk)
          PROVE  Lifo!Next
        <3>1. n \in Nat /\ n >= count
            BY <1>a, <2>3, GrownEnough, MaxCountAssumption
        <3>2. count' = count /\ data' = Resized(n)
            BY <2>3 DEF SetStack
        <3>3. Contents' = Contents
            BY <3>1, <3>2, ResizedKeeps, ContentsKept
        <3> QED BY <1>4, <2>3, <3>3, ReorganiseStep DEF EnsureCapacity
    <2> QED BY <1>4, <2>1, <2>2, <2>3 DEF EnsureCapacity
<1>5. ASSUME NEW e \in Elem, Push(e) PROVE Lifo!Next
    <2>1. CASE OutOfMemory("push")
        BY <1>5, <2>1, OutOfMemoryStep DEF Push
    <2>2. CASE capacity >= count + 1 /\ Put(e, capacity, data)
        <3>1. Contents' = Append(Contents, e)
            BY <1>b, <2>2, ContentsPut
        <3> QED BY <1>5, <2>2, <3>1, PushStep DEF Push, Put
    <2>3. ASSUME NEW n \in GrownCapacities(count + 1), Put(e, n, Resized(n)) PROVE Lifo!Next
        <3>1. n \in Nat /\ n >= count + 1
            BY <1>a, GrownEnough
        <3>2. StackType(n, count, Resized(n)) /\ \A i \in 0..(count - 1) : Resized(n)[i] = data[i]
            BY <1>a, <3>1, ResizedKeeps
        <3>3. Contents' = Append(Contents, e)
            BY <2>3, <3>1, <3>2, ContentsPut
        <3> QED BY <1>5, <2>3, <3>3, PushStep DEF Push, Put
    <2> QED BY <1>5, <2>1, <2>2, <2>3 DEF Push
<1>6. ASSUME TrimExcess PROVE Lifo!Next
    <2>1. CASE OutOfMemory("trim_excess")
        BY <1>6, <2>1, OutOfMemoryStep DEF TrimExcess
    <2>2. CASE UNCHANGED stack /\ Answer("trim_excess", "NONE", Junk)
        BY <1>6, <2>2, ContentsUnchanged, ReorganiseStep DEF TrimExcess
    <2>3. CASE SetStack(count, count, Resized(count)) /\ Answer("trim_excess", "NONE", Junk)
        <3>1. count' = count /\ data' = Resized(count)
            BY <2>3 DEF SetStack
        <3>2. Contents' = Contents
            BY <1>a, <3>1, ResizedKeeps, ContentsKept
        <3> QED BY <1>6, <2>3, <3>2, ReorganiseStep DEF TrimExcess
    <2> QED BY <1>6, <2>1, <2>2, <2>3 DEF TrimExcess
<1>7. ASSUME Clear PROVE Lifo!Next
    BY <1>7, EmptyStep DEF Clear, SetStack
<1>8. ASSUME TryPop PROVE Lifo!Next
    <2>1. CASE count = 0
        <3>1. Contents = << >> /\ Contents' = Contents
            BY <1>8, <2>1, ContentsUnchanged DEF TryPop, Contents
        <3>2. Lifo!FoundEmpty("try_pop")
            BY <1>8, <2>1, <3>1 DEF TryPop, DropIter, NoIter, Answer, Lifo!FoundEmpty, Lifo!Answer,
                                    Lifo!NoIterator
        <3> QED BY <3>2 DEF Lifo!Next
    <2>2. CASE count > 0
        <3>1. count' = count - 1 /\ data' = data
            <4>1. SetStack(capacity, count - 1, data)
                BY <1>8, <2>2 DEF TryPop
            <4> QED BY <4>1 DEF SetStack
        <3>2. /\ Contents' = SubSeq(Contents, 1, Len(Contents) - 1)
              /\ Contents # << >>
              /\ Contents[Len(Contents)] = data[count - 1]
            BY <2>2, <3>1, ContentsPopped
        <3>3. Answer("try_pop", "NONE", data[count - 1]) /\ iterIndex' = -1
            BY <1>8, <2>2 DEF TryPop, DropIter, NoIter
        <3>4. Lifo!Pop
            BY <3>2, <3>3 DEF Answer, Lifo!Pop, Lifo!Change, Lifo!Newest, Lifo!Answer,
                              Lifo!NoIterator
        <3> QED BY <3>4 DEF Lifo!Next
    <2> QED BY <1>a, <2>1, <2>2
<1>9. ASSUME TryPeek PROVE Lifo!Next
    <2>0. Contents' = Contents
        BY <1>9, ContentsUnchanged DEF TryPeek
    <2>1. CASE count = 0
        <3>1. Contents = << >>
            BY <2>1 DEF Contents
        <3>2. Lifo!FoundEmpty("try_peek")
            BY <1>9, <2>0, <2>1, <3>1 DEF TryPeek, Answer, Lifo!FoundEmpty, Lifo!Answer
        <3> QED BY <3>2 DEF Lifo!Next
    <2>2. CASE count > 0
        <3>1. Contents # << >> /\ Contents[Len(Contents)] = data[count - 1]
            BY <1>a, <2>2, ContentsSeq
        <3>2. Answer("try_peek", "NONE", data[count - 1]) /\ UNCHANGED iterIndex
            BY <1>9, <2>2 DEF TryPeek
        <3>3. Lifo!Peek
            BY <2>0, <3>1, <3>2 DEF Answer, Lifo!Peek, Lifo!Newest, Lifo!Answer
        <3> QED BY <3>3 DEF Lifo!Next
    <2> QED BY <1>a, <2>1, <2>2
<1>10. ASSUME IterStart PROVE Lifo!Next
    <2>1. Contents' = Contents /\ Len(Contents) = count
        BY <1>10, ContentsUnchanged, ContentsSeq DEF IterStart
    <2>2. Lifo!IterStart
        BY <1>10, <2>1 DEF IterStart, Answer, Lifo!IterStart, Lifo!Answer
    <2> QED BY <2>2 DEF Lifo!Next
<1>11. ASSUME IterMoveNext PROVE Lifo!Next
    <2>1. Contents' = Contents /\ iterIndex \in 0..count
        BY <1>11, ContentsUnchanged DEF IterMoveNext, TypeOK, NoIter
    <2>2. CASE iterIndex > 0
        <3>1. Contents[iterIndex] = data[iterIndex - 1]
            BY <1>a, <2>1, <2>2, ContentsSeq
        <3>2. Answer("iter_move_next", "NONE", data[iterIndex - 1]) /\ iterIndex' = iterIndex - 1
            BY <1>a, <1>11, <2>1, <2>2 DEF IterMoveNext
        <3>3. Lifo!IterNext
            BY <2>1, <2>2, <3>1, <3>2 DEF Answer, Lifo!IterNext, Lifo!Answer
        <3> QED BY <3>3 DEF Lifo!Next
    <2>3. CASE iterIndex = 0
        <3>1. Answer("iter_move_next", "EMPTY", Junk) /\ iterIndex' = iterIndex
            BY <1>11, <2>3 DEF IterMoveNext
        <3>2. Lifo!IterEnd
            BY <2>1, <2>3, <3>1 DEF Answer, Lifo!IterEnd, Lifo!Answer
        <3> QED BY <3>2 DEF Lifo!Next
    <2> QED BY <1>a, <2>1, <2>2, <2>3
<1>12. CASE UNCHANGED vars
    BY <1>12, ContentsUnchanged DEF vars, Lifo!vars
<1>13. QED
    BY <1>1, <1>2, <1>3, <1>4, <1>5, <1>6, <1>7, <1>8, <1>9, <1>10, <1>11, <1>12 DEF Next

\* For every capacity, element set and history of calls the stack is a last-in-first-out
\* collection, and its iterator hands out every element once, newest first.
THEOREM LifoCorrect == Spec => LifoSpec
<1>1. Init => Lifo!Init
    <2>1. Init => Contents = << >>
        BY DEF Init, Contents
    <2> QED BY <2>1 DEF Init, NoIter, Lifo!Init, Lifo!NoIterator
<1>2. QED BY <1>1, LifoStep, TypeCorrect, PTL DEF Spec, LifoSpec, Lifo!Spec
================================================================================
