---------------------------- MODULE ScuAllocProofs -----------------------------
(***************************************************************************)
(* Proofs about ScuAlloc, for any number of threads, allocators and        *)
(* blocks: every block goes back to the allocator it came from, and none   *)
(* is lost or in two hands.                                                *)
(***************************************************************************)
EXTENDS ScuAlloc, TLAPS

\* The header of a block that is being reallocated still names its allocator: the block
\* may stay where it is, and the client gets it back with that header.
HeaderKept == \A t \in Thread : pc[t] = "realloc" => header[block[t]] = allocator[t]

\* The inductive invariant.
IInv == TypeOK /\ GoesHome /\ NothingLost /\ HeaderKept

LEMMA InvInit == Init => IInv
BY DefaultAssumption DEF Init, IInv, TypeOK, GoesHome, NothingLost, HeaderKept, Working

LEMMA SetStep ==
    ASSUME IInv, NEW t \in Thread, NEW a \in Allocator \cup {Nullptr}, SetGlobalAllocator(t, a)
    PROVE  IInv'
BY DefaultAssumption
   DEF SetGlobalAllocator, memory, threads, IInv, TypeOK, GoesHome, NothingLost, HeaderKept, Working

LEMMA MallocStep ==
    ASSUME IInv, NEW t \in Thread, Malloc(t)
    PROVE  IInv'
<1>1. TypeOK'
    BY DEF Malloc, Goto, memory, IInv, TypeOK
<1>2. /\ Working' = Working
      /\ \A s \in Working : block'[s] = block[s] /\ allocator'[s] = allocator[s]
    BY DEF Malloc, Goto, IInv, TypeOK, Working
<1>3. HeaderKept'
    BY DEF Malloc, Goto, memory, IInv, TypeOK, HeaderKept
<1> QED BY <1>1, <1>2, <1>3 DEF Malloc, memory, IInv, GoesHome, NothingLost

LEMMA MallocBlockStep ==
    ASSUME IInv, NEW t \in Thread, MallocBlock(t)
    PROVE  IInv'
<1>1. CASE Return(t) /\ UNCHANGED memory
    <2>1. TypeOK'
        BY <1>1, NullptrAssumption DEF MallocBlock, Return, Goto, memory, IInv, TypeOK
    <2>2. /\ Working' = Working
          /\ \A s \in Working : block'[s] = block[s] /\ allocator'[s] = allocator[s]
        BY <1>1 DEF MallocBlock, Return, Goto, IInv, TypeOK, Working
    <2>3. HeaderKept'
        BY <1>1 DEF Return, Goto, memory, IInv, TypeOK, HeaderKept
    <2> QED BY <1>1, <2>1, <2>2, <2>3 DEF memory, IInv, GoesHome, NothingLost
<1>2. ASSUME NEW b \in Block, AllocatorMalloc(allocator[t], b),
             Goto(t, "header", allocator[t], b), UNCHANGED held
      PROVE  IInv'
    <2>1. TypeOK'
        BY <1>2 DEF MallocBlock, Goto, AllocatorMalloc, IInv, TypeOK
    <2>2. /\ Working' = Working \cup {t} /\ t \notin Working
          /\ block'[t] = b /\ allocator'[t] = allocator[t] /\ allocator[t] \in Allocator
          /\ \A s \in Working : block'[s] = block[s] /\ allocator'[s] = allocator[s]
        BY <1>2 DEF MallocBlock, Goto, IInv, TypeOK, Working
    <2>3. /\ maker[b] = Nullptr /\ maker'[b] = allocator[t]
          /\ \A c \in Block \ {b} : maker'[c] = maker[c] /\ header'[c] = header[c]
        BY <1>2 DEF AllocatorMalloc, IInv, TypeOK
    <2>4. b \notin held /\ \A s \in Working : block[s] # b /\ s \in Thread
        BY <2>3, NullptrAssumption DEF IInv, TypeOK, GoesHome, Working
    <2>5. GoesHome'
        BY <1>2, <2>2, <2>3, <2>4 DEF IInv, TypeOK, GoesHome
    <2>6. NothingLost'
        BY <1>2, <2>2, <2>3, <2>4 DEF IInv, NothingLost
    <2>7. HeaderKept'
        <3> SUFFICES ASSUME NEW s \in Thread, pc'[s] = "realloc"
                     PROVE  header'[block'[s]] = allocator'[s]
            BY DEF HeaderKept
        <3>1. s \in Working /\ pc[s] = "realloc" /\ block[s] \in Block
            BY <1>2 DEF Goto, IInv, TypeOK, GoesHome, Working
        <3> QED BY <2>2, <2>3, <2>4, <3>1 DEF IInv, HeaderKept
    <2> QED BY <2>1, <2>5, <2>6, <2>7 DEF IInv
<1> QED BY <1>1, <1>2 DEF MallocBlock

LEMMA MallocHeaderStep ==
    ASSUME IInv, NEW t \in Thread, MallocHeader(t)
    PROVE  IInv'
<1>1. /\ t \in Working /\ Working' = Working \ {t}
      /\ \A s \in Working' : block'[s] = block[s] /\ allocator'[s] = allocator[s]
    BY DEF MallocHeader, Return, Goto, IInv, TypeOK, Working
<1>2. /\ block[t] \in Block /\ maker[block[t]] = allocator[t] /\ allocator[t] \in Allocator
      /\ maker' = maker /\ held' = held \cup {block[t]}
    BY <1>1 DEF MallocHeader, IInv, TypeOK, GoesHome, Working
<1>3. TypeOK'
    BY <1>2, NullptrAssumption DEF MallocHeader, Return, Goto, IInv, TypeOK
<1>4. \A c \in Block : header'[c] = IF c = block[t] THEN allocator[t] ELSE header[c]
    BY DEF MallocHeader, IInv, TypeOK
<1>5. GoesHome'
    BY <1>1, <1>2, <1>4 DEF IInv, TypeOK, GoesHome
<1>6. NothingLost'
    BY <1>1, <1>2 DEF IInv, NothingLost
<1>7. HeaderKept'
    <2> SUFFICES ASSUME NEW s \in Thread, pc'[s] = "realloc"
                 PROVE  header'[block'[s]] = allocator'[s]
        BY DEF HeaderKept
    <2>1. s \in Working' /\ pc[s] = "realloc" /\ s # t
        BY DEF MallocHeader, Return, Goto, IInv, TypeOK, Working
    <2> QED BY <1>1, <1>2, <1>4, <2>1 DEF IInv, TypeOK, GoesHome, NothingLost, HeaderKept, Working
<1> QED BY <1>3, <1>5, <1>6, <1>7 DEF IInv

\* scu_realloc and scu_free read from the header who the block belongs to.
LEMMA PassStep ==
    ASSUME IInv, NEW t \in Thread, NEW b \in Block, NEW label \in {"realloc", "free"},
           PassBlock(t, b, label)
    PROVE  IInv'
<1>1. /\ t \notin Working /\ Working' = Working \cup {t}
      /\ block'[t] = b /\ allocator'[t] = header[b]
      /\ \A s \in Working : block'[s] = block[s] /\ allocator'[s] = allocator[s]
    BY DEF PassBlock, Goto, IInv, TypeOK, Working
<1>2. /\ b \in held /\ held' = held \ {b} /\ maker' = maker /\ header' = header
      /\ header[b] = maker[b] /\ maker[b] \in Allocator
    BY DEF PassBlock, IInv, GoesHome
<1>3. TypeOK'
    BY <1>2 DEF PassBlock, Goto, IInv, TypeOK
<1>4. GoesHome'
    BY <1>1, <1>2 DEF IInv, GoesHome
<1>5. NothingLost'
    BY <1>1, <1>2 DEF IInv, NothingLost
<1>6. HeaderKept'
    <2> SUFFICES ASSUME NEW s \in Thread, pc'[s] = "realloc"
                 PROVE  header'[block'[s]] = allocator'[s]
        BY DEF HeaderKept
    <2>1. s = t \/ (s \in Working /\ pc[s] = "realloc")
        BY DEF PassBlock, Goto, IInv, TypeOK, Working
    <2> QED BY <1>1, <1>2, <2>1 DEF IInv, HeaderKept
<1> QED BY <1>3, <1>4, <1>5, <1>6 DEF IInv

LEMMA ReallocBlockStep ==
    ASSUME IInv, NEW t \in Thread, ReallocBlock(t)
    PROVE  IInv'
<1>1. /\ t \in Working /\ Working' = Working \ {t}
      /\ \A s \in Working' : block'[s] = block[s] /\ allocator'[s] = allocator[s]
    BY DEF ReallocBlock, Return, Goto, IInv, TypeOK, Working
<1>2. block[t] \in Block /\ maker[block[t]] = allocator[t] /\ allocator[t] \in Allocator
    BY <1>1 DEF IInv, TypeOK, GoesHome, Working
<1>3. \A s \in Working' : block[s] # block[t] /\ s \in Working /\ block[s] \in Block
    BY <1>1 DEF IInv, GoesHome, NothingLost
<1>4. CASE held' = held \cup {block[t]} /\ UNCHANGED <<maker, header>>
    <2>1. TypeOK'
        BY <1>2, <1>4 DEF ReallocBlock, Return, Goto, IInv, TypeOK
    <2>2. header[block[t]] = maker[block[t]]
        BY <1>2 DEF ReallocBlock, IInv, HeaderKept
    <2>3. GoesHome'
        BY <1>1, <1>2, <1>4, <2>2 DEF IInv, GoesHome
    <2>4. NothingLost'
        BY <1>1, <1>2, <1>3, <1>4 DEF IInv, NothingLost
    <2>5. HeaderKept'
        <3> SUFFICES ASSUME NEW s \in Thread, pc'[s] = "realloc"
                     PROVE  header'[block'[s]] = allocator'[s]
            BY DEF HeaderKept
        <3>1. s \in Working' /\ pc[s] = "realloc" /\ s # t
            BY DEF ReallocBlock, Return, Goto, IInv, TypeOK, Working
        <3> QED BY <1>1, <1>4, <3>1 DEF IInv, HeaderKept
    <2> QED BY <2>1, <2>3, <2>4, <2>5 DEF IInv
<1>5. ASSUME NEW c \in Block, AllocatorMove(allocator[t], block[t], c),
             held' = held \cup {c}
      PROVE  IInv'
    <2>1. TypeOK'
        BY <1>2, <1>5 DEF ReallocBlock, Return, Goto, AllocatorMove, IInv, TypeOK
    <2>2. /\ maker[c] = Nullptr /\ c # block[t]
          /\ maker'[c] = allocator[t] /\ header'[c] = header[block[t]]
          /\ maker'[block[t]] = Nullptr
          /\ \A b \in Block \ {c, block[t]} : maker'[b] = maker[b] /\ header'[b] = header[b]
        BY <1>2, <1>5, NullptrAssumption DEF AllocatorMove, IInv, TypeOK
    <2>3. c \notin held /\ \A s \in Working : block[s] # c
        BY <2>2, NullptrAssumption DEF IInv, TypeOK, GoesHome, Working
    <2>4. header[block[t]] = allocator[t] /\ block[t] \notin held
        BY <1>1 DEF ReallocBlock, IInv, NothingLost, HeaderKept
    <2>5. GoesHome'
        BY <1>1, <1>2, <1>3, <1>5, <2>2, <2>3, <2>4 DEF IInv, TypeOK, GoesHome
    <2>6. NothingLost'
        BY <1>1, <1>2, <1>3, <1>5, <2>2, <2>3, <2>4 DEF IInv, NothingLost
    <2>7. HeaderKept'
        <3> SUFFICES ASSUME NEW s \in Thread, pc'[s] = "realloc"
                     PROVE  header'[block'[s]] = allocator'[s]
            BY DEF HeaderKept
        <3>1. s \in Working' /\ pc[s] = "realloc" /\ s # t
            BY DEF ReallocBlock, Return, Goto, IInv, TypeOK, Working
        <3> QED BY <1>1, <1>3, <2>2, <2>3, <3>1 DEF IInv, HeaderKept
    <2> QED BY <2>1, <2>5, <2>6, <2>7 DEF IInv
<1> QED BY <1>4, <1>5 DEF ReallocBlock

LEMMA FreeBlockStep ==
    ASSUME IInv, NEW t \in Thread, FreeBlock(t)
    PROVE  IInv'
<1>1. /\ t \in Working /\ Working' = Working \ {t}
      /\ \A s \in Working' : block'[s] = block[s] /\ allocator'[s] = allocator[s]
    BY DEF FreeBlock, Return, Goto, IInv, TypeOK, Working
<1>2. block[t] \in Block /\ block[t] \notin held /\ held' = held
    BY <1>1 DEF FreeBlock, IInv, GoesHome, NothingLost
<1>3. TypeOK'
    BY <1>2 DEF FreeBlock, Return, Goto, AllocatorFree, IInv, TypeOK
<1>4. /\ maker'[block[t]] = Nullptr
      /\ \A b \in Block \ {block[t]} : maker'[b] = maker[b] /\ header'[b] = header[b]
    BY <1>2 DEF FreeBlock, AllocatorFree, IInv, TypeOK
<1>5. \A s \in Working' : block[s] # block[t] /\ s \in Working
    BY <1>1 DEF IInv, NothingLost
<1>6. GoesHome'
    BY <1>1, <1>2, <1>4, <1>5 DEF IInv, TypeOK, GoesHome
<1>7. NothingLost'
    BY <1>1, <1>2, <1>4, <1>5 DEF IInv, NothingLost
<1>8. HeaderKept'
    <2> SUFFICES ASSUME NEW s \in Thread, pc'[s] = "realloc"
                 PROVE  header'[block'[s]] = allocator'[s]
        BY DEF HeaderKept
    <2>1. s \in Working' /\ pc[s] = "realloc" /\ s # t
        BY DEF FreeBlock, Return, Goto, IInv, TypeOK, Working
    <2> QED BY <1>1, <1>2, <1>4, <1>5, <2>1
           DEF IInv, TypeOK, GoesHome, NothingLost, HeaderKept, Working
<1> QED BY <1>3, <1>6, <1>7, <1>8 DEF IInv

\* No step of any thread breaks the invariant: one step for each action.
LEMMA InvStep == IInv /\ [Next]_vars => IInv'
<1> SUFFICES ASSUME IInv, [Next]_vars PROVE IInv'
    OBVIOUS
<1>1. ASSUME NEW t \in Thread, ThreadStep(t) PROVE IInv'
    <2>1. ASSUME NEW a \in Allocator \cup {Nullptr}, SetGlobalAllocator(t, a) PROVE IInv'
        BY <2>1, SetStep
    <2>2. ASSUME NEW b \in Block, Realloc(t, b) PROVE IInv'
        BY <2>2, PassStep DEF Realloc
    <2>3. ASSUME NEW b \in Block, Free(t, b) PROVE IInv'
        BY <2>3, PassStep DEF Free
    <2>4. CASE Malloc(t)
        BY <2>4, MallocStep
    <2>5. CASE MallocBlock(t)
        BY <2>5, MallocBlockStep
    <2>6. CASE MallocHeader(t)
        BY <2>6, MallocHeaderStep
    <2>7. CASE ReallocBlock(t)
        BY <2>7, ReallocBlockStep
    <2>8. CASE FreeBlock(t)
        BY <2>8, FreeBlockStep
    <2> QED BY <1>1, <2>1, <2>2, <2>3, <2>4, <2>5, <2>6, <2>7, <2>8 DEF ThreadStep
<1>2. CASE UNCHANGED vars
    BY <1>2 DEF vars, memory, threads, IInv, TypeOK, GoesHome, NothingLost, HeaderKept,
                Working
<1> QED BY <1>1, <1>2 DEF Next

\* The invariant holds in every reachable state.
THEOREM InvCorrect == Spec => []IInv
BY InvInit, InvStep, PTL DEF Spec

\* The global allocator is never null, and headers and locals have their types.
THEOREM TypeCorrect == Spec => []TypeOK
BY InvCorrect, PTL DEF IInv

\* scu_realloc and scu_free use the allocator a block was allocated with, whatever other
\* threads set the global allocator to meanwhile.
THEOREM HomeCorrect == Spec => []GoesHome
BY InvCorrect, PTL DEF IInv

\* Every block that was handed out is with the client or with exactly one call.
THEOREM NothingLostCorrect == Spec => []NothingLost
BY InvCorrect, PTL DEF IInv
================================================================================
