------------------------------- MODULE ScuAlloc --------------------------------
(***************************************************************************)
(* The allocation functions of src/alloc.c: threads allocate, reallocate   *)
(* and free blocks while others replace the global allocator.  Every       *)
(* access to scuGlobalAllocator and every call of an allocator's function  *)
(* is a step of its own.                                                   *)
(*                                                                         *)
(* An allocator behaves as alloc.h asks: what it hands out is a block no   *)
(* one has, and any call may fail.  Where blocks lie in memory is one set  *)
(* of addresses for all allocators: a freed block of one may next be       *)
(* handed out by another.  The client hands blocks from thread to thread   *)
(* as it likes, but never passes one to two calls at once.                 *)
(***************************************************************************)
EXTENDS FiniteSets

CONSTANTS
    Thread,
    Allocator,
    Default,            \* SCU_DEFAULT_ALLOCATOR
    Nullptr,            \* no allocator, no block
    Block

ASSUME DefaultAssumption == Default \in Allocator
ASSUME NullptrAssumption == Nullptr \notin Allocator /\ Nullptr \notin Block

VARIABLES
    scuGlobalAllocator,
    maker,              \* the allocator that handed a block out; Nullptr while it is free
    header,             \* the field allocator of the header in front of a block
    held,               \* the blocks the client has
    pc,                 \* where every thread is
    allocator,          \* the local of its call
    block               \* the block its call works on

memory == <<maker, header, held>>
threads == <<pc, allocator, block>>
vars == <<scuGlobalAllocator, memory, threads>>

Goto(t, label, a, b) ==
    /\ pc' = [pc EXCEPT ![t] = label]
    /\ allocator' = [allocator EXCEPT ![t] = a]
    /\ block' = [block EXCEPT ![t] = b]

Return(t) == Goto(t, "idle", Nullptr, Nullptr)

--------------------------------------------------------------------------------
(* What an allocator does *)

\* Neither malloc nor calloc writes a usable header.
AllocatorMalloc(a, b) ==
    /\ maker[b] = Nullptr
    /\ maker' = [maker EXCEPT ![b] = a]
    /\ header' = [header EXCEPT ![b] = Nullptr]

\* The block moves from b to c, its bytes with it.
AllocatorMove(a, b, c) ==
    /\ maker[c] = Nullptr
    /\ maker' = [maker EXCEPT ![b] = Nullptr, ![c] = a]
    /\ header' = [header EXCEPT ![b] = Nullptr, ![c] = header[b]]

AllocatorFree(b) ==
    /\ maker' = [maker EXCEPT ![b] = Nullptr]
    /\ header' = [header EXCEPT ![b] = Nullptr]

--------------------------------------------------------------------------------
(* The functions of alloc.c *)

\* Mutant: a nullptr is stored as it is.
SetGlobalAllocatorPlain(t, a) ==
    /\ pc[t] = "idle"
    /\ scuGlobalAllocator' = a
    /\ UNCHANGED <<memory, threads>>

SetGlobalAllocator(t, a) ==
    /\ pc[t] = "idle"
    /\ scuGlobalAllocator' = IF a = Nullptr THEN Default ELSE a
    /\ UNCHANGED <<memory, threads>>

\* scu_malloc, scu_calloc and scu_realloc of a nullptr.
Malloc(t) ==
    /\ pc[t] = "idle"
    /\ Goto(t, "malloc", scuGlobalAllocator, Nullptr)
    /\ UNCHANGED <<scuGlobalAllocator, memory>>

MallocBlock(t) ==
    /\ pc[t] = "malloc"
    /\ \/ /\ \E b \in Block :
                /\ AllocatorMalloc(allocator[t], b)
                /\ Goto(t, "header", allocator[t], b)
          /\ UNCHANGED held
       \/ /\ Return(t)
          /\ UNCHANGED memory
    /\ UNCHANGED scuGlobalAllocator

\* Mutant: the header names the allocator that is global by now.
MallocHeaderOfGlobal(t) ==
    /\ pc[t] = "header"
    /\ header' = [header EXCEPT ![block[t]] = scuGlobalAllocator]
    /\ held' = held \cup {block[t]}
    /\ Return(t)
    /\ UNCHANGED <<scuGlobalAllocator, maker>>

MallocHeader(t) ==
    /\ pc[t] = "header"
    /\ header' = [header EXCEPT ![block[t]] = allocator[t]]
    /\ held' = held \cup {block[t]}
    /\ Return(t)
    /\ UNCHANGED <<scuGlobalAllocator, maker>>

\* The client passes b to scu_realloc or scu_free, which reads its header.
PassBlock(t, b, label) ==
    /\ pc[t] = "idle"
    /\ b \in held
    /\ held' = held \ {b}
    /\ Goto(t, label, header[b], b)
    /\ UNCHANGED <<scuGlobalAllocator, maker, header>>

Realloc(t, b) == PassBlock(t, b, "realloc")

\* Mutant: when the block cannot grow the client is left without any.
ReallocBlockLosesOld(t) ==
    /\ pc[t] = "realloc"
    /\ \/ UNCHANGED memory
       \/ \E c \in Block :
             /\ AllocatorMove(allocator[t], block[t], c)
             /\ held' = held \cup {c}
    /\ Return(t)
    /\ UNCHANGED scuGlobalAllocator

\* The block stays where it is or cannot grow, or it moves.
ReallocBlock(t) ==
    /\ pc[t] = "realloc"
    /\ \/ /\ held' = held \cup {block[t]}
          /\ UNCHANGED <<maker, header>>
       \/ \E c \in Block :
             /\ AllocatorMove(allocator[t], block[t], c)
             /\ held' = held \cup {c}
    /\ Return(t)
    /\ UNCHANGED scuGlobalAllocator

Free(t, b) == PassBlock(t, b, "free")

FreeBlock(t) ==
    /\ pc[t] = "free"
    /\ AllocatorFree(block[t])
    /\ Return(t)
    /\ UNCHANGED <<scuGlobalAllocator, held>>

--------------------------------------------------------------------------------
(* The specification *)

Init ==
    /\ scuGlobalAllocator = Default
    /\ maker = [b \in Block |-> Nullptr]
    /\ header = [b \in Block |-> Nullptr]
    /\ held = {}
    /\ pc = [t \in Thread |-> "idle"]
    /\ allocator = [t \in Thread |-> Nullptr]
    /\ block = [t \in Thread |-> Nullptr]

ThreadStep(t) ==
    \/ \E a \in Allocator \cup {Nullptr} : SetGlobalAllocator(t, a)
    \/ \E b \in Block : Realloc(t, b) \/ Free(t, b)
    \/ Malloc(t) \/ MallocBlock(t) \/ MallocHeader(t) \/ ReallocBlock(t) \/ FreeBlock(t)

Next == \E t \in Thread : ThreadStep(t)

Spec == Init /\ [][Next]_vars

--------------------------------------------------------------------------------
(* Properties *)

\* The types of the global pointer, of the headers and of the locals of a call; a null
\* allocator is never called.
TypeOK ==
    /\ scuGlobalAllocator \in Allocator
    /\ maker \in [Block -> Allocator \cup {Nullptr}]
    /\ header \in [Block -> Allocator \cup {Nullptr}]
    /\ held \in SUBSET Block
    /\ pc \in [Thread -> {"idle", "malloc", "header", "realloc", "free"}]
    /\ allocator \in [Thread -> Allocator \cup {Nullptr}]
    /\ block \in [Thread -> Block \cup {Nullptr}]
    /\ \A t \in Thread : pc[t] # "idle" => allocator[t] \in Allocator

\* The threads whose call works on a block.
Working == {t \in Thread : pc[t] \in {"header", "realloc", "free"}}

\* alloc.h: scu_realloc and scu_free use the original allocator a block was allocated with,
\* whatever was set in between and wherever the block was moved: it is safe to change the
\* allocator at runtime.
GoesHome ==
    /\ \A t \in Working : block[t] \in Block /\ maker[block[t]] = allocator[t]
    /\ \A b \in held : header[b] = maker[b] /\ maker[b] \in Allocator

\* Every block an allocator has handed out is either with the client or with one call;
\* none is lost, also when an allocation fails, and none is with two.
NothingLost ==
    /\ \A b \in Block : maker[b] # Nullptr => b \in held \/ \E t \in Working : block[t] = b
    /\ \A t \in Working : block[t] \notin held
    /\ \A s, t \in Working : block[s] = block[t] => s = t
================================================================================
