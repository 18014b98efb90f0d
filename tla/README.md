# A verification development of scu

scu is a C library of utilities: containers, an allocator interface, strings, input and
output, timing and benchmarks. This directory holds TLA+ models of its components, the TLC
configurations that check them, and theorems about them whose proofs TLAPS checks.
Line numbers refer to the files under `src/`, for example `hash-map.c:430` is line 430 of
`src/src/hash-map.c`.

## 1. Inventory

scu is a library without threads of its own: a client calls a function, the function runs to
its end and returns. No function of the library calls back into itself, except through the
hash, equality and comparison functions and the allocator a client supplies. All containers
allocate through `alloc.c`, every allocation may fail, and the failing call must then report
`SCU_ERROR_OUT_OF_MEMORY` (or return `nullptr`) and leave the container as it was. The hard
behaviour is therefore in long sequences of calls, in wrap-around and growth, in failures
between two steps, and, in the allocator, in threads.

| Component | State | Operations | What makes it correct |
|---|---|---|---|
| queue (`queue.c`) | `capacity`, `count`, `head`, `tail`, `elems`: a ring buffer; an iterator is a pointer to it and an index | new, clone, free, ensure_capacity, enqueue, (try_)dequeue, (try_)peek, clear, trim_excess, iterator | elements leave in the order they came, through wrap-around, growth, clone, trim and failures; nothing is written or read outside the array; no unwritten slot is handed out |
| hash map (`hash-map.c`) | `capacity`, `count`, `buckets`: open addressing with Robin Hood displacement and backward shift deletion | new, clone, free, ensure_capacity, (try_)add, set, (try_)get, contains_key, contains_value, remove, clear, trim_excess, iterator | the calls are those of a dictionary; lookups may stop early because of the Robin Hood order; `count` is right; every loop ends, in a full table too |
| hash set (`hash-set.c`) | as the hash map, without values | as the hash map, without set and get | as the hash map |
| priority queue (`prio-queue.c`) | `capacity`, `count`, `nodes`: an implicit heap of arity 4 | new, clone, free, ensure_capacity, enqueue, (try_)dequeue, (try_)peek, clear, trim_excess, iterator | what is dequeued has the least priority of what is stored; no pair is lost or duplicated by the swaps |
| list (`list.c`) | a header (`capacity`, `count`) in front of the elements; the client holds a pointer behind the header | new, clone, free, ensure_capacity, add, insert_at, remove_at, clear, trim_excess, sort | it is a sequence; after a reallocation the client's pointer and the header used are those of the new block |
| stack (`stack.c`) | `capacity`, `count`, `data` | push, (try_)pop, (try_)peek, clear, trim_excess, ..., an iterator from the top down | last in, first out; the iterator hands out every element once |
| allocator (`alloc.c`) | one atomic pointer to the global allocator; in front of every block a header with the allocator it came from | get and set the global allocator, malloc, calloc, realloc, free | a block is reallocated and freed by the allocator that made it, whatever other threads set meanwhile |
| stopwatch (`time.c`) | running flag, start and accumulated times of two clocks | init, start, stop, restart, reset, elapsed; each clock may fail | the accumulated time is that of the finished intervals; a failure changes nothing |
| benchmark (`bench.c`, `bench.h`) | a context: iteration, samples, timing result, error; driven by the macro `SCU_BENCH` | new context, is_running, advance, timing of one iteration | the sample arrays are freed once, the result has one sample per measured iteration |
| input and output (`io.c`) | a `FILE` handle per file; the client's buffer, which the readers and printers grow | open, close, reopen, readers of characters, blocks, lines and everything, writers, positions, flags, printing into buffers | what the reads hand out is what the stream holds, without a gap, however they follow one another; no buffer is overrun or left without its NUL; no `FILE` is lost |
| strings (`string.c`) | none | bounded copies, searches, comparisons | pure: results and bounds |
| hash, equality, comparison | none | one function per type | equal values have equal hashes; comparison is a total order |
| memory, array | none | wrappers of the C library, byte-wise swap, sort, search | pure |
| error, assert | none | texts of errors; abort | - |
| types and macros | none | aliases, limits, casts | - |

How they interact: the containers, readers and benchmarks call `alloc.c`; the maps call the
client's hash and equality functions, the heap and the sorts its comparison function, each of
them pure; `SCU_BENCH` wraps the stopwatch of `SCU_TIME` (`time.h`). The only state that
threads share is the global allocator.

The places where this code is hard to test are listed, each at its line, under `hazards` in
`PROJECT.json`.

## 2. Plan

1. **Queue** (done): `FifoQueue` (what `queue.h` promises), `ScuQueue` (the ring buffer), a
   refinement, and proofs for all capacities and elements.
2. **Hash map** (done): `Dictionary` (the promise), `ScuHashMap` (the table, one loop iteration
   a step), liveness; the invariants of the table, the early exit of the lookups and the
   refinement proved for all hash functions.
3. **Priority queue** (done): `PriorityBag`, a bag of prioritised elements, `ScuPrioQueue`,
   the heap, a refinement; the heap order and the refinement proved for all priorities.
4. **Allocator** (done): `ScuAlloc`, threads that set the global allocator, allocate and free;
   each block returns to its allocator, with a proof for any number of threads.
5. **List and stack** (done): `ElementList` and `LifoStack`, the promises, `ScuList` over a
   memory of blocks that move, `ScuStack`; both refinements checked, and proved for every
   capacity.
6. **Stopwatch and benchmark** (done): `ScuStopwatch`, and `ScuBench`, which composes it with the
   macros `SCU_BENCH` and `SCU_TIME`. `ScuBenchProofs` proves the stopwatch right for clocks of any
   range, and the benchmark from that.
7. **Hash set with the functions it is created with** (done): `ElementSet`, the promise,
   `ScuHashSet`, whole calls over the loops of the table, and `ScuValues`, the hash, equality and
   comparison functions for small types.
8. **Input and output with strings** (done): `ScuIo`, one file and one buffer, and `ScuString`,
   the functions of `string.c` and `memory.c` on sequences of bytes; everything a run checks of
   them is proved, for files, texts and buffers of any size.
9. Left for a later extension: the **sizing arithmetic** of the containers in machine integers.

## 3. Modules and code

### Queue

`FifoQueue` is the abstract specification: a sequence `fifo`, the position `pos` of an
iterator, and the last call with its outcome. Its actions say what a client may rely on: an
enqueue appends or fails, a dequeue hands out the first element, a clone, growth or trim
changes nothing visible, an iterator hands out the elements in order.

`ScuQueue` is `queue.c`. Its variables are the fields of `struct ScuQueue` and the index of
an iterator; one action is one call. `Packed` is the pair of `memcpy` calls with which
clone, growth and trim move the elements to the front of another array, `GrownCapacities`
the doubling loop. An array from `scu_malloc` holds `Junk`. An enqueue whose `tail` is not
inside the array writes elsewhere: it changes no slot, and the history variable `overrun`
records it. `scu_queue_dequeue` and `scu_queue_peek` are `TryDequeue` and `TryPeek` on a queue
that is not empty (on an empty one they abort). After a clone the client goes on with the
clone; the original is only read, so that it needs no copy of the variables.

`ScuQueueProofs` holds the proofs.

### Hash map

`Dictionary` is the abstract specification: a function from keys to values or `None`, the set
of keys an iterator has handed out, and the last answer. A call that has begun but has not
answered leaves the dictionary alone.

`ScuHashMap` is `hash-map.c`. Calls are not atomic here: `pc` says where the current call is,
and each iteration of the probing (`Probe*`), placing (`Place*`) and shifting (`Shift*`)
loops, each old bucket of a rehash (`NextOld`), each test of the load (`Reserve`) and each
allocation is a step. The loops appear several times in the code, once per caller;
the model has one of each, and what differs between the callers is a condition on the current
call. Loops that only read or only reset buckets are one step. A hash is a natural number,
and the masks of a power of two are `%`. Whether a bucket is occupied and the bytes in it are
one thing in the model: the bytes of a vacant bucket are never looked at.

The client makes one call at a time and uses an iterator only until it changes the map, as
`hash-map.h` demands.

### Priority queue

`PriorityBag` is the abstract specification: how often every entry (an element with its
priority) is stored and how often an iterator has handed it out. A dequeue takes some entry
than which none is lower; `prio-queue.h` does not say which one, nor in which order an iterator
goes.

`ScuPrioQueue` is `prio-queue.c`. Its variables are the fields of `struct ScuPrioQueue`, the index
of an iterator, and for a call in progress its loop (`pc`), the local `index` and what it took
or put in. Every swap is a step, so that the properties speak of what a call does in between
too; the scan of the up to four children is `MinChildren`. A priority is its rank in the order
of the client's comparison function, which is assumed to be a total order. As everywhere, a slot
from `scu_malloc` or `scu_realloc` holds `Junk`, and the clone takes the place of the original.

### Allocator

`ScuAlloc` is `alloc.c`, run by several threads. Reading and writing `scuGlobalAllocator` and
calling an allocator's function are steps of their own; `pc[t]` says which one thread `t` is
before, `allocator[t]` and `block[t]` are the locals of its call. In memory a block has an
address, the allocator it is from (`maker`, which no code can see) and the header the code
writes; `held` are the blocks the client has. The client may pass a block from one thread to
another, but not one block to two calls: `alloc.h` excludes that. The addresses are shared by
all allocators, so that what one frees another may hand out.

`ScuAllocProofs` holds the proofs.

### Stack and list

`LifoStack` is the abstract stack with the position of an iterator; `ScuStack` is `stack.c`, one
action a call, built like the queue without the ring.

`ElementList` is the abstract specification of any number of lists, each a sequence. `ScuList` is
`list.c`. A list has no structure of its own besides its block, and what can go wrong is which
block a pointer denotes; therefore the model has a memory: `memory[b]` is the header and the
array in block `b`, `live` the blocks that are allocated, and `list[h]` the pointer the client
keeps under the name `h`. `Reallocate` moves a block or leaves it. `Sort` is `qsort`: any
arrangement that is in order. `ScuStackProofs` and `ScuListProofs` hold the proofs.

### Stopwatch and benchmark

`ScuStopwatch` is `time.c`. Both clocks go on between any two steps, each reading is a step and may
fail. Two history variables hold how far each clock went while the stopwatch certainly, or
possibly, was running. (The difference is the time the calls themselves take: a stopwatch
that is being stopped may or may not count it.)

`ScuBench` is `bench.c` with the loops of the macros `SCU_BENCH` (`bench.h:186`) and `SCU_TIME`
(`time.h:202`). It extends `ScuStopwatch`, whose variables are those of the stopwatch of the current
iteration. `pc` is the place in the loops. A step of the stopwatch
and the step of the loop that waits for its answer are joined, as in `Started`. The client's block
may fall off its end or be left with `break`, which ends the three loops of `SCU_TIME` but not
that of `SCU_BENCH`. A sort is `qsort`: the samples in order; a median is kept
doubled, so that the half of a sum stays a whole number. `ScuBenchProofs` holds the proofs of both.

### Hash set, and the functions for values

`ElementSet` is the abstract specification: a set in which no two members are equal as the
client's equality function sees it. Which of two equal elements stays is part of it.

`ScuHashSet` is `hash-set.c`. Its code is that of the hash map without values, so the model looks at
something else: a call is one step, its loops are recursive operators on a record of the fields
that change (`FindFrom`, `PlaceFrom`, `RehashFrom`, `ShiftBackFrom`), and the functions a set was
created with are part of the state (`kind`). The history variable `reserved`
is the number of elements the client has asked room for.

`ScuValues` is `hash.c`, `equal.c` and `compare.c` for words of a few bits. A value is its
bits; `IntegerValue` and `FloatValue` say what they mean (a floating point number is a sign and a
magnitude, which is all the comparisons see; NaNs are excluded by assertions). The hash functions
keep their structure, the xors, shifts and multiplications, with constants and shifts cut to the
width. `MCScuHashSet` creates sets with them: integers, integers wider than a word, floating point
numbers with both zeros, strings of which two addresses hold the same text.

### Input, output and strings

`ScuString` is `string.c` with the searches, comparisons and copies of `memory.c`: pure operators on
sequences of bytes. A string is such a sequence up to its NUL; a copy yields the new bytes of the
destination and the result.

`ScuIo` is `io.c`: one file, and one buffer that the calls grow. A stream of the C library is a
record (`stream`): content, position, the byte pushed back, the end-of-file and error flags.
`fread`, `fgets` and `vsnprintf` are what the C standard lets them do, errors in the middle
included; they are external. A call of the library is one step, but for the loops of `scu_freadln`
and `scu_freadall`: there a step is one iteration (`FreadlnPiece`, `FreadallPiece`), which grows the
buffer or fails to (`NoRoom`), reads a piece behind the `used` bytes before it, and then returns or
goes on. The properties thus speak of the buffer between two pieces, too. `text` holds the bytes of
the buffer that are known, `size` its size; `delivered` is a history variable: what the client has
been given up to its position, or `Unknown` after an error. `handles` counts the open `FILE`s. A
`FILE` whose `freopen` failed is closed, but the `ScuFile` still has it: `dangling`. The functions
for the standard streams are those for files with another handle. `Snprintf` to `Strncat` are the
calls that build strings in a buffer; they are actions here because what they do depends on what the
buffer held.

The client keeps the rules of C: it does not read after writing, or write after
reading, without a change of the position (`MayRead`, `MayWrite`).

## 4. Runs

Every action fires in the passing runs. Deadlock is checked in all but those of the benchmark,
which is over at some point.

| Run | Question | Bounds | Result |
|---|---|---|---|
| `queue_all` | Do the fields agree, is every slot that is read written, is every call that writes inside the array a FIFO step? | 2 elements, at most 4 stored, initial capacities 0, 1, 3; capacities up to 8 | holds |
| `queue_fifo_doc` | Is it one for every client? | as above, initial capacity 0 | violated, see Findings |
| `map` | Robin Hood order, count, one place for each key, at every step; is the map a dictionary; does every call return? | 3 keys, 2 values, 3 hash functions, capacities 0 to 16 | holds, the last under fairness |
| `prio_heap_bag` | Is only the node on its way out of order, at every swap? Is what is dequeued lowest, is nothing lost or duplicated? | 1 element, 2 priorities, 7 nodes, initial capacities 0 and 3 | holds |
| `alloc_threads` | Does every block go back to its allocator, and is none lost? | 3 threads, 3 allocators, 3 blocks | holds |
| `stack_lifo` | Is the stack last-in-first-out, its iterator complete? | 2 elements, 4 stored | holds |
| `list_sequences` | Are the client's pointers right, is every list a sequence of its own? | 2 lists, 3 blocks, 2 elements, 3 stored | holds |
| `stopwatch_counts` | Has the stopwatch counted the time it ran? | clocks up to 4 | holds |
| `bench` | Is a sample the time of its iteration, are the arrays freed once, are the extremes and the median of the report right? Does every benchmark come to its report? | clocks up to 2, up to 1 warmup and 2 iterations | holds, the last under fairness |
| `set` | Is it a set whose elements are those the functions call different? Does its layout forget its history? Do the functions agree with one another? Does room that was reserved last? | 6 types of 4 elements each, words of 4 bits | holds |
| `text` | Do the pieces that reads hand out add up to the file? Are the answers true? Is every buffer sound, every `FILE` closed? Are searches, comparisons, copies and appends right on what it holds? | 5 files of up to 4 bytes, chunks of 2, buffers of up to 8 | holds |
| `text_strncat_doc` | Does `scu_strncat` return what `string.h` says? | as above | violated, see Findings |

Why the bounds are enough to be interesting. Queue: with 4 elements and arrays of 1 to 8 slots,
the contents wrap at every position, the array is grown, trimmed and cloned in wrapped and
unwrapped form, completely full and empty. `MaxCount` also bounds the capacity a client asks for.
Hash map: the hash functions make all keys collide in every table (3, 3, 3), make a chain that
runs across the end of the table into another pair (7, 7, 0), and collide in small tables only, so
that a rehash separates them (3, 11, 18). Initial capacities of 0, 1 and 3 make tables, of 1, 2
and 4 buckets, that fill to the last one, in which a loop that relies on a vacant bucket would not
end; the state space is finite without further bounds, because the keys are. Priority queue: the
root has the children 1 to 4, node 1 the children 5 and 6; with seven nodes a node sinks and rises
over two levels, and the last group of children is incomplete. The two priorities make equal and
different neighbours; the order for any number of priorities is a theorem (section 5). One element
is enough: the heap only copies and swaps whole nodes. Allocator: a thread in the middle of an
allocation, one that replaces the allocator and one that frees, with the default allocator and two
others. Stack: growth from 0, 1 and 3 slots. List: with three blocks for two lists a list can
always move, into a block the other has left too; three elements are what it takes for a `memmove`
over overlapping memory to matter. Stopwatch: four units of time are enough for two runs with a
pause, and time passing inside calls. Benchmark: a warmup and two measured iterations, of which
any may fail; the statistics are sorted from one or two samples, which makes both cases of the
median.

Hash set: as for the map, with four elements, in tables of 1 to 8 buckets. Besides the types there
are two made-up hash functions, whose collisions no small type would show. Text: the smallest chunk
is a byte and a NUL, so that lines of 1, 2 and 3 bytes end inside the first chunk, on its edge, and
behind it; a buffer of 8 is what the longest file grows to. The client's texts begin and end one
another, and lie in the strings once, more than once, or not at all. Bounds that are in guards:
`MaxContent` is the length to which a file is written, `MaxSize` the largest buffer (a larger one
cannot be allocated, one of the outcomes of every growth), `EmptyBuffer` lets a file be opened only
while the buffer holds no text, and strings are built in the buffer while no file is open
(`Strings`): the streams do not look at what a buffer held before. Only files that were empty when
they were opened are written; `Opened` makes the others read-only.

`MCScuHashMap` and `MCScuQueue` also check, by evaluation, that the closed forms
used for the doubling loop and for the bit smearing of `scu_next_power_of_two` are what those
loops compute on small numbers. `MCScuHashSet` checks that the buckets which
`scu_hash_set_ensure_capacity` reserves for up to 27 elements, in tables of up to 32 buckets, take
them all below the maximum load; the run's own reservations are for 4 elements. Neither covers
`scu_hash_set_new_with_capacity`, whose buckets hold fewer elements than they count (section 6).

Fairness. `CallsReturn` is checked under weak fairness of `Work`, the steps of the library
within a call: the functions are sequential code that nothing blocks, so a step that can be
taken is taken. Nothing is assumed of the client, which may never call again. `Finishes`
is checked under weak fairness of the library's steps and of the end of the client's block:
a benchmark cannot end before the code it measures does.

## 5. Proofs

`ScuQueueProofs` proves, for every set of elements, every set of initial capacities and every
bound on the count:

- `TypeCorrect`, `TailCorrect`, `WindowCorrect`: the invariants of `queue_all`. `TypeOK` alone
  is not inductive: that `head + 1` stays in the array, and that an unpacked array is dense,
  needs how `head`, `tail` and `count` hang together. The inductive invariant `IInv` is `TypeOK`
  with `Shape`, which states that for every phase of the ring (empty, inside, wrapped, packed
  with `tail` one past the array), and `WindowInitialised`.
- `FifoCorrect`: every step that writes inside the array is a step of `FifoQueue` on the
  contents of the ring. Lemmas state what appending, dropping and packing do to `Contents`;
  they rest on facts on `%` that use the integers only (`RingSlotInjective`).
- `UnpackedInBounds` and `UnpackedImplementsFifo`: for a client that clones no full
  queue and trims only empty or full ones (`UnpackedSpec`) the
  invariant `UInv` adds that `tail` is inside the array and nothing was written outside, and
  the initial state and every step map to `FifoQueue`.

`ScuPrioQueueProofs` proves, for every set of elements, every set of integers as priorities and
every bound:

- `TypeCorrect`: `TypeOK` is inductive by itself.
- `OrderCorrect`: `HeapOrder` is inductive together with `TypeOK`. What makes it so is that it
  speaks of the states inside a call: besides the one pair that may be out of order it says
  that the parent of the node on its way is in order with that node's children, which is what the
  next swap puts next to one another. The lemmas on the heap say that the children of `i` are
  exactly the nodes whose parent is `i`, and that the scan ends with a lowest child.
- `RootCorrect`: between calls the root is lowest. The first node that is lower than the root
  would have a parent that is lower too and comes earlier. (`LeastMember`
  gives the least member of a set of naturals, from `WellFoundedInduction`.)
- `BagCorrect`: every step of the heap is a step of `PriorityBag`, or none. `Amount` says what
  the bag is, entry by entry: how often the entry is in the nodes in use (`Tally`), without the
  node on its way up, and with the entry in the hands of a dequeue. The `Tally...` lemmas say that
  a swap changes no tally, and that a tally without one slot is the tally without another once
  their contents are swapped. `TakenRight` is the invariant that ties the call to the heap: the
  node on its way up is the entry that is enqueued, and no node is lower than the entry that is
  dequeued, which `HeapHasLowestRoot` gives when the call begins and the swaps keep.

`ScuHashMapProofs` proves, for every set of keys and values, every hash function, all capacities
and every sequence of calls, failing allocations included:

- `TypeCorrect`, `CountCorrect` and `OrderCorrect`: `TypeOK`, `CountMatches` and `RobinHood`. None
  is inductive. `IInv` adds which call is at which label with which arguments (`CallShape`), what
  the loops hold in their hands (`HandFull`), that everything that is to be placed fits and that
  the pair of `try_add` and `set` leaves a bucket vacant until it is placed (`Room`), and the
  order in a local form: `Fits` speaks of a pair and its neighbour only. Changing a bucket then
  matters to itself and the next one (`OrderedExcept`), and one lemma each states that putting,
  displacing, shifting back and vacating keep the order. `Chain` goes from neighbours to the whole
  way back to the ideal bucket, by the least place where it could break; `GoOn` concludes that a
  pair on its way cannot come around the table, since no bucket would be vacant then, so that a
  probe distance never wraps.
- `OneKeyCorrect` and `MissCorrect`: `OnePlaceForAKey`, and that a lookup that gives up
  early has missed nothing. `KeyInv` adds to `IInv` that no key is twice in the table and in what
  is left of the old one (`KeysOnce`), what each loop knows of the key it looks for (`Known`: a
  probing loop has passed its key in none of the buckets behind it, a rehash places a pair
  whose key is nowhere else, `set` grows only for a key that is missing), and that what is over
  is forgotten (`Tidy`). `Absent` is the heart of it: were the key farther on, the order
  would give every bucket on its way a pair that is at least as far from home, and the loop
  would not have stopped.
- `DictionaryCorrect`: `DictionarySpec`, the refinement of `Dictionary`. `Visible` is the set of
  pairs the client sees at each label, `Denotes` relates such a set to a dictionary, and `Sight`
  says that `Pairs`, the refinement mapping, is the dictionary of `Visible`. Each action then has
  one lemma (`...Step`): it keeps `Visible`, adds, replaces or removes one pair with the answer
  the dictionary gives, or empties it. The removed pair is gone once it was found, a new one is
  there once its call returns, a swap on its way changes hands only. The iterator hands out a key
  it has not handed out yet, since it never goes back and no key is twice in the table.

`ScuBenchProofs` proves, of the stopwatch and for every range of the two clocks:

- `StopwatchTypeCorrect` and `StopwatchCountCorrect`: `StopwatchTypeOK` and `CountsItsRuns`. The
  inductive invariant `StopwatchInv` adds what a call knows between its two readings (`InCall`) and
  that no more is counted than was possible (`PossibleInAll`).

It proves of the benchmark, for any numbers of warmups and iterations and every range of the clocks:

- `UsesStopwatch`: the benchmark implements `StopwatchSpec`. Each of its steps is, for the stopwatch,
  a step of `ScuStopwatch` or none (`StopwatchStep`), so that all that is proved of a stopwatch
  holds of this one.
- `TypeCorrect`, `SamplesCorrect`, `ArraysCorrect` and `ReportCorrect`: the four invariants of
  `bench`. The inductive invariant `IInv` begins with `StopwatchInv`, which `StopwatchStep` carries
  over. `Timing` ties the two together. It says how much of the clock the stopwatch has certainly or
  possibly seen since the iteration and its block began, from which a sample is no shorter than
  its block (`CountsItsRuns` is what turns this into a bound on what the stopwatch answers).
  `Placed` says which call of the stopwatch the loops wait for, and that an error ends them
  before the next iteration; without it an iteration could be measured twice or an array
  allocated again. `Owned` says which arrays are live at every label, `RunsOver` which iterations
  have succeeded, so that at the end all samples have been written and none is `Junk`.
- The statistics. `SortedSamples` chooses an arrangement in order, so there has to be one for every
  array (`AlwaysSortable`). The least number of samples that cannot be sorted would not be 0,
  and one more than a number that can be sorted can be sorted too: exchange the greatest sample for
  the last one and sort those before it (`SortableNext`). `SortedRight` says what is chosen: each
  value occurs as often as before (`Tally`), so that what is counted in the sorted array, the
  samples that are at most or at least the median, is what would be counted in the original one
  (`SameValuesAgree`). In an
  array in order the slots up to the middle are a half (`SortedHalves`), for an odd and for an
  even number of samples (`MedianRight`); the extremes are its ends (`ExtremesRight`).

`ScuIoProofs` proves, for files, texts, chunks and buffers of every size, and for the functions of
`string.c` on strings of every length:

- `TypeCorrect`, `PiecesCorrect`, `ReadsCorrect` and `BufferCorrect`: `TypeOK`, `PiecesAddUp`,
  `ReadsRight` and `BufferSound`. The inductive invariant `IInv` is the last three with `Typed`, which
  strengthens `TypeOK` (the text is no longer than its buffer, what was delivered is bytes), and
  `InLoop`: the pieces that the loop of `scu_freadln` has joined hold neither a newline nor a NUL,
  and no NUL comes from a file without one. `ReadsRight` needs it, because the string that
  is returned is all the pieces, and the last iteration knows of the last one only. The proof has
  one lemma per call. The lemmas they share say what `Consumed`, `AtEof` and `Written` leave of a
  stream, what `fread` and `fgets` may answer (`fgets` ends with the first newline of
  the rest, if at all), what `Put` leaves in front of the new piece and that `StringIn` of it is both.
- `AppendsCorrect`: `AppendsKeepTheString`. `BufferSound` gives the string that is there before the
  call; the copies (`scu_strncpy`, `scu_strncat`, by way of `scu_memccpy`) and `vsnprintf` are
  each shown to put a text behind so many bytes, cut to the room there is.
- `ComparisonsCorrect`: `ComparisonsAgree`. Two strings differ at a first place or not at all (the
  least member of a set of places), and the comparison is decided there, in both directions.
  A bounded comparison looks at the first places only, and so do the bounded copies keep them.
- `SearchesCorrect`: `SearchesMirror`. A search from the start is the least of the places where
  something is found, a search from the end the greatest. Reversing a string maps the
  places of one onto the places of the other, and turns the order round (`MirrorIs`).

`ScuAllocProofs` proves, for any number of threads, allocators and blocks:

- `TypeCorrect`, `HomeCorrect`, `NothingLostCorrect`: the three invariants of `alloc_threads`.
  `GoesHome` is not inductive by itself. It speaks of the header of a block the client has;
  while `scu_realloc` works on a block its header is in nobody's view, but it is copied with the
  block and read again by the next call. `HeaderKept` adds that it still names the allocator
  of the block.

`ScuStackProofs` proves, for every set of elements, every set of initial capacities and every
bound:

- `TypeCorrect`: `TypeOK` is inductive by itself, the elements in use having been written
  being part of it.
- `LifoCorrect`: every call is one of `LifoStack` on the slots below `count`, read as a sequence.

`ScuListProofs` proves, for any number of lists and blocks and everything else as for the stack:

- `TypeCorrect` and `PointersCorrect`: `TypeOK` and `PointersRight` are inductive only
  together. A write to the block of one list leaves the others alone because no pointer is
  shared; and a block that is handed out is nobody's because `live` is exactly what the
  pointers denote. `GrownEnough` says that the doubling loop ends with enough room,
  `ResizedKeeps`, `InsertedType`, `MovedDownType` and `SortedType` what each move of elements
  leaves in the slots.
- `ListCorrect`: every call is one of `ElementList`. Lemmas of one kind (`Items...`) say that a
  change of a block, in place, moved or new, changes one list only; lemmas of another kind
  (`Seq...`) that the array after a `memmove` is, as a sequence, the one `Append`, `InsertAt` or
  `RemoveAt` yields. A sort permutes the slots 0 to `count - 1` as its counterpart permutes the
  positions 1 to `count`. (`GrownCapacities` is used only through `GrownEnough`, so that the
  theorems hold for every growth policy that makes enough room.)

The assumptions are those named in the modules: `Junk` is neither an element nor an entry nor a
bag of entries, `None` is neither a key nor a value nor a set of keys, a hash function yields
natural numbers, capacities and the bounds are natural numbers, priorities are integers, the
default allocator is an allocator, `Nullptr` is neither an allocator nor a block nor a sequence of
elements, the clocks go on for at least one unit, the `Junk` of a sample is not a number, the bytes
of files and texts are numbers, a text of the client has no NUL, `Newline` is another byte than
`Nul`, a chunk has room for a byte and a NUL, a fixed buffer has at least one byte, and
`Unknown` is no text.

Only model-checked: the hash set (`TypeOK`, `HistoryIndependent`, `MembersSort`, `SetSpec`,
`ReserveHolds`). Its model takes a call as one step whose loops are RECURSIVE operators,
which the prover does not take; its table is that of the hash map, whose order, count,
uniqueness of keys and refinement are proved step by step. `CallsReturn` and `Finishes` stay with
TLC: liveness under fairness is out of this prover's reach. So do the two `..._doc` properties,
which do not hold.

## 6. Findings

- **The tail of a packed queue** (`queue.c:107`). When clone copies a full queue, `tail` becomes
  `count = capacity`, one past the array, where enqueue expects an index below `capacity`. Once an
  element was dequeued, there is room, enqueue does not grow, and writes the new element behind
  the array. `queue_fifo_doc` shows it: new, enqueue `e1` (one slot), clone, dequeue, enqueue `e2`.
  FIFO is violated at that enqueue, because the queue now holds the slot's old `e1` instead of
  `e2`. `queue.c:269` is the same assignment in trim_excess; the trace does not call it.
  `FifoCorrect` and `UnpackedImplementsFifo` show that this is the only way in which
  the queue fails to be one: everything else holds, for every client, up to such a write.
- **The result of a bounded append** (`string.c:252`). `string.h:543` says that `scu_strncat`
  returns the number of bytes it appended. When all of the source fits it returns that number and
  twice the old length, because the pointer from which it subtracts the start already counts the
  old string once. `text_strncat_doc` shows it: an empty string appended to one of two bytes
  answers 4. What it leaves in the buffer is right (`AppendsKeepTheString`).

Differences met while modelling that no run shows, because the code's behaviour is harmless or the
model has it as it is:

- The map and the set grow if the count *before* the new element has reached nine tenths of the
  capacity (`hash-map.c:594`), their comments say if adding it would exceed that. With up to 8
  buckets the table fills completely before it grows. Lookups and removals still end (`map`).
- `hash-set.h:91` and `hash-map.h:112` call the capacity the number of elements (pairs) that fit
  before a reallocation. It is the number of buckets: with 16, the table grows for the sixteenth,
  so that `new_with_capacity(16)` has room for 15.
- `time.h:103` calls a restart equivalent to a reset followed by a start, which would leave a
  stopped stopwatch with no time when a clock fails. The code reads the clocks first
  (`time.c:170`): after a failure the stopwatch is as it was, running or not, with its old times.
- When `freopen` fails it has closed the old stream, but the `ScuFile` keeps the handle
  (`io.c:141`): closing it is a second `fclose`. The model's client can only forget it (`Forget`).
- The error flag of a stream stays set until it is cleared. A later `scu_freadln` or
  `scu_freadall` that reaches the end of the file then answers `SCU_ERROR_READING_FILE`
  (`io.c:386`); `ReadsRight` therefore says only that the flag is set then.
- A line is measured with `strlen` (`io.c:392`), so that a NUL in it cuts it, and what is behind it
  is lost. After a NUL at the start of a line the code looks at the byte before the buffer
  (`io.c:393`). Whatever it finds, the line ends there: the other condition holds, too.
- The buckets of the hash set are not padded to their alignment (`hash-set.c:135`), unlike those of
  the map. The elements are aligned, the headers of all but the first bucket need not be.
- `(int) available` is negative for a buffer of more than `INT_MAX` bytes (`io.c:384`).

## 7. Not modelled

- Sizes in bytes and overflow of `isize`: the models count elements in unbounded
  integers, so that the products of `hash-map.c:374` and of the doubling loops cannot overflow, nor
  does the Windows clock of `time.c:66`.
- The bytes of elements, keys and values, and an element to add that lies in the container itself.
- `scu_scanf` and `scu_printf` on streams, `scu_fflush`, `scu_fremove`, `scu_frename` pass one
  call on to the C library and map its answer; what a format makes of its arguments is outside
  this code. The standard streams are made once under `pthread_once`.
- `scu_memset`, `scu_mempcpy`, `scu_memmove` and the swap of bytes appear as the assignments of the
  containers.
- Mean and standard deviation of a benchmark: floating point arithmetic without control flow.
- Error texts, assertions (they abort), types and macros.
- Two clients of one container at once: the containers are not synchronised and the headers do
  not promise it.
