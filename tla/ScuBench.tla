------------------------------- MODULE ScuBench --------------------------------
(***************************************************************************)
(* A benchmark: the macro SCU_BENCH of bench.h drives the functions of     *)
(* src/bench.c, and around every run of the client's block the macro       *)
(* SCU_TIME of time.h drives a new stopwatch: the variables and actions of *)
(* ScuStopwatch, to which this module adds its own.  Allocations and       *)
(* clocks may fail, and time goes on between any two steps.                *)
(*                                                                         *)
(* The statistics are the minimum, the maximum and the median; mean and    *)
(* standard deviation are left to floating point.                          *)
(***************************************************************************)
EXTENDS ScuStopwatch, FiniteSets

CONSTANTS
    Warmups,            \* the numbers of warmup iterations a client asks for
    Iterations,         \* the numbers of iterations a client asks for
    Junk                \* a sample that was not written

ASSUME CountsAssumption == Warmups \subseteq Nat /\ Iterations \subseteq Nat
ASSUME JunkAssumption == Junk \notin Nat

VARIABLES
    pc,                 \* where the loops of the macros are
    warmup, iterations, iteration, error,
    timingResult,
    samples,            \* samples[c][i]: the arrays wallSamples and cpuSamples
    notNull,            \* which of the pointers wallSamples and cpuSamples are set
    live,               \* history: the arrays that are allocated
    benchResult,
    began,              \* history: when this iteration began, when its block, and how long
                        \* the block took
    runs                \* history: of every iteration how long its block and all
                        \* of it took, whether it could be timed and whether the block was left

request == <<warmup, iterations>>
arrays == <<samples, notNull, live>>
history == <<began, runs>>
vars == <<stopwatch, request, pc, iteration, error, timingResult, arrays, benchResult, history>>

NoStats == [min |-> 0, max |-> 0, twiceMedian |-> 0]
Since(time) == [c \in Clock |-> now[c] - time[c]]

\* The arrays cs are freed and their pointers become null.
FreeArrays(cs) ==
    /\ live' = live \ {c \in cs : notNull[c]}
    /\ notNull' = [c \in Clock |-> notNull[c] /\ c \notin cs]
    /\ UNCHANGED samples

--------------------------------------------------------------------------------
(* bench.c *)

\* scu_bench_ctx_new: the two allocations fail independently of one another.
CtxNew ==
    /\ pc = "new"
    /\ \E got \in SUBSET Clock :
          LET all == got = Clock /\ iterations > 0
          IN  /\ notNull' = [c \in Clock |-> all]
              /\ live' = IF all THEN Clock ELSE {}
              /\ error' = IF iterations > 0 /\ ~all THEN "OUT_OF_MEMORY" ELSE "NONE"
    /\ pc' = "check"
    /\ UNCHANGED <<stopwatch, request, samples, iteration, timingResult, benchResult, history>>

\* The samples in order; which index an equal one gets does not matter.
SortedSamples(s) ==
    CHOOSE t \in [DOMAIN s -> {s[i] : i \in DOMAIN s}] :
        /\ \A i, j \in DOMAIN s : i <= j => t[i] <= t[j]
        /\ \A x \in {s[i] : i \in DOMAIN s} :
              Cardinality({i \in DOMAIN s : s[i] = x}) = Cardinality({i \in DOMAIN s : t[i] = x})

StatsFromSamples(s, n) ==
    LET t == SortedSamples(s)
    IN  [min |-> t[0], max |-> t[n - 1],
         twiceMedian |-> IF n % 2 = 0 THEN t[n \div 2 - 1] + t[n \div 2] ELSE 2 * t[n \div 2]]

Report(stats, n, err) ==
    /\ benchResult' = [stats |-> stats, iterations |-> n, error |-> err]
    /\ pc' = "done"
    /\ UNCHANGED <<stopwatch, request, iteration, error, timingResult, history>>

\* Mutant: the iterations asked for.
ReportErrorAsPlanned ==
    /\ pc = "check"
    /\ error # "NONE"
    /\ Report([c \in Clock |-> NoStats], iterations, error)
    /\ UNCHANGED arrays

\* scu_bench_ctx_is_running returns false: after an error, and after the last iteration.
ReportError ==
    /\ pc = "check"
    /\ error # "NONE"
    /\ Report([c \in Clock |-> NoStats], iteration, error)
    /\ UNCHANGED arrays

ReportStats ==
    /\ pc = "check"
    /\ error = "NONE"
    /\ iteration >= warmup + iterations
    /\ Report([c \in Clock |-> IF iterations > 0
                               THEN StatsFromSamples(samples[c], iterations)
                               ELSE NoStats],
              iterations, "NONE")
    /\ FreeArrays(IF iterations > 0 THEN Clock ELSE {})

\* Mutant: one iteration too many.
NextIterationOnceMore ==
    /\ pc = "check"
    /\ error = "NONE"
    /\ iteration <= warmup + iterations
    /\ Reset("init")
    /\ pc' = "time"
    /\ began' = [began EXCEPT !.iteration = now]
    /\ UNCHANGED <<request, iteration, error, timingResult, arrays, benchResult, runs>>

\* It returns true: SCU_TIME makes a new stopwatch.
NextIteration ==
    /\ pc = "check"
    /\ error = "NONE"
    /\ iteration < warmup + iterations
    /\ Reset("init")
    /\ pc' = "time"
    /\ began' = [began EXCEPT !.iteration = now]
    /\ UNCHANGED <<request, iteration, error, timingResult, arrays, benchResult, runs>>

\* Mutant: the samples are stored from the first warmup iteration on.
SampleIndexFromZero == iteration
SampleIndex == iteration - warmup

\* Mutant: the warmup iterations are not counted.
AdvanceAfterWarmup ==
    /\ pc = "advance"
    /\ timingResult.ok
    /\ samples' = IF iteration >= warmup
                  THEN [c \in Clock |-> [samples[c] EXCEPT ![SampleIndex] = timingResult.ns[c]]]
                  ELSE samples
    /\ iteration' = IF iteration >= warmup THEN iteration + 1 ELSE iteration
    /\ pc' = "check"
    /\ UNCHANGED <<stopwatch, request, error, timingResult, notNull, live, benchResult, history>>

Advance ==
    /\ pc = "advance"
    /\ timingResult.ok
    /\ samples' = IF iteration >= warmup
                  THEN [c \in Clock |-> [samples[c] EXCEPT ![SampleIndex] = timingResult.ns[c]]]
                  ELSE samples
    /\ iteration' = iteration + 1
    /\ pc' = "check"
    /\ UNCHANGED <<stopwatch, request, error, timingResult, notNull, live, benchResult, history>>

\* Mutant: the arrays are left to the report, which does not free them after an error.
AdvanceFailedKeepsArrays ==
    /\ pc = "advance"
    /\ ~timingResult.ok
    /\ error' = "TIMING_FAILED"
    /\ pc' = "check"
    /\ UNCHANGED <<stopwatch, request, iteration, timingResult, arrays, benchResult, history>>

AdvanceFailed ==
    /\ pc = "advance"
    /\ ~timingResult.ok
    /\ FreeArrays(Clock)
    /\ error' = "TIMING_FAILED"
    /\ pc' = "check"
    /\ UNCHANGED <<stopwatch, request, iteration, timingResult, benchResult, history>>

--------------------------------------------------------------------------------
(* SCU_TIME *)

ctx == <<request, iteration, error, arrays, benchResult>>

StopwatchStart ==
    /\ pc = "time"
    /\ Start
    /\ pc' = "start"
    /\ UNCHANGED <<ctx, timingResult, history>>

\* The call of a stopwatch function is reading the clocks.
StopwatchReads ==
    /\ Work
    /\ call' # "none"
    /\ UNCHANGED <<ctx, pc, timingResult, history>>

Started ==
    /\ pc = "start"
    /\ Work
    /\ call' = "none"
    /\ answer'.ok
    /\ pc' = "block"
    /\ began' = [began EXCEPT !.block = now]
    /\ UNCHANGED <<ctx, timingResult, runs>>

\* The block is not run.
StartFailed ==
    /\ pc = "start"
    /\ Work
    /\ call' = "none"
    /\ ~answer'.ok
    /\ timingResult' = answer'
    /\ pc' = "advance"
    /\ UNCHANGED <<ctx, history>>

BlockEnd ==
    /\ pc = "block"
    /\ Stop
    /\ pc' = "stop"
    /\ began' = [began EXCEPT !.took = Since(began.block)]
    /\ UNCHANGED <<ctx, timingResult, runs>>

\* Whether it could be stopped is not looked at.
Stopped ==
    /\ pc = "stop"
    /\ Work
    /\ call' = "none"
    /\ pc' = "stopped"
    /\ UNCHANGED <<ctx, timingResult, history>>

IterationEnds(ok, left) ==
    /\ pc' = "advance"
    /\ runs' = [runs EXCEPT ![iteration] =
                  [block |-> began.took, all |-> Since(began.iteration), ok |-> ok, left |-> left]]
    /\ UNCHANGED began

\* scu_stopwatch_elapsed: of a stopped stopwatch at once, of one that could not be stopped
\* after it has read the clocks.
StopwatchElapsed ==
    /\ pc = "stopped"
    /\ Elapsed
    /\ call' # "none"
    /\ pc' = "elapsed"
    /\ UNCHANGED <<ctx, timingResult, history>>

Timed ==
    /\ pc \in {"stopped", "elapsed"}
    /\ IF pc = "stopped" THEN Elapsed ELSE Work
    /\ call' = "none"
    /\ timingResult' = answer'
    /\ IterationEnds(answer'.ok, FALSE)
    /\ UNCHANGED ctx

\* The client leaves the block with break: all three loops of SCU_TIME end, and nothing is
\* assigned.
BlockLeft ==
    /\ pc = "block"
    /\ IterationEnds(TRUE, TRUE)
    /\ UNCHANGED <<stopwatch, ctx, timingResult>>

--------------------------------------------------------------------------------
(* The specification *)

Init ==
    /\ StopwatchInit
    /\ pc = "new"
    /\ warmup \in Warmups /\ iterations \in Iterations
    /\ iteration = 0 /\ error = "NONE"
    /\ timingResult = NoAnswer
    /\ samples = [c \in Clock |-> [i \in 0..(iterations - 1) |-> Junk]]
    /\ notNull = [c \in Clock |-> FALSE]
    /\ live = {}
    /\ benchResult = [stats |-> [c \in Clock |-> NoStats], iterations |-> 0, error |-> "NONE"]
    /\ began = [iteration |-> Zero, block |-> Zero, took |-> Zero]
    /\ runs = [i \in 0..(warmup + iterations - 1) |->
                  [block |-> Zero, all |-> Zero, ok |-> FALSE, left |-> FALSE]]

\* The client's block ends.
Block == BlockEnd \/ BlockLeft

Library ==
    \/ CtxNew \/ ReportError \/ ReportStats \/ NextIteration \/ Advance \/ AdvanceFailed
    \/ StopwatchStart \/ StopwatchReads \/ Started \/ StartFailed
    \/ Stopped \/ StopwatchElapsed \/ Timed

Time ==
    /\ \E c \in Clock : Tick(c)
    /\ pc # "done"
    /\ UNCHANGED <<ctx, pc, timingResult, history>>

Next == Block \/ Library \/ Time

Spec == Init /\ [][Next]_vars

\* The library's code is never blocked, and the client's block ends.
FairSpec == Spec /\ WF_vars(Library) /\ WF_vars(Block)

--------------------------------------------------------------------------------
(* Properties *)

Times == [Clock -> 0..MaxTime]

\* The types of the context; the locals of the macros are in their loops.
TypeOK ==
    /\ StopwatchTypeOK
    /\ pc \in {"new", "check", "time", "start", "block", "stop", "stopped", "elapsed", "advance",
               "done"}
    /\ iteration \in 0..(warmup + iterations)
    /\ error \in {"NONE", "OUT_OF_MEMORY", "TIMING_FAILED"}
    /\ timingResult.ok \in BOOLEAN /\ timingResult.ns \in Times
    /\ \A c \in Clock : samples[c] \in [0..(iterations - 1) -> 0..MaxTime \cup {Junk}]
    /\ notNull \in [Clock -> BOOLEAN]
    /\ live \in SUBSET Clock

\* Every sample is the time of its own iteration, for both clocks: no less than its block
\* took and no more than the whole iteration.  (A block that is left with break has none.)
SamplesCoverBlocks ==
    error = "NONE" => \A i \in warmup..(iteration - 1), c \in Clock :
        LET sample == samples[c][i - warmup]
            run == runs[i]
        IN  /\ sample # Junk
            /\ ~run.left => run.block[c] <= sample /\ sample <= run.all[c]

\* The sample arrays are never used or freed when they are gone, and are gone when the
\* benchmark is over, however it ends.
ArraysFreedOnce ==
    /\ \A c \in Clock : notNull[c] => c \in live
    /\ pc = "advance" /\ timingResult.ok /\ iteration >= warmup => live = Clock
    /\ pc = "done" => live = {}

\* The statistics of n samples: the extremes are samples that no sample is beyond, and at
\* least half of the samples are not above and half not below the median.
StatsRight(stats, s, n) ==
    LET Measured == {s[i] : i \in 0..(n - 1)}
        Below == {i \in 0..(n - 1) : 2 * s[i] <= stats.twiceMedian}
        Above == {i \in 0..(n - 1) : 2 * s[i] >= stats.twiceMedian}
    IN  /\ n > 0 => {stats.min, stats.max} \subseteq Measured
        /\ \A x \in Measured : stats.min <= x /\ x <= stats.max
        /\ 2 * Cardinality(Below) >= n
        /\ 2 * Cardinality(Above) >= n

\* bench.h: after an error the statistics are zero and the iterations are those that
\* were completed; otherwise they are those asked for, and the statistics are those of
\* their samples.
ReportRight ==
    pc = "done" =>
        IF benchResult.error = "NONE"
        THEN /\ benchResult.iterations = iterations
             /\ \A i \in 0..(warmup + iterations - 1) : runs[i].ok
             /\ \A c \in Clock : StatsRight(benchResult.stats[c], samples[c], iterations)
        ELSE /\ benchResult.stats = [c \in Clock |-> NoStats]
             /\ benchResult.iterations = Cardinality({i \in DOMAIN runs : runs[i].ok})

\* Every benchmark whose blocks end comes to its report.
Finishes == <>(pc = "done")
================================================================================
