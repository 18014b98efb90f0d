----------------------------- MODULE ScuStopwatch ------------------------------
(***************************************************************************)
(* The stopwatch of src/time.c.  It measures with two clocks, one for the  *)
(* wall time and one for the CPU time, which are read one after the other; *)
(* either may fail, and time goes on between any two steps.  The fields    *)
(* startWallNs and startCpuNs are startNs, accWallNs and accCpuNs accNs.   *)
(* The times in the answer of a failed scu_stopwatch_elapsed mean nothing  *)
(* and are left out.                                                       *)
(*                                                                         *)
(* certain and possible are history variables: how far each clock has gone *)
(* while the stopwatch surely, or possibly, was running since the last     *)
(* reset.  They differ by what passed during the calls themselves.         *)
(***************************************************************************)
EXTENDS Integers

CONSTANTS
    MaxTime             \* bound: no clock goes further

ASSUME MaxTimeAssumption == MaxTime \in Nat \ {0}

VARIABLES
    isRunning,
    startNs,
    accNs,
    now,                \* what the clocks show
    call,               \* the call that is reading the clocks, or "none"
    wallNs,             \* its local: the wall time it has read
    answer,             \* the answer of the last step, if it ended a call
    certain,
    possible

fields == <<isRunning, startNs, accNs>>
runTimes == <<certain, possible>>
stopwatch == <<fields, now, call, wallNs, answer, runTimes>>

Clock == {"wall", "cpu"}
Zero == [c \in Clock |-> 0]

Failed == -1            \* scu_wall_ns and scu_cpu_ns on failure
Unread == -2            \* the wall clock has not been read yet

NoAnswer == [op |-> "none", ok |-> TRUE, ns |-> Zero]

Answer(op, ok, ns) ==
    /\ call' = "none"
    /\ wallNs' = Unread
    /\ answer' = [op |-> op, ok |-> ok, ns |-> ns]

\* The call op goes on with the clocks.
ReadClocks(op) ==
    /\ call' = op
    /\ wallNs' = Unread
    /\ answer' = NoAnswer

\* What the stopwatch has counted, were it read now.
Counted == [c \in Clock |-> accNs[c] + (IF isRunning THEN now[c] - startNs[c] ELSE 0)]

--------------------------------------------------------------------------------
(* Calls that need no clock, and the beginning of the others *)

\* scu_stopwatch_init and scu_stopwatch_reset differ in the timing mode only.
Reset(op) ==
    /\ call = "none"
    /\ isRunning' = FALSE
    /\ startNs' = Zero
    /\ accNs' = Zero
    /\ certain' = Zero
    /\ possible' = Zero
    /\ Answer(op, TRUE, Zero)
    /\ UNCHANGED now

\* Mutant: a running stopwatch is started anew.
StartAnyhow ==
    /\ call = "none"
    /\ ReadClocks("start")
    /\ UNCHANGED <<fields, now, runTimes>>

Start ==
    /\ call = "none"
    /\ IF isRunning THEN Answer("start", TRUE, Zero) ELSE ReadClocks("start")
    /\ UNCHANGED <<fields, now, runTimes>>

Restart ==
    /\ call = "none"
    /\ ReadClocks("restart")
    /\ UNCHANGED <<fields, now, runTimes>>

Stop ==
    /\ call = "none"
    /\ IF isRunning THEN ReadClocks("stop") ELSE Answer("stop", TRUE, Zero)
    /\ UNCHANGED <<fields, now, runTimes>>

Elapsed ==
    /\ call = "none"
    /\ IF isRunning THEN ReadClocks("elapsed") ELSE Answer("elapsed", TRUE, accNs)
    /\ UNCHANGED <<fields, now, runTimes>>

--------------------------------------------------------------------------------
(* The clocks *)

\* A failure ends the call, except elapsed, which reads both clocks before it looks.
ReadWallClock ==
    /\ call # "none"
    /\ wallNs = Unread
    /\ \/ /\ wallNs' = now["wall"]
          /\ UNCHANGED <<call, answer>>
       \/ /\ call = "elapsed"
          /\ wallNs' = Failed
          /\ UNCHANGED <<call, answer>>
       \/ /\ call # "elapsed"
          /\ Answer(call, FALSE, Zero)
    /\ UNCHANGED <<fields, now, runTimes>>

Read(cpuNs) == [c \in Clock |-> IF c = "wall" THEN wallNs ELSE cpuNs]

\* The CPU clock fails, or for elapsed one of the two did.
ClocksFailed ==
    /\ wallNs # Unread
    /\ Answer(call, FALSE, Zero)
    /\ UNCHANGED <<fields, now, runTimes>>

StartEnd ==
    /\ call = "start"
    /\ wallNs # Unread
    /\ isRunning' = TRUE
    /\ startNs' = Read(now["cpu"])
    /\ Answer("start", TRUE, Zero)
    /\ UNCHANGED <<accNs, now, runTimes>>

RestartEnd ==
    /\ call = "restart"
    /\ wallNs # Unread
    /\ isRunning' = TRUE
    /\ startNs' = Read(now["cpu"])
    /\ accNs' = Zero
    /\ certain' = Zero
    /\ possible' = [c \in Clock |-> now[c] - Read(now["cpu"])[c]]
    /\ Answer("restart", TRUE, Zero)
    /\ UNCHANGED now

\* Mutant: the stopwatch goes on running.
StopEndKeepsRunning ==
    /\ call = "stop"
    /\ wallNs # Unread
    /\ accNs' = [c \in Clock |-> accNs[c] + Read(now["cpu"])[c] - startNs[c]]
    /\ Answer("stop", TRUE, Zero)
    /\ UNCHANGED <<isRunning, startNs, now, runTimes>>

StopEnd ==
    /\ call = "stop"
    /\ wallNs # Unread
    /\ accNs' = [c \in Clock |-> accNs[c] + Read(now["cpu"])[c] - startNs[c]]
    /\ isRunning' = FALSE
    /\ Answer("stop", TRUE, Zero)
    /\ UNCHANGED <<startNs, now, runTimes>>

\* What was answered once is certain from then on.
ElapsedEnd ==
    /\ call = "elapsed"
    /\ wallNs \notin {Unread, Failed}
    /\ LET ns == [c \in Clock |-> accNs[c] + Read(now["cpu"])[c] - startNs[c]]
       IN  /\ Answer("elapsed", TRUE, ns)
           /\ certain' = [c \in Clock |-> IF ns[c] > certain[c] THEN ns[c] ELSE certain[c]]
    /\ UNCHANGED <<fields, now, possible>>

\* Time goes on: both clocks are monotonic.
Tick(c) ==
    /\ now[c] < MaxTime
    /\ now' = [now EXCEPT ![c] = @ + 1]
    /\ certain' = [certain EXCEPT ![c] = IF isRunning /\ call = "none" THEN @ + 1 ELSE @]
    /\ possible' = [possible EXCEPT ![c] = IF isRunning \/ call # "none" THEN @ + 1 ELSE @]
    /\ answer' = NoAnswer
    /\ UNCHANGED <<fields, call, wallNs>>

--------------------------------------------------------------------------------
(* The specification *)

StopwatchInit ==
    /\ isRunning = FALSE /\ startNs = Zero /\ accNs = Zero
    /\ now \in [Clock -> {0, 1}]
    /\ call = "none" /\ wallNs = Unread /\ answer = NoAnswer
    /\ certain = Zero /\ possible = Zero

StopwatchCall == Reset("init") \/ Reset("reset") \/ Start \/ Restart \/ Stop \/ Elapsed
Work == ReadWallClock \/ ClocksFailed \/ StartEnd \/ RestartEnd \/ StopEnd \/ ElapsedEnd
ClocksGoOn == \E c \in Clock : Tick(c)

StopwatchNext == StopwatchCall \/ Work \/ ClocksGoOn

StopwatchSpec == StopwatchInit /\ [][StopwatchNext]_stopwatch

--------------------------------------------------------------------------------
(* Properties *)

\* The types of the fields of struct ScuStopwatch and of the clocks; no start lies in the
\* future, and no time measured is negative.
StopwatchTypeOK ==
    /\ isRunning \in BOOLEAN
    /\ now \in [Clock -> 0..MaxTime]
    /\ startNs \in [Clock -> 0..MaxTime]
    /\ accNs \in [Clock -> 0..MaxTime]
    /\ \A c \in Clock : startNs[c] <= now[c] /\ Counted[c] <= now[c]
    /\ call \in {"none", "start", "restart", "stop", "elapsed"}
    /\ wallNs \in {Unread, Failed} \cup 0..now["wall"]
    /\ call = "none" => wallNs = Unread
    /\ answer \in [op : {"none", "init", "reset", "start", "restart", "stop", "elapsed"},
                   ok : BOOLEAN, ns : [Clock -> 0..MaxTime]]
    /\ certain \in [Clock -> 0..MaxTime] /\ possible \in [Clock -> 0..MaxTime]

\* time.h: the stopwatch has counted the time during which it ran, over all stops and starts
\* since the last reset, whatever calls failed in between; and scu_stopwatch_elapsed answers
\* that time, never less than it answered before.
CountsItsRuns ==
    \A c \in Clock :
        /\ certain[c] <= Counted[c] /\ Counted[c] <= possible[c]
        /\ answer.op = "elapsed" /\ answer.ok =>
              certain[c] <= answer.ns[c] /\ answer.ns[c] <= possible[c]
================================================================================
