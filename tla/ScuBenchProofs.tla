---------------------------- MODULE ScuBenchProofs -----------------------------
(***************************************************************************)
(* Proofs about ScuStopwatch and ScuBench, for any numbers of iterations   *)
(* and clocks of any range: a stopwatch has counted the time it ran, and   *)
(* answers that time; what the benchmark does to its stopwatch the         *)
(* stopwatch allows, so that this holds here too; the samples are the      *)
(* times of the blocks; the arrays are freed once; and the report is       *)
(* right, the median of the samples included.                              *)
(***************************************************************************)
EXTENDS ScuBench, FiniteSetTheorems, WellFoundedInduction, TLAPS

--------------------------------------------------------------------------------
(* The stopwatch *)

\* A call that is under way: which calls read the clocks of a running stopwatch, and what
\* the wall time that was read amounts to.  Time that passes behind the reading counts for a
\* start, and does not count for a stop.
InCall ==
    /\ call \in {"stop", "elapsed"} => isRunning
    /\ call = "start" => ~isRunning
    /\ wallNs = Failed => call = "elapsed"
    /\ wallNs \notin {Unread, Failed} =>
          /\ call \in {"stop", "elapsed"} =>
                /\ startNs["wall"] <= wallNs
                /\ certain["wall"] <= accNs["wall"] + wallNs - startNs["wall"]
          /\ call = "start" => accNs["wall"] + now["wall"] - wallNs <= possible["wall"]

\* No clock has gone further while the stopwatch was running than in all.
PossibleInAll == \A c \in Clock : possible[c] <= now[c]

\* The inductive invariant.
StopwatchInv == StopwatchTypeOK /\ CountsItsRuns /\ InCall /\ PossibleInAll

LEMMA StopwatchInvInit == StopwatchInit => StopwatchInv
<1> SUFFICES ASSUME StopwatchInit PROVE StopwatchInv
    OBVIOUS
<1>1. StopwatchTypeOK
    <2>1. 0..MaxTime = {n \in Int : 0 <= n /\ n <= MaxTime} /\ 0 \in 0..MaxTime /\ 1 \in 0..MaxTime
        BY MaxTimeAssumption
    <2>2. Zero \in [Clock -> 0..MaxTime] /\ now \in [Clock -> 0..MaxTime]
        BY <2>1 DEF StopwatchInit, Zero
    <2>3. \A c \in Clock : startNs[c] <= now[c] /\ Counted[c] <= now[c]
        BY DEF StopwatchInit, Zero, Counted
    <2>4. /\ isRunning \in BOOLEAN
          /\ call \in {"none", "start", "restart", "stop", "elapsed"}
          /\ wallNs \in {Unread, Failed} \cup 0..now["wall"]
          /\ call = "none" => wallNs = Unread
        BY DEF StopwatchInit
    <2>5. answer \in [op : {"none", "init", "reset", "start", "restart", "stop", "elapsed"},
                      ok : BOOLEAN, ns : [Clock -> 0..MaxTime]]
        BY <2>2 DEF StopwatchInit, NoAnswer
    <2> QED BY <2>2, <2>3, <2>4, <2>5 DEF StopwatchTypeOK, StopwatchInit
<1>2. CountsItsRuns
    BY DEF StopwatchInit, CountsItsRuns, Counted, Zero, Clock, NoAnswer
<1>3. InCall /\ PossibleInAll
    BY DEF StopwatchInit, InCall, PossibleInAll, Zero, Clock, Unread, Failed
<1> QED BY <1>1, <1>2, <1>3 DEF StopwatchInv

\* The clocks and the times, one by one.
LEMMA ClockTimes ==
    ASSUME StopwatchTypeOK
    PROVE  /\ "wall" \in Clock /\ "cpu" \in Clock
           /\ \A c \in Clock :
                 /\ now[c] \in Int /\ 0 <= now[c] /\ now[c] <= MaxTime
                 /\ startNs[c] \in Int /\ 0 <= startNs[c] /\ startNs[c] <= now[c]
                 /\ accNs[c] \in Int /\ 0 <= accNs[c]
                 /\ certain[c] \in Int /\ 0 <= certain[c]
                 /\ possible[c] \in Int /\ 0 <= possible[c]
           /\ MaxTime \in Int /\ 0 < MaxTime
           /\ wallNs \in Int
           /\ Zero \in [Clock -> 0..MaxTime]
BY MaxTimeAssumption DEF StopwatchTypeOK, Zero, Clock, Unread, Failed

LEMMA CountedWhen ==
    ASSUME NEW c \in Clock
    PROVE  /\ isRunning => Counted[c] = accNs[c] + (now[c] - startNs[c])
           /\ ~isRunning => Counted[c] = accNs[c] + 0
           /\ isRunning' => Counted'[c] = accNs'[c] + (now'[c] - startNs'[c])
           /\ ~isRunning' => Counted'[c] = accNs'[c] + 0
BY DEF Counted

\* Steps that neither count nor let time go on: only where the call is changes.
LEMMA QuietStep ==
    ASSUME StopwatchInv, UNCHANGED <<fields, now, runTimes>>,
           call' \in {"none", "start", "restart", "stop", "elapsed"},
           wallNs' \in {Unread, Failed} \cup 0..now["wall"],
           call' = "none" => wallNs' = Unread,
           InCall',
           NEW op \in {"start", "stop", "restart", "elapsed"}, NEW ok \in BOOLEAN,
           NEW ns \in [Clock -> 0..MaxTime], op = "elapsed" /\ ok => ~isRunning /\ ns = accNs,
           answer' \in {answer, NoAnswer, [op |-> op, ok |-> ok, ns |-> ns]}
    PROVE  StopwatchInv'
<1>1. Counted' = Counted
    BY DEF Counted, fields
<1>2. answer' \in [op : {"none", "init", "reset", "start", "restart", "stop", "elapsed"},
                   ok : BOOLEAN, ns : [Clock -> 0..MaxTime]]
    <2>1. CASE answer' = answer
        BY <2>1 DEF StopwatchInv, StopwatchTypeOK
    <2>2. CASE answer' = NoAnswer
        BY <2>2, ClockTimes DEF StopwatchInv, NoAnswer
    <2>3. CASE answer' = [op |-> op, ok |-> ok, ns |-> ns]
        BY <2>3
    <2> QED BY <2>1, <2>2, <2>3
<1>3. StopwatchTypeOK'
    BY <1>1, <1>2 DEF StopwatchInv, StopwatchTypeOK, fields, runTimes
<1>4. CountsItsRuns'
    <2>1. \A c \in Clock : certain'[c] <= Counted'[c] /\ Counted'[c] <= possible'[c]
        BY <1>1 DEF StopwatchInv, CountsItsRuns, runTimes
    <2>2. \A c \in Clock : answer'.op = "elapsed" /\ answer'.ok =>
              certain'[c] <= answer'.ns[c] /\ answer'.ns[c] <= possible'[c]
        <3>1. CASE answer' = answer
            BY <3>1 DEF StopwatchInv, CountsItsRuns, runTimes
        <3>2. CASE answer' = NoAnswer
            BY <3>2 DEF NoAnswer
        <3>3. CASE answer' = [op |-> op, ok |-> ok, ns |-> ns]
            <4> SUFFICES ASSUME NEW c \in Clock, ~isRunning, ns = accNs
                         PROVE  certain'[c] <= accNs[c] /\ accNs[c] <= possible'[c]
                BY <3>3
            <4>1. Counted[c] = accNs[c]
                BY CountedWhen, ClockTimes DEF StopwatchInv
            <4> QED BY <4>1 DEF StopwatchInv, CountsItsRuns, runTimes
        <3> QED BY <3>1, <3>2, <3>3
    <2> QED BY <2>1, <2>2 DEF CountsItsRuns
<1> QED BY <1>3, <1>4 DEF StopwatchInv, PossibleInAll, runTimes

LEMMA CallStep ==
    ASSUME StopwatchInv, Start \/ Restart \/ Stop \/ Elapsed
    PROVE  StopwatchInv'
<1>1. /\ UNCHANGED <<fields, now, runTimes>>
      /\ call' \in {"none", "start", "restart", "stop", "elapsed"}
      /\ wallNs' = Unread
    BY DEF Start, Restart, Stop, Elapsed, ReadClocks, Answer
<1>2. InCall'
    BY <1>1 DEF Start, Restart, Stop, Elapsed, ReadClocks, Answer, InCall, Unread, Failed, fields
<1>3. accNs \in [Clock -> 0..MaxTime] /\ Zero \in [Clock -> 0..MaxTime]
    BY ClockTimes DEF StopwatchInv, StopwatchTypeOK
<1>4. CASE answer' = NoAnswer
    BY <1>1, <1>2, <1>3, <1>4, QuietStep
<1>5. CASE answer' = [op |-> "start", ok |-> TRUE, ns |-> Zero]
    BY <1>1, <1>2, <1>3, <1>5, QuietStep
<1>6. CASE answer' = [op |-> "stop", ok |-> TRUE, ns |-> Zero]
    BY <1>1, <1>2, <1>3, <1>6, QuietStep
<1>7. CASE ~isRunning /\ answer' = [op |-> "elapsed", ok |-> TRUE, ns |-> accNs]
    BY <1>1, <1>2, <1>3, <1>7, QuietStep
<1> QED BY <1>4, <1>5, <1>6, <1>7 DEF Start, Restart, Stop, Elapsed, ReadClocks, Answer

\* A running stopwatch has counted at least what is certain, a stopped one at most what is
\* possible, when the wall clock is read.
LEMMA ReadWallClockStep ==
    ASSUME StopwatchInv, ReadWallClock
    PROVE  StopwatchInv'
<1>1. UNCHANGED <<fields, now, runTimes>> /\ call \in {"start", "restart", "stop", "elapsed"}
    BY DEF ReadWallClock, StopwatchInv, StopwatchTypeOK
<1>2. CASE answer' = [op |-> call, ok |-> FALSE, ns |-> Zero] /\ call' = "none" /\ wallNs' = Unread
    <2>1. InCall'
        BY <1>2 DEF InCall, Unread, Failed
    <2> QED BY <1>1, <1>2, <2>1, ClockTimes, QuietStep DEF StopwatchInv
<1>3. CASE UNCHANGED <<call, answer>> /\ call = "elapsed" /\ wallNs' = Failed
    <2>1. InCall'
        BY <1>1, <1>3 DEF InCall, StopwatchInv, Failed, fields
    <2> QED BY <1>1, <1>3, <2>1, ClockTimes, QuietStep DEF StopwatchInv
<1>4. CASE UNCHANGED <<call, answer>> /\ wallNs' = now["wall"]
    <2>1. /\ now["wall"] \in 0..now["wall"] /\ now["wall"] \notin {Unread, Failed}
          /\ startNs["wall"] <= now["wall"]
        BY ClockTimes DEF StopwatchInv, Unread, Failed
    <2>2. ASSUME isRunning PROVE certain["wall"] <= accNs["wall"] + now["wall"] - startNs["wall"]
        <3>1. Counted["wall"] = accNs["wall"] + (now["wall"] - startNs["wall"])
            BY <2>2, CountedWhen, ClockTimes DEF StopwatchInv
        <3>2. certain["wall"] <= Counted["wall"]
            BY ClockTimes DEF StopwatchInv, CountsItsRuns
        <3> QED BY <3>1, <3>2, ClockTimes DEF StopwatchInv
    <2>3. ASSUME ~isRunning PROVE accNs["wall"] + now["wall"] - now["wall"] <= possible["wall"]
        <3>1. Counted["wall"] = accNs["wall"] + 0
            BY <2>3, CountedWhen, ClockTimes DEF StopwatchInv
        <3>2. Counted["wall"] <= possible["wall"]
            BY ClockTimes DEF StopwatchInv, CountsItsRuns
        <3> QED BY <3>1, <3>2, ClockTimes DEF StopwatchInv
    <2>4. InCall'
        <3>1. /\ call' \in {"stop", "elapsed"} => isRunning'
              /\ call' = "start" => ~isRunning'
              /\ wallNs' # Failed
            BY <1>1, <1>4, <2>1 DEF StopwatchInv, InCall, fields
        <3>2. call' \in {"stop", "elapsed"} =>
                /\ startNs'["wall"] <= wallNs'
                /\ certain'["wall"] <= accNs'["wall"] + wallNs' - startNs'["wall"]
            BY <1>1, <1>4, <2>1, <2>2, <3>1 DEF fields, runTimes
        <3>3. call' = "start" => accNs'["wall"] + now'["wall"] - wallNs' <= possible'["wall"]
            BY <1>1, <1>4, <2>3, <3>1 DEF fields, runTimes
        <3> QED BY <3>1, <3>2, <3>3 DEF InCall
    <2> QED BY <1>1, <1>4, <2>1, <2>4, ClockTimes, QuietStep DEF StopwatchInv
<1> QED BY <1>2, <1>3, <1>4 DEF ReadWallClock, Answer

LEMMA ClocksFailedStep ==
    ASSUME StopwatchInv, ClocksFailed
    PROVE  StopwatchInv'
<1>1. /\ UNCHANGED <<fields, now, runTimes>> /\ call \in {"start", "restart", "stop", "elapsed"}
      /\ answer' = [op |-> call, ok |-> FALSE, ns |-> Zero] /\ call' = "none" /\ wallNs' = Unread
    BY DEF ClocksFailed, Answer, StopwatchInv, StopwatchTypeOK
<1>2. InCall'
    BY <1>1 DEF InCall, Unread, Failed
<1> QED BY <1>1, <1>2, ClockTimes, QuietStep DEF StopwatchInv

\* The readings a call ends with lie between the start and now.
LEMMA Readings ==
    ASSUME StopwatchInv, wallNs \notin {Unread, Failed}
    PROVE  \A c \in Clock : /\ Read(now["cpu"])[c] \in Int
                            /\ 0 <= Read(now["cpu"])[c] /\ Read(now["cpu"])[c] <= now[c]
<1>1. wallNs \in 0..now["wall"]
    BY DEF StopwatchInv, StopwatchTypeOK
<1> QED BY <1>1, ClockTimes DEF StopwatchInv, Read, Clock

\* Behind a call nothing is being read.
LEMMA Idle ==
    ASSUME call' = "none", wallNs' = Unread
    PROVE  InCall'
BY DEF InCall, Unread, Failed

\* What a step that ends a call owes.
LEMMA EndStep ==
    ASSUME StopwatchInv, now' = now, call' = "none", wallNs' = Unread,
           isRunning' \in BOOLEAN, startNs' \in [Clock -> Int], accNs' \in [Clock -> Int],
           certain' \in [Clock -> Int], possible' \in [Clock -> Int],
           \A c \in Clock :
              /\ 0 <= startNs'[c] /\ startNs'[c] <= now[c]
              /\ 0 <= accNs'[c] /\ accNs'[c] <= now[c]
              /\ 0 <= certain'[c] /\ certain'[c] <= Counted'[c]
              /\ Counted'[c] <= possible'[c] /\ possible'[c] <= now[c],
           NEW op \in {"init", "reset", "start", "stop", "restart", "elapsed"},
           NEW ns \in [Clock -> Int], answer' = [op |-> op, ok |-> TRUE, ns |-> ns],
           \A c \in Clock : 0 <= ns[c] /\ ns[c] <= now[c],
           op = "elapsed" => \A c \in Clock : certain'[c] <= ns[c] /\ ns[c] <= possible'[c]
    PROVE  StopwatchInv'
<1>1. \A c \in Clock : Counted'[c] \in Int
    BY CountedWhen, ClockTimes DEF StopwatchInv
<1>2. \A c \in Clock : now[c] \in Int /\ now[c] <= MaxTime /\ 0 <= possible'[c]
    BY <1>1, ClockTimes DEF StopwatchInv
<1>3. MaxTime \in Int
    BY MaxTimeAssumption
<1>4. \A c \in Clock : certain'[c] <= now[c] /\ Counted'[c] <= now[c]
    BY <1>1, <1>2
<1>5. /\ startNs' \in [Clock -> 0..MaxTime] /\ accNs' \in [Clock -> 0..MaxTime]
      /\ certain' \in [Clock -> 0..MaxTime] /\ possible' \in [Clock -> 0..MaxTime]
      /\ ns \in [Clock -> 0..MaxTime]
    BY <1>2, <1>3, <1>4
<1>6. StopwatchTypeOK'
    <2>1. answer' \in [op : {"none", "init", "reset", "start", "restart", "stop", "elapsed"},
                       ok : BOOLEAN, ns : [Clock -> 0..MaxTime]]
        BY <1>5
    <2>2. now' \in [Clock -> 0..MaxTime]
        BY DEF StopwatchInv, StopwatchTypeOK
    <2>3. \A c \in Clock : startNs'[c] <= now'[c] /\ Counted'[c] <= now'[c]
        BY <1>4
    <2> QED BY <1>5, <2>1, <2>2, <2>3 DEF StopwatchTypeOK
<1>7. CountsItsRuns' /\ PossibleInAll'
    BY DEF CountsItsRuns, PossibleInAll
<1> QED BY <1>6, <1>7, Idle DEF StopwatchInv

LEMMA ResetStep ==
    ASSUME StopwatchInv, NEW op \in {"init", "reset"}, Reset(op)
    PROVE  StopwatchInv'
<1>1. Zero \in [Clock -> Int] /\ \A c \in Clock : Zero[c] = 0
    BY DEF Zero
<1>2. \A c \in Clock : Counted'[c] = 0
    BY <1>1, CountedWhen DEF Reset
<1>3. \A c \in Clock : 0 <= now[c]
    BY ClockTimes DEF StopwatchInv
<1>4. /\ now' = now /\ call' = "none" /\ wallNs' = Unread /\ isRunning' = FALSE
      /\ startNs' = Zero /\ accNs' = Zero /\ certain' = Zero /\ possible' = Zero
      /\ answer' = [op |-> op, ok |-> TRUE, ns |-> Zero]
    BY DEF Reset, Answer
<1>5. /\ isRunning' \in BOOLEAN /\ startNs' \in [Clock -> Int] /\ accNs' \in [Clock -> Int]
      /\ certain' \in [Clock -> Int] /\ possible' \in [Clock -> Int]
      /\ op \in {"init", "reset", "start", "stop", "restart", "elapsed"}
      /\ op # "elapsed"
    BY <1>1, <1>4
<1>6. \A c \in Clock :
          /\ 0 <= startNs'[c] /\ startNs'[c] <= now[c]
          /\ 0 <= accNs'[c] /\ accNs'[c] <= now[c]
          /\ 0 <= certain'[c] /\ certain'[c] <= Counted'[c]
          /\ Counted'[c] <= possible'[c] /\ possible'[c] <= now[c]
          /\ 0 <= Zero[c] /\ Zero[c] <= now[c]
    BY <1>1, <1>2, <1>3, <1>4
<1> QED BY <1>1, <1>4, <1>5, <1>6, EndStep, Zenon

LEMMA StartEndStep ==
    ASSUME StopwatchInv, StartEnd
    PROVE  StopwatchInv'
<1> DEFINE R == Read(now["cpu"])
<1>1. /\ ~isRunning /\ wallNs \notin {Unread, Failed} /\ R["cpu"] = now["cpu"]
      /\ R["wall"] = wallNs /\ R \in [Clock -> Int]
    BY ClockTimes DEF StartEnd, StopwatchInv, InCall, Read, Clock
<1>2. startNs' = R /\ isRunning' /\ UNCHANGED <<accNs, now, certain, possible>>
    BY DEF StartEnd, runTimes
<1>3. \A c \in Clock : /\ R[c] \in Int /\ 0 <= R[c] /\ R[c] <= now[c]
    BY <1>1, Readings
<1> HIDE DEF R
<1>4. \A c \in Clock : Counted'[c] = accNs[c] + (now[c] - R[c]) /\ Counted[c] = accNs[c] + 0
    BY <1>1, <1>2, CountedWhen
<1>5. \A c \in Clock : certain[c] <= Counted[c] /\ Counted[c] <= possible[c] /\ possible[c] <= now[c]
    BY DEF StopwatchInv, CountsItsRuns, PossibleInAll
<1>6. accNs["wall"] + now["wall"] - wallNs <= possible["wall"]
    BY <1>1 DEF StartEnd, StopwatchInv, InCall
<1>7. \A c \in Clock : accNs[c] + (now[c] - R[c]) <= possible[c]
    BY <1>1, <1>4, <1>5, <1>6, ClockTimes DEF StopwatchInv, Clock
<1>8. \A c \in Clock : certain[c] <= Counted'[c] /\ accNs[c] <= now[c]
    BY <1>3, <1>4, <1>5, ClockTimes DEF StopwatchInv
<1>9. Zero \in [Clock -> Int] /\ \A c \in Clock : Zero[c] = 0
    BY DEF Zero
<1>10. /\ accNs \in [Clock -> Int] /\ certain \in [Clock -> Int] /\ possible \in [Clock -> Int]
    BY DEF StopwatchInv, StopwatchTypeOK
<1> QED BY <1>1, <1>2, <1>3, <1>4, <1>5, <1>7, <1>8, <1>9, <1>10, ClockTimes, EndStep
        DEF StartEnd, Answer, StopwatchInv

LEMMA RestartEndStep ==
    ASSUME StopwatchInv, RestartEnd
    PROVE  StopwatchInv'
<1> DEFINE R == Read(now["cpu"])
<1>1. wallNs \notin {Unread, Failed} /\ R \in [Clock -> Int]
    BY ClockTimes DEF RestartEnd, StopwatchInv, InCall, Read, Clock
<1>2. /\ startNs' = R /\ isRunning' = TRUE /\ accNs' = Zero /\ now' = now /\ certain' = Zero
      /\ possible' = [c \in Clock |-> now[c] - R[c]]
      /\ call' = "none" /\ wallNs' = Unread
      /\ answer' = [op |-> "restart", ok |-> TRUE, ns |-> Zero]
    BY DEF RestartEnd, Answer
<1>3. \A c \in Clock : /\ R[c] \in Int /\ 0 <= R[c] /\ R[c] <= now[c]
    BY <1>1, Readings
<1> HIDE DEF R
<1>4. Zero \in [Clock -> Int] /\ \A c \in Clock : Zero[c] = 0
    BY DEF Zero
<1>5. \A c \in Clock : Counted'[c] = accNs'[c] + (now'[c] - startNs'[c])
    BY <1>2, CountedWhen
<1>6. \A c \in Clock : now[c] \in Int /\ Counted'[c] = now[c] - R[c] /\ possible'[c] = now[c] - R[c]
    BY <1>2, <1>3, <1>4, <1>5, ClockTimes DEF StopwatchInv
<1>7. /\ isRunning' \in BOOLEAN /\ startNs' \in [Clock -> Int] /\ accNs' \in [Clock -> Int]
      /\ certain' \in [Clock -> Int] /\ possible' \in [Clock -> Int]
    BY <1>1, <1>2, <1>3, <1>4, <1>6
<1>8. \A c \in Clock :
          /\ 0 <= startNs'[c] /\ startNs'[c] <= now[c]
          /\ 0 <= accNs'[c] /\ accNs'[c] <= now[c]
          /\ 0 <= certain'[c] /\ certain'[c] <= Counted'[c]
          /\ Counted'[c] <= possible'[c] /\ possible'[c] <= now[c]
          /\ 0 <= Zero[c] /\ Zero[c] <= now[c]
    BY <1>2, <1>3, <1>4, <1>6, ClockTimes DEF StopwatchInv
<1> QED BY <1>2, <1>4, <1>7, <1>8, EndStep

\* What a running stopwatch has counted at a reading: no less than is certain.
LEMMA CountedAtReading ==
    ASSUME StopwatchInv, call \in {"stop", "elapsed"}, wallNs \notin {Unread, Failed},
           NEW c \in Clock
    PROVE  LET ns == accNs[c] + Read(now["cpu"])[c] - startNs[c]
           IN  /\ isRunning /\ ns \in Int /\ accNs[c] <= ns
               /\ certain[c] <= ns /\ ns <= Counted[c]
<1> DEFINE R == Read(now["cpu"])
<1>1. isRunning /\ R["cpu"] = now["cpu"] /\ R["wall"] = wallNs
    BY DEF StopwatchInv, InCall, Read, Clock
<1>2. R[c] \in Int /\ R[c] <= now[c]
    BY Readings
<1> HIDE DEF R
<1>3. Counted[c] = accNs[c] + (now[c] - startNs[c]) /\ certain[c] <= Counted[c]
    BY <1>1, CountedWhen DEF StopwatchInv, CountsItsRuns
<1>4. startNs["wall"] <= wallNs /\ certain["wall"] <= accNs["wall"] + wallNs - startNs["wall"]
    BY DEF StopwatchInv, InCall
<1>5. startNs[c] <= R[c] /\ certain[c] <= accNs[c] + R[c] - startNs[c]
    BY <1>1, <1>3, <1>4, ClockTimes DEF StopwatchInv, Clock
<1>6. accNs[c] + R[c] - startNs[c] \in Int /\ accNs[c] <= accNs[c] + R[c] - startNs[c]
      /\ accNs[c] + R[c] - startNs[c] <= Counted[c]
    BY <1>2, <1>3, <1>5, ClockTimes DEF StopwatchInv
<1> QED BY <1>1, <1>5, <1>6 DEF R

LEMMA StopEndStep ==
    ASSUME StopwatchInv, StopEnd
    PROVE  StopwatchInv'
<1> DEFINE N(c) == accNs[c] + Read(now["cpu"])[c] - startNs[c]
<1>1. wallNs \notin {Unread, Failed} /\ call = "stop"
    BY DEF StopEnd, StopwatchInv, InCall
<1>2. /\ startNs' = startNs /\ isRunning' = FALSE /\ accNs' = [c \in Clock |-> N(c)]
      /\ now' = now /\ certain' = certain /\ possible' = possible
      /\ call' = "none" /\ wallNs' = Unread
      /\ answer' = [op |-> "stop", ok |-> TRUE, ns |-> Zero]
    BY DEF StopEnd, Answer, runTimes
<1>3. \A c \in Clock : N(c) \in Int /\ accNs[c] <= N(c) /\ certain[c] <= N(c) /\ N(c) <= Counted[c]
    BY <1>1, CountedAtReading
<1> HIDE DEF N
<1>4. Zero \in [Clock -> Int] /\ \A c \in Clock : Zero[c] = 0
    BY DEF Zero
<1>5. \A c \in Clock : Counted'[c] = N(c)
    BY <1>2, <1>3, CountedWhen
<1>6. \A c \in Clock : Counted[c] <= possible[c] /\ possible[c] <= now[c] /\ Counted[c] \in Int
    BY CountedWhen, ClockTimes DEF StopwatchInv, CountsItsRuns, PossibleInAll
<1>7. /\ isRunning' \in BOOLEAN /\ startNs' \in [Clock -> Int] /\ accNs' \in [Clock -> Int]
      /\ certain' \in [Clock -> Int] /\ possible' \in [Clock -> Int]
    <2>1. accNs' \in [Clock -> Int]
        BY <1>2, <1>3
    <2>2. /\ startNs \in [Clock -> Int] /\ certain \in [Clock -> Int]
          /\ possible \in [Clock -> Int]
        BY DEF StopwatchInv, StopwatchTypeOK
    <2> QED BY <1>2, <2>1, <2>2
<1>8. \A c \in Clock :
          /\ 0 <= startNs'[c] /\ startNs'[c] <= now[c]
          /\ 0 <= accNs'[c] /\ accNs'[c] <= now[c]
          /\ 0 <= certain'[c] /\ certain'[c] <= Counted'[c]
          /\ Counted'[c] <= possible'[c] /\ possible'[c] <= now[c]
          /\ 0 <= Zero[c] /\ Zero[c] <= now[c]
    BY <1>2, <1>3, <1>4, <1>5, <1>6, ClockTimes DEF StopwatchInv
<1> QED BY <1>2, <1>4, <1>7, <1>8, EndStep

LEMMA ElapsedEndStep ==
    ASSUME StopwatchInv, ElapsedEnd
    PROVE  StopwatchInv'
<1> DEFINE N(c) == accNs[c] + Read(now["cpu"])[c] - startNs[c]
           ns == [c \in Clock |-> N(c)]
           after == [c \in Clock |-> IF ns[c] > certain[c] THEN ns[c] ELSE certain[c]]
<1>1. wallNs \notin {Unread, Failed} /\ call = "elapsed"
    BY DEF ElapsedEnd
<1>2. /\ startNs' = startNs /\ isRunning' = isRunning /\ accNs' = accNs
      /\ now' = now /\ certain' = after /\ possible' = possible
      /\ call' = "none" /\ wallNs' = Unread
      /\ answer' = [op |-> "elapsed", ok |-> TRUE, ns |-> ns]
    BY DEF ElapsedEnd, Answer, fields
<1>3. \A c \in Clock : N(c) \in Int /\ accNs[c] <= N(c) /\ certain[c] <= N(c) /\ N(c) <= Counted[c]
    BY <1>1, CountedAtReading
<1> HIDE DEF N
<1>4. \A c \in Clock : ns[c] = N(c) /\ after[c] = N(c)
    BY <1>3, ClockTimes DEF StopwatchInv
<1>5. Counted' = Counted
    BY <1>2 DEF Counted
<1>6. \A c \in Clock : Counted[c] <= possible[c] /\ possible[c] <= now[c] /\ Counted[c] \in Int
    BY CountedWhen, ClockTimes DEF StopwatchInv, StopwatchTypeOK, CountsItsRuns, PossibleInAll
<1>7. /\ isRunning' \in BOOLEAN /\ startNs' \in [Clock -> Int] /\ accNs' \in [Clock -> Int]
      /\ possible' \in [Clock -> Int]
    BY <1>2 DEF StopwatchInv, StopwatchTypeOK
<1>8. ns \in [Clock -> Int] /\ after \in [Clock -> Int]
    BY <1>3, <1>4
<1>9. \A c \in Clock : ns[c] \in Int
    BY <1>8
<1> HIDE DEF ns, after
<1>10. \A c \in Clock :
          /\ 0 <= startNs'[c] /\ startNs'[c] <= now[c]
          /\ 0 <= accNs'[c] /\ accNs'[c] <= now[c]
          /\ 0 <= certain'[c] /\ certain'[c] <= Counted'[c]
          /\ Counted'[c] <= possible'[c] /\ possible'[c] <= now[c]
          /\ 0 <= ns[c] /\ ns[c] <= now[c]
          /\ certain'[c] <= ns[c] /\ ns[c] <= possible'[c]
    BY <1>2, <1>3, <1>4, <1>5, <1>6, ClockTimes DEF StopwatchInv
<1> QED BY <1>2, <1>7, <1>8, <1>10, EndStep

LEMMA TickStep ==
    ASSUME StopwatchInv, NEW d \in Clock, Tick(d)
    PROVE  StopwatchInv'
<1>1. /\ now[d] < MaxTime /\ now' = [now EXCEPT ![d] = @ + 1]
      /\ UNCHANGED <<isRunning, startNs, accNs, call, wallNs>> /\ answer' = NoAnswer
    BY DEF Tick, fields
<1>2. /\ \A c \in Clock \ {d} : /\ now'[c] = now[c] /\ certain'[c] = certain[c]
                                /\ possible'[c] = possible[c]
      /\ now'[d] = now[d] + 1
    BY <1>1 DEF Tick, StopwatchInv, StopwatchTypeOK
<1>3. /\ isRunning /\ call = "none" => certain'[d] = certain[d] + 1
      /\ ~(isRunning /\ call = "none") => certain'[d] = certain[d]
      /\ isRunning \/ call # "none" => possible'[d] = possible[d] + 1
      /\ ~(isRunning \/ call # "none") => possible'[d] = possible[d]
    BY DEF Tick, StopwatchInv, StopwatchTypeOK
<1>4. \A c \in Clock : /\ certain[c] <= Counted[c] /\ Counted[c] <= possible[c]
                       /\ possible[c] <= now[c]
    BY DEF StopwatchInv, CountsItsRuns, PossibleInAll
<1>5. \A c \in Clock \ {d} : Counted'[c] = Counted[c]
    BY <1>1, <1>2 DEF Counted
<1>6. /\ isRunning => Counted'[d] = Counted[d] + 1
      /\ ~isRunning => Counted'[d] = Counted[d]
    <2>1. CASE isRunning
        <3>1. Counted[d] = accNs[d] + (now[d] - startNs[d])
            BY <2>1, CountedWhen
        <3>2. Counted'[d] = accNs'[d] + (now'[d] - startNs'[d])
            BY <1>1, <2>1, CountedWhen, Zenon
        <3>3. accNs'[d] = accNs[d] /\ startNs'[d] = startNs[d] /\ now'[d] = now[d] + 1
            BY <1>1, <1>2
        <3>4. Counted'[d] = Counted[d] + 1
            BY <3>1, <3>2, <3>3, ClockTimes DEF StopwatchInv
        <3> QED BY <2>1, <3>4
    <2>2. CASE ~isRunning
        BY <1>1, <2>2, CountedWhen
    <2> QED BY <2>1, <2>2
<1>7. \A c \in Clock : Counted[c] \in Int
    BY CountedWhen, ClockTimes DEF StopwatchInv
<1>8. /\ certain'[d] \in Int /\ 0 <= certain'[d] /\ certain'[d] <= Counted'[d]
      /\ possible'[d] \in Int /\ Counted'[d] <= possible'[d] /\ possible'[d] <= now'[d]
      /\ Counted'[d] \in Int /\ now'[d] \in Int /\ now'[d] <= MaxTime
      /\ startNs[d] <= now'[d]
    <2>1. CASE isRunning /\ call = "none"
        BY <1>1, <1>2, <1>3, <1>4, <1>6, <1>7, <2>1, ClockTimes DEF StopwatchInv
    <2>2. CASE isRunning /\ call # "none"
        BY <1>1, <1>2, <1>3, <1>4, <1>6, <1>7, <2>2, ClockTimes DEF StopwatchInv
    <2>3. CASE ~isRunning /\ call = "none"
        BY <1>1, <1>2, <1>3, <1>4, <1>6, <1>7, <2>3, ClockTimes DEF StopwatchInv
    <2>4. CASE ~isRunning /\ call # "none"
        BY <1>1, <1>2, <1>3, <1>4, <1>6, <1>7, <2>4, ClockTimes DEF StopwatchInv
    <2> QED BY <2>1, <2>2, <2>3, <2>4
<1>9. \A c \in Clock :
          /\ certain'[c] \in Int /\ 0 <= certain'[c] /\ certain'[c] <= Counted'[c]
          /\ possible'[c] \in Int /\ Counted'[c] <= possible'[c] /\ possible'[c] <= now'[c]
          /\ Counted'[c] \in Int /\ now'[c] \in Int /\ now'[c] <= MaxTime
          /\ startNs[c] <= now'[c]
    <2> SUFFICES ASSUME NEW c \in Clock \ {d}
                 PROVE  /\ certain[c] \in Int /\ 0 <= certain[c] /\ certain[c] <= Counted[c]
                        /\ possible[c] \in Int /\ Counted[c] <= possible[c] /\ possible[c] <= now[c]
                        /\ Counted[c] \in Int /\ now[c] \in Int /\ now[c] <= MaxTime
                        /\ startNs[c] <= now[c]
        BY <1>2, <1>5, <1>8
    <2> QED BY <1>4, <1>7, ClockTimes DEF StopwatchInv
<1>10. MaxTime \in Int
    BY MaxTimeAssumption
<1>11. \A c \in Clock : /\ Counted'[c] <= now'[c] /\ Counted'[c] <= MaxTime
                        /\ 0 <= possible'[c] /\ 0 <= now'[c]
                        /\ certain'[c] <= MaxTime /\ possible'[c] <= MaxTime
    BY <1>9, <1>10
<1>12. StopwatchTypeOK'
    <2>1. /\ now' \in [Clock -> 0..MaxTime] /\ certain' \in [Clock -> 0..MaxTime]
          /\ possible' \in [Clock -> 0..MaxTime]
        <3>1. /\ now' = [c \in Clock |-> now'[c]] /\ certain' = [c \in Clock |-> certain'[c]]
              /\ possible' = [c \in Clock |-> possible'[c]]
            BY DEF Tick, StopwatchInv, StopwatchTypeOK
        <3>2. \A c \in Clock : /\ now'[c] \in 0..MaxTime /\ certain'[c] \in 0..MaxTime
                               /\ possible'[c] \in 0..MaxTime
            BY <1>9, <1>10, <1>11
        <3> QED BY <3>1, <3>2
    <2>2. wallNs' \in {Unread, Failed} \cup 0..now'["wall"]
        <3>1. now["wall"] \in Int /\ now'["wall"] \in Int /\ now["wall"] <= now'["wall"]
            BY <1>2, ClockTimes DEF StopwatchInv
        <3> QED BY <1>1, <3>1 DEF StopwatchInv, StopwatchTypeOK
    <2>3. answer' \in [op : {"none", "init", "reset", "start", "restart", "stop", "elapsed"},
                       ok : BOOLEAN, ns : [Clock -> 0..MaxTime]]
        BY <1>1, ClockTimes DEF NoAnswer, StopwatchInv
    <2> QED BY <1>1, <1>9, <1>11, <2>1, <2>2, <2>3 DEF StopwatchInv, StopwatchTypeOK
<1>13. CountsItsRuns' /\ PossibleInAll'
    BY <1>1, <1>9 DEF CountsItsRuns, PossibleInAll, NoAnswer
<1>14. InCall'
    <2>1. ASSUME wallNs \notin {Unread, Failed}, call \in {"stop", "elapsed"}
          PROVE  certain'["wall"] = certain["wall"]
        BY <1>2, <1>3, <2>1 DEF Clock
    <2>2. ASSUME wallNs \notin {Unread, Failed}, call = "start"
          PROVE  accNs["wall"] + now'["wall"] - wallNs <= possible'["wall"]
        <3>1. accNs["wall"] + now["wall"] - wallNs <= possible["wall"]
            BY <2>2 DEF StopwatchInv, InCall
        <3>2. CASE d = "wall"
            BY <1>2, <1>3, <2>2, <3>1, <3>2, ClockTimes DEF StopwatchInv
        <3>3. CASE d # "wall"
            BY <1>2, <3>1, <3>3 DEF Clock
        <3> QED BY <3>2, <3>3
    <2> QED BY <1>1, <2>1, <2>2 DEF StopwatchInv, InCall
<1> QED BY <1>12, <1>13, <1>14 DEF StopwatchInv

LEMMA StopwatchInvStep == StopwatchInv /\ [StopwatchNext]_stopwatch => StopwatchInv'
<1> SUFFICES ASSUME StopwatchInv, [StopwatchNext]_stopwatch PROVE StopwatchInv'
    OBVIOUS
<1>1. CASE StopwatchCall
    BY <1>1, ResetStep, CallStep DEF StopwatchCall
<1>2. CASE Work
    BY <1>2, ReadWallClockStep, ClocksFailedStep, StartEndStep, RestartEndStep, StopEndStep,
       ElapsedEndStep DEF Work
<1>3. CASE ClocksGoOn
    BY <1>3, TickStep DEF ClocksGoOn
<1>4. CASE UNCHANGED stopwatch
    <2>1. UNCHANGED <<isRunning, startNs, accNs, now, call, wallNs, answer, certain, possible>>
        BY <1>4 DEF stopwatch, fields, runTimes
    <2>2. Counted' = Counted
        BY <2>1 DEF Counted
    <2> QED BY <2>1, <2>2 DEF StopwatchInv, StopwatchTypeOK, CountsItsRuns, InCall, PossibleInAll
<1> QED BY <1>1, <1>2, <1>3, <1>4 DEF StopwatchNext

\* The fields of the stopwatch stay within their types, no start lies in the future, no time is
\* negative, for every sequence of calls and failures of the clocks.
THEOREM StopwatchTypeCorrect == StopwatchSpec => []StopwatchTypeOK
<1>1. StopwatchInv => StopwatchTypeOK
    BY DEF StopwatchInv
<1> QED BY <1>1, StopwatchInvInit, StopwatchInvStep, PTL DEF StopwatchSpec

\* The stopwatch has counted the time it ran, and what scu_stopwatch_elapsed answers is that
\* time, for clocks of any range.
THEOREM StopwatchCountCorrect == StopwatchSpec => []CountsItsRuns
<1>1. StopwatchInv => CountsItsRuns
    BY DEF StopwatchInv
<1> QED BY <1>1, StopwatchInvInit, StopwatchInvStep, PTL DEF StopwatchSpec

--------------------------------------------------------------------------------
(* The inductive invariant *)

InBlock == {"time", "start", "block", "stop", "stopped", "elapsed"}
InIteration == InBlock \cup {"advance"}

Run == [block : Times, all : Times, ok : BOOLEAN, left : BOOLEAN]

\* The types of everything, of the locals and the history too.
Typed ==
    /\ warmup \in Nat /\ iterations \in Nat
    /\ TypeOK
    /\ samples \in [Clock -> [0..(iterations - 1) -> 0..MaxTime \cup {Junk}]]
    /\ began \in [iteration : Times, block : Times, took : Times]
    /\ runs \in [0..(warmup + iterations - 1) -> Run]

\* Where the loops are: an iteration is one of those asked for, no error ends the benchmark in
\* the middle of one, and the stopwatch is in the call that SCU_TIME makes there.
Placed ==
    /\ pc = "new" => iteration = 0 /\ error = "NONE"
    /\ pc \in InIteration => error = "NONE" /\ iteration < warmup + iterations
    /\ call = IF pc \in {"start", "stop", "elapsed"} THEN pc ELSE "none"
    /\ pc = "time" => ~isRunning
    /\ pc = "block" => isRunning
    /\ timingResult.ok \/ pc = "advance" \/ error # "NONE"

\* The stopwatch ran while the block did, and at most since the iteration began.
Timing ==
    /\ pc \in InBlock => \A c \in Clock : possible[c] <= now[c] - began.iteration[c]
    /\ pc = "block" => \A c \in Clock : /\ began.block[c] <= now[c]
                                        /\ now[c] - began.block[c] <= certain[c]
    /\ pc \in {"stop", "stopped", "elapsed"} => \A c \in Clock : began.took[c] <= certain[c]
    /\ pc = "advance" /\ timingResult.ok /\ ~runs[iteration].left =>
          \A c \in Clock : /\ runs[iteration].block[c] <= timingResult.ns[c]
                           /\ timingResult.ns[c] <= runs[iteration].all[c]

\* The iterations that could be timed are those that are over.
RunsOver ==
    \A i \in DOMAIN runs :
        runs[i].ok <=> i < iteration \/ (i = iteration /\ pc = "advance" /\ timingResult.ok)

\* The arrays are there from the allocation to the end, or to an error.
Owned ==
    /\ live = {c \in Clock : notNull[c]}
    /\ IF error = "NONE" /\ pc \notin {"new", "done"}
       THEN \A c \in Clock : notNull[c] <=> iterations > 0
       ELSE live = {}

IInv ==
    /\ StopwatchInv
    /\ Typed /\ Placed /\ Timing /\ RunsOver /\ Owned
    /\ SamplesCoverBlocks /\ ReportRight

--------------------------------------------------------------------------------
(* Counting samples *)

\* A set of natural numbers that is not empty has a least member.
LEMMA LeastMember ==
    ASSUME NEW S \in SUBSET Nat, S # {}
    PROVE  \E x \in S : \A y \in S : x <= y
<1>1. \E x \in S : \A y \in S : ~(<<y, x>> \in OpToRel(<, Nat))
    <2>1. S \subseteq Nat
        OBVIOUS
    <2> HIDE DEF OpToRel
    <2> QED BY <2>1, NatLessThanWellFounded, WFMin, Zenon
<1>2. \A x, y \in Nat : y < x => <<y, x>> \in OpToRel(<, Nat)
    BY DEF OpToRel
<1>3. PICK x \in S : \A y \in S : ~(<<y, x>> \in OpToRel(<, Nat))
    BY <1>1, Zenon
<1>4. \A y \in S : ~(y < x)
    BY <1>2, <1>3, Zenon
<1>5. QED BY <1>4

\* How often a value is among the samples with the indices S.
Tally(f, S, x) == Cardinality({i \in S : f[i] = x})

LEMMA UpToFinite ==
    ASSUME NEW n \in Int
    PROVE  IsFiniteSet(0..n)
BY FS_Interval, 0 \in Int, Zenon

LEMMA TallyFinite ==
    ASSUME NEW f, NEW S, IsFiniteSet(S), NEW x
    PROVE  /\ IsFiniteSet({i \in S : f[i] = x})
           /\ Tally(f, S, x) \in Nat
           /\ Tally(f, S, x) = 0 <=> \A i \in S : f[i] # x
<1> DEFINE T == {i \in S : f[i] = x}
<1>1. T \in SUBSET S
    OBVIOUS
<1>2. IsFiniteSet(T)
    BY <1>1, FS_Subset, Zenon
<1>3. Cardinality(T) \in Nat
    BY <1>2, FS_CardinalityType, Zenon
<1>4. Cardinality(T) = 0 <=> T = {}
    BY <1>2, FS_EmptySet, Zenon
<1> QED BY <1>2, <1>3, <1>4 DEF Tally

\* One slot apart.
LEMMA TallyOne ==
    ASSUME NEW f, NEW S, IsFiniteSet(S), NEW i \in S, NEW x
    PROVE  Tally(f, S, x) = Tally(f, S \ {i}, x) + (IF f[i] = x THEN 1 ELSE 0)
<1> DEFINE T == {j \in S : f[j] = x}
           U == {j \in S \ {i} : f[j] = x}
<1>1. IsFiniteSet(S \ {i})
    BY FS_RemoveElement, Zenon
<1>2. IsFiniteSet(U) /\ Cardinality(U) \in Nat
    BY <1>1, TallyFinite DEF Tally
<1>3. CASE f[i] = x
    <2>1. T = U \cup {i} /\ i \notin U
        BY <1>3
    <2>2. Cardinality(U \cup {i}) = Cardinality(U) + 1
        BY <1>2, <2>1, FS_AddElement, Zenon
    <2> HIDE DEF T, U
    <2>3. Cardinality(T) = Cardinality(U) + 1
        BY <2>1, <2>2
    <2> QED BY <1>3, <2>3 DEF Tally, T, U
<1>4. CASE f[i] # x
    <2>1. T = U
        BY <1>4
    <2>2. Tally(f, S, x) = Tally(f, S \ {i}, x) /\ Tally(f, S \ {i}, x) \in Nat
        BY <1>2, <2>1 DEF Tally
    <2> QED BY <1>4, <2>2
<1> QED BY <1>3, <1>4

LEMMA TallySame ==
    ASSUME NEW f, NEW g, NEW S, \A i \in S : g[i] = f[i], NEW x
    PROVE  Tally(g, S, x) = Tally(f, S, x)
<1>1. {i \in S : g[i] = x} = {i \in S : f[i] = x}
    OBVIOUS
<1> QED BY <1>1 DEF Tally

\* A swap changes no tally; and what was tallied without i is tallied without j.
LEMMA TallySwap ==
    ASSUME NEW f, NEW g, NEW S, IsFiniteSet(S), NEW i \in S, NEW j \in S, i # j, NEW x,
           g[i] = f[j], g[j] = f[i], \A k \in S : k # i /\ k # j => g[k] = f[k]
    PROVE  /\ Tally(g, S, x) = Tally(f, S, x)
           /\ Tally(g, S \ {j}, x) = Tally(f, S \ {i}, x)
<1> DEFINE R == (S \ {i}) \ {j}
<1>1. IsFiniteSet(S \ {i}) /\ IsFiniteSet(S \ {j})
    BY FS_RemoveElement, Zenon
<1>2. IsFiniteSet(R)
    BY <1>1, FS_RemoveElement, Zenon
<1>3. Tally(g, R, x) = Tally(f, R, x)
    BY TallySame
<1>4. Tally(f, R, x) \in Nat
    BY <1>2, TallyFinite
<1>5. R = (S \ {j}) \ {i}
    OBVIOUS
<1> HIDE DEF R
<1>6. Tally(f, S \ {i}, x) = Tally(f, R, x) + (IF f[j] = x THEN 1 ELSE 0)
    <2>1. j \in S \ {i}
        OBVIOUS
    <2> QED BY <1>1, <2>1, TallyOne DEF R
<1>7. Tally(g, S \ {j}, x) = Tally(g, R, x) + (IF g[i] = x THEN 1 ELSE 0)
    <2>1. i \in S \ {j}
        OBVIOUS
    <2> QED BY <1>1, <1>5, <2>1, TallyOne
<1>8. Tally(f, S, x) = Tally(f, S \ {i}, x) + (IF f[i] = x THEN 1 ELSE 0)
    BY TallyOne
<1>9. Tally(g, S, x) = Tally(g, S \ {j}, x) + (IF g[j] = x THEN 1 ELSE 0)
    BY TallyOne
<1>10. Tally(g, S \ {j}, x) = Tally(f, S \ {i}, x)
    BY <1>3, <1>6, <1>7
<1> QED BY <1>8, <1>9, <1>10
\* One sample more at the end.
LEMMA TallyLast ==
    ASSUME NEW f, NEW n \in Nat, NEW x
    PROVE  Tally(f, 0..n, x) = Tally(f, 0..(n - 1), x) + (IF f[n] = x THEN 1 ELSE 0)
<1> DEFINE R == 0..n
<1>1. IsFiniteSet(R) /\ n \in R
    BY UpToFinite
<1>2. R \ {n} = 0..(n - 1)
    OBVIOUS
<1> HIDE DEF R
<1>3. Tally(f, R, x) = Tally(f, R \ {n}, x) + (IF f[n] = x THEN 1 ELSE 0)
    BY <1>1, TallyOne
<1> QED BY <1>2, <1>3 DEF R

\* Two samples change places.
Exchanged(f, S, i, j) ==
    [k \in S |-> IF k = i THEN f[j] ELSE IF k = j THEN f[i] ELSE f[k]]

LEMMA TallyExchanged ==
    ASSUME NEW f, NEW S, IsFiniteSet(S), NEW i \in S, NEW j \in S, NEW x
    PROVE  Tally(Exchanged(f, S, i, j), S, x) = Tally(f, S, x)
<1> DEFINE g == Exchanged(f, S, i, j)
<1>1. g[i] = f[j] /\ g[j] = f[i] /\ \A k \in S : k # i /\ k # j => g[k] = f[k]
    BY DEF Exchanged
<1> HIDE DEF g
<1>2. CASE i = j
    <2>1. \A k \in S : g[k] = f[k]
        BY <1>1, <1>2
    <2>2. Tally(g, S, x) = Tally(f, S, x)
        BY <2>1, TallySame
    <2> QED BY <2>2 DEF g
<1>3. CASE i # j
    <2>1. Tally(g, S, x) = Tally(f, S, x) /\ Tally(g, S \ {j}, x) = Tally(f, S \ {i}, x)
        BY <1>1, <1>3, TallySwap
    <2> QED BY <2>1 DEF g
<1> QED BY <1>2, <1>3

--------------------------------------------------------------------------------
(* Sorting *)

Ascending(t, n) == \A i, j \in 0..(n - 1) : i <= j => t[i] <= t[j]

\* t holds the values of s, each as often.
SameValues(s, t, n) == \A x \in Nat : Tally(s, 0..(n - 1), x) = Tally(t, 0..(n - 1), x)

\* n samples of at most B.
UpTo(B, n) == [0..(n - 1) -> 0..B]

\* Every value of t is one of s.
OccurIn(t, s, n) == \A i \in 0..(n - 1) : \E j \in 0..(n - 1) : s[j] = t[i]

LEMMA SameValuesOccur ==
    ASSUME NEW B \in Nat, NEW n \in Nat, NEW s, NEW t \in UpTo(B, n), SameValues(s, t, n)
    PROVE  OccurIn(t, s, n)
<1> DEFINE D == 0..(n - 1)
<1> SUFFICES ASSUME NEW i \in D PROVE \E j \in D : s[j] = t[i]
    BY DEF OccurIn
<1> DEFINE x == t[i]
<1>0. x \in Nat
    BY DEF UpTo
<1>1. IsFiniteSet(D)
    BY UpToFinite
<1>2. Tally(s, D, x) = Tally(t, D, x)
    BY <1>0 DEF SameValues
<1> HIDE DEF D
<1>3. Tally(t, D, x) # 0
    <2>1. ~\A j \in D : t[j] # x
        OBVIOUS
    <2> QED BY <1>1, <2>1, TallyFinite, Zenon
<1>4. Tally(s, D, x) # 0
    BY <1>2, <1>3
<1> HIDE DEF x
<1>5. ~\A j \in D : s[j] # x
    BY <1>1, <1>4, TallyFinite, Zenon
<1> QED BY <1>5 DEF x

\* Some sample is not below any other.
LEMMA HighestSample ==
    ASSUME NEW B \in Nat, NEW n \in Nat \ {0}, NEW s \in [0..(n - 1) -> 0..B]
    PROVE  \E m \in 0..(n - 1) : \A i \in 0..(n - 1) : s[i] <= s[m]
<1> DEFINE Gaps == {B - s[i] : i \in 0..(n - 1)}
<1>1. \A i \in 0..(n - 1) : s[i] \in 0..B
    OBVIOUS
<1>2. Gaps \in SUBSET Nat
    BY <1>1
<1>3. Gaps # {}
    <2>1. 0 \in 0..(n - 1)
        OBVIOUS
    <2> QED BY <2>1
<1>4. PICK y \in Gaps : \A z \in Gaps : y <= z
    BY <1>2, <1>3, LeastMember, Zenon
<1>5. PICK m \in 0..(n - 1) : y = B - s[m]
    BY <1>4
<1>6. \A i \in 0..(n - 1) : B - s[m] <= B - s[i]
    BY <1>4, <1>5
<1>7. \A i \in 0..(n - 1) : s[i] <= s[m]
    BY <1>1, <1>6
<1> QED BY <1>7

\* The samples of any n can be sorted, as long as they are no more than B.
Sortable(B, n) ==
    \A s \in [0..(n - 1) -> 0..B] :
        \E t \in [0..(n - 1) -> 0..B] : Ascending(t, n) /\ SameValues(s, t, n)

\* The highest sample goes to the end, and the others are sorted.
LEMMA SortableNext ==
    ASSUME NEW B \in Nat, NEW k \in Nat, Sortable(B, k)
    PROVE  Sortable(B, k + 1)
<1> DEFINE n == k + 1
           D == 0..k
           R == 0..(k - 1)
<1>0. n \in Nat \ {0} /\ n - 1 = k /\ 0..(n - 1) = D
    OBVIOUS
<1> HIDE DEF n
<1> SUFFICES ASSUME NEW s \in [0..(n - 1) -> 0..B]
             PROVE  \E t \in [0..(n - 1) -> 0..B] : Ascending(t, n) /\ SameValues(s, t, n)
    BY DEF Sortable, n
<1>1. PICK m \in D : \A i \in D : s[i] <= s[m]
    <2>1. \E m \in 0..(n - 1) : \A i \in 0..(n - 1) : s[i] <= s[m]
        BY <1>0, HighestSample
    <2> QED BY <1>0, <2>1
<1> DEFINE g == Exchanged(s, D, m, k)
           r == [i \in R |-> g[i]]
<1>2. /\ IsFiniteSet(D) /\ k \in D /\ m \in D
      /\ \A i \in R : i \in D /\ i # k
      /\ \A i \in D : i # k => i \in R
    BY UpToFinite
<1>3. /\ \A i \in D : s[i] \in 0..B
      /\ g \in [D -> 0..B] /\ g[k] = s[m] /\ g[m] = s[k]
      /\ \A i \in D : i # m /\ i # k => g[i] = s[i]
      /\ \A i \in R : r[i] = g[i]
      /\ r \in [R -> 0..B]
    BY <1>0, <1>2 DEF Exchanged
<1> HIDE DEF g, r
<1>4. PICK u \in [R -> 0..B] : Ascending(u, k) /\ SameValues(r, u, k)
    BY <1>3 DEF Sortable
<1> DEFINE t == [i \in D |-> IF i = k THEN s[m] ELSE u[i]]
<1>5. t \in [D -> 0..B] /\ t[k] = s[m] /\ \A i \in R : t[i] = u[i]
    BY <1>2, <1>3
<1> HIDE DEF t
<1>6. \A i \in R : u[i] \in Nat /\ u[i] <= s[m]
    <2> SUFFICES ASSUME NEW i \in R PROVE u[i] \in Nat /\ u[i] <= s[m]
        OBVIOUS
    <2>1. u \in UpTo(B, k)
        BY DEF UpTo
    <2>2. OccurIn(u, r, k) /\ u[i] \in Nat
        BY <1>4, <2>1, SameValuesOccur
    <2>3. PICK j \in R : r[j] = u[i]
        BY <2>2 DEF OccurIn
    <2>4. g[j] = u[i] /\ j \in D
        BY <1>2, <1>3, <2>3
    <2>5. g[j] <= s[m]
        <3>1. CASE j = m
            BY <1>1, <1>2, <1>3, <3>1
        <3>2. CASE j # m
            BY <1>1, <1>2, <1>3, <2>4, <3>2
        <3> QED BY <3>1, <3>2
    <2> QED BY <2>2, <2>4, <2>5
<1>7. Ascending(t, n)
    <2> SUFFICES ASSUME NEW i \in D, NEW j \in D, i <= j PROVE t[i] <= t[j]
        BY <1>0 DEF Ascending
    <2>1. CASE j = k
        BY <1>1, <1>2, <1>3, <1>5, <1>6, <2>1
    <2>2. CASE j # k
        <3>1. i \in R /\ j \in R
            BY <2>2
        <3> QED BY <1>4, <1>5, <3>1 DEF Ascending
    <2> QED BY <2>1, <2>2
<1>8. SameValues(s, t, n)
    <2> SUFFICES ASSUME NEW x \in Nat PROVE Tally(s, D, x) = Tally(t, D, x)
        BY <1>0 DEF SameValues
    <2>1. Tally(g, D, x) = Tally(s, D, x)
        BY <1>2, TallyExchanged DEF g
    <2>2. /\ Tally(g, D, x) = Tally(g, R, x) + (IF g[k] = x THEN 1 ELSE 0)
          /\ Tally(t, D, x) = Tally(t, R, x) + (IF t[k] = x THEN 1 ELSE 0)
        BY TallyLast
    <2>3. Tally(r, R, x) = Tally(u, R, x)
        BY <1>4 DEF SameValues
    <2>4. (\A i \in R : r[i] = g[i]) /\ (\A i \in R : t[i] = u[i])
        BY <1>3, <1>5
    <2> HIDE DEF R
    <2>5. Tally(r, R, x) = Tally(g, R, x)
        BY <2>4, TallySame
    <2>6. Tally(t, R, x) = Tally(u, R, x)
        BY <2>4, TallySame
    <2> QED BY <1>3, <1>5, <2>1, <2>2, <2>3, <2>5, <2>6
<1>9. t \in [0..(n - 1) -> 0..B]
    BY <1>0, <1>5
<1> QED BY <1>7, <1>8, <1>9

LEMMA AlwaysSortable ==
    ASSUME NEW B \in Nat, NEW n \in Nat
    PROVE  Sortable(B, n)
<1> DEFINE Bad == {k \in Nat : ~Sortable(B, k)}
<1> SUFFICES ASSUME Bad # {} PROVE FALSE
    OBVIOUS
<1>1. PICK k \in Bad : \A j \in Bad : k <= j
    BY LeastMember, Zenon
<1>2. k \in Nat /\ ~Sortable(B, k)
    BY <1>1
<1>3. CASE k = 0
    <2>1. Sortable(B, 0)
        <3> SUFFICES ASSUME NEW s \in [0..(0 - 1) -> 0..B]
                     PROVE  Ascending(s, 0) /\ SameValues(s, s, 0)
            BY DEF Sortable
        <3> QED BY DEF Ascending, SameValues
    <2> QED BY <1>2, <1>3, <2>1
<1>4. CASE k # 0
    <2>1. k - 1 \in Nat /\ ~(k <= k - 1) /\ (k - 1) + 1 = k
        BY <1>2, <1>4
    <2>2. Sortable(B, k - 1)
        BY <1>1, <2>1
    <2>3. Sortable(B, (k - 1) + 1)
        BY <2>1, <2>2, SortableNext
    <2> QED BY <1>2, <2>1, <2>3
<1> QED BY <1>3, <1>4

\* qsort: the samples in order, each value as often as before.
LEMMA SortedRight ==
    ASSUME NEW B \in Nat, NEW n \in Nat, NEW s \in [0..(n - 1) -> 0..B]
    PROVE  LET t == SortedSamples(s)
           IN  t \in [0..(n - 1) -> 0..B] /\ Ascending(t, n) /\ SameValues(s, t, n)
<1> DEFINE D == 0..(n - 1)
           V == {s[i] : i \in D}
           P(t) == /\ \A i, j \in D : i <= j => t[i] <= t[j]
                   /\ \A x \in V :
                         Cardinality({i \in D : s[i] = x}) = Cardinality({i \in D : t[i] = x})
<1>0. DOMAIN s = D
    OBVIOUS
<1>1. PICK u \in [D -> 0..B] : Ascending(u, n) /\ SameValues(s, u, n)
    BY AlwaysSortable DEF Sortable
<1>2. \A x \in V : x \in 0..B /\ x \in Nat
    OBVIOUS
<1>3. u \in [D -> V]
    <2>1. u \in UpTo(B, n)
        BY DEF UpTo
    <2>2. OccurIn(u, s, n)
        BY <1>1, <2>1, SameValuesOccur
    <2> QED BY <2>2 DEF OccurIn
<1>4. P(u)
    <2>1. \A x \in V : Tally(s, D, x) = Tally(u, D, x)
        BY <1>1, <1>2 DEF SameValues
    <2> QED BY <1>1, <2>1 DEF Ascending, Tally
<1> DEFINE t == CHOOSE v \in [D -> V] : P(v)
<1>5. \E v \in [D -> V] : P(v)
    BY <1>3, <1>4
<1> HIDE DEF P
<1>6. t \in [D -> V] /\ P(t)
    BY <1>5, Zenon
<1>7. SortedSamples(s) = t
    BY <1>0 DEF SortedSamples, P
<1> HIDE DEF t
<1>8. t \in [D -> 0..B]
    BY <1>2, <1>6
<1>9. Ascending(t, n)
    BY <1>6 DEF P, Ascending
<1>10. SameValues(s, t, n)
    <2> SUFFICES ASSUME NEW x \in Nat PROVE Tally(s, D, x) = Tally(t, D, x)
        BY DEF SameValues
    <2>1. CASE x \in V
        BY <1>6, <2>1 DEF P, Tally
    <2>2. CASE x \notin V
        <3>1. IsFiniteSet(D)
            BY UpToFinite
        <3>2. \A i \in D : s[i] # x /\ t[i] # x
            BY <1>6, <2>2
        <3> HIDE DEF D
        <3>3. Tally(s, D, x) = 0
            BY <3>1, <3>2, TallyFinite
        <3>4. Tally(t, D, x) = 0
            BY <3>1, <3>2, TallyFinite
        <3> QED BY <3>3, <3>4
    <2> QED BY <2>1, <2>2
<1> QED BY <1>7, <1>8, <1>9, <1>10

--------------------------------------------------------------------------------
(* The median *)

AtMost(f, S, v) == {i \in S : f[i] <= v}

LEMMA AtMostFinite ==
    ASSUME NEW f, NEW S, IsFiniteSet(S), NEW v
    PROVE  IsFiniteSet(AtMost(f, S, v)) /\ Cardinality(AtMost(f, S, v)) \in Nat
<1>1. AtMost(f, S, v) \in SUBSET S
    BY DEF AtMost
<1>2. IsFiniteSet(AtMost(f, S, v))
    BY <1>1, FS_Subset, Zenon
<1> QED BY <1>2, FS_CardinalityType, Zenon

\* Those of the next value come in addition.
LEMMA AtMostNext ==
    ASSUME NEW f, NEW S, IsFiniteSet(S), \A i \in S : f[i] \in Int, NEW v \in Int
    PROVE  Cardinality(AtMost(f, S, v)) = Cardinality(AtMost(f, S, v - 1)) + Tally(f, S, v)
<1> DEFINE L == AtMost(f, S, v - 1)
           E == {i \in S : f[i] = v}
<1>1. IsFiniteSet(L) /\ Cardinality(L) \in Nat
    BY AtMostFinite
<1>2. IsFiniteSet(E) /\ Cardinality(E) \in Nat
    BY TallyFinite DEF Tally
<1>3. AtMost(f, S, v) = L \cup E /\ L \cap E = {}
    BY DEF AtMost
<1> HIDE DEF L, E
<1>4. Cardinality(L \cup E) = Cardinality(L) + Cardinality(E) - Cardinality(L \cap E)
    BY <1>1, <1>2, FS_Union, Zenon
<1>5. Cardinality(L \cap E) = 0
    BY <1>3, FS_EmptySet, Zenon
<1>6. Cardinality(L \cup E) = Cardinality(L) + Cardinality(E)
    BY <1>1, <1>2, <1>4, <1>5
<1> QED BY <1>3, <1>6 DEF L, E, Tally

\* Of samples with the same values as many are at most v.
CountsAgree(s, t, n, v) ==
    Cardinality(AtMost(s, 0..(n - 1), v)) = Cardinality(AtMost(t, 0..(n - 1), v))

LEMMA SameValuesAgree ==
    ASSUME NEW B \in Nat, NEW n \in Nat, NEW s \in UpTo(B, n), NEW t \in UpTo(B, n),
           SameValues(s, t, n), NEW k \in Nat
    PROVE  CountsAgree(s, t, n, k - 1)
<1> DEFINE D == 0..(n - 1)
           Bad == {h \in Nat : ~CountsAgree(s, t, n, h - 1)}
<1>0. IsFiniteSet(D) /\ \A i \in D : s[i] \in Nat /\ t[i] \in Nat
    BY UpToFinite DEF UpTo
<1> SUFFICES ASSUME Bad # {} PROVE FALSE
    OBVIOUS
<1>1. PICK h \in Bad : \A j \in Bad : h <= j
    BY LeastMember, Zenon
<1>2. h \in Nat /\ ~CountsAgree(s, t, n, h - 1)
    BY <1>1
<1>3. CASE h = 0
    <2>1. AtMost(s, D, 0 - 1) = {} /\ AtMost(t, D, 0 - 1) = {}
        BY <1>0 DEF AtMost
    <2> QED BY <1>2, <1>3, <2>1 DEF CountsAgree
<1>4. CASE h # 0
    <2>1. h - 1 \in Nat /\ ~(h <= h - 1) /\ h - 1 \in Int
        BY <1>2, <1>4
    <2>2. CountsAgree(s, t, n, (h - 1) - 1)
        BY <1>1, <2>1
    <2>3. Tally(s, D, h - 1) = Tally(t, D, h - 1)
        BY <2>1 DEF SameValues
    <2> DEFINE v == h - 1
    <2>4. (\A i \in D : s[i] \in Int) /\ (\A i \in D : t[i] \in Int) /\ v \in Int
        BY <1>0, <2>1
    <2>5. Cardinality(AtMost(s, D, v - 1)) = Cardinality(AtMost(t, D, v - 1))
        BY <2>2 DEF CountsAgree
    <2> HIDE DEF D, v
    <2>6. Cardinality(AtMost(s, D, v)) = Cardinality(AtMost(s, D, v - 1)) + Tally(s, D, v)
        BY <1>0, <2>4, AtMostNext
    <2>7. Cardinality(AtMost(t, D, v)) = Cardinality(AtMost(t, D, v - 1)) + Tally(t, D, v)
        BY <1>0, <2>4, AtMostNext
    <2>8. Cardinality(AtMost(s, D, v)) = Cardinality(AtMost(t, D, v))
        BY <2>3, <2>5, <2>6, <2>7 DEF v
    <2> QED BY <1>2, <2>8 DEF CountsAgree, D, v
<1> QED BY <1>3, <1>4

\* The indices of at least half of n samples.
MostOf(S, n) == 2 * Cardinality(S) >= n

\* The median of the samples in order has half of them on either side, by their places.
LEMMA SortedHalves ==
    ASSUME NEW B \in Nat, NEW n \in Nat \ {0}, NEW t \in UpTo(B, n), Ascending(t, n),
           NEW m, m = IF n % 2 = 0 THEN t[n \div 2 - 1] + t[n \div 2] ELSE 2 * t[n \div 2]
    PROVE  /\ m \in Nat
           /\ MostOf({i \in 0..(n - 1) : 2 * t[i] <= m}, n)
           /\ MostOf({i \in 0..(n - 1) : 2 * t[i] >= m}, n)
<1> DEFINE D == 0..(n - 1)
           h == n \div 2
           l == IF n % 2 = 0 THEN h - 1 ELSE h
<1>1. /\ h \in Nat /\ h \in D /\ l \in D /\ l <= h
      /\ 2 * (l + 1) >= n /\ 2 * (n - h) >= n
      /\ n % 2 = 0 => l = h - 1
      /\ n % 2 # 0 => l = h
    OBVIOUS
<1>2. \A i \in D : t[i] \in Nat
    BY DEF UpTo
<1>3. m = t[l] + t[h]
    BY <1>1, <1>2
<1> HIDE DEF h, l
<1>4. m \in Nat /\ t[l] <= t[h]
    BY <1>1, <1>2, <1>3 DEF Ascending
<1> DEFINE Below == {i \in D : 2 * t[i] <= m}
           Above == {i \in D : 2 * t[i] >= m}
<1>5. 0..l \in SUBSET Below
    <2> SUFFICES ASSUME NEW i \in 0..l PROVE i \in D /\ 2 * t[i] <= m
        OBVIOUS
    <2>1. i \in D /\ t[i] <= t[l]
        BY <1>1 DEF Ascending
    <2> QED BY <1>1, <1>2, <1>3, <1>4, <2>1
<1>6. h..(n - 1) \in SUBSET Above
    <2> SUFFICES ASSUME NEW i \in h..(n - 1) PROVE i \in D /\ 2 * t[i] >= m
        OBVIOUS
    <2>1. i \in D /\ t[h] <= t[i]
        BY <1>1 DEF Ascending
    <2> QED BY <1>1, <1>2, <1>3, <1>4, <2>1
<1>7. IsFiniteSet(Below) /\ IsFiniteSet(Above)
    <2>1. IsFiniteSet(D) /\ Below \in SUBSET D /\ Above \in SUBSET D
        BY UpToFinite
    <2> QED BY <2>1, FS_Subset, Zenon
<1>8. Cardinality(Below) \in Nat /\ Cardinality(Above) \in Nat
    BY <1>7, FS_CardinalityType, Zenon
<1> HIDE DEF Below, Above
<1>9. Cardinality(0..l) <= Cardinality(Below) /\ Cardinality(h..(n - 1)) <= Cardinality(Above)
    BY <1>5, <1>6, <1>7, FS_Subset, Zenon
<1>10. Cardinality(0..l) = l + 1
    <2>1. Cardinality(0..l) = IF 0 > l THEN 0 ELSE l - 0 + 1
        BY <1>1, FS_Interval, 0 \in Int, l \in Int, Zenon
    <2> QED BY <1>1, <2>1
<1>11. Cardinality(h..(n - 1)) = n - h
    <2>1. h \in Int /\ n - 1 \in Int
        BY <1>1
    <2>2. Cardinality(h..(n - 1)) = IF h > n - 1 THEN 0 ELSE (n - 1) - h + 1
        BY <2>1, FS_Interval, Zenon
    <2> QED BY <1>1, <2>2
<1>12. MostOf(Below, n) /\ MostOf(Above, n)
    BY <1>1, <1>8, <1>9, <1>10, <1>11 DEF MostOf
<1> QED BY <1>4, <1>12 DEF Below, Above

\* So has it among the samples as they were.
LEMMA MedianRight ==
    ASSUME NEW B \in Nat, NEW n \in Nat \ {0}, NEW s \in UpTo(B, n),
           NEW stats, stats = StatsFromSamples(s, n), NEW m, m = stats.twiceMedian
    PROVE  /\ MostOf({i \in 0..(n - 1) : 2 * s[i] <= m}, n)
           /\ MostOf({i \in 0..(n - 1) : 2 * s[i] >= m}, n)
<1> DEFINE D == 0..(n - 1)
           t == SortedSamples(s)
<1>1. t \in UpTo(B, n) /\ Ascending(t, n) /\ SameValues(s, t, n)
    BY SortedRight DEF UpTo
<1>2. m = IF n % 2 = 0 THEN t[n \div 2 - 1] + t[n \div 2] ELSE 2 * t[n \div 2]
    BY DEF StatsFromSamples
<1> HIDE DEF t
<1>3. /\ m \in Nat
      /\ MostOf({i \in 0..(n - 1) : 2 * t[i] <= m}, n)
      /\ MostOf({i \in 0..(n - 1) : 2 * t[i] >= m}, n)
    BY <1>1, <1>2, SortedHalves
<1>4. \A i \in D : s[i] \in Nat /\ t[i] \in Nat
    BY <1>1 DEF UpTo
<1> DEFINE a == m \div 2
           b == (m - 1) \div 2
<1>5. /\ a + 1 \in Nat /\ b + 1 \in Nat /\ (a + 1) - 1 = a /\ (b + 1) - 1 = b
      /\ a \in Int /\ b \in Int
    BY <1>3
<1>6. \A x \in Nat : (2 * x <= m <=> x <= a) /\ (2 * x >= m <=> ~(x <= b))
    BY <1>3
<1> HIDE DEF a, b
<1>7. CountsAgree(s, t, n, a) /\ CountsAgree(s, t, n, b)
    <2>1. CountsAgree(s, t, n, (a + 1) - 1) /\ CountsAgree(s, t, n, (b + 1) - 1)
        BY <1>1, <1>5, SameValuesAgree
    <2> QED BY <1>5, <2>1
<1>8. ASSUME NEW f, \A i \in D : f[i] \in Nat
      PROVE  /\ {i \in D : 2 * f[i] <= m} = AtMost(f, D, a)
             /\ {i \in D : 2 * f[i] >= m} = D \ AtMost(f, D, b)
    BY <1>6, <1>8 DEF AtMost
<1>9. IsFiniteSet(D)
    BY UpToFinite
<1> HIDE DEF D
<1>10. ASSUME NEW f
       PROVE  /\ Cardinality(D \ AtMost(f, D, b)) = Cardinality(D) - Cardinality(AtMost(f, D, b))
              /\ Cardinality(AtMost(f, D, b)) \in Nat /\ Cardinality(D) \in Nat
    <2>1. AtMost(f, D, b) \in SUBSET D
        BY DEF AtMost
    <2>2. D \cap AtMost(f, D, b) = AtMost(f, D, b)
        BY <2>1
    <2>3. IsFiniteSet(AtMost(f, D, b)) /\ Cardinality(AtMost(f, D, b)) \in Nat
        BY <1>9, AtMostFinite
    <2>4. Cardinality(D \ AtMost(f, D, b)) = Cardinality(D) - Cardinality(D \cap AtMost(f, D, b))
        BY <1>9, FS_Difference, Zenon
    <2>5. Cardinality(D) \in Nat
        BY <1>9, FS_CardinalityType, Zenon
    <2> QED BY <2>2, <2>3, <2>4, <2>5
<1>11. MostOf(AtMost(t, D, a), n) /\ MostOf(D \ AtMost(t, D, b), n)
    BY <1>3, <1>4, <1>8 DEF D
<1>12. MostOf(AtMost(s, D, a), n)
    BY <1>7, <1>11 DEF CountsAgree, MostOf, D
<1>13. Cardinality(AtMost(s, D, b)) = Cardinality(AtMost(t, D, b))
    BY <1>7 DEF CountsAgree, D
<1>14. Cardinality(D \ AtMost(s, D, b)) = Cardinality(D \ AtMost(t, D, b))
    BY <1>10, <1>13
<1>15. MostOf(D \ AtMost(s, D, b), n)
    BY <1>11, <1>14 DEF MostOf
<1> QED BY <1>4, <1>8, <1>12, <1>15 DEF D

\* The first and the last of the samples in order are the extremes of all of them.
LEMMA ExtremesRight ==
    ASSUME NEW B \in Nat, NEW n \in Nat \ {0}, NEW s \in UpTo(B, n),
           NEW stats, stats = StatsFromSamples(s, n)
    PROVE  /\ {stats.min, stats.max} \subseteq {s[i] : i \in 0..(n - 1)}
           /\ \A i \in 0..(n - 1) : stats.min <= s[i] /\ s[i] <= stats.max
<1> DEFINE D == 0..(n - 1)
           t == SortedSamples(s)
<1>1. t \in UpTo(B, n) /\ Ascending(t, n) /\ SameValues(s, t, n)
    BY SortedRight DEF UpTo
<1>2. stats.min = t[0] /\ stats.max = t[n - 1]
    BY DEF StatsFromSamples
<1> HIDE DEF t
<1>3. OccurIn(t, s, n)
    BY <1>1, SameValuesOccur
<1>4. OccurIn(s, t, n)
    <2>1. SameValues(t, s, n)
        BY <1>1 DEF SameValues
    <2> QED BY <2>1, SameValuesOccur
<1>5. 0 \in D /\ n - 1 \in D
    OBVIOUS
<1>6. \A i \in D : t[0] <= t[i] /\ t[i] <= t[n - 1]
    BY <1>1, <1>5 DEF Ascending
<1>7. \A i \in D : t[0] <= s[i] /\ s[i] <= t[n - 1]
    <2> SUFFICES ASSUME NEW i \in D PROVE t[0] <= s[i] /\ s[i] <= t[n - 1]
        OBVIOUS
    <2>1. PICK j \in D : t[j] = s[i]
        BY <1>4 DEF OccurIn
    <2> QED BY <1>6, <2>1
<1>8. (\E i \in D : t[0] = s[i]) /\ (\E i \in D : t[n - 1] = s[i])
    BY <1>3, <1>5 DEF OccurIn
<1> QED BY <1>2, <1>7, <1>8

\* scu_bench_stats_from_samples, for any number of samples.
LEMMA StatsAreRight ==
    ASSUME NEW B \in Nat, NEW n \in Nat, NEW s \in UpTo(B, n),
           NEW stats, stats = IF n > 0 THEN StatsFromSamples(s, n) ELSE NoStats
    PROVE  StatsRight(stats, s, n)
<1>1. CASE n > 0
    <2>1. n \in Nat \ {0} /\ stats = StatsFromSamples(s, n)
        BY <1>1
    <2> DEFINE m == stats.twiceMedian
    <2>2. /\ {stats.min, stats.max} \subseteq {s[i] : i \in 0..(n - 1)}
          /\ \A i \in 0..(n - 1) : stats.min <= s[i] /\ s[i] <= stats.max
        BY <2>1, ExtremesRight
    <2>3. /\ MostOf({i \in 0..(n - 1) : 2 * s[i] <= m}, n)
          /\ MostOf({i \in 0..(n - 1) : 2 * s[i] >= m}, n)
        BY <2>1, MedianRight
    <2> QED BY <2>2, <2>3 DEF StatsRight, MostOf
<1>2. CASE ~(n > 0)
    <2>1. n = 0 /\ 0..(n - 1) = {}
        BY <1>2
    <2>2. Cardinality({}) = 0
        BY FS_EmptySet, Zenon
    <2> QED BY <1>2, <2>1, <2>2 DEF StatsRight
<1> QED BY <1>1, <1>2

--------------------------------------------------------------------------------
(* The stopwatch of an iteration *)

\* What the benchmark needs to know of its stopwatch.
StopwatchSound ==
    /\ StopwatchTypeOK
    /\ \A c \in Clock :
          /\ now[c] \in Int /\ 0 <= now[c] /\ now[c] <= MaxTime
          /\ certain[c] \in Int /\ 0 <= certain[c] /\ certain[c] <= MaxTime
          /\ possible[c] \in Int /\ 0 <= possible[c] /\ possible[c] <= now[c]
          /\ answer.ns[c] \in Int
          /\ answer.op = "elapsed" /\ answer.ok =>
                certain[c] <= answer.ns[c] /\ answer.ns[c] <= possible[c]
    /\ now \in Times /\ certain \in Times /\ possible \in Times
    /\ answer.ns \in Times /\ answer.ok \in BOOLEAN
    /\ isRunning \in BOOLEAN
    /\ call = "none" => wallNs = Unread
    /\ call = "start" => ~isRunning

LEMMA StopwatchHolds == StopwatchInv => StopwatchSound
<1> SUFFICES ASSUME StopwatchInv PROVE StopwatchSound
    OBVIOUS
<1> USE DEF Clock, Times
<1>1. StopwatchTypeOK /\ CountsItsRuns /\ InCall /\ PossibleInAll
    BY DEF StopwatchInv
<1>2. /\ now \in Times /\ certain \in Times /\ possible \in Times
      /\ answer.ns \in Times /\ answer.ok \in BOOLEAN
      /\ isRunning \in BOOLEAN
      /\ call = "none" => wallNs = Unread
    BY <1>1 DEF StopwatchTypeOK, Unread
<1>3. \A c \in Clock : possible[c] <= now[c]
    BY <1>1 DEF PossibleInAll
<1>4. \A c \in Clock : answer.op = "elapsed" /\ answer.ok =>
          certain[c] <= answer.ns[c] /\ answer.ns[c] <= possible[c]
    BY <1>1 DEF CountsItsRuns
<1>5. call = "start" => ~isRunning
    BY <1>1 DEF InCall
<1>6. \A c \in Clock : /\ now[c] \in 0..MaxTime /\ certain[c] \in 0..MaxTime
                       /\ possible[c] \in 0..MaxTime /\ answer.ns[c] \in 0..MaxTime
    BY <1>2
<1>7. MaxTime \in Int
    BY MaxTimeAssumption
<1> QED BY <1>1, <1>2, <1>3, <1>4, <1>5, <1>6, <1>7 DEF StopwatchSound

LEMMA StopwatchHoldsNext == StopwatchInv' => StopwatchSound'
BY StopwatchHolds, PTL

\* Time goes on, no time is uncounted, and no clock is counted faster than it goes.
Onward ==
    \A c \in Clock : /\ now[c] <= now'[c] /\ certain[c] <= certain'[c]
                     /\ possible'[c] - now'[c] <= possible[c] - now[c]

LEMMA CallsGoOn ==
    ASSUME StopwatchInv, Start \/ Stop \/ Elapsed
    PROVE  Onward /\ UNCHANGED <<isRunning, now, certain, possible>>
<1>1. UNCHANGED <<isRunning, now, certain, possible>>
    BY DEF Start, Stop, Elapsed, fields, runTimes
<1> QED BY <1>1, StopwatchHolds DEF StopwatchSound, Onward

LEMMA WorkGoesOn ==
    ASSUME StopwatchInv, Work, call # "restart"
    PROVE  Onward /\ now' = now
<1>0. \A c \in Clock : now[c] \in Int /\ certain[c] \in Int /\ possible[c] \in Int
    BY StopwatchHolds DEF StopwatchSound
<1>1. ASSUME ReadWallClock \/ ClocksFailed \/ StartEnd \/ StopEnd
      PROVE  Onward /\ now' = now
    <2>1. UNCHANGED <<now, certain, possible>>
        BY <1>1 DEF ReadWallClock, ClocksFailed, StartEnd, StopEnd, runTimes
    <2> QED BY <1>0, <2>1 DEF Onward
<1>2. ASSUME ElapsedEnd PROVE Onward /\ now' = now
    <2> DEFINE ns == [c \in Clock |-> accNs[c] + Read(now["cpu"])[c] - startNs[c]]
    <2>1. /\ now' = now /\ possible' = possible
          /\ certain' = [c \in Clock |-> IF ns[c] > certain[c] THEN ns[c] ELSE certain[c]]
        BY <1>2 DEF ElapsedEnd
    <2>2. StopwatchInv'
        BY <1>2, StopwatchInvStep DEF StopwatchNext, Work
    <2>3. \A c \in Clock : certain[c] <= certain'[c]
        <3> SUFFICES ASSUME NEW c \in Clock PROVE certain[c] <= certain'[c]
            OBVIOUS
        <3>1. certain'[c] = IF ns[c] > certain[c] THEN ns[c] ELSE certain[c]
            BY <2>1 DEF Clock
        <3> HIDE DEF ns
        <3>2. ns[c] \in Int
            <4>1. StopwatchTypeOK
                BY StopwatchHolds DEF StopwatchSound
            <4>2. accNs[c] \in Int /\ startNs[c] \in Int
                BY <4>1 DEF StopwatchTypeOK, Clock
            <4>3. wallNs \in Int /\ now["cpu"] \in Int
                BY <4>1 DEF StopwatchTypeOK, Unread, Failed, Clock
            <4>4. Read(now["cpu"])[c] \in Int
                BY <4>3 DEF Read, Clock
            <4> QED BY <4>2, <4>4 DEF ns, Clock
        <3> QED BY <1>0, <3>1, <3>2
    <2> QED BY <1>0, <2>1, <2>3 DEF Onward
<1> QED BY <1>1, <1>2 DEF Work, RestartEnd

LEMMA TickGoesOn ==
    ASSUME StopwatchInv, NEW d \in Clock, Tick(d)
    PROVE  /\ Onward /\ UNCHANGED <<isRunning, call>>
           /\ isRunning /\ call = "none" =>
                 \A c \in Clock : now'[c] - certain'[c] = now[c] - certain[c]
<1>0. \A c \in Clock : now[c] \in Int /\ certain[c] \in Int /\ possible[c] \in Int
    BY StopwatchHolds DEF StopwatchSound
<1>1. now \in [Clock -> 0..MaxTime] /\ certain \in [Clock -> 0..MaxTime]
      /\ possible \in [Clock -> 0..MaxTime]
    BY StopwatchHolds DEF StopwatchSound, Times
<1>2. /\ UNCHANGED <<isRunning, call>>
      /\ now' = [now EXCEPT ![d] = @ + 1]
      /\ certain' = [certain EXCEPT ![d] = IF isRunning /\ call = "none" THEN @ + 1 ELSE @]
      /\ possible' = [possible EXCEPT ![d] = IF isRunning \/ call # "none" THEN @ + 1 ELSE @]
    BY DEF Tick, fields
<1>3. \A c \in Clock \ {d} : /\ now'[c] = now[c] /\ certain'[c] = certain[c]
                             /\ possible'[c] = possible[c]
    BY <1>1, <1>2
<1>4. /\ now'[d] = now[d] + 1
      /\ certain'[d] = IF isRunning /\ call = "none" THEN certain[d] + 1 ELSE certain[d]
      /\ possible'[d] = IF isRunning \/ call # "none" THEN possible[d] + 1 ELSE possible[d]
    BY <1>1, <1>2
<1>5. \A c \in Clock \ {d} : /\ now[c] <= now'[c] /\ certain[c] <= certain'[c]
                             /\ possible'[c] - now'[c] <= possible[c] - now[c]
                             /\ now'[c] - certain'[c] = now[c] - certain[c]
    BY <1>0, <1>3
<1>6. /\ now[d] <= now'[d] /\ certain[d] <= certain'[d]
      /\ possible'[d] - now'[d] <= possible[d] - now[d]
      /\ isRunning /\ call = "none" => now'[d] - certain'[d] = now[d] - certain[d]
    BY <1>0, <1>4
<1> QED BY <1>2, <1>5, <1>6 DEF Onward

LEMMA WorkEnds ==
    ASSUME Work, call' = "none"
    PROVE  /\ answer'.op = call /\ answer'.ok \in BOOLEAN
           /\ call = "start" /\ answer'.ok => isRunning'
<1>1. CASE ReadWallClock \/ ClocksFailed
    <2>1. answer' = [op |-> call, ok |-> FALSE, ns |-> Zero]
        BY <1>1 DEF ReadWallClock, ClocksFailed, Answer
    <2> QED BY <2>1
<1>2. CASE StartEnd \/ RestartEnd
    <2>1. answer' = [op |-> call, ok |-> TRUE, ns |-> Zero] /\ isRunning' = TRUE
        BY <1>2 DEF StartEnd, RestartEnd, Answer
    <2> QED BY <2>1
<1>3. CASE StopEnd
    <2>1. answer' = [op |-> call, ok |-> TRUE, ns |-> Zero] /\ call # "start"
        BY <1>3 DEF StopEnd, Answer
    <2> QED BY <2>1
<1>4. CASE ElapsedEnd
    <2>1. PICK ns : answer' = [op |-> call, ok |-> TRUE, ns |-> ns]
        BY <1>4 DEF ElapsedEnd, Answer
    <2>2. call # "start"
        BY <1>4 DEF ElapsedEnd
    <2> QED BY <2>1, <2>2
<1> QED BY <1>1, <1>2, <1>3, <1>4 DEF Work

LEMMA WorkReads ==
    ASSUME Work, call' # "none"
    PROVE  call' = call /\ call # "none" /\ isRunning' = isRunning
<1>1. ReadWallClock
    BY DEF Work, ClocksFailed, StartEnd, RestartEnd, StopEnd, ElapsedEnd,
       Answer
<1> QED BY <1>1 DEF ReadWallClock, Answer, fields

--------------------------------------------------------------------------------
(* The first state *)

LEMMA InvInit == Init => IInv
<1> SUFFICES ASSUME Init PROVE IInv
    OBVIOUS
<1>1. StopwatchInv /\ StopwatchSound
    BY StopwatchInvInit, StopwatchHolds DEF Init
<1>2. warmup \in Nat /\ iterations \in Nat
    BY CountsAssumption DEF Init
<1>3. Zero \in Times /\ \A c \in Clock : Zero[c] = 0
    BY MaxTimeAssumption DEF Zero, Clock, Times
<1>4. TypeOK
    <2>1. timingResult.ok \in BOOLEAN /\ timingResult.ns \in Times
        BY <1>3 DEF Init, NoAnswer
    <2>2. notNull \in [Clock -> BOOLEAN] /\ live \in SUBSET Clock
        BY DEF Init
    <2>3. \A c \in Clock : samples[c] \in [0..(iterations - 1) -> 0..MaxTime \cup {Junk}]
        BY DEF Init
    <2>4. iteration \in 0..(warmup + iterations)
        BY <1>2 DEF Init
    <2> QED BY <1>1, <2>1, <2>2, <2>3, <2>4 DEF TypeOK, StopwatchSound, Init
<1>5. Typed
    <2>1. samples \in [Clock -> [0..(iterations - 1) -> 0..MaxTime \cup {Junk}]]
        BY DEF Init
    <2>2. began \in [iteration : Times, block : Times, took : Times]
        BY <1>3 DEF Init
    <2>3. runs \in [0..(warmup + iterations - 1) -> Run]
        BY <1>3 DEF Init, Run
    <2> QED BY <1>2, <1>4, <2>1, <2>2, <2>3 DEF Typed
<1>6. Placed
    <2>1. call = "none" /\ timingResult.ok
        BY DEF Init, StopwatchInit, NoAnswer
    <2> QED BY <2>1 DEF Placed, Init, InIteration, InBlock
<1>7. Timing
    BY DEF Init, Timing, InBlock
<1>8. RunsOver
    <2>1. \A i \in 0..(warmup + iterations - 1) : ~runs[i].ok /\ ~(i < iteration)
        BY <1>2 DEF Init
    <2>2. DOMAIN runs = 0..(warmup + iterations - 1) /\ pc # "advance"
        BY DEF Init
    <2> QED BY <2>1, <2>2 DEF RunsOver
<1>9. Owned
    BY DEF Init, Owned
<1>10. SamplesCoverBlocks /\ ReportRight
    <2>1. warmup..(iteration - 1) = {}
        BY <1>2 DEF Init
    <2> QED BY <2>1 DEF Init, SamplesCoverBlocks, ReportRight
<1> QED BY <1>1, <1>5, <1>6, <1>7, <1>8, <1>9, <1>10 DEF IInv

--------------------------------------------------------------------------------
(* The steps of SCU_TIME *)

\* A step inside an iteration leaves the context alone, and of the runs it touches this one.
LEMMA CtxKept ==
    ASSUME IInv, StopwatchInv', UNCHANGED ctx, pc \in InBlock, pc' \in InIteration,
           timingResult'.ok \in BOOLEAN, timingResult'.ns \in Times,
           began' \in [iteration : Times, block : Times, took : Times],
           runs' \in [0..(warmup + iterations - 1) -> Run],
           \A i \in 0..(warmup + iterations - 1) : i # iteration => runs'[i] = runs[i],
           runs'[iteration].ok <=> pc' = "advance" /\ timingResult'.ok,
           Placed', Timing'
    PROVE  IInv'
<1>1. /\ warmup' = warmup /\ iterations' = iterations /\ iteration' = iteration
      /\ error' = error /\ samples' = samples /\ notNull' = notNull /\ live' = live
    BY DEF ctx, request, arrays
<1>2. /\ warmup \in Nat /\ iterations \in Nat /\ error = "NONE" /\ iteration \in Int
      /\ pc # "advance" /\ pc \notin {"new", "done"} /\ pc' \notin {"new", "done"}
    BY DEF IInv, Typed, TypeOK, Placed, InBlock, InIteration
<1>3. TypeOK'
    <2>1. StopwatchTypeOK'
        BY StopwatchHoldsNext DEF StopwatchSound
    <2> QED BY <1>1, <2>1 DEF IInv, Typed, TypeOK, InBlock, InIteration
<1>4. Typed'
    BY <1>1, <1>3 DEF IInv, Typed, Run
<1>5. RunsOver'
    <2>1. DOMAIN runs = 0..(warmup + iterations - 1) /\ DOMAIN runs' = DOMAIN runs
        BY DEF IInv, Typed
    <2>2. \A i \in DOMAIN runs : runs[i].ok <=> i < iteration
        BY <1>2 DEF IInv, RunsOver
    <2>3. \A i \in DOMAIN runs :
              runs'[i].ok <=> i < iteration \/ (i = iteration /\ pc' = "advance" /\ timingResult'.ok)
        BY <1>2, <2>1, <2>2
    <2> QED BY <1>1, <2>1, <2>3 DEF RunsOver
<1>6. Owned'
    BY <1>1, <1>2 DEF IInv, Owned
<1>7. SamplesCoverBlocks'
    <2> SUFFICES ASSUME NEW i \in warmup..(iteration - 1), NEW c \in Clock
                 PROVE  /\ samples[c][i - warmup] # Junk
                        /\ ~runs'[i].left => /\ runs'[i].block[c] <= samples[c][i - warmup]
                                             /\ samples[c][i - warmup] <= runs'[i].all[c]
        BY <1>1 DEF SamplesCoverBlocks
    <2>1. runs'[i] = runs[i]
        BY <1>2 DEF IInv, Typed, TypeOK
    <2> QED BY <1>2, <2>1 DEF IInv, SamplesCoverBlocks
<1>8. ReportRight'
    BY <1>2 DEF ReportRight
<1> QED BY <1>4, <1>5, <1>6, <1>7, <1>8 DEF IInv

\* Where the loops are, with what follows for the stopwatch.
LEMMA InBlockFacts ==
    ASSUME IInv, pc \in InBlock
    PROVE  /\ error = "NONE" /\ iteration < warmup + iterations
           /\ iteration \in 0..(warmup + iterations - 1)
           /\ timingResult.ok = TRUE /\ timingResult.ns \in Times
           /\ began.iteration \in Times /\ began.block \in Times /\ began.took \in Times
           /\ began \in [iteration : Times, block : Times, took : Times]
           /\ runs \in [0..(warmup + iterations - 1) -> Run]
           /\ runs[iteration].ok = FALSE
           /\ \A c \in Clock : /\ began.iteration[c] \in Int /\ began.block[c] \in Int
                               /\ began.took[c] \in Int
                               /\ possible[c] <= now[c] - began.iteration[c]
           /\ call # "restart"
<1>1. /\ error = "NONE" /\ iteration < warmup + iterations /\ pc # "advance"
      /\ timingResult.ok
    BY DEF IInv, Placed, InBlock, InIteration
<1>2. /\ warmup \in Nat /\ iterations \in Nat /\ iteration \in 0..(warmup + iterations)
      /\ timingResult.ns \in Times /\ timingResult.ok \in BOOLEAN
      /\ began \in [iteration : Times, block : Times, took : Times]
      /\ runs \in [0..(warmup + iterations - 1) -> Run]
    BY DEF IInv, Typed, TypeOK, Run
<1>3. iteration \in 0..(warmup + iterations - 1)
    BY <1>1, <1>2
<1>4. began.iteration \in Times /\ began.block \in Times /\ began.took \in Times
    BY <1>2
<1>5. \A c \in Clock : began.iteration[c] \in Int /\ began.block[c] \in Int /\ began.took[c] \in Int
    BY <1>4 DEF Times
<1>6. runs[iteration].ok = FALSE
    <2>1. runs[iteration].ok \in BOOLEAN
        BY <1>2, <1>3 DEF Run
    <2>2. ~runs[iteration].ok
        BY <1>1, <1>2, <1>3 DEF IInv, RunsOver
    <2> QED BY <2>1, <2>2
<1>7. \A c \in Clock : possible[c] <= now[c] - began.iteration[c]
    BY DEF IInv, Timing
<1>8. call # "restart"
    BY DEF IInv, Placed, InBlock
<1> QED BY <1>1, <1>2, <1>3, <1>4, <1>5, <1>6, <1>7, <1>8

\* No clock is counted faster than it goes, since the iteration began.
LEMMA PossibleKept ==
    ASSUME IInv, StopwatchInv', pc \in InBlock, Onward
    PROVE  \A c \in Clock : possible'[c] <= now'[c] - began.iteration[c]
<1> SUFFICES ASSUME NEW c \in Clock PROVE possible'[c] <= now'[c] - began.iteration[c]
    OBVIOUS
<1>1. /\ possible[c] \in Int /\ now[c] \in Int /\ possible'[c] \in Int /\ now'[c] \in Int
    BY StopwatchHolds, StopwatchHoldsNext DEF IInv, StopwatchSound
<1> QED BY <1>1, InBlockFacts DEF Onward

\* What is certain of the block stays so.
LEMMA CertainKept ==
    ASSUME IInv, StopwatchInv', pc \in {"stop", "stopped", "elapsed"}, Onward
    PROVE  \A c \in Clock : began.took[c] <= certain'[c]
<1> SUFFICES ASSUME NEW c \in Clock PROVE began.took[c] <= certain'[c]
    OBVIOUS
<1>1. certain[c] \in Int /\ certain'[c] \in Int
    BY StopwatchHolds, StopwatchHoldsNext DEF IInv, StopwatchSound
<1>2. began.took[c] <= certain[c] /\ began.took[c] \in Int
    BY InBlockFacts DEF IInv, Timing, InBlock
<1> QED BY <1>1, <1>2 DEF Onward

LEMMA StopwatchStartStep == IInv /\ StopwatchStart => IInv'
<1> SUFFICES ASSUME IInv, StopwatchStart PROVE IInv'
    OBVIOUS
<1>1. /\ pc = "time" /\ pc' = "start" /\ Start
      /\ UNCHANGED <<ctx, timingResult, began, runs>>
    BY DEF StopwatchStart, history
<1>2. StopwatchInv' /\ Onward
    BY <1>1, StopwatchInvStep, CallsGoOn DEF IInv, StopwatchNext, StopwatchCall
<1>3. pc \in InBlock /\ pc' \in InIteration
    BY <1>1 DEF InBlock, InIteration
<1>4. Placed'
    <2>1. call' = "start"
        BY <1>1 DEF IInv, Placed, Start, ReadClocks
    <2> QED BY <1>1, <1>3, <2>1, InBlockFacts DEF Placed, ctx, request
<1>5. Timing'
    BY <1>1, <1>2, <1>3, PossibleKept DEF Timing
<1> QED BY <1>1, <1>2, <1>3, <1>4, <1>5, CtxKept, InBlockFacts

LEMMA StopwatchReadsStep == IInv /\ StopwatchReads => IInv'
<1> SUFFICES ASSUME IInv, StopwatchReads PROVE IInv'
    OBVIOUS
<1>1. /\ pc' = pc /\ Work /\ call' # "none"
      /\ UNCHANGED <<ctx, timingResult, began, runs>>
    BY DEF StopwatchReads, history
<1>2. call' = call /\ call # "none"
    BY <1>1, WorkReads
<1>3. pc \in {"start", "stop", "elapsed"}
    BY <1>2 DEF IInv, Placed
<1>4. pc \in InBlock /\ pc' \in InIteration /\ call # "restart"
    BY <1>1, <1>3, InBlockFacts DEF InBlock, InIteration
<1>5. StopwatchInv' /\ Onward
    BY <1>1, <1>4, StopwatchInvStep, WorkGoesOn DEF IInv, StopwatchNext
<1>6. Placed'
    BY <1>1, <1>2, <1>3 DEF IInv, Placed, ctx, request
<1>7. Timing'
    BY <1>1, <1>3, <1>4, <1>5, PossibleKept, CertainKept DEF Timing
<1>8. pc' # "advance"
    BY <1>1, <1>3
<1> QED BY <1>1, <1>4, <1>5, <1>6, <1>7, <1>8, CtxKept, InBlockFacts

LEMMA StartedStep == IInv /\ Started => IInv'
<1> SUFFICES ASSUME IInv, Started PROVE IInv'
    OBVIOUS
<1>1. /\ pc = "start" /\ pc' = "block" /\ Work /\ call' = "none" /\ answer'.ok
      /\ began' = [began EXCEPT !.block = now]
      /\ UNCHANGED <<ctx, timingResult, runs>>
    BY DEF Started
<1>2. pc \in InBlock /\ pc' \in InIteration /\ call = "start" /\ call # "restart"
    BY <1>1 DEF IInv, Placed, InBlock, InIteration
<1>3. StopwatchInv' /\ Onward /\ now' = now
    BY <1>1, <1>2, StopwatchInvStep, WorkGoesOn DEF IInv, StopwatchNext
<1>4. isRunning'
    BY <1>1, <1>2, WorkEnds
<1>5. Placed'
    BY <1>1, <1>2, <1>4, InBlockFacts DEF Placed, ctx, request
<1>6. /\ now \in Times
      /\ \A c \in Clock : now[c] \in Int /\ certain'[c] \in Int /\ 0 <= certain'[c]
    BY <1>3, StopwatchHolds, StopwatchHoldsNext DEF IInv, StopwatchSound
<1>7. began' \in [iteration : Times, block : Times, took : Times]
      /\ began'.block = now /\ began'.iteration = began.iteration
    BY <1>1, <1>2, <1>6, InBlockFacts
<1>8. Timing'
    BY <1>1, <1>2, <1>3, <1>6, <1>7, PossibleKept DEF Timing
<1> QED BY <1>1, <1>2, <1>3, <1>5, <1>7, <1>8, CtxKept, InBlockFacts

LEMMA StartFailedStep == IInv /\ StartFailed => IInv'
<1> SUFFICES ASSUME IInv, StartFailed PROVE IInv'
    OBVIOUS
<1>1. /\ pc = "start" /\ pc' = "advance" /\ Work /\ call' = "none" /\ ~answer'.ok
      /\ timingResult' = answer'
      /\ UNCHANGED <<ctx, began, runs>>
    BY DEF StartFailed, history
<1>2. pc \in InBlock /\ pc' \in InIteration /\ call # "restart"
    BY <1>1, InBlockFacts DEF InBlock, InIteration
<1>3. StopwatchInv'
    BY <1>1, StopwatchInvStep DEF IInv, StopwatchNext
<1>4. Placed'
    BY <1>1, <1>2, InBlockFacts DEF Placed, ctx, request
<1>5. Timing'
    BY <1>1 DEF Timing, InBlock
<1>6. answer'.ok \in BOOLEAN /\ answer'.ns \in Times
    BY <1>3, StopwatchHoldsNext DEF StopwatchSound
<1> QED BY <1>1, <1>2, <1>3, <1>4, <1>5, <1>6, CtxKept, InBlockFacts

LEMMA BlockEndStep == IInv /\ BlockEnd => IInv'
<1> SUFFICES ASSUME IInv, BlockEnd PROVE IInv'
    OBVIOUS
<1>1. /\ pc = "block" /\ pc' = "stop" /\ Stop
      /\ began' = [began EXCEPT !.took = Since(began.block)]
      /\ UNCHANGED <<ctx, timingResult, runs>>
    BY DEF BlockEnd
<1>2. pc \in InBlock /\ pc' \in InIteration /\ isRunning
    BY <1>1 DEF IInv, Placed, InBlock, InIteration
<1>3. StopwatchInv' /\ Onward /\ certain' = certain
    BY <1>1, StopwatchInvStep, CallsGoOn DEF IInv, StopwatchNext, StopwatchCall
<1>4. Placed'
    <2>1. call' = "stop"
        BY <1>1, <1>2 DEF Stop, ReadClocks
    <2> QED BY <1>1, <1>2, <2>1, InBlockFacts DEF Placed, ctx, request
<1>5. \A c \in Clock : /\ now[c] - began.block[c] \in 0..MaxTime
                       /\ now[c] - began.block[c] <= certain[c]
    <2> SUFFICES ASSUME NEW c \in Clock
                 PROVE  /\ now[c] - began.block[c] \in 0..MaxTime
                        /\ now[c] - began.block[c] <= certain[c]
        OBVIOUS
    <2>1. began.block[c] <= now[c] /\ now[c] - began.block[c] <= certain[c]
        BY <1>1 DEF IInv, Timing
    <2>2. now[c] \in Int /\ certain[c] \in Int /\ certain[c] <= MaxTime
        BY StopwatchHolds DEF IInv, StopwatchSound
    <2>3. began.block[c] \in Int
        BY <1>2, InBlockFacts
    <2> QED BY <2>1, <2>2, <2>3, MaxTimeAssumption
<1>6. Since(began.block) \in Times
    BY <1>5 DEF Since, Times
<1>7. /\ began' \in [iteration : Times, block : Times, took : Times]
      /\ began'.took = Since(began.block) /\ began'.iteration = began.iteration
    BY <1>1, <1>2, <1>6, InBlockFacts
<1>8. Timing'
    <2>1. \A c \in Clock : began'.took[c] <= certain'[c]
        BY <1>3, <1>5, <1>7 DEF Since
    <2> QED BY <1>1, <1>2, <1>3, <1>7, <2>1, PossibleKept DEF Timing
<1> QED BY <1>1, <1>2, <1>3, <1>4, <1>7, <1>8, CtxKept, InBlockFacts

LEMMA StoppedStep == IInv /\ Stopped => IInv'
<1> SUFFICES ASSUME IInv, Stopped PROVE IInv'
    OBVIOUS
<1>1. /\ pc = "stop" /\ pc' = "stopped" /\ Work /\ call' = "none"
      /\ UNCHANGED <<ctx, timingResult, began, runs>>
    BY DEF Stopped, history
<1>2. pc \in InBlock /\ pc' \in InIteration /\ call # "restart"
    BY <1>1, InBlockFacts DEF InBlock, InIteration
<1>3. StopwatchInv' /\ Onward
    BY <1>1, <1>2, StopwatchInvStep, WorkGoesOn DEF IInv, StopwatchNext
<1>4. Placed'
    BY <1>1, <1>2, InBlockFacts DEF Placed, ctx, request
<1>5. Timing'
    BY <1>1, <1>2, <1>3, PossibleKept, CertainKept DEF Timing
<1> QED BY <1>1, <1>2, <1>3, <1>4, <1>5, CtxKept, InBlockFacts

LEMMA StopwatchElapsedStep == IInv /\ StopwatchElapsed => IInv'
<1> SUFFICES ASSUME IInv, StopwatchElapsed PROVE IInv'
    OBVIOUS
<1>1. /\ pc = "stopped" /\ pc' = "elapsed" /\ Elapsed /\ call' # "none"
      /\ UNCHANGED <<ctx, timingResult, began, runs>>
    BY DEF StopwatchElapsed, history
<1>2. pc \in InBlock /\ pc' \in InIteration
    BY <1>1 DEF InBlock, InIteration
<1>3. StopwatchInv' /\ Onward
    BY <1>1, StopwatchInvStep, CallsGoOn DEF IInv, StopwatchNext, StopwatchCall
<1>4. Placed'
    <2>1. call' = "elapsed"
        BY <1>1 DEF Elapsed, ReadClocks, Answer
    <2> QED BY <1>1, <1>2, <2>1, InBlockFacts DEF Placed, ctx, request
<1>5. Timing'
    BY <1>1, <1>2, <1>3, PossibleKept, CertainKept DEF Timing
<1> QED BY <1>1, <1>2, <1>3, <1>4, <1>5, CtxKept, InBlockFacts

\* How long all of the iteration took so far.
LEMMA SinceIteration ==
    ASSUME IInv, pc \in InBlock
    PROVE  /\ Since(began.iteration) \in Times
           /\ \A c \in Clock : Since(began.iteration)[c] = now[c] - began.iteration[c]
<1>1. \A c \in Clock : now[c] - began.iteration[c] \in 0..MaxTime
    <2> SUFFICES ASSUME NEW c \in Clock PROVE now[c] - began.iteration[c] \in 0..MaxTime
        OBVIOUS
    <2>1. /\ now[c] \in Int /\ now[c] <= MaxTime /\ possible[c] \in Int /\ 0 <= possible[c]
        BY StopwatchHolds DEF IInv, StopwatchSound
    <2>2. began.iteration \in Times /\ possible[c] <= now[c] - began.iteration[c]
        BY InBlockFacts
    <2>3. began.iteration[c] \in Int /\ 0 <= began.iteration[c]
        BY <2>2, MaxTimeAssumption DEF Times
    <2> QED BY <2>1, <2>2, <2>3, MaxTimeAssumption
<1> QED BY <1>1 DEF Since, Times

\* The end of the iteration in the history.
LEMMA RunsChanged ==
    ASSUME IInv, pc \in InBlock, NEW ok \in BOOLEAN, NEW left \in BOOLEAN, IterationEnds(ok, left)
    PROVE  /\ pc' = "advance" /\ began' = began
           /\ runs' \in [0..(warmup + iterations - 1) -> Run]
           /\ \A i \in 0..(warmup + iterations - 1) : i # iteration => runs'[i] = runs[i]
           /\ runs'[iteration] = [block |-> began.took, all |-> Since(began.iteration),
                                  ok |-> ok, left |-> left]
<1> DEFINE r == [block |-> began.took, all |-> Since(began.iteration), ok |-> ok, left |-> left]
<1>1. pc' = "advance" /\ began' = began /\ runs' = [runs EXCEPT ![iteration] = r]
    BY DEF IterationEnds
<1>2. r \in Run
    BY InBlockFacts, SinceIteration DEF Run
<1> HIDE DEF r
<1>3. runs \in [0..(warmup + iterations - 1) -> Run] /\ iteration \in 0..(warmup + iterations - 1)
    BY InBlockFacts
<1>4. /\ runs' \in [0..(warmup + iterations - 1) -> Run]
      /\ \A i \in 0..(warmup + iterations - 1) : i # iteration => runs'[i] = runs[i]
      /\ runs'[iteration] = r
    BY <1>1, <1>2, <1>3
<1> QED BY <1>1, <1>4 DEF r

LEMMA TimedStep == IInv /\ Timed => IInv'
<1> SUFFICES ASSUME IInv, Timed PROVE IInv'
    OBVIOUS
<1>1. /\ pc \in {"stopped", "elapsed"} /\ call' = "none" /\ timingResult' = answer'
      /\ pc = "stopped" => Elapsed
      /\ pc = "elapsed" => Work
      /\ IterationEnds(answer'.ok, FALSE) /\ UNCHANGED ctx
    BY DEF Timed
<1>2. pc \in InBlock /\ call # "restart"
    BY <1>1, InBlockFacts DEF InBlock
<1>3. StopwatchInv' /\ Onward /\ now' = now
    <2>1. CASE pc = "stopped"
        BY <1>1, <2>1, StopwatchInvStep, CallsGoOn DEF IInv, StopwatchNext, StopwatchCall
    <2>2. CASE pc = "elapsed"
        BY <1>1, <1>2, <2>2, StopwatchInvStep, WorkGoesOn DEF IInv, StopwatchNext
    <2> QED BY <1>1, <2>1, <2>2
<1>4. answer'.op = "elapsed"
    <2>1. CASE pc = "stopped"
        BY <1>1, <2>1 DEF Elapsed, ReadClocks, Answer
    <2>2. CASE pc = "elapsed"
        BY <1>1, <2>2, WorkEnds DEF IInv, Placed
    <2> QED BY <1>1, <2>1, <2>2
<1>5. /\ answer'.ok \in BOOLEAN /\ answer'.ns \in Times
      /\ \A c \in Clock : /\ answer'.ns[c] \in Int /\ certain'[c] \in Int /\ possible'[c] \in Int
                          /\ now'[c] \in Int
                          /\ answer'.ok => certain'[c] <= answer'.ns[c] /\ answer'.ns[c] <= possible'[c]
    BY <1>3, <1>4, StopwatchHoldsNext DEF StopwatchSound
<1>6. /\ pc' = "advance" /\ began' = began
      /\ runs' \in [0..(warmup + iterations - 1) -> Run]
      /\ \A i \in 0..(warmup + iterations - 1) : i # iteration => runs'[i] = runs[i]
      /\ runs'[iteration] = [block |-> began.took, all |-> Since(began.iteration),
                             ok |-> answer'.ok, left |-> FALSE]
    BY <1>1, <1>2, <1>5, RunsChanged
<1>7. Placed'
    BY <1>1, <1>2, <1>6, InBlockFacts DEF Placed, ctx, request
<1>8. Timing'
    <2>1. ASSUME answer'.ok, NEW c \in Clock
          PROVE  began.took[c] <= answer'.ns[c] /\ answer'.ns[c] <= Since(began.iteration)[c]
        <3>1. began.took[c] <= certain'[c] /\ began.took[c] \in Int
            BY <1>1, <1>2, <1>3, CertainKept, InBlockFacts
        <3>2. possible'[c] <= now'[c] - began.iteration[c] /\ began.iteration[c] \in Int
            BY <1>2, <1>3, PossibleKept, InBlockFacts
        <3>3. Since(began.iteration)[c] = now'[c] - began.iteration[c]
            BY <1>2, <1>3, SinceIteration
        <3> QED BY <1>5, <2>1, <3>1, <3>2, <3>3
    <2>2. iteration' = iteration
        BY <1>1 DEF ctx
    <2> QED BY <1>1, <1>6, <2>1, <2>2 DEF Timing, InBlock
<1>9. pc' \in InIteration
    BY <1>6 DEF InIteration
<1>10. runs'[iteration].ok <=> pc' = "advance" /\ timingResult'.ok
    BY <1>1, <1>6
<1>11. began' \in [iteration : Times, block : Times, took : Times]
    BY <1>2, <1>6, InBlockFacts
<1> QED BY <1>1, <1>2, <1>3, <1>5, <1>6, <1>7, <1>8, <1>9, <1>10, <1>11, CtxKept

LEMMA BlockLeftStep == IInv /\ BlockLeft => IInv'
<1> SUFFICES ASSUME IInv, BlockLeft PROVE IInv'
    OBVIOUS
<1>1. pc = "block" /\ IterationEnds(TRUE, TRUE) /\ UNCHANGED <<stopwatch, ctx, timingResult>>
    BY DEF BlockLeft
<1>2. pc \in InBlock
    BY <1>1 DEF InBlock
<1>3. StopwatchInv'
    BY <1>1, StopwatchInvStep DEF IInv
<1>4. /\ pc' = "advance" /\ began' = began
      /\ runs' \in [0..(warmup + iterations - 1) -> Run]
      /\ \A i \in 0..(warmup + iterations - 1) : i # iteration => runs'[i] = runs[i]
      /\ runs'[iteration] = [block |-> began.took, all |-> Since(began.iteration),
                             ok |-> TRUE, left |-> TRUE]
    BY <1>1, <1>2, RunsChanged
<1>5. Placed'
    <2>1. call' = "none"
        BY <1>1 DEF IInv, Placed, stopwatch
    <2> QED BY <1>1, <1>2, <1>4, <2>1, InBlockFacts DEF Placed, ctx, request
<1>6. Timing'
    <2>1. iteration' = iteration
        BY <1>1 DEF ctx
    <2> QED BY <1>4, <2>1 DEF Timing, InBlock
<1>7. pc' \in InIteration
    BY <1>4 DEF InIteration
<1>8. runs'[iteration].ok <=> pc' = "advance" /\ timingResult'.ok
    <2>1. timingResult'.ok = TRUE
        BY <1>1, <1>2, InBlockFacts
    <2>2. runs'[iteration].ok = TRUE
        BY <1>4
    <2> QED BY <1>4, <2>1, <2>2
<1>9. /\ began' \in [iteration : Times, block : Times, took : Times]
      /\ timingResult'.ok \in BOOLEAN /\ timingResult'.ns \in Times
    BY <1>1, <1>2, <1>4, InBlockFacts
<1> QED BY <1>1, <1>2, <1>3, <1>4, <1>5, <1>6, <1>7, <1>8, <1>9, CtxKept

--------------------------------------------------------------------------------
(* The steps of bench.c *)

LEMMA CtxNewStep == IInv /\ CtxNew => IInv'
<1> SUFFICES ASSUME IInv, CtxNew PROVE IInv'
    OBVIOUS
<1>1. /\ pc = "new" /\ pc' = "check"
      /\ UNCHANGED <<stopwatch, request, samples, iteration, timingResult, benchResult,
                     began, runs>>
    BY DEF CtxNew, history
<1>2. PICK got \in SUBSET Clock :
          /\ notNull' = [c \in Clock |-> got = Clock /\ iterations > 0]
          /\ live' = IF got = Clock /\ iterations > 0 THEN Clock ELSE {}
          /\ error' = IF iterations > 0 /\ ~(got = Clock /\ iterations > 0)
                      THEN "OUT_OF_MEMORY" ELSE "NONE"
    BY DEF CtxNew
<1>3. warmup \in Nat /\ iterations \in Nat /\ iteration = 0 /\ error = "NONE"
      /\ timingResult.ok /\ call = "none"
    BY <1>1 DEF IInv, Typed, Placed
<1>4. StopwatchInv'
    BY <1>1, StopwatchInvStep DEF IInv
<1>5. UNCHANGED <<warmup, iterations, call, isRunning>>
    BY <1>1 DEF request, stopwatch, fields, runTimes
<1>6. TypeOK'
    <2>1. StopwatchTypeOK'
        BY <1>4, StopwatchHoldsNext DEF StopwatchSound
    <2>2. notNull' \in [Clock -> BOOLEAN]
        BY <1>2
    <2>3. live' \in SUBSET Clock /\ error' \in {"NONE", "OUT_OF_MEMORY", "TIMING_FAILED"}
        BY <1>2
    <2> QED BY <1>1, <1>5, <2>1, <2>2, <2>3 DEF IInv, Typed, TypeOK
<1>7. Typed'
    BY <1>1, <1>5, <1>6 DEF IInv, Typed
<1>8. Placed'
    BY <1>1, <1>3, <1>5 DEF Placed, InBlock, InIteration
<1>9. Timing'
    BY <1>1 DEF Timing, InBlock
<1>10. RunsOver'
    BY <1>1 DEF IInv, RunsOver
<1>11. Owned'
    <2>1. CASE got = Clock /\ iterations > 0
        <3>1. (\A c \in Clock : notNull'[c]) /\ live' = Clock /\ iterations' > 0
            BY <1>2, <1>5, <2>1
        <3>2. error' = "NONE"
            BY <1>2, <2>1
        <3> QED BY <1>1, <3>1, <3>2 DEF Owned
    <2>2. CASE ~(got = Clock /\ iterations > 0)
        <3>1. (\A c \in Clock : ~notNull'[c]) /\ live' = {}
            BY <1>2, <2>2
        <3>2. error' = "NONE" => ~(iterations' > 0)
            BY <1>2, <1>5, <2>2
        <3> QED BY <1>1, <3>1, <3>2 DEF Owned
    <2> QED BY <2>1, <2>2
<1>12. SamplesCoverBlocks' /\ ReportRight'
    <2>1. warmup'..(iteration' - 1) = {}
        BY <1>1, <1>3, <1>5
    <2> QED BY <1>1, <2>1 DEF SamplesCoverBlocks, ReportRight
<1> QED BY <1>4, <1>7, <1>8, <1>9, <1>10, <1>11, <1>12 DEF IInv

LEMMA NextIterationStep == IInv /\ NextIteration => IInv'
<1> SUFFICES ASSUME IInv, NextIteration PROVE IInv'
    OBVIOUS
<1>1. /\ pc = "check" /\ pc' = "time" /\ error = "NONE" /\ iteration < warmup + iterations
      /\ Reset("init") /\ began' = [began EXCEPT !.iteration = now]
      /\ UNCHANGED <<warmup, iterations, iteration, error, timingResult, samples, notNull, live,
                     benchResult, runs>>
    BY DEF NextIteration, request, arrays
<1>2. StopwatchInv'
    BY <1>1, StopwatchInvStep DEF IInv, StopwatchNext, StopwatchCall
<1>3. /\ now' = now /\ possible' = Zero /\ ~isRunning' /\ call' = "none"
    BY <1>1 DEF Reset, Answer
<1>4. now \in Times /\ \A c \in Clock : now[c] \in Int
    BY StopwatchHolds DEF IInv, StopwatchSound
<1>5. began' \in [iteration : Times, block : Times, took : Times] /\ began'.iteration = now
    BY <1>1, <1>4 DEF IInv, Typed
<1>6. TypeOK'
    <2>1. StopwatchTypeOK'
        BY <1>2, StopwatchHoldsNext DEF StopwatchSound
    <2> QED BY <1>1, <2>1 DEF IInv, Typed, TypeOK
<1>7. Typed'
    BY <1>1, <1>5, <1>6 DEF IInv, Typed
<1>8. Placed'
    <2>1. timingResult.ok
        BY <1>1 DEF IInv, Placed
    <2> QED BY <1>1, <1>3, <2>1 DEF Placed, InBlock, InIteration
<1>9. Timing'
    <2>1. \A c \in Clock : possible'[c] <= now'[c] - began'.iteration[c]
        BY <1>3, <1>4, <1>5 DEF Zero, Clock
    <2> QED BY <1>1, <2>1 DEF Timing
<1>10. RunsOver'
    BY <1>1 DEF IInv, RunsOver
<1>11. Owned'
    BY <1>1 DEF IInv, Owned
<1>12. SamplesCoverBlocks' /\ ReportRight'
    BY <1>1 DEF IInv, SamplesCoverBlocks, ReportRight
<1> QED BY <1>2, <1>7, <1>8, <1>9, <1>10, <1>11, <1>12 DEF IInv

LEMMA AdvanceStep == IInv /\ Advance => IInv'
<1> SUFFICES ASSUME IInv, Advance PROVE IInv'
    OBVIOUS
<1> DEFINE ts(c) == [samples[c] EXCEPT ![iteration - warmup] = timingResult.ns[c]]
<1>1. /\ pc = "advance" /\ pc' = "check" /\ timingResult.ok
      /\ samples' = IF iteration >= warmup THEN [c \in Clock |-> ts(c)] ELSE samples
      /\ iteration' = iteration + 1
      /\ UNCHANGED <<stopwatch, warmup, iterations, error, timingResult, notNull, live,
                     benchResult, began, runs>>
    BY DEF Advance, SampleIndex, request, history
<1>2. /\ warmup \in Nat /\ iterations \in Nat /\ error = "NONE"
      /\ iteration \in 0..(warmup + iterations - 1)
      /\ call = "none"
    BY <1>1 DEF IInv, Typed, TypeOK, Placed, InIteration
<1>3. StopwatchInv' /\ UNCHANGED <<call, isRunning>>
    <2>1. StopwatchInv'
        BY <1>1, StopwatchInvStep DEF IInv
    <2>2. UNCHANGED <<call, isRunning>>
        BY <1>1 DEF stopwatch, fields
    <2> QED BY <2>1, <2>2
<1>4. \A c \in Clock : timingResult.ns[c] \in 0..MaxTime /\ timingResult.ns[c] # Junk
    <2>1. \A c \in Clock : timingResult.ns[c] \in 0..MaxTime
        BY DEF IInv, Typed, TypeOK, Times
    <2>2. 0..MaxTime \subseteq Nat
        BY MaxTimeAssumption
    <2> QED BY <2>1, <2>2, JunkAssumption
<1>5. ASSUME iteration >= warmup, NEW c \in Clock
      PROVE  /\ samples'[c] \in [0..(iterations - 1) -> 0..MaxTime \cup {Junk}]
             /\ samples'[c][iteration - warmup] = timingResult.ns[c]
             /\ \A i \in 0..(iterations - 1) :
                   i # iteration - warmup => samples'[c][i] = samples[c][i]
    <2>1. samples'[c] = ts(c)
        BY <1>1, <1>5
    <2>2. iteration - warmup \in 0..(iterations - 1)
        BY <1>2, <1>5
    <2>3. samples[c] \in [0..(iterations - 1) -> 0..MaxTime \cup {Junk}]
        BY DEF IInv, Typed
    <2> QED BY <1>4, <2>1, <2>2, <2>3
<1>6. samples' \in [Clock -> [0..(iterations - 1) -> 0..MaxTime \cup {Junk}]]
    <2>1. CASE iteration >= warmup
        <3> HIDE DEF ts
        <3>1. samples' = [c \in Clock |-> samples'[c]]
            BY <1>1, <2>1
        <3> QED BY <1>5, <2>1, <3>1
    <2>2. CASE ~(iteration >= warmup)
        BY <1>1, <2>2 DEF IInv, Typed
    <2> QED BY <2>1, <2>2
<1> HIDE DEF ts
<1>7. TypeOK'
    <2>1. StopwatchTypeOK'
        BY <1>3, StopwatchHoldsNext DEF StopwatchSound
    <2>2. iteration' \in 0..(warmup' + iterations')
        BY <1>1, <1>2
    <2>3. \A c \in Clock : samples'[c] \in [0..(iterations' - 1) -> 0..MaxTime \cup {Junk}]
        BY <1>1, <1>6
    <2> QED BY <1>1, <2>1, <2>2, <2>3 DEF IInv, Typed, TypeOK
<1>8. Typed'
    BY <1>1, <1>6, <1>7 DEF IInv, Typed
<1>9. Placed'
    BY <1>1, <1>2, <1>3 DEF Placed, InBlock, InIteration
<1>10. Timing'
    BY <1>1 DEF Timing, InBlock
<1>11. RunsOver'
    <2>1. \A i \in DOMAIN runs : runs[i].ok <=> i < iteration \/ i = iteration
        BY <1>1 DEF IInv, RunsOver
    <2>2. \A i \in DOMAIN runs : i \in Int
        BY DEF IInv, Typed
    <2>3. \A i \in DOMAIN runs : runs[i].ok <=> i < iteration + 1
        BY <1>2, <2>1, <2>2
    <2> QED BY <1>1, <2>3 DEF RunsOver
<1>12. Owned'
    BY <1>1 DEF IInv, Owned
<1>13. SamplesCoverBlocks'
    <2> SUFFICES ASSUME NEW i \in warmup..iteration, NEW c \in Clock
                 PROVE  /\ samples'[c][i - warmup] # Junk
                        /\ ~runs[i].left => /\ runs[i].block[c] <= samples'[c][i - warmup]
                                            /\ samples'[c][i - warmup] <= runs[i].all[c]
        BY <1>1, <1>2 DEF SamplesCoverBlocks
    <2>1. iteration >= warmup /\ i - warmup \in 0..(iterations - 1)
        BY <1>2
    <2>2. CASE i = iteration
        <3>1. samples'[c][i - warmup] = timingResult.ns[c]
            BY <1>5, <2>1, <2>2
        <3>2. ~runs[i].left => /\ runs[i].block[c] <= timingResult.ns[c]
                               /\ timingResult.ns[c] <= runs[i].all[c]
            BY <1>1, <2>2 DEF IInv, Timing
        <3> QED BY <1>4, <3>1, <3>2
    <2>3. CASE i # iteration
        <3>1. i \in warmup..(iteration - 1) /\ i - warmup # iteration - warmup
            BY <1>2, <2>3
        <3>2. samples'[c][i - warmup] = samples[c][i - warmup]
            BY <1>5, <2>1, <3>1
        <3>3. /\ samples[c][i - warmup] # Junk
              /\ ~runs[i].left => /\ runs[i].block[c] <= samples[c][i - warmup]
                                  /\ samples[c][i - warmup] <= runs[i].all[c]
            BY <1>2, <3>1 DEF IInv, SamplesCoverBlocks
        <3> QED BY <3>2, <3>3
    <2> QED BY <2>2, <2>3
<1>14. ReportRight'
    BY <1>1 DEF ReportRight
<1> QED BY <1>3, <1>8, <1>9, <1>10, <1>11, <1>12, <1>13, <1>14 DEF IInv

LEMMA AdvanceFailedStep == IInv /\ AdvanceFailed => IInv'
<1> SUFFICES ASSUME IInv, AdvanceFailed PROVE IInv'
    OBVIOUS
<1>1. /\ pc = "advance" /\ pc' = "check" /\ ~timingResult.ok /\ error' = "TIMING_FAILED"
      /\ live' = live \ {c \in Clock : notNull[c]} /\ samples' = samples
      /\ notNull' = [c \in Clock |-> FALSE]
      /\ UNCHANGED <<stopwatch, warmup, iterations, iteration, timingResult, benchResult,
                     began, runs>>
    BY DEF AdvanceFailed, FreeArrays, request, history
<1>2. StopwatchInv' /\ UNCHANGED <<call, isRunning>>
    <2>1. StopwatchInv'
        BY <1>1, StopwatchInvStep DEF IInv
    <2>2. UNCHANGED <<call, isRunning>>
        BY <1>1 DEF stopwatch, fields
    <2> QED BY <2>1, <2>2
<1>3. live' = {}
    BY <1>1 DEF IInv, Owned
<1>4. TypeOK'
    <2>1. StopwatchTypeOK'
        BY <1>2, StopwatchHoldsNext DEF StopwatchSound
    <2> QED BY <1>1, <1>3, <2>1 DEF IInv, Typed, TypeOK
<1>5. Typed'
    BY <1>1, <1>4 DEF IInv, Typed
<1>6. Placed'
    BY <1>1, <1>2 DEF IInv, Placed, InBlock, InIteration
<1>7. Timing' /\ SamplesCoverBlocks' /\ ReportRight'
    BY <1>1 DEF Timing, InBlock, SamplesCoverBlocks, ReportRight
<1>8. RunsOver'
    BY <1>1 DEF IInv, RunsOver
<1>9. Owned'
    BY <1>1, <1>3 DEF Owned
<1> QED BY <1>2, <1>5, <1>6, <1>7, <1>8, <1>9 DEF IInv

\* The report ends the benchmark; what it says is shown below.
LEMMA Reports ==
    ASSUME IInv, NEW stats, NEW n, NEW err, Report(stats, n, err), pc = "check",
           UNCHANGED samples, notNull' \in [Clock -> BOOLEAN], live' = {},
           \A c \in Clock : ~notNull'[c],
           ReportRight'
    PROVE  IInv'
<1>1. /\ pc' = "done"
      /\ UNCHANGED <<stopwatch, warmup, iterations, iteration, error, timingResult, began, runs>>
    BY DEF Report, request, history
<1>2. StopwatchInv' /\ UNCHANGED <<call, isRunning>>
    <2>1. StopwatchInv'
        BY <1>1, StopwatchInvStep DEF IInv
    <2>2. UNCHANGED <<call, isRunning>>
        BY <1>1 DEF stopwatch, fields
    <2> QED BY <2>1, <2>2
<1>3. TypeOK'
    <2>1. StopwatchTypeOK'
        BY <1>2, StopwatchHoldsNext DEF StopwatchSound
    <2> QED BY <1>1, <2>1 DEF IInv, Typed, TypeOK
<1>4. Typed'
    BY <1>1, <1>3 DEF IInv, Typed
<1>5. Placed'
    BY <1>1, <1>2 DEF IInv, Placed, InBlock, InIteration
<1>6. Timing'
    BY <1>1 DEF Timing, InBlock
<1>7. SamplesCoverBlocks'
    BY <1>1 DEF IInv, SamplesCoverBlocks
<1>8. RunsOver'
    BY <1>1 DEF IInv, RunsOver
<1>9. Owned'
    BY <1>1 DEF Owned
<1> QED BY <1>2, <1>4, <1>5, <1>6, <1>7, <1>8, <1>9 DEF IInv

LEMMA ReportErrorStep == IInv /\ ReportError => IInv'
<1> SUFFICES ASSUME IInv, ReportError PROVE IInv'
    OBVIOUS
<1>1. /\ pc = "check" /\ error # "NONE" /\ Report([c \in Clock |-> NoStats], iteration, error)
      /\ UNCHANGED <<samples, notNull, live>>
    BY DEF ReportError, arrays
<1>2. live = {} /\ \A c \in Clock : ~notNull[c]
    BY <1>1 DEF IInv, Owned
<1>3. notNull \in [Clock -> BOOLEAN] /\ warmup \in Nat /\ iterations \in Nat
      /\ iteration \in 0..(warmup + iterations) /\ DOMAIN runs = 0..(warmup + iterations - 1)
    BY DEF IInv, Typed, TypeOK
<1>4. {i \in DOMAIN runs : runs[i].ok} = 0..(iteration - 1)
    <2>1. \A i \in DOMAIN runs : runs[i].ok <=> i < iteration
        BY <1>1 DEF IInv, RunsOver
    <2> QED BY <1>3, <2>1
<1>5. Cardinality(0..(iteration - 1)) = iteration
    <2>1. 0 \in Int /\ iteration - 1 \in Int
        BY <1>3
    <2>2. Cardinality(0..(iteration - 1)) =
              IF 0 > iteration - 1 THEN 0 ELSE (iteration - 1) - 0 + 1
        BY <2>1, FS_Interval, Zenon
    <2> QED BY <1>3, <2>2
<1>6. /\ benchResult'.error = error /\ benchResult'.iterations = iteration
      /\ benchResult'.stats = [c \in Clock |-> NoStats] /\ runs' = runs
    BY <1>1 DEF Report, history
<1>7. ReportRight'
    BY <1>1, <1>4, <1>5, <1>6 DEF ReportRight
<1> QED BY <1>1, <1>2, <1>3, <1>7, Reports

LEMMA ReportStatsStep == IInv /\ ReportStats => IInv'
<1> SUFFICES ASSUME IInv, ReportStats PROVE IInv'
    OBVIOUS
<1> DEFINE stats == [c \in Clock |-> IF iterations > 0
                                     THEN StatsFromSamples(samples[c], iterations)
                                     ELSE NoStats]
<1>1. /\ pc = "check" /\ error = "NONE" /\ iteration >= warmup + iterations
      /\ Report(stats, iterations, "NONE")
      /\ FreeArrays(IF iterations > 0 THEN Clock ELSE {})
    BY DEF ReportStats
<1>2. /\ warmup \in Nat /\ iterations \in Nat /\ iteration = warmup + iterations
      /\ DOMAIN runs = 0..(warmup + iterations - 1)
    BY <1>1 DEF IInv, Typed, TypeOK
<1>3. samples' = samples /\ live' = {} /\ notNull' = [c \in Clock |-> FALSE]
    <2>1. live = {c \in Clock : notNull[c]} /\ \A c \in Clock : notNull[c] <=> iterations > 0
        BY <1>1 DEF IInv, Owned
    <2>2. samples' = samples
        BY <1>1 DEF FreeArrays
    <2>3. CASE iterations > 0
        BY <1>1, <2>1, <2>2, <2>3 DEF FreeArrays
    <2>4. CASE ~(iterations > 0)
        BY <1>1, <2>1, <2>2, <2>4 DEF FreeArrays
    <2> QED BY <2>3, <2>4
<1>4. \A i \in 0..(warmup + iterations - 1) : runs[i].ok
    BY <1>1, <1>2 DEF IInv, RunsOver
<1>5. \A c \in Clock : samples[c] \in UpTo(MaxTime, iterations)
    <2> SUFFICES ASSUME NEW c \in Clock, NEW j \in 0..(iterations - 1)
                 PROVE  samples[c][j] # Junk
        BY DEF IInv, Typed, UpTo
    <2>1. j + warmup \in warmup..(iteration - 1) /\ (j + warmup) - warmup = j
        BY <1>2
    <2>2. samples[c][(j + warmup) - warmup] # Junk
        BY <1>1, <2>1 DEF IInv, SamplesCoverBlocks
    <2> QED BY <2>1, <2>2
<1> HIDE DEF stats
<1>6. /\ benchResult' = [stats |-> stats, iterations |-> iterations, error |-> "NONE"]
      /\ UNCHANGED <<warmup, iterations, runs>>
    BY <1>1 DEF Report, request, history
<1>7. ASSUME NEW c \in Clock PROVE StatsRight(stats[c], samples[c], iterations)
    <2>1. stats[c] = IF iterations > 0 THEN StatsFromSamples(samples[c], iterations) ELSE NoStats
        BY DEF stats
    <2>2. MaxTime \in Nat
        BY MaxTimeAssumption
    <2> QED BY <1>2, <1>5, <2>1, <2>2, StatsAreRight
<1>8. ReportRight'
    BY <1>3, <1>4, <1>6, <1>7 DEF ReportRight
<1> QED BY <1>1, <1>3, <1>8, Reports

--------------------------------------------------------------------------------
(* All steps *)

LEMMA TimeStep == IInv /\ Time => IInv'
<1> SUFFICES ASSUME IInv, Time PROVE IInv'
    OBVIOUS
<1>1. PICK d \in Clock : Tick(d)
    BY DEF Time
<1>2. /\ pc # "done"
      /\ UNCHANGED <<ctx, pc, timingResult, began, runs>>
    BY DEF Time, history
<1>3. StopwatchInv' /\ Onward /\ UNCHANGED <<isRunning, call>>
    BY <1>1, StopwatchInvStep, TickGoesOn DEF IInv, StopwatchNext, ClocksGoOn, Clock
<1>4. /\ UNCHANGED <<warmup, iterations, iteration, error, samples, notNull, live>>
    BY <1>2 DEF ctx, request, arrays
<1>5. TypeOK'
    <2>1. StopwatchTypeOK'
        BY <1>3, StopwatchHoldsNext DEF StopwatchSound
    <2> QED BY <1>2, <1>4, <2>1 DEF IInv, Typed, TypeOK
<1>6. Typed'
    BY <1>2, <1>4, <1>5 DEF IInv, Typed
<1>7. Placed'
    BY <1>2, <1>3, <1>4 DEF IInv, Placed
<1>8. Timing'
    <2>1. CASE pc = "block"
        <3>1. isRunning /\ call = "none" /\ pc \in InBlock
            BY <2>1 DEF IInv, Placed, InBlock
        <3>2. \A c \in Clock : now'[c] - certain'[c] = now[c] - certain[c] /\ now[c] <= now'[c]
            BY <1>1, <3>1, TickGoesOn DEF IInv, Onward
        <3>3. \A c \in Clock : /\ now[c] \in Int /\ certain[c] \in Int
                               /\ now'[c] \in Int /\ certain'[c] \in Int
            BY <1>3, StopwatchHolds, StopwatchHoldsNext DEF IInv, StopwatchSound
        <3>4. \A c \in Clock : /\ began.block[c] \in Int /\ began.block[c] <= now[c]
                               /\ now[c] - began.block[c] <= certain[c]
            BY <2>1, <3>1, InBlockFacts DEF IInv, Timing
        <3>5. \A c \in Clock : /\ began.block[c] <= now'[c]
                               /\ now'[c] - began.block[c] <= certain'[c]
            BY <3>2, <3>3, <3>4
        <3> QED BY <1>2, <1>3, <2>1, <3>1, <3>5, PossibleKept DEF Timing
    <2>2. CASE pc \in {"stop", "stopped", "elapsed"}
        <3>1. pc \in InBlock
            BY <2>2 DEF InBlock
        <3> QED BY <1>2, <1>3, <2>2, <3>1, PossibleKept, CertainKept DEF Timing
    <2>3. CASE pc \in {"time", "start"}
        <3>1. pc \in InBlock
            BY <2>3 DEF InBlock
        <3> QED BY <1>2, <1>3, <2>3, <3>1, PossibleKept DEF Timing
    <2>4. CASE pc \notin InBlock
        BY <1>2, <1>4, <2>4 DEF IInv, Timing, InBlock
    <2> QED BY <2>1, <2>2, <2>3, <2>4 DEF InBlock
<1>9. RunsOver'
    BY <1>2, <1>4 DEF IInv, RunsOver
<1>10. Owned'
    BY <1>2, <1>4 DEF IInv, Owned
<1>11. SamplesCoverBlocks' /\ ReportRight'
    BY <1>2, <1>4 DEF IInv, SamplesCoverBlocks, ReportRight
<1> QED BY <1>3, <1>6, <1>7, <1>8, <1>9, <1>10, <1>11 DEF IInv

LEMMA StutterStep == IInv /\ UNCHANGED vars => IInv'
<1> SUFFICES ASSUME IInv, UNCHANGED vars PROVE IInv'
    OBVIOUS
<1>1. UNCHANGED <<stopwatch, isRunning, now, call, certain, possible, warmup, iterations, pc,
                  iteration, error, timingResult, samples, notNull, live, benchResult, began, runs>>
    BY DEF vars, stopwatch, fields, runTimes, request, arrays, history
<1>2. StopwatchInv'
    BY <1>1, StopwatchInvStep DEF IInv
<1>3. StopwatchTypeOK'
    BY <1>2, StopwatchHoldsNext DEF StopwatchSound
<1>4. TypeOK'
    BY <1>1, <1>3 DEF IInv, Typed, TypeOK
<1>5. Typed'
    BY <1>1, <1>4 DEF IInv, Typed
<1>6. Placed' /\ Timing'
    BY <1>1 DEF IInv, Placed, Timing
<1>7. RunsOver' /\ Owned'
    BY <1>1 DEF IInv, RunsOver, Owned
<1>8. SamplesCoverBlocks' /\ ReportRight'
    BY <1>1 DEF IInv, SamplesCoverBlocks, ReportRight
<1> QED BY <1>2, <1>5, <1>6, <1>7, <1>8 DEF IInv

LEMMA InvStep == IInv /\ [Next]_vars => IInv'
BY CtxNewStep, ReportErrorStep, ReportStatsStep, NextIterationStep, AdvanceStep,
   AdvanceFailedStep, StopwatchStartStep, StopwatchReadsStep, StartedStep, StartFailedStep,
   BlockEndStep, StoppedStep, StopwatchElapsedStep, TimedStep, BlockLeftStep, TimeStep, StutterStep
   DEF Next, Library, Block

--------------------------------------------------------------------------------
(* The theorems *)

\* The context of the benchmark, its samples and its stopwatch stay within their types: no
\* iteration beyond those asked for, no index outside the arrays.
THEOREM TypeCorrect == Spec => []TypeOK
<1>1. IInv => TypeOK
    BY DEF IInv, Typed
<1> QED BY <1>1, InvInit, InvStep, PTL DEF Spec

\* Every sample scu_bench_ctx_advance stores is the time of its own iteration, no less than the
\* block took and no more than the whole iteration, whatever clocks failed when.
THEOREM SamplesCorrect == Spec => []SamplesCoverBlocks
<1>1. IInv => SamplesCoverBlocks
    BY DEF IInv
<1> QED BY <1>1, InvInit, InvStep, PTL DEF Spec

\* The sample arrays are there while they are used and freed once, by the report or by the
\* iteration that failed.
THEOREM ArraysCorrect == Spec => []ArraysFreedOnce
<1>1. IInv => ArraysFreedOnce
    <2> SUFFICES ASSUME IInv PROVE ArraysFreedOnce
        OBVIOUS
    <2>1. \A c \in Clock : notNull[c] => c \in live
        BY DEF IInv, Owned
    <2>2. ASSUME pc = "advance", iteration >= warmup PROVE live = Clock
        <3>1. error = "NONE" /\ iteration < warmup + iterations
            BY <2>2 DEF IInv, Placed, InIteration
        <3>2. iterations > 0
            BY <2>2, <3>1 DEF IInv, Typed, TypeOK
        <3> QED BY <2>2, <3>1, <3>2 DEF IInv, Owned
    <2>3. pc = "done" => live = {}
        BY DEF IInv, Owned
    <2> QED BY <2>1, <2>2, <2>3 DEF ArraysFreedOnce
<1> QED BY <1>1, InvInit, InvStep, PTL DEF Spec

\* scu_bench_ctx_report: after an error no statistics and the iterations that were completed;
\* otherwise those asked for, all of them timed, with the extremes of the samples and a median
\* that has at least half of them on either side.
THEOREM ReportCorrect == Spec => []ReportRight
<1>1. IInv => ReportRight
    BY DEF IInv
<1> QED BY <1>1, InvInit, InvStep, PTL DEF Spec

\* A benchmark drives its stopwatch only by whole calls of the functions of time.h, one behind
\* the other: so CountsItsRuns, for one, holds of the stopwatch of every iteration.
THEOREM UsesStopwatch == Spec => StopwatchSpec
<1>1. Init => StopwatchInit
    BY DEF Init
<1>2. CtxNew \/ ReportError \/ ReportStats \/ Advance \/ AdvanceFailed \/ BlockLeft
          => UNCHANGED stopwatch
    BY DEF CtxNew, ReportError, ReportStats, Report, Advance, AdvanceFailed, BlockLeft
<1>3. NextIteration \/ StopwatchStart \/ BlockEnd \/ StopwatchElapsed => StopwatchCall
    BY DEF NextIteration, StopwatchStart, BlockEnd, StopwatchElapsed, StopwatchCall
<1>4. StopwatchReads \/ Started \/ StartFailed \/ Stopped => Work
    BY DEF StopwatchReads, Started, StartFailed, Stopped
<1>5. Timed => StopwatchCall \/ Work
    BY DEF Timed, StopwatchCall
<1>6. Time => ClocksGoOn
    BY DEF Time, ClocksGoOn
<1>7. UNCHANGED vars => UNCHANGED stopwatch
    BY DEF vars
<1>8. [Next]_vars => [StopwatchNext]_stopwatch
    BY <1>2, <1>3, <1>4, <1>5, <1>6, <1>7 DEF Next, Library, Block, StopwatchNext
<1> QED BY <1>1, <1>8, PTL DEF Spec, StopwatchSpec
================================================================================
