------------------------------- MODULE CheckProofs -------------------------------
(*****************************************************************************)
(* What run_once() returns is whole, for every pipe capacity and every       *)
(* amount of output; and what run_check() says of the runs is right, for     *)
(* every command, every number of runs and every output: its exit code, the  *)
(* run it names, what it compares of an output and what it shows of two.     *)
(*****************************************************************************)
EXTENDS MCCheck, LineDiffProofs, SequenceTheorems, FiniteSetTheorems, WellFoundedInduction,
        TLAPS

-----------------------------------------------------------------------------
(* One run.                                                                  *)

(* The bytes of a pipe are where they have to be. *)
BytesCounted ==
    /\ written \in [R!Pipes -> 0 .. MaxBytes]
    /\ inPipe \in [R!Pipes -> 0 .. Cap]
    /\ buf \in [R!Pipes -> 0 .. MaxBytes]
    /\ \A p \in R!Pipes : buf[p] + inPipe[p] = written[p]

(* Where run_once is tells what it knows of the child. *)
ControlKnows ==
    /\ result = "none" <=> rpc # "done"
    /\ rpc = "reap" \/ result = "timed out" => elapsed
    /\ rpc = "reap" => child # "running"
    /\ rpc \in {"recv out", "recv err"} => child = "reaped"

(* A reader that has sent has drained a pipe that nobody can write to again. *)
SentIsAll ==
    /\ \A p \in R!Pipes : reader[p] = "sent" => inPipe[p] = 0 /\ ~R!Open
    /\ rpc = "recv err" => reader["out"] = "sent"
    /\ result = "ok" => \A p \in R!Pipes : reader[p] = "sent"

(* What was over in time stays so: run_once has nothing left to wait for. *)
OverIsOver ==
    inTime => /\ elapsed
              /\ child # "running"
              /\ \A p \in R!Pipes : reader[p] = "sent"
              /\ rpc \notin {"check", "reap"}

RunInv ==
    /\ R!TypeOK
    /\ BytesCounted
    /\ ControlKnows
    /\ SentIsAll
    /\ OverIsOver
    /\ R!NoZombie
    /\ R!OverInTimeCounts

LEMMA RunInvInit == R!Init => RunInv
<1> SUFFICES ASSUME R!Init PROVE RunInv
    OBVIOUS
<1> USE OneRunAssumption DEF OneRunAssumption, R!CheckAssumption, R!Init
<1>1. BytesCounted
  BY DEF BytesCounted
<1>2. R!TypeOK
  <2>1. reader \in [R!Pipes -> {"reading", "sent"}]
    OBVIOUS
  <2> QED
    BY <1>1, <2>1 DEF R!TypeOK, BytesCounted
<1>3. ControlKnows /\ SentIsAll /\ OverIsOver /\ R!NoZombie /\ R!OverInTimeCounts
  BY DEF ControlKnows, SentIsAll, OverIsOver, R!NoZombie, R!OverInTimeCounts
<1> QED
  BY <1>1, <1>2, <1>3 DEF RunInv

LEMMA BytesStayCounted == BytesCounted /\ [R!Next]_R!vars => BytesCounted'
<1> SUFFICES ASSUME BytesCounted, [R!Next]_R!vars PROVE BytesCounted'
    OBVIOUS
<1> USE OneRunAssumption DEF OneRunAssumption, R!CheckAssumption, BytesCounted
<1>1. ASSUME NEW p \in R!Pipes, R!WriteTo(p) PROVE BytesCounted'
  <2>1. /\ inPipe'[p] = inPipe[p] + 1 /\ inPipe[p] < Cap
        /\ written'[p] = written[p] + 1 /\ written[p] < MaxBytes
        /\ inPipe' \in [R!Pipes -> Nat] /\ written' \in [R!Pipes -> Nat]
        /\ buf' = buf
    BY <1>1 DEF R!WriteTo
  <2>2. \A q \in R!Pipes \ {p} : inPipe'[q] = inPipe[q] /\ written'[q] = written[q]
    BY <1>1 DEF R!WriteTo
  <2> QED
    BY <2>1, <2>2
<1>2. ASSUME NEW p \in R!Pipes, R!Read(p) PROVE BytesCounted'
  <2>1. /\ inPipe'[p] = inPipe[p] - 1 /\ inPipe[p] > 0
        /\ buf'[p] = buf[p] + 1
        /\ inPipe' \in [R!Pipes -> Int] /\ buf' \in [R!Pipes -> Nat]
        /\ written' = written
    BY <1>2 DEF R!Read, R!command
  <2>2. \A q \in R!Pipes \ {p} : inPipe'[q] = inPipe[q] /\ buf'[q] = buf[q]
    BY <1>2 DEF R!Read
  <2>3. buf[p] + 1 <= MaxBytes
    BY <2>1
  <2> QED
    BY <2>1, <2>2, <2>3
<1>3. CASE UNCHANGED <<written, inPipe, buf>>
  BY <1>3
<1> QED
  BY <1>1, <1>2, <1>3
  DEF R!Next, R!RunOnce, R!ChildStep, R!ChildWrites, R!GrandchildWrites, R!Reader, R!ChildExits,
      R!ChildForks, R!GrandchildExits, R!SendBuffer, R!ChildIsOver, R!WaitFails, R!StillRunning,
      R!SleepAndRetry, R!KillChild, R!Reap, R!Receive, R!RecvTimesOut, R!Tick, R!command,
      R!drain, R!vars

LEMMA RunInvNext == RunInv /\ [R!Next]_R!vars => RunInv'
<1> SUFFICES ASSUME RunInv, [R!Next]_R!vars PROVE RunInv'
    OBVIOUS
<1>0. BytesCounted'
  BY BytesStayCounted DEF RunInv
<1> USE <1>0 DEF RunInv, ControlKnows, SentIsAll, OverIsOver, R!TypeOK, R!NoZombie,
        R!OverInTimeCounts, R!Pipes, R!Open, R!options, R!command, R!drain,
        R!timer
<1>1. ASSUME NEW p \in R!Pipes, R!WriteTo(p), child = "running" \/ grandchild = "running"
      PROVE  RunInv'
  <2>1. \A q \in R!Pipes \ {p} : inPipe'[q] = inPipe[q]
    BY <1>1 DEF R!WriteTo, BytesCounted
  <2>2. R!TypeOK'
    <3>1. UNCHANGED <<timeout, hangs, size, rpc, result, elapsed, child, grandchild, reader, inTime>>
      BY <1>1 DEF R!WriteTo
    <3>2. \A q \in R!Pipes : /\ inPipe'[q] \in 0 .. Cap
                             /\ buf'[q] + inPipe'[q] = written'[q]
                             /\ written'[q] \in 0 .. MaxBytes
      BY DEF BytesCounted
    <3> QED BY <3>1, <3>2
  <2>3. SentIsAll'
    BY <1>1, <2>1 DEF R!WriteTo
  <2> QED
    BY <1>1, <2>2, <2>3 DEF R!WriteTo
<1>2. CASE R!ChildExits
  BY <1>2 DEF R!ChildExits
<1>3. CASE R!ChildForks
  BY <1>3 DEF R!ChildForks
<1>4. CASE R!GrandchildExits
  BY <1>4 DEF R!GrandchildExits
<1>5. ASSUME NEW p \in R!Pipes, R!Read(p) PROVE RunInv'
  <2>1. \A q \in R!Pipes \ {p} : inPipe'[q] = inPipe[q]
    BY <1>5 DEF R!Read, BytesCounted
  <2>2. R!TypeOK'
    <3>1. UNCHANGED <<timeout, hangs, size, rpc, result, elapsed, child, grandchild, reader, inTime>>
      BY <1>5 DEF R!Read
    <3>2. \A q \in R!Pipes : /\ inPipe'[q] \in 0 .. Cap
                             /\ buf'[q] + inPipe'[q] = written'[q]
                             /\ written'[q] \in 0 .. MaxBytes
      BY DEF BytesCounted
    <3> QED BY <3>1, <3>2
  <2>3. SentIsAll'
    BY <1>5, <2>1 DEF R!Read
  <2> QED
    BY <1>5, <2>2, <2>3 DEF R!Read
<1>6. ASSUME NEW p \in R!Pipes, R!SendBuffer(p) PROVE RunInv'
  BY <1>6 DEF R!SendBuffer
<1>7. CASE R!ChildIsOver
  BY <1>7 DEF R!ChildIsOver
<1>8. CASE R!WaitFails
  BY <1>8 DEF R!WaitFails, R!Return
<1>9. CASE R!StillRunning
  BY <1>9 DEF R!StillRunning
<1>10. CASE R!SleepAndRetry
  BY <1>10 DEF R!SleepAndRetry
<1>11. CASE R!KillChild
  BY <1>11 DEF R!KillChild
<1>12. CASE R!Reap
  BY <1>12 DEF R!Reap, R!Return
<1>13. ASSUME NEW p \in R!Pipes, R!Receive(p) PROVE RunInv'
  BY <1>13 DEF R!Receive, R!Receiving, R!Return
<1>14. ASSUME NEW p \in R!Pipes, R!RecvTimesOut(p) PROVE RunInv'
  BY <1>14 DEF R!RecvTimesOut, R!Receiving, R!Return
<1>15. CASE R!Tick
  BY <1>15 DEF R!Tick
<1>16. CASE UNCHANGED R!vars
  <2>1. /\ UNCHANGED <<timeout, hangs, size, rpc, result, elapsed, child, grandchild>>
        /\ UNCHANGED <<written, inPipe, buf, reader, inTime>>
    BY <1>16 DEF R!vars
  <2>2. R!TypeOK'
    BY <2>1
  <2>3. ControlKnows' /\ OverIsOver' /\ R!NoZombie' /\ R!OverInTimeCounts'
    BY <2>1
  <2>4. SentIsAll'
    BY <2>1
  <2> QED BY <2>2, <2>3, <2>4
<1> QED
  BY <1>1, <1>2, <1>3, <1>4, <1>5, <1>6, <1>7, <1>8, <1>9, <1>10, <1>11, <1>12, <1>13, <1>14,
     <1>15, <1>16
  DEF R!Next, R!RunOnce, R!ChildStep, R!ChildWrites, R!GrandchildWrites, R!Reader

(* Every run_once() keeps the invariant. *)
THEOREM RunInvariance == R!Spec => []RunInv
BY RunInvInit, RunInvNext, PTL DEF R!Spec

-----------------------------------------------------------------------------
(* The comparison of the runs.                                               *)

(* What a run may end in: by itself, or killed. *)
Ended(raw, status, stderr, ignored) ==
    [timed_out |-> FALSE, raw |-> raw, status |-> status, stderr |-> stderr,
     stdout |-> filter_stdout(raw, ignored)]

WasKilled == [timed_out |-> TRUE, raw |-> <<>>, status |-> Killed, stderr |-> "", stdout |-> <<>>]

Outcomes(o) ==
    {Ended(raw, status, stderr, o.ignored) :
        raw \in Outputs[o.command], status \in Statuses[o.command], stderr \in Errors[o.command]}
    \cup {WasKilled}

(* No two runs are compared before all of them are there. *)
Collected ==
    /\ pc = "validate" => results = <<>>
    /\ pc = "run" => Len(results) < options.runs
    /\ pc = "compare" => Len(results) = options.runs
    /\ pc \in {"run", "compare"} => options.runs >= 2

CompareInv ==
    /\ options.runs \in Nat
    /\ results \in Seq(Outcomes(options))
    /\ pc \in {"validate", "run", "compare", "exit"}
    /\ Collected
    /\ ExitContract
    /\ ReportNamesTheFirst

LEMMA CompareInvInit == Init => CompareInv
BY CompareAssumption
DEF Init, CompareInv, Collected, ExitContract, ReportNamesTheFirst, CompareAssumption, Done

(* A run is over: it was not the last, or the comparison is next. *)
LEMMA AnotherRun ==
    ASSUME CompareInv, pc = "run", NEW r \in Outcomes(options), results' = Append(results, r),
           pc' = IF Len(results') = options.runs THEN "compare" ELSE "run",
           UNCHANGED <<options, code, report>>
    PROVE  CompareInv'
<1>1. results' \in Seq(Outcomes(options')) /\ Len(results') = Len(results) + 1
  BY AppendProperties DEF CompareInv
<1> QED
  BY <1>1, LenProperties DEF CompareInv, Collected, ExitContract, ReportNamesTheFirst, Done

LEMMA CompareConcludes == CompareInv /\ Compare => CompareInv'
<1> SUFFICES ASSUME CompareInv, Compare PROVE CompareInv'
    OBVIOUS
<1> DEFINE late  == {i \in DOMAIN results : results[i].timed_out}
           other == {i \in DOMAIN results : ~Matches(results[1], results[i])}
           n     == Len(results)
<1>1. /\ DOMAIN results = 1 .. n /\ n = options.runs /\ n >= 2 /\ n \in Nat
      /\ UNCHANGED <<options, results>>
      /\ pc' = "exit"
  BY LenProperties DEF CompareInv, Collected, Compare, Exit
<1>2. \A i \in 1 .. n : results[i].timed_out \in BOOLEAN
  <2>1. \A r \in Outcomes(options) : r.timed_out \in BOOLEAN
    <3>1. \A raw, status, stderr, ignored :
             Ended(raw, status, stderr, ignored).timed_out \in BOOLEAN
      BY DEF Ended
    <3>2. WasKilled.timed_out \in BOOLEAN
      BY DEF WasKilled
    <3> QED
      BY <3>1, <3>2 DEF Outcomes
  <2> QED
    BY <1>1, <2>1, ElementOfSeq DEF CompareInv
<1>3. late \in SUBSET Nat /\ other \in SUBSET Nat
  BY <1>1
<1>4. SUFFICES ExitContract' /\ ReportNamesTheFirst'
  BY <1>1 DEF CompareInv, Collected
<1> HIDE DEF n
<1>5. CASE late # {}
  <2>1. PICK m : m = Min(late) /\ m \in late /\ \A i \in late : m <= i
    BY <1>3, <1>5, Least
  <2>2. m \in 1 .. n /\ results[m].timed_out /\ \A i \in 1 .. n : results[i].timed_out => m <= i
    BY <1>1, <2>1
  <2>3. code' = 1 /\ report'.kind = "timeout" /\ report'.idx = m
    BY <1>5, <2>1 DEF Compare, Exit, Report
  <2>4. \A i \in 1 .. m - 1 : ~results[i].timed_out
    BY <1>1, <2>2
  <2>5. ExitContract'
    BY <1>1, <2>2, <2>3 DEF ExitContract, Done, n
  <2>6. ReportNamesTheFirst'
    BY <1>1, <2>2, <2>3, <2>4 DEF ReportNamesTheFirst, Done
  <2> QED
    BY <2>5, <2>6
<1>6. CASE late = {} /\ other = {}
  <2>1. \A i \in 1 .. n : ~results[i].timed_out
    BY <1>1, <1>6
  <2>2. \A i \in 1 .. n : Matches(results[1], results[i])
    BY <1>1, <1>6
  <2>3. \A i, j \in 1 .. n : SamePair(results[i], results[j])
    BY <2>2 DEF Matches, SamePair
  <2>4. code' = 0
    BY <1>6 DEF Compare, Exit
  <2> QED
    BY <1>1, <2>1, <2>3, <2>4 DEF ExitContract, ReportNamesTheFirst, Done, n
<1>7. CASE late = {} /\ other # {}
  <2>1. \A i \in 1 .. n : ~results[i].timed_out
    BY <1>1, <1>7
  <2>2. PICK m : m = Min(other) /\ m \in other /\ \A i \in other : m <= i
    BY <1>3, <1>7, Least
  <2>3. /\ m \in 1 .. n /\ ~Matches(results[1], results[m])
        /\ \A i \in 1 .. n : ~Matches(results[1], results[i]) => m <= i
    BY <1>1, <2>2
  <2>4. \A i \in 1 .. n : results[1].timed_out = results[i].timed_out
    BY <1>1, <1>2, <2>1
  <2>5. ~SamePair(results[1], results[m])
    BY <2>3, <2>4 DEF Matches, SamePair
  <2>6. \A i \in 1 .. m - 1 : Matches(results[1], results[i])
    BY <1>1, <2>3
  <2>7. \A i, j \in 1 .. m - 1 : SamePair(results[i], results[j])
    BY <2>6 DEF Matches, SamePair
  <2>8. code' = 1 /\ report'.kind # "timeout" /\ report'.idx = m
    BY <1>7, <2>2 DEF Compare, Exit, Report
  <2>9. ExitContract'
    BY <1>1, <2>3, <2>5, <2>8 DEF ExitContract, Done, n
  <2>10. ReportNamesTheFirst'
    BY <1>1, <2>3, <2>5, <2>7, <2>8 DEF ReportNamesTheFirst, Done
  <2> QED
    BY <2>9, <2>10
<1> QED
  BY <1>5, <1>6, <1>7

LEMMA CompareInvNext == CompareInv /\ [Next]_vars => CompareInv'
<1> SUFFICES ASSUME CompareInv, [Next]_vars PROVE CompareInv'
    OBVIOUS
<1>1. CASE Validate
  BY <1>1, LenProperties
  DEF Validate, Exit, CompareInv, Collected, ExitContract, ReportNamesTheFirst, Done
<1>2. ASSUME NEW raw \in Outputs[options.command], NEW status \in Statuses[options.command],
             NEW stderr \in Errors[options.command], RunEnds(raw, status, stderr)
      PROVE  CompareInv'
  <2>1. Ended(raw, status, stderr, options.ignored) \in Outcomes(options)
    BY DEF Outcomes
  <2>2. results' = Append(results, Ended(raw, status, stderr, options.ignored))
    BY <1>2 DEF RunEnds, Ended
  <2> QED
    BY <1>2, <2>1, <2>2, AnotherRun DEF RunEnds
<1>3. CASE RunTimesOut
  <2>1. WasKilled \in Outcomes(options)
    BY DEF Outcomes
  <2>2. results' = Append(results, WasKilled)
    BY <1>3 DEF RunTimesOut, WasKilled
  <2> QED
    BY <1>3, <2>1, <2>2, AnotherRun DEF RunTimesOut
<1>4. CASE RunFails
  BY <1>4, LenProperties
  DEF RunFails, Exit, CompareInv, Collected, ExitContract, ReportNamesTheFirst, Done
<1>5. CASE Compare
  BY <1>5, CompareConcludes
<1>6. CASE UNCHANGED vars
  BY <1>6 DEF vars, CompareInv, Collected, ExitContract, ReportNamesTheFirst, Done
<1> QED
  BY <1>1, <1>2, <1>3, <1>4, <1>5, <1>6 DEF Next

(* Every check keeps the invariant. *)
THEOREM CompareInvariance == Spec => []CompareInv
BY CompareInvInit, CompareInvNext, PTL DEF Spec

-----------------------------------------------------------------------------
(* A run, and a check of runs, side by side.                                 *)

LEMMA SideBySide == MCSpec => Spec /\ R!Spec
<1>1. MCInit => Init /\ R!Init
  BY DEF MCInit
<1>2. [MCNext]_<<part, vars, rvars>> => [Next]_vars /\ [R!Next]_R!vars
  BY DEF MCNext, rvars, R!vars
<1> QED
  BY <1>1, <1>2, PTL DEF MCSpec, Spec, R!Spec

(* What run_once() returns is all that was written, leaves no zombie, and    *)
(* is no timeout for a run that was over in time.                            *)
THEOREM RunsAreWhole == MCSpec => []ResultsAreWhole
<1>1. RunInv => R!CompleteOutput
  <2> SUFFICES ASSUME RunInv, result = "ok"
               PROVE  ~R!Open /\ \A p \in R!Pipes : buf[p] = written[p]
    BY DEF R!CompleteOutput
  <2>1. \A p \in R!Pipes : inPipe[p] = 0 /\ ~R!Open
    BY DEF RunInv, SentIsAll
  <2>2. \A p \in R!Pipes : buf[p] \in Nat /\ buf[p] + inPipe[p] = written[p]
    BY OneRunAssumption DEF RunInv, BytesCounted, OneRunAssumption, R!CheckAssumption
  <2> QED
    BY <2>1, <2>2 DEF R!Pipes
<1>2. RunInv => ResultsAreWhole
  BY <1>1 DEF RunInv, ResultsAreWhole
<1> QED
  BY <1>2, SideBySide, RunInvariance, PTL

(* run_check() exits 0 exactly if all of at least two runs are alike, 1 if   *)
(* they are not, and names the first that is not.                            *)
THEOREM ExitsRight == MCSpec => []ExitIsRight
<1>1. CompareInv => ExitIsRight
  BY DEF CompareInv, ExitIsRight
<1> QED
  BY <1>1, SideBySide, CompareInvariance, PTL
-----------------------------------------------------------------------------
(* The lines of an output.                                                   *)

(* A sequence that is put together from pieces, each with the place of the   *)
(* next one, until the end is reached.                                       *)
Joins(f, m, head, next) ==
    \A k \in 1 .. m + 2 : f[k] = IF k > m THEN <<>> ELSE head[k] \o f[next[k]]

Onwards(next, m) == next \in [1 .. m -> 1 .. m + 2] /\ \A k \in 1 .. m : next[k] > k

LEMMA Onward ==
    ASSUME NEW m \in Nat, NEW T, NEW head \in [1 .. m -> Seq(T)], NEW next, Onwards(next, m)
    PROVE  \E f \in [1 .. m + 2 -> Seq(T)] : Joins(f, m, head, next)
<1> DEFINE Later(h) == {k \in 1 .. m + 2 : k + h > m}
           value(g, k) == IF k > m THEN <<>> ELSE head[k] \o g[next[k]]
           Joined(h) == \E f \in [Later(h) -> Seq(T)] : \A k \in Later(h) : f[k] = value(f, k)
           none == {h \in Nat : ~Joined(h)}
<1>1. \A k \in 1 .. m : next[k] \in 1 .. m + 2 /\ next[k] > k /\ head[k] \in Seq(T)
  BY DEF Onwards
<1>2. none = {}
  <2> SUFFICES ASSUME none # {} PROVE FALSE
    OBVIOUS
  <2>1. PICK h \in none : \A k \in none : h <= k
    <3>1. none \in SUBSET Nat
      OBVIOUS
    <3> QED BY <3>1, Least
  <2>2. h \in Nat /\ ~Joined(h)
    BY <2>1
  <2>3. CASE h = 0
    <3> DEFINE f == [k \in Later(0) |-> <<>>]
    <3>1. \A k \in Later(0) : k > m
      OBVIOUS
    <3>2. f \in [Later(0) -> Seq(T)]
      BY EmptySeq
    <3>3. \A k \in Later(0) : f[k] = value(f, k)
      BY <3>1
    <3> QED BY <2>2, <2>3, <3>2, <3>3
  <2>4. CASE h # 0
    <3> DEFINE j == h - 1
    <3>1. j \in Nat /\ j < h /\ h = j + 1
      BY <2>2, <2>4
    <3> HIDE DEF j
    <3>2. Joined(j)
      <4> HIDE DEF Joined
      <4> QED BY <2>1, <3>1
    <3>3. PICK f \in [Later(j) -> Seq(T)] : \A k \in Later(j) : f[k] = value(f, k)
      BY <3>2
    <3> DEFINE g == [k \in Later(h) |-> IF k \in Later(j) THEN f[k] ELSE value(f, k)]
    <3>4. \A k \in Later(j) : k \in Later(h)
      BY <3>1
    <3>5. ASSUME NEW k \in Later(h), ~(k > m)
          PROVE  k \in 1 .. m /\ next[k] \in Later(j)
      <4>1. k \in 1 .. m
        BY <3>5
      <4>2. next[k] \in 1 .. m + 2 /\ next[k] > k
        BY <1>1, <4>1
      <4>3. next[k] + j > m
        BY <3>1, <3>5, <4>1, <4>2
      <4> QED BY <4>1, <4>2, <4>3
    <3>6. ASSUME NEW k \in Later(h) PROVE value(f, k) \in Seq(T)
      <4>1. CASE k > m
        BY <4>1, EmptySeq
      <4>2. CASE ~(k > m)
        <5>1. head[k] \in Seq(T) /\ f[next[k]] \in Seq(T)
          BY <1>1, <3>3, <3>5, <4>2
        <5>2. head[k] \o f[next[k]] \in Seq(T)
          BY <5>1, ConcatProperties
        <5> QED BY <4>2, <5>2
      <4> QED BY <4>1, <4>2
    <3>7. g \in [Later(h) -> Seq(T)]
      <4> HIDE DEF Later, value
      <4> QED BY <3>3, <3>6
    <3>8. \A k \in Later(j) : g[k] = f[k]
      <4> HIDE DEF Later, value
      <4> QED BY <3>4
    <3>9. ASSUME NEW k \in Later(h) PROVE g[k] = value(g, k)
      <4>1. g[k] = value(f, k)
        <5>1. k \in Later(j) => f[k] = value(f, k)
          <6> HIDE DEF Later, value
          <6> QED BY <3>3
        <5> HIDE DEF Later, value
        <5> QED BY <5>1
      <4>2. CASE k > m
        <5> HIDE DEF g
        <5> QED BY <4>1, <4>2
      <4>3. CASE ~(k > m)
        <5>1. g[next[k]] = f[next[k]]
          <6> HIDE DEF g, Later
          <6> QED BY <3>5, <3>8, <4>3
        <5> HIDE DEF g
        <5> QED BY <4>1, <4>3, <5>1
      <4> QED BY <4>2, <4>3
    <3>10. Joined(h)
      <4> HIDE DEF g, Later, value
      <4> QED BY <3>7, <3>9
    <3> QED BY <2>2, <3>10
  <2> QED BY <2>3, <2>4
<1>3. Joined(m)
  <2> HIDE DEF Joined
  <2> QED BY <1>2
<1>4. Later(m) = 1 .. m + 2
  OBVIOUS
<1> QED
  BY <1>3, <1>4 DEF Joins

(* Whatever is put together so is a sequence. *)
LEMMA JoinsSeq ==
    ASSUME NEW m \in Nat, NEW T, NEW head \in [1 .. m -> Seq(T)], NEW next, Onwards(next, m),
           NEW g, Joins(g, m, head, next)
    PROVE  \A k \in 1 .. m + 2 : g[k] \in Seq(T)
<1>1. \A k \in 1 .. m : next[k] \in 1 .. m + 2 /\ next[k] > k /\ head[k] \in Seq(T)
  BY DEF Onwards
<1> DEFINE bad == {h \in Nat : \E k \in 1 .. m + 2 : h = m + 2 - k /\ g[k] \notin Seq(T)}
<1>2. ASSUME bad # {} PROVE FALSE
  <2>1. PICK h \in bad : \A j \in bad : h <= j
    <3>1. bad \in SUBSET Nat
      OBVIOUS
    <3> QED BY <1>2, <3>1, Least
  <2>2. PICK k \in 1 .. m + 2 : h = m + 2 - k /\ g[k] \notin Seq(T)
    BY <2>1
  <2>3. g[k] = IF k > m THEN <<>> ELSE head[k] \o g[next[k]]
    BY DEF Joins
  <2>4. ~(k > m)
    BY <2>2, <2>3, EmptySeq
  <2>5. k \in 1 .. m /\ next[k] \in 1 .. m + 2 /\ next[k] > k
    BY <1>1, <2>4
  <2>6. m + 2 - next[k] \in Nat /\ m + 2 - next[k] < h
    BY <2>2, <2>5
  <2>7. g[next[k]] \in Seq(T)
    <3>1. g[next[k]] \notin Seq(T) => m + 2 - next[k] \in bad
      BY <2>5, <2>6
    <3>2. h \in Nat
      BY <2>1
    <3> HIDE DEF bad
    <3> QED BY <2>1, <2>6, <3>1, <3>2
  <2>8. head[k] \o g[next[k]] \in Seq(T)
    BY <1>1, <2>5, <2>7, ConcatProperties
  <2> QED BY <2>2, <2>3, <2>4, <2>8
<1>3. \A k \in 1 .. m + 2 : m + 2 - k \in Nat
  OBVIOUS
<1> QED BY <1>2, <1>3

(* Where a line ends: at the first LF, or behind the output. *)
LEMMA LineEnds ==
    ASSUME NEW S, NEW t \in Seq(S), NEW k \in 1 .. Len(t)
    PROVE  /\ LineEnd(t, k) \in k .. Len(t) + 1
           /\ LineEnd(t, k) <= Len(t) => t[LineEnd(t, k)] = "LF"
           /\ \A j \in k .. LineEnd(t, k) - 1 : t[j] # "LF"
<1> DEFINE E == {j \in k .. Len(t) : t[j] = "LF"} \cup {Len(t) + 1}
<1>1. Len(t) \in Nat
  OBVIOUS
<1>2. E \in SUBSET Nat /\ E # {}
  BY <1>1
<1>3. LineEnd(t, k) = Min(E)
  BY Zenon DEF LineEnd
<1>4. Min(E) \in E /\ \A j \in E : Min(E) <= j
  BY <1>2, Least
<1> DEFINE e == Min(E)
<1> HIDE DEF e
<1>5. e \in k .. Len(t) + 1 /\ (e <= Len(t) => t[e] = "LF")
  BY <1>1, <1>4 DEF e
<1>6. ASSUME NEW j \in k .. e - 1 PROVE t[j] # "LF"
  <2>1. j \in k .. Len(t) /\ j < e
    BY <1>1, <1>5
  <2>2. t[j] = "LF" => e <= j
    BY <1>4, <2>1 DEF e
  <2>3. ~(e <= j)
    BY <1>1, <1>5, <2>1
  <2> QED BY <2>2, <2>3
<1> QED
  BY <1>3, <1>5, <1>6 DEF e

LEMMA Stripped ==
    ASSUME NEW S, NEW line \in Seq(S)
    PROVE  StripCR(line) \in Seq(S)
<1>1. Len(line) \in Nat /\ \A k \in 1 .. Len(line) : line[k] \in S
  BY LenProperties, ElementOfSeq
<1>2. SubSeq(line, 1, Len(line) - 1) \in Seq(S)
  BY <1>1, SubSeqProperties
<1> QED
  BY <1>2 DEF StripCR

(* The lines of an output are a sequence of sequences. *)
LEMMA LinesAre ==
    ASSUME NEW S, NEW t \in Seq(S)
    PROVE  lines(t) \in Seq(Seq(S))
<1> DEFINE m == Len(t)
           head1(k) == <<IF LineEnd(t, k) <= Len(t)
                         THEN StripCR(SubSeq(t, k, LineEnd(t, k) - 1))
                         ELSE SubSeq(t, k, LineEnd(t, k) - 1)>>
           head == [k \in 1 .. m |-> head1(k)]
           next == [k \in 1 .. m |-> LineEnd(t, k) + 1]
           Is(f) == f = [k \in 1 .. Len(t) + 2 |->
                            IF k > Len(t) THEN <<>> ELSE head1(k) \o f[LineEnd(t, k) + 1]]
<1>1. m \in Nat /\ \A k \in 1 .. m : t[k] \in S
  BY LenProperties, ElementOfSeq
<1>2. lines(t) = (CHOOSE f : Is(f))[1]
  BY Zenon DEF lines
<1>3. ASSUME NEW k \in 1 .. m
      PROVE  LineEnd(t, k) + 1 \in 1 .. m + 2 /\ LineEnd(t, k) + 1 > k /\ head1(k) \in Seq(Seq(S))
  <2>1. LineEnd(t, k) \in k .. m + 1
    BY LineEnds
  <2> DEFINE e == LineEnd(t, k)
  <2> HIDE DEF e
  <2>2. e \in k .. m + 1
    BY <2>1 DEF e
  <2>3. SubSeq(t, k, e - 1) \in Seq(S)
    BY <1>1, <2>2, SubSeqProperties
  <2>4. StripCR(SubSeq(t, k, e - 1)) \in Seq(S)
    BY <2>3, Stripped
  <2>5. \A x \in Seq(S) : <<x>> \in Seq(Seq(S))
    OBVIOUS
  <2>6. head1(k) \in Seq(Seq(S))
    BY <2>3, <2>4, <2>5 DEF e
  <2>7. e + 1 \in 1 .. m + 2 /\ e + 1 > k
    BY <1>1, <2>2
  <2> QED BY <2>6, <2>7 DEF e
<1>4. head \in [1 .. m -> Seq(Seq(S))] /\ Onwards(next, m)
  <2> HIDE DEF head1
  <2> QED BY <1>3 DEF Onwards
<1>5. PICK f \in [1 .. m + 2 -> Seq(Seq(S))] : Joins(f, m, head, next)
  <2> HIDE DEF head, next, m
  <2> QED BY <1>1, <1>4, Onward
<1>6. Is(f)
  <2>1. f = [k \in 1 .. m + 2 |-> f[k]]
    OBVIOUS
  <2>2. \A k \in 1 .. m : head[k] = head1(k) /\ next[k] = LineEnd(t, k) + 1
    OBVIOUS
  <2> HIDE DEF head1, head, next, m
  <2>0. \A k \in 1 .. m + 2 : k > m \/ k \in 1 .. m
    BY <1>1
  <2>3. \A k \in 1 .. m + 2 : f[k] = IF k > m THEN <<>> ELSE head1(k) \o f[LineEnd(t, k) + 1]
    BY <1>5, <2>0, <2>2 DEF Joins
  <2> QED BY <2>1, <2>3 DEF m
<1>7. PICK g : g = (CHOOSE x : Is(x)) /\ Is(g)
  <2> HIDE DEF Is
  <2> QED BY <1>6
<1>8. Joins(g, m, head, next)
  <2>1. \A k \in 1 .. m + 2 : g[k] = IF k > m THEN <<>> ELSE head1(k) \o g[LineEnd(t, k) + 1]
    <3> HIDE DEF head1
    <3> QED BY <1>7
  <2>2. \A k \in 1 .. m : head[k] = head1(k) /\ next[k] = LineEnd(t, k) + 1
    OBVIOUS
  <2> HIDE DEF head1, head, next, m
  <2>0. \A k \in 1 .. m + 2 : k > m \/ k \in 1 .. m
    BY <1>1
  <2> QED BY <2>0, <2>1, <2>2 DEF Joins
<1>9. g[1] \in Seq(Seq(S))
  <2>1. 1 \in 1 .. m + 2
    BY <1>1
  <2> HIDE DEF head, next, m, Is, head1
  <2> QED BY <1>1, <1>4, <1>8, <2>1, JoinsSeq
<1> QED
  BY <1>2, <1>7, <1>9


-----------------------------------------------------------------------------
(* The filter.                                                               *)

(* The line that k is on, from k. *)
LineAt(t, k) == StripCR(SubSeq(t, k, LineEnd(t, k) - 1))

LEMMA LineAtIs ==
    ASSUME NEW S, NEW t \in Seq(S), NEW k \in 1 .. Len(t)
    PROVE  /\ LineAt(t, k) \in Seq(S)
           /\ LineEnd(t, k) + 1 \in 1 .. Len(t) + 2
           /\ LineEnd(t, k) + 1 > k
<1>1. Len(t) \in Nat /\ \A j \in 1 .. Len(t) : t[j] \in S
  BY LenProperties, ElementOfSeq
<1> DEFINE e == LineEnd(t, k)
<1>2. e \in k .. Len(t) + 1
  BY LineEnds
<1> HIDE DEF e
<1>3. SubSeq(t, k, e - 1) \in Seq(S)
  BY <1>1, <1>2, SubSeqProperties
<1>4. StripCR(SubSeq(t, k, e - 1)) \in Seq(S)
  BY <1>3, Stripped
<1>5. e + 1 \in 1 .. Len(t) + 2 /\ e + 1 > k
  BY <1>1, <1>2
<1> QED
  BY <1>4, <1>5 DEF e, LineAt

(* What is kept of a line, with its LF. *)
KeptLine(t, k, ignored) ==
    IF LineAt(t, k) \in ignored THEN <<>> ELSE Append(LineAt(t, k), "LF")

Filters(f, t, ignored) ==
    \A k \in 1 .. Len(t) + 2 :
        f[k] = IF k > Len(t) THEN <<>> ELSE KeptLine(t, k, ignored) \o f[LineEnd(t, k) + 1]

LEMMA FilterWalks ==
    ASSUME NEW S, "LF" \in S, NEW t \in Seq(S), NEW ignored
    PROVE  \E f : /\ filter_stdout(t, ignored) = f[1]
                  /\ Filters(f, t, ignored)
                  /\ \A k \in 1 .. Len(t) + 2 : f[k] \in Seq(S)
<1> DEFINE m == Len(t)
           head == [k \in 1 .. m |-> KeptLine(t, k, ignored)]
           next == [k \in 1 .. m |-> LineEnd(t, k) + 1]
           value(f, k) == (IF StripCR(SubSeq(t, k, LineEnd(t, k) - 1)) \in ignored THEN <<>>
                           ELSE Append(StripCR(SubSeq(t, k, LineEnd(t, k) - 1)), "LF"))
                              \o f[LineEnd(t, k) + 1]
           Is(f) == f = [k \in 1 .. Len(t) + 2 |-> IF k > Len(t) THEN <<>> ELSE value(f, k)]
<1>1. m \in Nat
  BY LenProperties
<1>2. filter_stdout(t, ignored) = (CHOOSE f : Is(f))[1]
  BY Zenon DEF filter_stdout
<1>3. ASSUME NEW k \in 1 .. m
      PROVE  LineEnd(t, k) + 1 \in 1 .. m + 2 /\ LineEnd(t, k) + 1 > k /\ head[k] \in Seq(S)
  <2>1. LineAt(t, k) \in Seq(S)
    BY LineAtIs
  <2>2. Append(LineAt(t, k), "LF") \in Seq(S)
    BY <2>1, AppendProperties
  <2>3. KeptLine(t, k, ignored) \in Seq(S)
    BY <2>2, EmptySeq DEF KeptLine
  <2> QED BY <2>3, LineAtIs
<1>4. head \in [1 .. m -> Seq(S)] /\ Onwards(next, m)
  BY <1>3 DEF Onwards
<1>5. PICK f \in [1 .. m + 2 -> Seq(S)] : Joins(f, m, head, next)
  <2> HIDE DEF head, next, m
  <2> QED BY <1>1, <1>4, Onward
<1>6. \A x, k : value(x, k) = KeptLine(t, k, ignored) \o x[LineEnd(t, k) + 1]
  BY DEF KeptLine, LineAt
<1>7. \A k \in 1 .. m : head[k] = KeptLine(t, k, ignored) /\ next[k] = LineEnd(t, k) + 1
  OBVIOUS
<1>8. \A k \in 1 .. m + 2 : k > m \/ k \in 1 .. m
  BY <1>1
<1>9. Is(f)
  <2>1. f = [k \in 1 .. m + 2 |-> f[k]]
    OBVIOUS
  <2> HIDE DEF head, next, m, value
  <2>2. \A k \in 1 .. m + 2 : f[k] = IF k > m THEN <<>> ELSE value(f, k)
    BY <1>5, <1>6, <1>7, <1>8 DEF Joins
  <2> QED BY <2>1, <2>2 DEF m
<1>10. PICK g : g = (CHOOSE x : Is(x)) /\ Is(g)
  <2> HIDE DEF Is
  <2> QED BY <1>9
<1>11. Filters(g, t, ignored)
  <2> HIDE DEF value
  <2>1. \A k \in 1 .. m + 2 : g[k] = IF k > m THEN <<>> ELSE value(g, k)
    BY <1>10
  <2> QED BY <1>6, <2>1 DEF Filters
<1>12. Joins(g, m, head, next)
  <2> HIDE DEF head, next
  <2> QED BY <1>7, <1>8, <1>11 DEF Filters, Joins
<1>13. \A k \in 1 .. m + 2 : g[k] \in Seq(S)
  <2> HIDE DEF head, next, m, Is, value
  <2> QED BY <1>1, <1>4, <1>12, JoinsSeq
<1> QED
  BY <1>2, <1>10, <1>11, <1>13

(* What is filtered stays an output. *)
LEMMA FilterIs ==
    ASSUME NEW S, "LF" \in S, NEW t \in Seq(S), NEW ignored
    PROVE  filter_stdout(t, ignored) \in Seq(S)
<1>1. Len(t) \in Nat
  BY LenProperties
<1>2. 1 \in 1 .. Len(t) + 2
  BY <1>1
<1> QED
  BY <1>2, FilterWalks


-----------------------------------------------------------------------------
(* The filter keeps everything but the line ends.                            *)

(* The first of the places from k on that are an LF. *)
LEMMA LineEndIs ==
    ASSUME NEW S, NEW t \in Seq(S), NEW k \in 1 .. Len(t), NEW e \in k .. Len(t) + 1,
           e <= Len(t) => t[e] = "LF", \A j \in k .. e - 1 : t[j] # "LF"
    PROVE  LineEnd(t, k) = e
<1> DEFINE d == LineEnd(t, k)
<1>1. Len(t) \in Nat
  BY LenProperties
<1>2. d \in k .. Len(t) + 1 /\ (d <= Len(t) => t[d] = "LF") /\ \A j \in k .. d - 1 : t[j] # "LF"
  BY LineEnds
<1> HIDE DEF d
<1>3. ~(d < e)
  <2>1. d < e => d \in k .. e - 1 /\ d <= Len(t)
    BY <1>1, <1>2
  <2> QED BY <1>2, <2>1
<1>4. ~(e < d)
  <2>1. e < d => e \in k .. d - 1 /\ e <= Len(t)
    BY <1>1, <1>2
  <2> QED BY <1>2, <2>1
<1> QED
  BY <1>1, <1>2, <1>3, <1>4 DEF d

(* Every place of a line but its last is on the line of the next place, and  *)
(* the line from it starts with what is there, but for the CR of a CRLF.     *)
LEMMA LineFromNext ==
    ASSUME NEW S, NEW t \in Seq(S), NEW k \in 1 .. Len(t), t[k] # "LF", k < Len(t)
    PROVE  /\ LineEnd(t, k) = LineEnd(t, k + 1)
           /\ LineAt(t, k) = IF t[k] = "CR" /\ LineEnd(t, k) = k + 1 THEN <<>>
                             ELSE <<t[k]>> \o LineAt(t, k + 1)
<1> DEFINE e == LineEnd(t, k + 1)
           n == Len(t)
<1>1. n \in Nat /\ k + 1 \in 1 .. n /\ \A j \in 1 .. n : t[j] \in S
  BY LenProperties, ElementOfSeq
<1>2. e \in k + 1 .. n + 1 /\ (e <= n => t[e] = "LF") /\ \A j \in k + 1 .. e - 1 : t[j] # "LF"
  BY <1>1, LineEnds
<1> HIDE DEF e
<1>3. LineEnd(t, k) = e
  <2>1. e \in k .. Len(t) + 1
    BY <1>1, <1>2
  <2>2. \A j \in k .. e - 1 : t[j] # "LF"
    <3>1. \A j \in k .. e - 1 : j = k \/ j \in k + 1 .. e - 1
      BY <1>1, <1>2
    <3> QED BY <1>2, <3>1
  <2> QED BY <1>1, <1>2, <2>1, <2>2, LineEndIs
<1> DEFINE s == SubSeq(t, k, e - 1)
           r == SubSeq(t, k + 1, e - 1)
<1>4. /\ s \in Seq(S) /\ Len(s) = e - k /\ \A j \in 1 .. e - k : s[j] = t[k + j - 1]
      /\ r \in Seq(S) /\ Len(r) = e - k - 1 /\ \A j \in 1 .. e - k - 1 : r[j] = t[k + j]
  BY <1>1, <1>2, SubSeqProperties
<1>5. LineAt(t, k) = StripCR(s) /\ LineAt(t, k + 1) = StripCR(r)
  BY <1>3 DEF LineAt, e
<1>6. LineEnd(t, k) = LineEnd(t, k + 1)
  BY <1>3 DEF e
<1> HIDE DEF s, r, n
<1>7. CASE e = k + 1
  <2>1. Len(s) = 1 /\ s[1] = t[k] /\ Len(r) = 0
    BY <1>1, <1>4, <1>7
  <2>2. s = <<t[k]>> /\ r = <<>>
    BY <1>4, <2>1
  <2>3. StripCR(r) = <<>> /\ s # <<>>
    BY <2>2 DEF StripCR
  <2>4. StripCR(s) = IF t[k] = "CR" THEN <<>> ELSE s
    <3>1. SubSeq(s, 1, 0) = <<>>
      BY <1>4
    <3>2. s[Len(s)] = t[k] /\ SubSeq(s, 1, Len(s) - 1) = <<>>
      BY <2>1, <3>1
    <3> QED BY <2>3, <3>2 DEF StripCR
  <2>5. <<t[k]>> \o <<>> = <<t[k]>>
    BY <1>1
  <2> QED BY <1>3, <1>6, <1>5, <1>7, <2>2, <2>3, <2>4, <2>5
<1>8. CASE e # k + 1
  <2>1. e - k - 1 \in 1 .. n /\ e - k \in 1 .. n /\ k + (e - k) - 1 = k + (e - k - 1)
    BY <1>1, <1>2, <1>8
  <2>2. s[Len(s)] = r[Len(r)] /\ s # <<>> /\ r # <<>> /\ Len(s) - 1 = Len(r)
    <3>1. s[e - k] = t[k + (e - k) - 1] /\ r[e - k - 1] = t[k + (e - k - 1)]
      BY <1>4, <2>1
    <3> QED BY <1>2, <1>4, <2>1, <3>1
  <2>3. s = <<t[k]>> \o r
    <3> DEFINE c == <<t[k]>> \o r
    <3>1. <<t[k]>> \in Seq(S) /\ Len(<<t[k]>>) = 1
      BY <1>1
    <3>2. c \in Seq(S) /\ Len(c) = e - k
      BY <1>2, <1>4, <3>1, ConcatProperties
    <3>3. ASSUME NEW j \in 1 .. e - k PROVE c[j] = s[j]
      <4>1. CASE j = 1
        <5>1. c[1] = t[k]
          BY <1>4, <3>1
        <5> QED BY <1>1, <1>2, <1>4, <4>1, <5>1
      <4>2. CASE j # 1
        <5>1. j - 1 \in 1 .. e - k - 1 /\ k + (j - 1) = k + j - 1
          BY <1>1, <1>2, <4>2
        <5>2. c[j] = r[j - 1]
          BY <1>4, <3>1, <4>2
        <5>3. r[j - 1] = t[k + (j - 1)] /\ s[j] = t[k + j - 1]
          BY <1>4, <5>1
        <5> QED BY <5>1, <5>2, <5>3
      <4> QED BY <4>1, <4>2
    <3> HIDE DEF c
    <3>4. c = s
      BY <1>4, <3>2, <3>3, SeqEqual
    <3> QED BY <3>4 DEF c
  <2>4. SubSeq(s, 1, Len(s) - 1) = <<t[k]>> \o SubSeq(r, 1, Len(r) - 1)
    <3> DEFINE m == Len(r)
    <3>1. m \in Nat /\ m >= 1 /\ Len(s) = m + 1
      BY <1>2, <1>4, <2>1
    <3> DEFINE x == SubSeq(s, 1, m)
               y == SubSeq(r, 1, m - 1)
               c == <<t[k]>> \o y
    <3>2. x \in Seq(S) /\ Len(x) = m /\ \A j \in 1 .. m : x[j] = s[j]
      BY <1>4, <3>1, SubSeqProperties
    <3>3. y \in Seq(S) /\ Len(y) = m - 1 /\ \A j \in 1 .. m - 1 : y[j] = r[j]
      BY <1>4, <3>1, SubSeqProperties
    <3>4. <<t[k]>> \in Seq(S) /\ Len(<<t[k]>>) = 1
      BY <1>1
    <3> HIDE DEF x, y, m
    <3>5. c \in Seq(S) /\ Len(c) = m
      BY <3>1, <3>3, <3>4, ConcatProperties
    <3>6. ASSUME NEW j \in 1 .. m PROVE c[j] = x[j]
      <4>1. s[j] = IF j = 1 THEN t[k] ELSE r[j - 1]
        BY <1>1, <1>4, <2>3, <3>1 DEF m
      <4>2. c[j] = IF j = 1 THEN t[k] ELSE y[j - 1]
        BY <3>1, <3>3, <3>4
      <4>3. j # 1 => j - 1 \in 1 .. m - 1
        BY <3>1
      <4> QED BY <3>2, <3>3, <4>1, <4>2, <4>3
    <3>7. c = x
      <4> HIDE DEF c
      <4> QED BY <3>2, <3>5, <3>6, SeqEqual
    <3> QED BY <3>1, <3>7 DEF c, x, y, m
  <2>5. StripCR(s) = <<t[k]>> \o StripCR(r)
    BY <2>2, <2>3, <2>4 DEF StripCR
  <2> QED BY <1>3, <1>6, <1>5, <1>8, <2>5
<1> QED
  BY <1>7, <1>8


(* What Canonical keeps of one place. *)
KeptPlace(t, n) == IF t[n] = "CR" /\ t[n + 1] = "LF" THEN <<>> ELSE <<t[n]>>

Cleans(f, t) ==
    \A k \in 1 .. Len(t) + 2 : f[k] = IF k > Len(t) THEN <<>> ELSE KeptPlace(t, k) \o f[k + 1]

LEMMA CanonicalWalks ==
    ASSUME NEW S, NEW raw, Terminated(raw) \in Seq(S)
    PROVE  \E f : /\ Canonical(raw) = f[1]
                  /\ Cleans(f, Terminated(raw))
                  /\ \A k \in 1 .. Len(Terminated(raw)) + 2 : f[k] \in Seq(S)
<1> DEFINE t == Terminated(raw)
           m == Len(t)
           head == [k \in 1 .. m |-> KeptPlace(t, k)]
           next == [k \in 1 .. m |-> k + 1]
           value(f, k) == (IF t[k] = "CR" /\ t[k + 1] = "LF" THEN <<>> ELSE <<t[k]>>) \o f[k + 1]
           Is(f) == f = [k \in 1 .. Len(t) + 2 |-> IF k > Len(t) THEN <<>> ELSE value(f, k)]
<1>1. m \in Nat /\ \A k \in 1 .. m : t[k] \in S
  BY LenProperties, ElementOfSeq
<1>2. Canonical(raw) = (CHOOSE f : Is(f))[1]
  BY Zenon DEF Canonical
<1> HIDE DEF t
<1>3. \A k \in 1 .. m : k + 1 \in 1 .. m + 2 /\ k + 1 > k /\ head[k] \in Seq(S)
  <2>1. \A k \in 1 .. m : KeptPlace(t, k) \in Seq(S)
    BY <1>1 DEF KeptPlace
  <2> QED BY <1>1, <2>1
<1>4. head \in [1 .. m -> Seq(S)] /\ Onwards(next, m)
  BY <1>3 DEF Onwards
<1>5. PICK f \in [1 .. m + 2 -> Seq(S)] : Joins(f, m, head, next)
  <2> HIDE DEF head, next, m
  <2> QED BY <1>1, <1>4, Onward
<1>6. \A x, k : value(x, k) = KeptPlace(t, k) \o x[k + 1]
  BY DEF KeptPlace
<1>7. \A k \in 1 .. m : head[k] = KeptPlace(t, k) /\ next[k] = k + 1
  OBVIOUS
<1>8. \A k \in 1 .. m + 2 : k > m \/ k \in 1 .. m
  BY <1>1
<1>9. Is(f)
  <2>1. f = [k \in 1 .. m + 2 |-> f[k]]
    OBVIOUS
  <2> HIDE DEF head, next, m, value
  <2>2. \A k \in 1 .. m + 2 : f[k] = IF k > m THEN <<>> ELSE value(f, k)
    BY <1>5, <1>6, <1>7, <1>8 DEF Joins
  <2> QED BY <2>1, <2>2 DEF m
<1>10. PICK g : g = (CHOOSE x : Is(x)) /\ Is(g)
  <2> HIDE DEF Is
  <2> QED BY <1>9
<1>11. Cleans(g, t)
  <2> HIDE DEF value
  <2>1. \A k \in 1 .. m + 2 : g[k] = IF k > m THEN <<>> ELSE value(g, k)
    BY <1>10
  <2> QED BY <1>6, <2>1 DEF Cleans
<1>12. Joins(g, m, head, next)
  <2> HIDE DEF head, next
  <2> QED BY <1>7, <1>8, <1>11 DEF Cleans, Joins
<1>13. \A k \in 1 .. m + 2 : g[k] \in Seq(S)
  <2> HIDE DEF head, next, m, Is, value
  <2> QED BY <1>1, <1>4, <1>12, JoinsSeq
<1> QED
  BY <1>2, <1>10, <1>11, <1>13 DEF t

Assoc(x, y, z) == (x \o y) \o z = x \o (y \o z)

LEMMA Associates ==
    ASSUME NEW S, NEW x \in Seq(S), NEW y \in Seq(S), NEW z \in Seq(S)
    PROVE  Assoc(x, y, z)
BY ConcatAssociative DEF Assoc

Regroups(u, line, x, rest) == u \o (Append(line, x) \o rest) = Append(u \o line, x) \o rest

LEMMA Regrouped ==
    ASSUME NEW S, NEW u \in Seq(S), NEW line \in Seq(S), NEW rest \in Seq(S), NEW x \in S
    PROVE  Regroups(u, line, x, rest)
<1> DEFINE w == Append(line, x)
           y == <<x>>
<1>1. w \in Seq(S) /\ y \in Seq(S)
  BY AppendProperties
<1>2. w = line \o y
  BY AppendIsConcat
<1>3. u \o line \in Seq(S)
  BY ConcatProperties
<1>4. Append(u \o line, x) = (u \o line) \o y
  BY <1>3, AppendIsConcat
<1> HIDE DEF w, y
<1>5. Assoc(u, line, y) /\ Assoc(u, w, rest)
  BY <1>1, Associates
<1>6. Append(u \o line, x) = u \o w
  BY <1>2, <1>4, <1>5 DEF Assoc
<1> QED
  BY <1>5, <1>6 DEF w, Assoc, Regroups

(* It keeps a line as the filter does, from wherever in the line on. *)
LEMMA CanonicalLine ==
    ASSUME NEW S, "LF" \in S, NEW t \in Seq(S), t[Len(t)] = "LF",
           NEW c, Cleans(c, t), \A k \in 1 .. Len(t) + 2 : c[k] \in Seq(S),
           NEW n \in 1 .. Len(t)
    PROVE  c[n] = Append(LineAt(t, n), "LF") \o c[LineEnd(t, n) + 1]
<1> DEFINE Good(k) == c[k] = Append(LineAt(t, k), "LF") \o c[LineEnd(t, k) + 1]
           bad == {h \in Nat : \E k \in 1 .. Len(t) : h = Len(t) - k /\ ~Good(k)}
           m == Len(t)
<1>1. m \in Nat /\ \A k \in 1 .. m : t[k] \in S
  BY LenProperties, ElementOfSeq
<1>2. ASSUME bad # {} PROVE FALSE
  <2> HIDE DEF Good
  <2>1. PICK h \in bad : \A j \in bad : h <= j
    <3>1. bad \in SUBSET Nat
      OBVIOUS
    <3> QED BY <1>2, <3>1, Least
  <2>2. PICK k \in 1 .. m : h = m - k /\ ~Good(k)
    BY <2>1
  <2>3. c[k] = KeptPlace(t, k) \o c[k + 1]
    <3>1. k \in 1 .. m + 2 /\ ~(k > m)
      BY <1>1
    <3>2. c[k] = IF k > m THEN <<>> ELSE KeptPlace(t, k) \o c[k + 1]
      BY <3>1 DEF Cleans
    <3> QED BY <3>1, <3>2
  <2>4. CASE t[k] = "LF"
    <3>1. LineEnd(t, k) = k
      BY <1>1, <2>4, LineEndIs
    <3>2. LineAt(t, k) = <<>>
      <4>1. SubSeq(t, k, k - 1) = <<>>
        BY <1>1
      <4> QED BY <3>1, <4>1 DEF LineAt, StripCR
    <3>3. KeptPlace(t, k) = <<"LF">>
      BY <2>4 DEF KeptPlace
    <3>4. Append(<<>>, "LF") = <<"LF">>
      OBVIOUS
    <3> QED BY <2>2, <2>3, <3>1, <3>2, <3>3, <3>4 DEF Good
  <2>5. CASE t[k] # "LF"
    <3>1. k < m /\ k + 1 \in 1 .. m
      BY <1>1, <2>5
    <3>2. Good(k + 1)
      <4>1. m - (k + 1) \in Nat /\ m - (k + 1) < h
        BY <1>1, <2>2, <3>1
      <4>2. ~Good(k + 1) => m - (k + 1) \in bad
        BY <3>1, <4>1
      <4>3. h \in Nat
        BY <2>1
      <4> HIDE DEF bad
      <4> QED BY <2>1, <4>1, <4>2, <4>3
    <3> DEFINE e == LineEnd(t, k + 1)
               line == LineAt(t, k + 1)
               rest == c[e + 1]
    <3>3. /\ e = LineEnd(t, k)
          /\ LineAt(t, k) = IF t[k] = "CR" /\ e = k + 1 THEN <<>> ELSE <<t[k]>> \o line
      <4>1. LineEnd(t, k) = LineEnd(t, k + 1)
        BY <2>5, <3>1, LineFromNext
      <4>2. LineAt(t, k) = IF t[k] = "CR" /\ LineEnd(t, k) = k + 1 THEN <<>> ELSE <<t[k]>> \o LineAt(t, k + 1)
        BY <2>5, <3>1, LineFromNext
      <4> QED BY <4>1, <4>2
    <3>4. line \in Seq(S) /\ e + 1 \in 1 .. m + 2
      BY <3>1, LineAtIs
    <3>5. rest \in Seq(S)
      BY <3>4
    <3>6. e \in k + 1 .. m + 1 /\ (e <= m => t[e] = "LF") /\ \A j \in k + 1 .. e - 1 : t[j] # "LF"
      BY <3>1, LineEnds
    <3>7. c[k + 1] = Append(line, "LF") \o rest
      BY <3>2 DEF Good
    <3>8. t[k + 1] = "LF" <=> e = k + 1
      <4> HIDE DEF e
      <4> QED BY <1>1, <3>1, <3>6
    <3>9. Good(k) <=> c[k] = Append(LineAt(t, k), "LF") \o rest
      <4>1. c[LineEnd(t, k) + 1] = rest
        <5> HIDE DEF e
        <5> QED BY <3>3
      <4> QED BY <4>1 DEF Good
    <3>10. CASE t[k] = "CR" /\ e = k + 1
      <4>1. KeptPlace(t, k) = <<>> /\ LineAt(t, k) = <<>>
        BY <3>3, <3>8, <3>10 DEF KeptPlace
      <4>2. line = <<>>
        <5>1. SubSeq(t, k + 1, k) = <<>>
          BY <1>1
        <5>2. LineEnd(t, k + 1) - 1 = k
          BY <3>10
        <5>3. LineAt(t, k + 1) = StripCR(<<>>)
          BY <5>1, <5>2 DEF LineAt
        <5> QED BY <5>3 DEF StripCR
      <4>3. c[k + 1] \in Seq(S)
        BY <1>1, <3>1
      <4>4. c[k] = c[k + 1]
        BY <2>3, <4>1, <4>3, ConcatEmptySeq
      <4> HIDE DEF line, rest, e
      <4> QED BY <2>2, <3>7, <3>9, <4>1, <4>2, <4>4
    <3>11. CASE ~(t[k] = "CR" /\ e = k + 1)
      <4> HIDE DEF line, rest, e
      <4>1. KeptPlace(t, k) = <<t[k]>> /\ LineAt(t, k) = <<t[k]>> \o line
        BY <3>3, <3>8, <3>11 DEF KeptPlace
      <4> DEFINE u == <<t[k]>>
                 w == Append(line, "LF")
      <4>2. u \in Seq(S)
        BY <1>1
      <4> HIDE DEF u
      <4>3. u \o (w \o rest) = Append(u \o line, "LF") \o rest
        <5>1. Regroups(u, line, "LF", rest)
          BY <3>4, <3>5, <4>2, Regrouped
        <5> QED BY <5>1 DEF Regroups
      <4> QED BY <2>2, <2>3, <3>7, <3>9, <4>1, <4>3 DEF u
    <3> QED BY <3>10, <3>11
  <2> QED BY <2>4, <2>5
<1>3. m - n \in Nat
  BY <1>1
<1> HIDE DEF Good
<1>4. Good(n)
  BY <1>2, <1>3
<1> QED
  BY <1>4 DEF Good


(* The missing LF of the last line makes no difference to the lines. *)
LEMMA SameLines ==
    ASSUME NEW S, "LF" \in S, NEW raw \in Seq(S)
    PROVE  /\ Terminated(raw) \in Seq(S)
           /\ raw = <<>> => Terminated(raw) = <<>>
           /\ raw # <<>> => Terminated(raw)[Len(Terminated(raw))] = "LF"
           /\ Len(Terminated(raw)) >= Len(raw)
           /\ \A k \in 1 .. Len(raw) :
                 /\ LineEnd(Terminated(raw), k) = LineEnd(raw, k)
                 /\ LineAt(Terminated(raw), k) = LineAt(raw, k)
                 /\ LineEnd(raw, k) \in k .. Len(raw) + 1
                 /\ LineEnd(raw, k) >= Len(raw) => LineEnd(raw, k) = Len(Terminated(raw))
<1> DEFINE t == Terminated(raw)
           m == Len(raw)
<1>1. m \in Nat /\ \A k \in 1 .. m : raw[k] \in S
  BY LenProperties, ElementOfSeq
<1>2. ASSUME NEW k \in 1 .. m PROVE LineEnd(raw, k) \in k .. m + 1
  BY LineEnds
<1>3. CASE raw = <<>>
  <2>1. t = raw
    BY <1>3 DEF Terminated
  <2>2. m = 0
    BY <1>3
  <2>3. \A k \in 1 .. m : FALSE
    BY <2>2
  <2> HIDE DEF t, m
  <2>4. t \in Seq(S) /\ Len(t) >= m
    BY <1>1, <2>1 DEF m
  <2> QED BY <1>3, <2>1, <2>3, <2>4 DEF t, m
<1>4. CASE raw # <<>> /\ raw[m] = "LF"
  <2>1. t = raw
    BY <1>4 DEF Terminated
  <2>2. ASSUME NEW k \in 1 .. m PROVE LineEnd(raw, k) >= m => LineEnd(raw, k) = m
    <3> DEFINE e == LineEnd(raw, k)
    <3>1. e \in k .. m + 1 /\ \A j \in k .. e - 1 : raw[j] # "LF"
      BY LineEnds
    <3> HIDE DEF e
    <3>2. e # m + 1
      <4>1. e = m + 1 => m \in k .. e - 1
        BY <1>1
      <4> QED BY <1>4, <3>1, <4>1
    <3>3. e >= m => e = m
      BY <1>1, <3>1, <3>2
    <3> QED BY <3>3 DEF e
  <2> HIDE DEF t, m
  <2>3. m >= m
    BY <1>1
  <2>4. /\ t \in Seq(S) /\ t[Len(t)] = "LF" /\ Len(t) >= m
        /\ \A k \in 1 .. m : /\ LineEnd(t, k) = LineEnd(raw, k)
                             /\ LineAt(t, k) = LineAt(raw, k)
                             /\ LineEnd(raw, k) \in k .. m + 1
                             /\ LineEnd(raw, k) >= m => LineEnd(raw, k) = Len(t)
    BY <1>2, <1>4, <2>1, <2>2, <2>3 DEF m
  <2> QED BY <1>4, <2>4 DEF t, m
<1>5. CASE raw # <<>> /\ raw[m] # "LF"
  <2>1. t = Append(raw, "LF")
    BY <1>5 DEF Terminated
  <2>2. t \in Seq(S) /\ Len(t) = m + 1 /\ t[m + 1] = "LF" /\ \A k \in 1 .. m : t[k] = raw[k]
    BY <1>1, <2>1
  <2> HIDE DEF t
  <2>3. ASSUME NEW k \in 1 .. m
        PROVE  /\ LineEnd(t, k) = LineEnd(raw, k)
               /\ LineAt(t, k) = LineAt(raw, k)
               /\ LineEnd(raw, k) >= m => LineEnd(raw, k) = m + 1
    <3> DEFINE e == LineEnd(raw, k)
    <3>1. e \in k .. m + 1 /\ (e <= m => raw[e] = "LF") /\ \A j \in k .. e - 1 : raw[j] # "LF"
      BY LineEnds
    <3> HIDE DEF e
    <3>2. e >= m => e = m + 1
      <4>1. e # m
        BY <1>1, <1>5, <3>1
      <4> QED BY <1>1, <3>1, <4>1
    <3>3. LineEnd(t, k) = e
      <4>1. k \in 1 .. Len(t) /\ e \in k .. Len(t) + 1
        BY <1>1, <2>2, <3>1
      <4>2. e <= Len(t) => t[e] = "LF"
        <5>1. e <= m => e \in 1 .. m
          BY <1>1, <3>1
        <5> QED BY <1>1, <2>2, <3>1, <3>2, <5>1
      <4>3. \A j \in k .. e - 1 : t[j] # "LF"
        <5>1. \A j \in k .. e - 1 : j \in 1 .. m
          BY <1>1, <3>1
        <5> QED BY <2>2, <3>1, <5>1
      <4> HIDE DEF m
      <4> QED BY <2>2, <4>1, <4>2, <4>3, LineEndIs
    <3>4. SubSeq(t, k, e - 1) = SubSeq(raw, k, e - 1)
      <4> DEFINE x == SubSeq(t, k, e - 1)
                 y == SubSeq(raw, k, e - 1)
      <4>1. x \in Seq(S) /\ Len(x) = e - k /\ \A j \in 1 .. e - k : x[j] = t[k + j - 1]
        BY <1>1, <2>2, <3>1, SubSeqProperties
      <4>2. y \in Seq(S) /\ Len(y) = e - k /\ \A j \in 1 .. e - k : y[j] = raw[k + j - 1]
        BY <1>1, <3>1, SubSeqProperties
      <4>3. \A j \in 1 .. e - k : k + j - 1 \in 1 .. m
        BY <1>1, <3>1
      <4>4. \A j \in 1 .. Len(x) : x[j] = y[j]
        <5> HIDE DEF x, y
        <5> QED BY <2>2, <4>1, <4>2, <4>3
      <4> HIDE DEF x, y
      <4>5. x = y
        BY <4>1, <4>2, <4>4, SeqEqual
      <4> QED BY <4>5 DEF x, y
    <3>5. LineAt(t, k) = LineAt(raw, k)
      <4>1. LineAt(t, k) = StripCR(SubSeq(t, k, e - 1))
        BY <3>3 DEF LineAt
      <4>2. LineAt(raw, k) = StripCR(SubSeq(raw, k, e - 1))
        BY DEF LineAt, e
      <4> QED BY <3>4, <4>1, <4>2
    <3> QED BY <3>2, <3>3, <3>5 DEF e
  <2> HIDE DEF m
  <2>4. /\ t[Len(t)] = "LF" /\ Len(t) >= m
    BY <1>1, <2>2
  <2>5. \A k \in 1 .. m : /\ LineEnd(t, k) = LineEnd(raw, k)
                          /\ LineAt(t, k) = LineAt(raw, k)
                          /\ LineEnd(raw, k) \in k .. m + 1
                          /\ LineEnd(raw, k) >= m => LineEnd(raw, k) = Len(t)
    BY <1>2, <2>2, <2>3
  <2> QED BY <1>5, <2>2, <2>4, <2>5 DEF t, m
<1> QED
  BY <1>3, <1>4, <1>5

(* Without an --ignore nothing but the line ends is lost. *)
LEMMA FilterKeepsAll ==
    ASSUME NEW S, "LF" \in S, NEW raw \in Seq(S)
    PROVE  filter_stdout(raw, {}) = Canonical(raw)
<1> DEFINE t == Terminated(raw)
           m == Len(raw)
<1>1. /\ m \in Nat /\ t \in Seq(S) /\ Len(t) \in Nat /\ Len(t) >= m
      /\ raw = <<>> => t = <<>>
      /\ raw # <<>> => t[Len(t)] = "LF"
  BY SameLines, LenProperties
<1>2. ASSUME NEW k \in 1 .. m
      PROVE  /\ LineEnd(t, k) = LineEnd(raw, k) /\ LineAt(t, k) = LineAt(raw, k)
             /\ LineEnd(raw, k) \in k .. m + 1
             /\ LineEnd(raw, k) >= m => LineEnd(raw, k) = Len(t)
  BY SameLines
<1>3. PICK f : filter_stdout(raw, {}) = f[1] /\ Filters(f, raw, {})
  BY FilterWalks
<1>4. PICK c : /\ Canonical(raw) = c[1]
               /\ Cleans(c, t)
               /\ \A k \in 1 .. Len(t) + 2 : c[k] \in Seq(S)
  BY <1>1, CanonicalWalks
<1> HIDE DEF t
<1>5. ASSUME NEW k \in 1 .. m
      PROVE  /\ f[k] = Append(LineAt(raw, k), "LF") \o f[LineEnd(raw, k) + 1]
             /\ c[k] = Append(LineAt(raw, k), "LF") \o c[LineEnd(raw, k) + 1]
  <2>1. k \in 1 .. m + 2 /\ ~(k > m) /\ k \in 1 .. Len(t) /\ raw # <<>>
    BY <1>1
  <2>2. f[k] = KeptLine(raw, k, {}) \o f[LineEnd(raw, k) + 1]
    <3>1. f[k] = IF k > m THEN <<>> ELSE KeptLine(raw, k, {}) \o f[LineEnd(raw, k) + 1]
      BY <1>3, <2>1 DEF Filters
    <3> QED BY <2>1, <3>1
  <2>3. KeptLine(raw, k, {}) = Append(LineAt(raw, k), "LF")
    BY DEF KeptLine
  <2>4. c[k] = Append(LineAt(t, k), "LF") \o c[LineEnd(t, k) + 1]
    BY <1>1, <1>4, <2>1, CanonicalLine
  <2> QED BY <1>2, <2>2, <2>3, <2>4
<1>6. ASSUME NEW k \in 1 .. m, LineEnd(raw, k) + 1 > m
      PROVE  f[LineEnd(raw, k) + 1] = <<>> /\ c[LineEnd(raw, k) + 1] = <<>>
  <2> DEFINE e == LineEnd(raw, k)
  <2>1. e \in k .. m + 1 /\ e + 1 > m /\ (e >= m => e = Len(t))
    BY <1>2, <1>6
  <2> HIDE DEF e
  <2>2. e + 1 \in 1 .. m + 2 /\ e + 1 \in 1 .. Len(t) + 2 /\ e + 1 > Len(t)
    BY <1>1, <2>1
  <2>3. f[e + 1] = <<>>
    BY <1>3, <2>1, <2>2 DEF Filters
  <2>4. c[e + 1] = <<>>
    BY <1>4, <2>2 DEF Cleans
  <2> QED BY <2>3, <2>4 DEF e
<1> DEFINE bad == {h \in Nat : \E k \in 1 .. m : h = m - k /\ f[k] # c[k]}
<1>7. ASSUME bad # {} PROVE FALSE
  <2>1. PICK h \in bad : \A j \in bad : h <= j
    <3>1. bad \in SUBSET Nat
      OBVIOUS
    <3> QED BY <1>7, <3>1, Least
  <2>2. PICK k \in 1 .. m : h = m - k /\ f[k] # c[k]
    BY <2>1
  <2> DEFINE e == LineEnd(raw, k)
  <2>3. e \in k .. m + 1
    BY <1>2
  <2>4. f[e + 1] # c[e + 1]
    <3> DEFINE x == f[e + 1]
               y == c[e + 1]
               l == Append(LineAt(raw, k), "LF")
    <3>1. f[k] = l \o x /\ c[k] = l \o y
      BY <1>5
    <3> HIDE DEF x, y, l
    <3>2. x # y
      BY <2>2, <3>1
    <3> QED BY <3>2 DEF x, y
  <2>5. ~(e + 1 > m)
    BY <1>6, <2>4
  <2> HIDE DEF e
  <2>6. e + 1 \in 1 .. m /\ m - (e + 1) \in Nat /\ m - (e + 1) < h
    BY <1>1, <2>2, <2>3, <2>5
  <2>7. m - (e + 1) \in bad
    BY <2>4, <2>6
  <2>8. h \in Nat
    BY <2>1
  <2> HIDE DEF bad
  <2> QED BY <2>1, <2>6, <2>7, <2>8
<1>8. \A k \in 1 .. m : m - k \in Nat
  BY <1>1
<1>9. \A k \in 1 .. m : f[k] = c[k]
  BY <1>7, <1>8
<1>10. CASE raw = <<>>
  <2>1. m = 0 /\ Len(t) = 0
    BY <1>1, <1>10
  <2>2. f[1] = <<>>
    BY <1>3, <2>1 DEF Filters
  <2>3. c[1] = <<>>
    BY <1>4, <2>1 DEF Cleans
  <2> QED BY <1>3, <1>4, <2>2, <2>3
<1>11. CASE raw # <<>>
  <2>1. 1 \in 1 .. m
    BY <1>1, <1>11, EmptySeq
  <2> QED BY <1>3, <1>4, <1>9, <2>1
<1> QED
  BY <1>10, <1>11

-----------------------------------------------------------------------------
(* The fallback finds the first difference, or there is none to be found.    *)
LEMMA FallbackFinds ==
    ASSUME NEW L, NEW a \in Seq(L), NEW b \in Seq(L)
    PROVE  FirstDifference(a, b) = <<>> <=>
             SubSeq(a, 1, Min({Len(a), Len(b)})) = SubSeq(b, 1, Min({Len(a), Len(b)}))
<1> DEFINE n == Len(a)
           m == Len(b)
           both == Min({Len(a), Len(b)})
           D == {i \in DOMAIN a \cap DOMAIN b : a[i] # b[i]}
           x == SubSeq(a, 1, both)
           y == SubSeq(b, 1, both)
<1>1. n \in Nat /\ m \in Nat /\ DOMAIN a = 1 .. n /\ DOMAIN b = 1 .. m
  BY LenProperties
<1>2. both \in {n, m} /\ both <= n /\ both <= m
  <2>1. {n, m} \in SUBSET Nat /\ {n, m} # {}
    BY <1>1
  <2>2. Min({n, m}) \in {n, m} /\ \A k \in {n, m} : Min({n, m}) <= k
    BY <2>1, Least
  <2> QED BY <2>2
<1>3. FirstDifference(a, b) = <<>> <=> D = {}
  <2>1. FirstDifference(a, b) =
            IF D = {} THEN <<>> ELSE <<<<"del", a[Min(D)]>>, <<"ins", b[Min(D)]>>>>
    BY DEF FirstDifference
  <2>2. \A p, q : <<p, q>> # <<>>
    OBVIOUS
  <2> HIDE DEF D
  <2> QED BY <2>1, <2>2
<1> HIDE DEF both
<1>4. DOMAIN a \cap DOMAIN b = 1 .. both
  BY <1>1, <1>2
<1>5. /\ x \in Seq(L) /\ Len(x) = both /\ \A i \in 1 .. both : x[i] = a[i]
      /\ y \in Seq(L) /\ Len(y) = both /\ \A i \in 1 .. both : y[i] = b[i]
  BY <1>1, <1>2, SubSeqProperties
<1> HIDE DEF x, y
<1>6. ASSUME D = {} PROVE x = y
  <2>1. \A i \in 1 .. Len(x) : x[i] = y[i]
    BY <1>4, <1>5, <1>6
  <2> QED BY <1>5, <2>1, SeqEqual
<1>7. ASSUME x = y PROVE D = {}
  BY <1>4, <1>5, <1>7
<1>8. FirstDifference(a, b) = <<>> <=> x = y
  BY <1>3, <1>6, <1>7
<1> QED
  BY <1>8 DEF x, y, both

-----------------------------------------------------------------------------
(* What is compared and shown.                                               *)

(* The report of a difference is the diff of the two outputs, which are not  *)
(* touched any more. *)
ReportTells ==
    /\ options.command \in Commands
    /\ report.kind = "output" =>
        /\ pc = "exit"
        /\ 1 \in DOMAIN results /\ report.idx \in DOMAIN results
        /\ report.diff = unified_diff(lines(results[1].stdout),
                                      lines(results[report.idx].stdout))

LEMMA ReportTellsInit == Init => ReportTells
BY DEF Init, ReportTells, Report

LEMMA ReportTellsNext == CompareInv /\ ReportTells /\ [Next]_vars => ReportTells'
<1> SUFFICES ASSUME CompareInv, ReportTells, [Next]_vars PROVE ReportTells'
    OBVIOUS
<1>1. CASE Validate
  BY <1>1 DEF Validate, Exit, Report, ReportTells
<1>2. ASSUME NEW raw, NEW status, NEW stderr, RunEnds(raw, status, stderr) PROVE ReportTells'
  BY <1>2 DEF RunEnds, ReportTells
<1>3. CASE RunTimesOut
  BY <1>3 DEF RunTimesOut, ReportTells
<1>4. CASE RunFails
  BY <1>4 DEF RunFails, Exit, Report, ReportTells
<1>5. CASE Compare
  <2> DEFINE late  == {i \in DOMAIN results : results[i].timed_out}
             other == {i \in DOMAIN results : ~Matches(results[1], results[i])}
             m     == Min(other)
             told  == unified_diff(lines(results[1].stdout), lines(results[m].stdout))
  <2>1. /\ DOMAIN results = 1 .. Len(results) /\ Len(results) \in Nat /\ Len(results) >= 2
        /\ UNCHANGED <<options, results>> /\ pc' = "exit"
    BY <1>5, LenProperties DEF CompareInv, Collected, Compare, Exit
  <2>2. other # {} => m \in DOMAIN results
    <3>1. other \in SUBSET Nat
      BY <2>1
    <3>2. other # {} => m \in other
      <4> HIDE DEF other
      <4> QED BY <3>1, Least
    <3> QED BY <3>2
  <2>3. CASE report'.kind # "output"
    BY <2>1, <2>3 DEF ReportTells
  <2>4. CASE report'.kind = "output"
    <3>1. late = {} /\ other # {} /\ report' = Report("output", m, told)
      <4> HIDE DEF told, m
      <4>1. \/ report'.kind \in {"timeout", "deterministic", "status"}
            \/ late = {} /\ other # {} /\ report' = Report("output", m, told)
        <5> HIDE DEF late, other
        <5> QED BY <1>5 DEF Compare, Exit, Report, late, other, m, told
      <4> QED BY <2>4, <4>1
    <3>2. report'.idx = m /\ report'.diff = told
      BY <3>1 DEF Report
    <3>3. m \in DOMAIN results /\ 1 \in DOMAIN results
      BY <2>1, <2>2, <3>1
    <3> HIDE DEF m
    <3> QED BY <2>1, <3>2, <3>3 DEF ReportTells
  <2> QED BY <2>3, <2>4
<1>6. CASE UNCHANGED vars
  BY <1>6 DEF vars, ReportTells
<1> QED
  BY <1>1, <1>2, <1>3, <1>4, <1>5, <1>6 DEF Next

(* Every check keeps to what it tells. *)
THEOREM ReportsTell == Spec => []ReportTells
<1>1. Init => ReportTells
  BY ReportTellsInit
<1>2. CompareInv /\ ReportTells /\ [Next]_vars => ReportTells'
  BY ReportTellsNext
<1> QED
  BY <1>1, <1>2, CompareInvariance, PTL DEF Spec

(* What a run wrote, and what is left of it, are texts. *)
LEMMA OutputsAreTexts ==
    ASSUME CompareInv, ReportTells, NEW i \in DOMAIN results
    PROVE  /\ \E S : results[i].stdout \in Seq(S)
           /\ options.ignored = {} => results[i].stdout = Canonical(results[i].raw)
<1>1. results[i] \in Outcomes(options)
  BY LenProperties, ElementOfSeq DEF CompareInv
<1>2. CASE results[i] = WasKilled
  <2>1. results[i].stdout = <<>> /\ results[i].raw = <<>>
    <3>1. WasKilled.stdout = <<>> /\ WasKilled.raw = <<>>
      BY DEF WasKilled
    <3> QED BY <1>2, <3>1
  <2>2. <<>> \in Seq({"LF"})
    BY EmptySeq
  <2>3. filter_stdout(<<>>, {}) = Canonical(<<>>)
    BY <2>2, FilterKeepsAll
  <2>4. filter_stdout(<<>>, {}) = <<>>
    <3>1. PICK f : filter_stdout(<<>>, {}) = f[1] /\ Filters(f, <<>>, {})
      BY <2>2, FilterWalks
    <3>2. Len(<<>>) = 0
      OBVIOUS
    <3>3. f[1] = <<>>
      BY <3>1, <3>2 DEF Filters
    <3> QED BY <3>1, <3>3
  <2> QED BY <2>1, <2>2, <2>3, <2>4
<1>3. ASSUME NEW raw \in Outputs[options.command], NEW status, NEW stderr,
             results[i] = Ended(raw, status, stderr, options.ignored)
      PROVE  /\ \E S : results[i].stdout \in Seq(S)
             /\ options.ignored = {} => results[i].stdout = Canonical(results[i].raw)
  <2> DEFINE S == {raw[n] : n \in DOMAIN raw} \cup {"LF"}
  <2>1. raw \in Seq({raw[n] : n \in DOMAIN raw})
    BY CompareAssumption DEF ReportTells
  <2>2. raw \in Seq(S)
    BY <2>1, SeqMonotonic
  <2>3. "LF" \in S
    OBVIOUS
  <2> HIDE DEF S
  <2>4. filter_stdout(raw, options.ignored) \in Seq(S)
    BY <2>2, <2>3, FilterIs
  <2>5. filter_stdout(raw, {}) = Canonical(raw)
    BY <2>2, <2>3, FilterKeepsAll
  <2>6. results[i].stdout = filter_stdout(raw, options.ignored) /\ results[i].raw = raw
    BY <1>3 DEF Ended
  <2> QED BY <2>4, <2>5, <2>6
<1> QED
  BY <1>1, <1>2, <1>3 DEF Outcomes

(* The lines of two texts are lines of one kind. *)
LEMMA LinesOfTwo ==
    ASSUME NEW S, NEW x \in Seq(S), NEW R0, NEW y \in Seq(R0)
    PROVE  \E L : lines(x) \in Seq(L) /\ lines(y) \in Seq(L)
<1> DEFINE T == S \cup R0
<1>1. x \in Seq(T)
  BY SeqMonotonic
<1>2. y \in Seq(T)
  BY SeqMonotonic
<1> HIDE DEF T
<1> QED
  BY <1>1, <1>2, LinesAre

(* A diff says what it has to of two sequences of lines. *)
Says(d, a, b) ==
    /\ d.full =>
        /\ Taken(d.body, "del") = a
        /\ Taken(d.body, "ins") = b
        /\ \A M \in Alignments(a, b) : Cardinality(M) <= Kept(d.body)
    /\ ~d.full =>
        (d.body = <<>> <=>
            SubSeq(a, 1, Min({Len(a), Len(b)})) = SubSeq(b, 1, Min({Len(a), Len(b)})))

LEMMA DiffSays ==
    ASSUME NEW L, NEW a \in Seq(L), NEW b \in Seq(L), NEW d, d = unified_diff(a, b)
    PROVE  Says(d, a, b)
<1> DEFINE large == TooLarge(Len(a), Len(b))
<1>1. /\ d.full = ~large
      /\ large => d.body = FirstDifference(a, b)
      /\ ~large => d.body = Diff(a, b)
  BY DEF unified_diff
<1> HIDE DEF large
<1>2. CASE ~large
  <2>1. d.body = Diff(a, b) /\ d.full
    BY <1>1, <1>2
  <2>2. Taken(Diff(a, b), "del") = a /\ Taken(Diff(a, b), "ins") = b
    BY DiffTakes
  <2>3. \A M \in Alignments(a, b) : Cardinality(M) <= Kept(Diff(a, b))
    BY DiffKeepsMost DEF Kept
  <2> QED BY <2>1, <2>2, <2>3 DEF Says
<1>3. CASE large
  <2>1. d.body = FirstDifference(a, b) /\ ~d.full
    BY <1>1, <1>3
  <2> QED BY <2>1, FallbackFinds DEF Says
<1> QED
  BY <1>2, <1>3

(* The comparison sees all of the outputs but their line ends, and shows two *)
(* outputs that differ by a diff that turns one into the other and keeps as  *)
(* many lines as can be kept, or, if they are too large, by the first lines  *)
(* that differ.                                                              *)
THEOREM OutputsAreExact == MCSpec => []OutputIsExact
<1>1. ASSUME CompareInv, ReportTells PROVE OutputIsExact
  <2>1. FilterIsExact
    BY <1>1, OutputsAreTexts DEF FilterIsExact
  <2>2. CASE report.kind # "output"
    BY <2>1, <2>2 DEF OutputIsExact, DiffIsMinimal, FallbackIsHonest
  <2>3. CASE report.kind = "output"
    <3> DEFINE a == lines(results[1].stdout)
               b == lines(results[report.idx].stdout)
    <3>1. /\ 1 \in DOMAIN results /\ report.idx \in DOMAIN results
          /\ report.diff = unified_diff(a, b)
      BY <1>1, <2>3 DEF ReportTells
    <3>2. \E L : a \in Seq(L) /\ b \in Seq(L)
      BY <1>1, <3>1, OutputsAreTexts, LinesOfTwo
    <3> HIDE DEF a, b
    <3>3. PICK L : a \in Seq(L) /\ b \in Seq(L)
      BY <3>2
    <3>4. Says(report.diff, a, b)
      BY <3>1, <3>3, DiffSays
    <3>5. DiffIsMinimal
      BY <3>4 DEF DiffIsMinimal, Says, a, b
    <3>6. FallbackIsHonest
      BY <3>4 DEF FallbackIsHonest, Says, a, b
    <3> QED BY <2>1, <3>5, <3>6 DEF OutputIsExact
  <2> QED BY <2>2, <2>3
<1> QED
  BY <1>1, SideBySide, CompareInvariance, ReportsTell, PTL
=================================================================================
