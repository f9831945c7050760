-------------------------------- MODULE CheckRun --------------------------------
(*****************************************************************************)
(* run_once() of `navian-dst check` (crates/navian-dst-cli/src/check.rs): a  *)
(* command is spawned with both outputs piped, two threads drain the pipes   *)
(* and send what they read over channels, and the caller waits for the child *)
(* and then for the channels, under one deadline if --timeout is given.      *)
(*                                                                           *)
(* The child may write to either pipe in any order, block on a full one,     *)
(* leave a grandchild behind that holds the pipes open and writes to them,   *)
(* hang, or exit.  Bytes are only counted.                                   *)
(*****************************************************************************)
EXTENDS Integers

CONSTANTS
    Cap,        \* the capacity of a pipe
    MaxBytes    \* bound: what the processes write to a pipe

(* What the constants are assumed to be. *)
CheckAssumption == Cap \in Nat \ {0} /\ MaxBytes \in Nat

Pipes == {"out", "err"}

VARIABLES
    timeout,    \* is --timeout given?
    hangs,      \* does the child never exit by itself?
    size,       \* size[p]: what the child writes to pipe p before it exits
    pc,         \* where run_once is
    result,     \* what it returned: "ok", "timed out", "error", or "none"
    elapsed,    \* start.elapsed() >= dur
    child,      \* "running", "exited", "killed" (both unreaped) or "reaped"
    grandchild, \* "none", "running" or "gone"
    written,    \* written[p]: bytes written to pipe p
    inPipe,     \* inPipe[p]: bytes in pipe p
    buf,        \* buf[p]: bytes its reader has read
    reader,     \* reader[p]: "reading", or "sent" once it has sent buf
    inTime      \* history: when the deadline passed, the child had exited, both
                \* readers had sent, and run_once was not about to kill

vars == <<timeout, hangs, size, pc, result, elapsed, child, grandchild, written,
          inPipe, buf, reader, inTime>>

command == <<child, grandchild, written>>
drain   == <<inPipe, buf, reader>>
options == <<timeout, hangs, size>>
timer   == <<elapsed, inTime>>

-----------------------------------------------------------------------------
Init ==
    /\ timeout \in BOOLEAN
    /\ hangs \in BOOLEAN
    /\ size \in [Pipes -> 0 .. MaxBytes]
    /\ pc = "wait"
    /\ result = "none"
    /\ elapsed = FALSE
    /\ child = "running"
    /\ grandchild = "none"
    /\ written = [p \in Pipes |-> 0]
    /\ inPipe = [p \in Pipes |-> 0]
    /\ buf = [p \in Pipes |-> 0]
    /\ reader = [p \in Pipes |-> "reading"]
    /\ inTime = FALSE

-----------------------------------------------------------------------------
(* The command.                                                              *)

WriteTo(p) ==
    /\ written[p] < MaxBytes
    /\ inPipe[p] < Cap
    /\ written' = [written EXCEPT ![p] = @ + 1]
    /\ inPipe' = [inPipe EXCEPT ![p] = @ + 1]
    /\ UNCHANGED <<options, pc, result, timer, child, grandchild, buf, reader>>

ChildWrites(p) == child = "running" /\ WriteTo(p)

(* A child that does not hang exits when it has written what it has to. *)
ChildExits ==
    /\ child = "running"
    /\ ~hangs
    /\ \A p \in Pipes : written[p] >= size[p]
    /\ child' = "exited"
    /\ UNCHANGED <<options, pc, result, timer, grandchild, written, drain>>

ChildForks ==
    /\ child = "running"
    /\ grandchild = "none"
    /\ grandchild' = "running"
    /\ UNCHANGED <<options, pc, result, timer, child, written, drain>>

GrandchildWrites(p) == grandchild = "running" /\ WriteTo(p)

GrandchildExits ==
    /\ grandchild = "running"
    /\ grandchild' = "gone"
    /\ UNCHANGED <<options, pc, result, timer, child, written, drain>>

-----------------------------------------------------------------------------
(* A reader thread: read_to_end() until nobody holds the write end, send.    *)

Open == child = "running" \/ grandchild = "running"

\* Mutation: the threads are started when the child is over.
ReadLate(p) ==
    /\ reader[p] = "reading"
    /\ inPipe[p] > 0
    /\ child # "running"
    /\ inPipe' = [inPipe EXCEPT ![p] = @ - 1]
    /\ buf' = [buf EXCEPT ![p] = @ + 1]
    /\ UNCHANGED <<options, pc, result, timer, command, reader>>

Read(p) ==
    /\ reader[p] = "reading"
    /\ inPipe[p] > 0
    /\ inPipe' = [inPipe EXCEPT ![p] = @ - 1]
    /\ buf' = [buf EXCEPT ![p] = @ + 1]
    /\ UNCHANGED <<options, pc, result, timer, command, reader>>

\* Mutation: what is in the pipe now is sent, without waiting for its end.
SendPartial(p) ==
    /\ reader[p] = "reading"
    /\ inPipe[p] = 0
    /\ child # "running"
    /\ reader' = [reader EXCEPT ![p] = "sent"]
    /\ UNCHANGED <<options, pc, result, timer, command, inPipe, buf>>

SendBuffer(p) ==
    /\ reader[p] = "reading"
    /\ inPipe[p] = 0
    /\ ~Open
    /\ reader' = [reader EXCEPT ![p] = "sent"]
    /\ UNCHANGED <<options, pc, result, timer, command, inPipe, buf>>

-----------------------------------------------------------------------------
(* run_once().                                                               *)

Return(r) == pc' = "done" /\ result' = r

(* wait(), or a try_wait() that finds the child over. *)
ChildIsOver ==
    /\ pc = "wait"
    /\ child # "running"
    /\ child' = "reaped"
    /\ pc' = "recv out"
    /\ UNCHANGED <<options, result, timer, grandchild, written, drain>>

(* wait() or try_wait() itself fails: the ? operator leaves the child be. *)
WaitFails ==
    /\ pc = "wait"
    /\ Return("error")
    /\ UNCHANGED <<options, timer, command, drain>>

(* try_wait() returned None ... *)
StillRunning ==
    /\ timeout
    /\ pc = "wait"
    /\ child = "running"
    /\ pc' = "check"
    /\ UNCHANGED <<options, result, timer, command, drain>>

(* ... and there is time left: sleep for 5 ms and try again ... *)
SleepAndRetry ==
    /\ pc = "check"
    /\ ~elapsed
    /\ pc' = "wait"
    /\ UNCHANGED <<options, result, timer, command, drain>>

(* ... or not: kill() the child, if it has not exited in the meantime ... *)
KillChild ==
    /\ pc = "check"
    /\ elapsed
    /\ child' = IF child = "running" THEN "killed" ELSE child
    /\ pc' = "reap"
    /\ UNCHANGED <<options, result, timer, grandchild, written, drain>>

(* ... and wait() for it. *)
Reap ==
    /\ pc = "reap"
    /\ child' = "reaped"
    /\ Return("timed out")
    /\ UNCHANGED <<options, timer, grandchild, written, drain>>

Receiving(p) == pc = IF p = "out" THEN "recv out" ELSE "recv err"

Receive(p) ==
    /\ Receiving(p)
    /\ reader[p] = "sent"
    /\ IF p = "out" THEN pc' = "recv err" /\ UNCHANGED result ELSE Return("ok")
    /\ UNCHANGED <<options, timer, command, drain>>

(* recv_timeout() with what is left of the time: it returns what is there,   *)
(* even if nothing is left. *)
RecvTimesOut(p) ==
    /\ timeout /\ elapsed
    /\ Receiving(p)
    /\ reader[p] # "sent"
    /\ Return("timed out")
    /\ UNCHANGED <<options, timer, command, drain>>

Tick ==
    /\ timeout
    /\ ~elapsed
    /\ elapsed' = TRUE
    /\ inTime' = /\ child # "running"
                 /\ \A p \in Pipes : reader[p] = "sent"
                 /\ pc # "check"
    /\ UNCHANGED <<options, pc, result, command, drain>>

-----------------------------------------------------------------------------
RunOnce ==
    \/ ChildIsOver \/ StillRunning \/ SleepAndRetry \/ KillChild \/ Reap
    \/ \E p \in Pipes : Receive(p) \/ RecvTimesOut(p)

Reader(p) == Read(p) \/ SendBuffer(p)

ChildStep == ChildExits \/ \E p \in Pipes : ChildWrites(p)

Next ==
    \/ RunOnce \/ WaitFails
    \/ ChildStep \/ ChildForks
    \/ GrandchildExits \/ \E p \in Pipes : GrandchildWrites(p)
    \/ \E p \in Pipes : Reader(p)
    \/ Tick

Spec == Init /\ [][Next]_vars

(* The threads run, time passes, and the child does what it has to do unless *)
(* a pipe is full.  Nothing is assumed of the grandchild.                    *)
FairSpec ==
    /\ Spec
    /\ WF_vars(RunOnce)
    /\ WF_vars(Tick)
    /\ WF_vars(ChildStep)
    /\ \A p \in Pipes : WF_vars(Reader(p))

-----------------------------------------------------------------------------
TypeOK ==
    /\ timeout \in BOOLEAN /\ hangs \in BOOLEAN /\ elapsed \in BOOLEAN
    /\ size \in [Pipes -> 0 .. MaxBytes]
    /\ pc \in {"wait", "check", "reap", "recv out", "recv err", "done"}
    /\ result \in {"none", "ok", "timed out", "error"}
    /\ child \in {"running", "exited", "killed", "reaped"}
    /\ grandchild \in {"none", "running", "gone"}
    /\ \A p \in Pipes :
          /\ inPipe[p] \in 0 .. Cap
          /\ buf[p] + inPipe[p] = written[p]
          /\ written[p] \in 0 .. MaxBytes
    /\ reader \in [Pipes -> {"reading", "sent"}]
    /\ inTime \in BOOLEAN

(* What is compared is complete: a run that was not timed out has captured   *)
(* every byte that the child, or a grandchild, has written or will write.    *)
CompleteOutput ==
    result = "ok" => ~Open /\ \A p \in Pipes : buf[p] = written[p]

(* "No zombie": the child is reaped when run_once returns, also when it      *)
(* exits between the look at it and the kill.                                *)
NoZombie == result \in {"ok", "timed out"} => child = "reaped"

(* A run that was over, output and all, when the deadline passed counts,     *)
(* even if run_once only looks later.                                        *)
OverInTimeCounts == inTime => result # "timed out"

(* "--timeout is a true wall-clock bound": neither a child that hangs nor a  *)
(* grandchild that keeps the pipes open makes run_once wait any longer.      *)
TimeoutBounds == timeout => <>(pc = "done")

(* "The child never blocks on a full pipe while we wait": without --timeout, *)
(* run_once returns unless the child hangs by itself or a grandchild never   *)
(* lets go of the pipes.                                                     *)
HangsForACause ==
    timeout \/ hangs \/ <>[](grandchild = "running") \/ <>(pc = "done")
=============================================================================
