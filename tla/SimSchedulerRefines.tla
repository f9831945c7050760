-------------------------- MODULE SimSchedulerRefines --------------------------
(*****************************************************************************)
(* SimScheduler, with its FIFO queue of possibly duplicate and stale tokens  *)
(* and its heap of possibly orphaned timers, implements VirtualExecutor.     *)
(*****************************************************************************)
EXTENDS SimScheduler

LifeOf(s, i) ==
    IF i >= next_id[s]           THEN "unborn"
    ELSE IF sched = s /\ cur = i THEN "running"
    ELSE IF Woken(s, i)          THEN "ready"
    ELSE IF task[s][i].st = "await" THEN "waiting" ELSE "over"

DueOf(s, i) == IF task[s][i].st = "await" THEN task[s][i].at ELSE NoDeadline

Lives == [s \in Scheds |-> [i \in Ids |-> LifeOf(s, i)]]
Dues  == [s \in Scheds |-> [i \in Ids |-> DueOf(s, i)]]
Armed == {p \in Scheds \X Ids : Sleeping(p[1], p[2])}

Executor == INSTANCE VirtualExecutor WITH
    life <- Lives, due <- Dues, armed <- Armed,
    now <- clock, exec <- sched, onCpu <- cur

(* Every behaviour of the scheduler is one of the abstract executor: what    *)
(* the comments of run(), now_ms() and sleep() promise, in one formula.      *)
ImplementsExecutor == Executor!ExecutorSpec
=============================================================================
