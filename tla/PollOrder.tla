------------------------------- MODULE PollOrder -------------------------------
(*****************************************************************************)
(* What the scheduler promises about order.  yield_now(): "the task goes to  *)
(* the back of the FIFO ready queue", "behind everyone ready now".  sleep(): *)
(* "wake order is by (deadline, registration-seq)".  Both are promises about *)
(* tasks, not about the queue and the heap that are to keep them, so history *)
(* variables remember who was ready when a task yielded, and who was asleep  *)
(* when it fell asleep.                                                      *)
(*****************************************************************************)
EXTENDS SimScheduler

VARIABLES
    ahead,   \* ahead[s][i]: tasks ready when i yielded, not polled since
    earlier  \* earlier[s][i]: tasks that slept until the instant i sleeps
             \* until when i fell asleep, and have not resumed since

history == <<ahead, earlier>>

Nobody == [s \in Scheds |-> [i \in Ids |-> {}]]

(* The step from here polls task j of s. *)
Polls(s, j) ==
    pc = "loop" /\ sched = s /\ ready[s] # <<>> /\ Head(ready[s]) = j

(* The tasks that are ready when the one that is polled yields.  A task that *)
(* has been woken twice holds a second token already, keeps its place in the *)
(* queue with it, and goes behind nobody.                                    *)
ReadyBefore(s, i) ==
    IF InQueue(ready[s], i)
    THEN {}
    ELSE {j \in Ids : InQueue(ready[s], j) /\ task[s][j].st # "absent"}

Ahead ==
    ahead' = [s \in Scheds |-> [i \in Ids |->
                IF task'[s][i].st = "yield" /\ task[s][i].st # "yield"
                THEN ReadyBefore(s, i)
                ELSE {j \in ahead[s][i] : ~Polls(s, j)}]]

(* The tasks that sleep until at when task i begins to.  A task that holds a *)
(* timer for that instant already, of a Sleep it dropped, keeps its place in *)
(* the heap with it, and comes after nobody.                                 *)
AsleepBefore(s, i, at) ==
    IF \E t \in timers : t.s = s /\ t.id = i /\ t.at = at
    THEN {}
    ELSE {j \in Ids : Sleeping(s, j) /\ task[s][j].at = at}

(* User code calls the waker of a sleeper whose instant has come: it waits   *)
(* for its timer no longer.                                                  *)
WokenInTime(s, i) == Notify(s, i) /\ clock = task[s][i].at

Earlier ==
    earlier' = [s \in Scheds |-> [i \in Ids |->
                  IF task[s][i].st = "absent" /\ task'[s][i].at # NoDeadline
                  THEN AsleepBefore(s, i, task'[s][i].at)
                  ELSE {j \in earlier[s][i] :
                            /\ task'[s][j].st # "absent"
                            /\ task'[s][i].st # "absent"
                            /\ ~WokenInTime(s, i)}]]

OrderInit == Init /\ ahead = Nobody /\ earlier = Nobody
OrderNext == Next /\ Ahead /\ Earlier
OrderSpec == OrderInit /\ [][OrderNext]_<<vars, history>> /\ Fairness

(* yield_now(): when a task that yielded resumes, every task that was ready  *)
(* at the time it yielded has been polled, unless the yielding task was      *)
(* queued already; wakes, timers and spawns in between do not let it through *)
(* early.                                                                    *)
YieldGoesBehind ==
    [][\A s \in Scheds, i \in Ids :
          (task[s][i].st = "yield" /\ task'[s][i].st = "absent")
              => ahead[s][i] = {}]_<<vars, history>>

(* sleep(): when a task resumes because its time has come, no task is still  *)
(* asleep that sleeps until an earlier instant, nor one that fell asleep     *)
(* before it until the same one, unless the task was woken by other means at *)
(* that very instant: not after spurious wakes, through the timers of Sleeps *)
(* that were dropped, or when others of that instant wake and sleep again.   *)
SleepersWakeInOrder ==
    [][\A s \in Scheds, i \in Ids :
          (Sleeping(s, i) /\ task[s][i].evt # "fired" /\ task'[s][i].st = "absent")
              => /\ earlier[s][i] = {}
                 /\ \A j \in Ids : Sleeping(s, j) => task[s][i].at <= task[s][j].at
      ]_<<vars, history>>
=============================================================================
