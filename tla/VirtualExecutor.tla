---------------------------- MODULE VirtualExecutor ----------------------------
(*****************************************************************************)
(* What SimScheduler promises, without ready queues, wakers or timer heap:   *)
(* tasks on one thread over a virtual clock.  A task is polled only when it  *)
(* can make progress; the clock moves only when no task can, never past the  *)
(* deadline of a sleeper; a run ends only when neither can happen, or by a   *)
(* panic.  A run() does not wait for the sleepers of the runs before it:     *)
(* once its clock has passed their deadline they may be resumed, and need    *)
(* not be.                                                                   *)
(*****************************************************************************)
EXTENDS Integers

CONSTANTS
    Scheds, NoSched,        \* schedulers, and "none of them"
    Ids, NoTask,            \* task ids, and "none of them"
    Deadline, NoDeadline    \* clock values, and "none of them"

VARIABLES
    life,    \* life[s][i]: "unborn", "ready", "running", "waiting" or "over"
    due,     \* due[s][i]: the deadline it sleeps to, if it does
    armed,   \* the tasks <<s, i>> that began their sleep in this run
    now,     \* the virtual clock
    exec,    \* the scheduler that is running
    onCpu    \* the task it is polling, or NoTask

evars == <<life, due, armed, now, exec, onCpu>>

Asleep(s, i) == life[s][i] = "waiting" /\ <<s, i>> \in armed

(* Can it be resumed, and does it have to be before the clock moves? *)
Runnable(s, i) ==
    \/ life[s][i] = "ready"
    \/ life[s][i] = "waiting" /\ due[s][i] # NoDeadline /\ due[s][i] <= now
Pressing(s, i) == life[s][i] = "ready" \/ (Asleep(s, i) /\ due[s][i] <= now)
Idle == \A i \in Ids : ~Pressing(exec, i)

ExecutorInit ==
    /\ life = [s \in Scheds |-> [i \in Ids |-> "unborn"]]
    /\ due = [s \in Scheds |-> [i \in Ids |-> NoDeadline]]
    /\ armed = {}
    /\ now = 0
    /\ exec = NoSched
    /\ onCpu = NoTask

Born(s, i) ==
    /\ s # exec
    /\ life[s][i] = "unborn"
    /\ life' = [life EXCEPT ![s][i] = "ready"]
    /\ UNCHANGED <<due, armed, now, exec, onCpu>>

Begin(s) ==
    /\ exec = NoSched
    /\ exec' = s
    /\ now' = 0
    /\ armed' = {}
    /\ UNCHANGED <<life, due, onCpu>>

Resume(s, i) ==
    /\ exec = s
    /\ onCpu = NoTask
    /\ Runnable(s, i)
    /\ onCpu' = i
    /\ life' = [life EXCEPT ![s][i] = "running"]
    /\ due' = [due EXCEPT ![s][i] = NoDeadline]
    /\ armed' = armed \ {<<s, i>>}
    /\ UNCHANGED <<now, exec>>

(* The task on the CPU yields, or waits for an event, a deadline or both. *)
Suspend(s, i) ==
    /\ exec = s
    /\ onCpu = i
    /\ onCpu' = NoTask
    /\ \E l \in {"ready", "waiting"} : life' = [life EXCEPT ![s][i] = l]
    /\ \E d \in Deadline \cup {NoDeadline} :
          /\ d # NoDeadline => now < d
          /\ due' = [due EXCEPT ![s][i] = d]
          /\ armed' = IF d = NoDeadline THEN armed ELSE armed \cup {<<s, i>>}
    /\ UNCHANGED <<now, exec>>

Return(s, i) ==
    /\ exec = s
    /\ onCpu = i
    /\ onCpu' = NoTask
    /\ life' = [life EXCEPT ![s][i] = "over"]
    /\ UNCHANGED <<due, armed, now, exec>>

Abort(s, i) ==
    /\ exec = s
    /\ onCpu = i
    /\ onCpu' = NoTask
    /\ life' = [life EXCEPT ![s][i] = "over"]
    /\ exec' = NoSched
    /\ UNCHANGED <<due, armed, now>>

Event(s, i) ==
    /\ life[s][i] = "waiting"
    /\ life' = [life EXCEPT ![s][i] = "ready"]
    /\ UNCHANGED <<due, armed, now, exec, onCpu>>

Advance(t) ==
    /\ exec \in Scheds
    /\ onCpu = NoTask
    /\ Idle
    /\ now < t
    /\ \A i \in Ids : Asleep(exec, i) => t <= due[exec][i]
    /\ now' = t
    /\ UNCHANGED <<life, due, armed, exec, onCpu>>

End ==
    /\ exec \in Scheds
    /\ onCpu = NoTask
    /\ Idle
    /\ \A i \in Ids : ~Asleep(exec, i)
    /\ exec' = NoSched
    /\ UNCHANGED <<life, due, armed, now, onCpu>>

ExecutorNext ==
    \/ \E s \in Scheds : Begin(s)
    \/ \E s \in Scheds, i \in Ids :
          Born(s, i) \/ Resume(s, i) \/ Suspend(s, i) \/ Return(s, i)
              \/ Abort(s, i) \/ Event(s, i)
    \/ \E t \in Deadline : Advance(t)
    \/ End

ExecutorSpec == ExecutorInit /\ [][ExecutorNext]_evars
=============================================================================
