------------------------------ MODULE SimScheduler ------------------------------
(*****************************************************************************)
(* The deterministic single-thread executor of navian-dst                    *)
(* (crates/navian-dst/src/sim_scheduler.rs), as seen by one OS thread.       *)
(*                                                                           *)
(* The thread owns the thread-locals CLOCK_MS, TIMERS, TIMER_SEQ and RUNNING  *)
(* and any number of SimScheduler objects that share them.  Control is in    *)
(* the harness ("idle"), in the loop of some run() ("loop"), or in the code  *)
(* of the task that loop is polling ("poll").  What a task does between two  *)
(* suspension points is up to the user: it may wake other tasks, spawn into  *)
(* another scheduler, call another scheduler's run(), and finally yield,     *)
(* sleep, wait for an event, return or panic.                                *)
(*****************************************************************************)
EXTENDS Integers, Sequences, FiniteSets

CONSTANTS
    Scheds,     \* the SimScheduler objects of the thread
    NoSched,    \* the value of sched while no run() is in progress
    MaxU64,     \* u64::MAX: the width of the clock and of sleep's argument
    MaxTasks,   \* bound: tasks spawned into one scheduler
    MaxWakes,   \* bound: wakes by events (channels, locks, cloned wakers)
    MaxRuns     \* bound: calls of run() on this thread

ASSUME ConstantsAssumption ==
    /\ NoSched \notin Scheds
    /\ MaxU64 \in Nat \ {0}
    /\ MaxTasks \in Nat \ {0}
    /\ MaxWakes \in Nat
    /\ MaxRuns \in Nat

VARIABLES
    task,       \* task[s][i]: the parked future of task i in s.tasks, or Absent
    ready,      \* ready[s]: the FIFO queue of task ids
    next_id,    \* next_id[s]: the id of the next task spawned into s
    clock,      \* CLOCK_MS
    timers,     \* TIMERS, the heap as a set
    timer_seq,  \* TIMER_SEQ
    running,    \* RUNNING
    pc,         \* where the thread's control is
    sched,      \* the scheduler whose run() is in progress
    cur,        \* the task being polled, when pc = "poll"
    runNo,      \* history: how many times run() has started
    wakes       \* how many event wakes have happened, for their bound

vars == <<task, ready, next_id, clock, timers, timer_seq, running, pc, sched,
          cur, runNo, wakes>>

heap   == <<clock, timers, timer_seq>>
thread == <<running, pc, sched, cur, runNo>>

-----------------------------------------------------------------------------
(* Tasks, timers and queues.                                                 *)

Ids        == 0 .. (MaxTasks - 1)
NoTask     == -1
NoDeadline == -1
Deadline   == 0 .. MaxU64

(* A parked future, by what it is suspended on.  "new" has not been polled;  *)
(* "yield" is a YieldOnce(true); "await" waits for a registered Sleep (at),  *)
(* for an event (evt), or for the first of the two, as in a select! or a     *)
(* timeout.  epoch is the number of the run() that registered the Sleep.     *)
Future == [st : {"absent", "new", "yield", "await"},
           at : Deadline \cup {NoDeadline},
           evt : {"none", "pending", "fired"},
           epoch : Nat]

Plain(st) == [st |-> st, at |-> NoDeadline, evt |-> "none", epoch |-> 0]
Absent    == Plain("absent")

Timer == [at : Deadline, seq : Nat, s : Scheds, id : Ids]

InQueue(q, i) == \E k \in DOMAIN q : q[k] = i

\* Mutation: ties broken by task id.
TiesByTaskId(t, u) == t.at < u.at \/ (t.at = u.at /\ t.id < u.id)

(* The heap's order: by deadline, then by registration. *)
Before(t, u) == t.at < u.at \/ (t.at = u.at /\ t.seq < u.seq)

\* Mutation: whoever is polled resumes, as if every wake were genuine.
ResumesAlways(f) == f.st # "absent"

(* What polling a parked future finds: it returns to the task's own code, or *)
(* stays Pending because the wake was spurious.                              *)
Resumes(f) == \/ f.st \in {"new", "yield"}
              \/ f.st = "await" /\ f.evt = "fired"
              \/ f.st = "await" /\ f.at # NoDeadline /\ clock >= f.at

(* The harness, or the task being polled, is executing user code. *)
UserCode == pc \in {"idle", "poll"}

-----------------------------------------------------------------------------
Init ==
    /\ task = [s \in Scheds |-> [i \in Ids |-> Absent]]
    /\ ready = [s \in Scheds |-> <<>>]
    /\ next_id = [s \in Scheds |-> 0]
    /\ clock = 0
    /\ timers = {}
    /\ timer_seq = 0
    /\ running = FALSE
    /\ pc = "idle"
    /\ sched = NoSched
    /\ cur = NoTask
    /\ runNo = 0
    /\ wakes = 0

(* spawn(): run() holds &mut self, so a task cannot spawn into the scheduler *)
(* that is polling it; it can spawn into another one.                        *)
Spawn(s) ==
    /\ UserCode
    /\ s # sched
    /\ next_id[s] < MaxTasks
    /\ task' = [task EXCEPT ![s][next_id[s]] = Plain("new")]
    /\ ready' = [ready EXCEPT ![s] = Append(@, next_id[s])]
    /\ next_id' = [next_id EXCEPT ![s] = @ + 1]
    /\ UNCHANGED <<heap, thread, wakes>>

(* run(): past the assertion, RUNNING is set and the clock, the timers and   *)
(* the timer sequence of the thread start afresh.  The ready queue does not. *)
RunEnter(s) ==
    /\ UserCode
    /\ s # sched
    /\ ~running
    /\ runNo < MaxRuns
    /\ running' = TRUE
    /\ clock' = 0
    /\ timers' = {}
    /\ timer_seq' = 0
    /\ pc' = "loop"
    /\ sched' = s
    /\ cur' = NoTask
    /\ runNo' = runNo + 1
    /\ UNCHANGED <<task, ready, next_id, wakes>>

(* The run in progress is over, by return or by unwinding: RunGuard drops. *)
RunExit ==
    /\ running' = FALSE
    /\ pc' = "idle"
    /\ sched' = NoSched
    /\ cur' = NoTask
    /\ UNCHANGED <<task, ready, next_id, heap, runNo, wakes>>

(* A panic in the polled task unwinds through run(): the future, taken out   *)
(* of the map for the poll, is lost; everything else stays as it is.         *)
Panic == pc = "poll" /\ RunExit

\* Mutation: the heap is emptied before the assertion.
NestedRunClears(s) ==
    /\ pc = "poll"
    /\ s # sched
    /\ timers' = {}
    /\ UNCHANGED <<task, ready, next_id, clock, timer_seq, thread, wakes>>

(* run() called from a task: the assertion fails before RunGuard exists.     *)
(* The task may catch that panic and carry on; if it does not, it is a Panic.*)
NestedRun(s) ==
    /\ pc = "poll"
    /\ s # sched
    /\ running
    /\ UNCHANGED vars

-----------------------------------------------------------------------------
(* The loop of run().                                                        *)

PopReady ==
    /\ pc = "loop"
    /\ ready[sched] # <<>>
    /\ ready' = [ready EXCEPT ![sched] = Tail(@)]
    /\ LET i == Head(ready[sched])
       IN  IF Resumes(task[sched][i])
           THEN /\ task' = [task EXCEPT ![sched][i] = Absent]
                /\ pc' = "poll"
                /\ cur' = i
           ELSE UNCHANGED <<task, pc, cur>>  \* no such task, or still Pending
    /\ UNCHANGED <<next_id, heap, running, sched, runNo, wakes>>

\* Mutation: the timer is looked at, not taken out of the heap.
FireTimerPeeks ==
    /\ pc = "loop"
    /\ ready[sched] = <<>>
    /\ \E t \in timers :
        /\ \A u \in timers \ {t} : Before(t, u)
        /\ clock' = IF t.at > clock THEN t.at ELSE clock
        /\ ready' = [ready EXCEPT ![t.s] = Append(@, t.id)]
    /\ UNCHANGED <<task, next_id, timers, timer_seq, thread, wakes>>

FireTimer ==
    /\ pc = "loop"
    /\ ready[sched] = <<>>
    /\ \E t \in timers :
        /\ \A u \in timers \ {t} : Before(t, u)
        /\ timers' = timers \ {t}
        /\ clock' = IF t.at > clock THEN t.at ELSE clock
        /\ ready' = [ready EXCEPT ![t.s] = Append(@, t.id)]
    /\ UNCHANGED <<task, next_id, timer_seq, thread, wakes>>

Finish ==
    /\ pc = "loop"
    /\ ready[sched] = <<>>
    /\ timers = {}
    /\ RunExit

-----------------------------------------------------------------------------
(* What the polled task does.                                                *)

(* poll() returned Pending: the future goes back into the map. *)
Park(f) ==
    /\ task' = [task EXCEPT ![sched][cur] = f]
    /\ pc' = "loop"
    /\ cur' = NoTask
    /\ UNCHANGED <<next_id, clock, running, sched, runNo, wakes>>

\* Mutation: yield_now() does not wake itself.
YieldSilently ==
    /\ pc = "poll"
    /\ Park(Plain("yield"))
    /\ UNCHANGED <<ready, timers, timer_seq>>

\* Mutation: the queue is a stack.
YieldToFront ==
    /\ pc = "poll"
    /\ ready' = [ready EXCEPT ![sched] = <<cur>> \o @]
    /\ Park(Plain("yield"))
    /\ UNCHANGED <<timers, timer_seq>>

(* yield_now(): wake itself, then Pending. *)
Yield ==
    /\ pc = "poll"
    /\ ready' = [ready EXCEPT ![sched] = Append(@, cur)]
    /\ Park(Plain("yield"))
    /\ UNCHANGED <<timers, timer_seq>>

(* Waiting for an event of the user's: the waker is handed out. *)
AwaitEvent ==
    /\ pc = "poll"
    /\ Park([Plain("await") EXCEPT !.evt = "pending"])
    /\ UNCHANGED <<ready, timers, timer_seq>>

Fits(at)       == at <= MaxU64

(* The first poll of sleep(ms), alone (evt = "none") or raced with an event. *)
(* clock + ms that does not fit in a u64 panics in a build with overflow     *)
(* checks, and otherwise wraps to a deadline that has passed.  A deadline    *)
(* that has passed does not suspend the task.                                *)
SleepFor(ms, evt) ==
    LET at == clock + ms
    IN  /\ pc = "poll"
        /\ \/ /\ ms > 0
              /\ Fits(at)
              /\ timers' = timers \cup {[at |-> at, seq |-> timer_seq,
                                         s |-> sched, id |-> cur]}
              /\ timer_seq' = timer_seq + 1
              /\ Park([st |-> "await", at |-> at, evt |-> evt,
                       epoch |-> runNo])
              /\ UNCHANGED ready
           \/ ~Fits(at) /\ RunExit
           \/ (ms = 0 \/ ~Fits(at)) /\ UNCHANGED vars

Complete ==
    /\ pc = "poll"
    /\ pc' = "loop"
    /\ cur' = NoTask
    /\ UNCHANGED <<task, ready, next_id, heap, running, sched, runNo, wakes>>

(* User code calls a waker that task i of s gave out in an earlier poll.  If *)
(* the task waits for an event, this is that event; otherwise the wake is    *)
(* spurious, and the task may even be gone.  TaskWaker does not deduplicate. *)
Notify(s, i) ==
    /\ UserCode
    /\ wakes < MaxWakes
    /\ i < next_id[s]
    /\ task[s][i].st # "new"
    /\ wakes' = wakes + 1
    /\ ready' = [ready EXCEPT ![s] = Append(@, i)]
    /\ task' = IF task[s][i].evt = "pending"
               THEN [task EXCEPT ![s][i].evt = "fired"]
               ELSE task
    /\ UNCHANGED <<next_id, heap, thread>>

-----------------------------------------------------------------------------
Sleep == \E ms \in Deadline, evt \in {"none", "pending"} : SleepFor(ms, evt)

RunLoop  == PopReady \/ FireTimer \/ Finish
PollEnds == Yield \/ AwaitEvent \/ Sleep \/ Complete \/ Panic

Next ==
    \/ \E s \in Scheds : Spawn(s) \/ RunEnter(s) \/ NestedRun(s)
    \/ \E s \in Scheds, i \in Ids : Notify(s, i)
    \/ RunLoop
    \/ PollEnds

(* The thread keeps executing run(), and a task's code reaches its next      *)
(* suspension point, return or panic.  Nothing else is forced to happen.     *)
Fairness == WF_vars(RunLoop) /\ WF_vars(PollEnds)

Spec     == Init /\ [][Next]_vars
FairSpec == Spec /\ Fairness

-----------------------------------------------------------------------------
(* Properties.                                                               *)

TypeOK ==
    /\ task \in [Scheds -> [Ids -> Future]]
    /\ ready \in [Scheds -> Seq(Ids)]
    /\ next_id \in [Scheds -> 0 .. MaxTasks]
    /\ clock \in Deadline
    /\ timers \in SUBSET Timer
    /\ timer_seq \in Nat
    /\ running \in BOOLEAN
    /\ pc \in {"idle", "loop", "poll"}
    /\ sched \in Scheds \cup {NoSched}
    /\ cur \in Ids \cup {NoTask}
    /\ runNo \in 0 .. MaxRuns
    /\ wakes \in 0 .. MaxWakes

(* Task i of s is suspended in a Sleep registered by the latest run(). *)
Sleeping(s, i) ==
    /\ task[s][i].st = "await"
    /\ task[s][i].at # NoDeadline
    /\ task[s][i].epoch = runNo

(* Task i of s can make progress whatever the clock says. *)
Woken(s, i) ==
    \/ task[s][i].st \in {"new", "yield"}
    \/ task[s][i].st = "await" /\ task[s][i].evt = "fired"

(* A task that can make progress is queued: no spawn, yield or event wake is *)
(* lost, in whatever order wakes, duplicate and stale tokens, panics and     *)
(* re-runs come (the ready queue outlives run()).                            *)
NoLostWakeup ==
    \A s \in Scheds, i \in Ids : Woken(s, i) => InQueue(ready[s], i)

(* A sleeper of the current run keeps its timer until its deadline, and then *)
(* a token in the queue: a spurious wake, a stale timer of a dropped Sleep,  *)
(* or a rejected nested run() cannot strand it.                              *)
NoLostSleeper ==
    \A s \in Scheds, i \in Ids :
        Sleeping(s, i) =>
            \/ \E t \in timers : t.s = s /\ t.id = i /\ t.at = task[s][i].at
            \/ clock = task[s][i].at /\ InQueue(ready[s], i)

(* Virtual time is exact: the clock never passes the deadline of a task that *)
(* still sleeps, so every sleep ends when the clock reads its deadline.      *)
NoOversleep ==
    \A s \in Scheds, i \in Ids : Sleeping(s, i) => clock <= task[s][i].at

(* RUNNING is set exactly while a run() is in progress, so neither a panic   *)
(* nor a rejected nested run() leaves the thread wedged or unguarded.        *)
RunningExact == running <=> pc # "idle"

(* A run() that returns has nothing left that time or a queued wake could    *)
(* still move: every task left in the scheduler waits for an event.          *)
FinishIsQuiescent ==
    [][(pc = "loop" /\ pc' = "idle") =>
          \A i \in Ids : ~Woken(sched, i) /\ ~Sleeping(sched, i)]_vars

(* FIFO fairness: while run() lasts, a task that can make progress is        *)
(* polled, even if other tasks yield forever.                                *)
NoStarvation ==
    \A s \in Scheds, i \in Ids :
        (sched = s /\ Woken(s, i)) ~> (sched # s \/ cur = i)

(* The ready queue of s, whose run() is in progress, has not drained. *)
Busy(s) == sched = s /\ ~(pc = "loop" /\ ready[s] = <<>>)

(* A sleeper is resumed or the run is aborted, unless the other tasks keep   *)
(* the ready queue from ever draining again: the clock does not move then.   *)
SleeperResumes ==
    \A s \in Scheds, i \in Ids :
        \/ <>[]Busy(s)
        \/ (sched = s /\ Sleeping(s, i)) ~> (sched # s \/ cur = i)

=============================================================================
