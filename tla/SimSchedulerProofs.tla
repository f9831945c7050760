-------------------------- MODULE SimSchedulerProofs --------------------------
(*****************************************************************************)
(* Proofs about SimScheduler, for any set of schedulers, any width of the    *)
(* clock and any bounds.  IInv is the inductive invariant.  With two facts   *)
(* about futures it makes the abstract step possible that each step of the   *)
(* scheduler is mapped to: SimScheduler implements VirtualExecutor.          *)
(*****************************************************************************)
EXTENDS SimSchedulerRefines, PollOrder, TLAPS

(* Appending to a queue adds the id and nothing else. *)
LEMMA InQueueAppend ==
    ASSUME NEW S, NEW q \in Seq(S), NEW j \in S, NEW i
    PROVE  InQueue(Append(q, j), i) <=> (i = j \/ InQueue(q, i))
<1>1. Len(Append(q, j)) = Len(q) + 1 /\ Len(q) \in Nat
  OBVIOUS
<1>2. DOMAIN q = 1 .. Len(q) /\ DOMAIN Append(q, j) = 1 .. (Len(q) + 1)
  BY <1>1
<1>3. \A k \in 1 .. Len(q) : Append(q, j)[k] = q[k]
  BY <1>1
<1>4. Append(q, j)[Len(q) + 1] = j
  BY <1>1
<1> QED
  BY <1>1, <1>2, <1>3, <1>4 DEF InQueue

(* Popping the head removes at most that id. *)
LEMMA InQueueTail ==
    ASSUME NEW S, NEW q \in Seq(S), q # <<>>, NEW i
    PROVE  /\ Head(q) \in S
           /\ Tail(q) \in Seq(S)
           /\ InQueue(q, i) => (i = Head(q) \/ InQueue(Tail(q), i))
<1>1. Len(q) \in Nat \ {0} /\ Head(q) = q[1] /\ Head(q) \in S
  OBVIOUS
<1>2. Tail(q) \in Seq(S) /\ Len(Tail(q)) = Len(q) - 1
  BY <1>1
<1>3. \A k \in 1 .. (Len(q) - 1) : Tail(q)[k] = q[k + 1]
  BY <1>1
<1>4. DOMAIN q = 1 .. Len(q) /\ DOMAIN Tail(q) = 1 .. (Len(q) - 1)
  BY <1>1, <1>2
<1>5. ASSUME InQueue(q, i), i # Head(q) PROVE InQueue(Tail(q), i)
  <2>1. PICK k \in 1 .. Len(q) : q[k] = i
    BY <1>4, <1>5 DEF InQueue
  <2>2. k # 1
    BY <2>1, <1>1, <1>5
  <2>3. k - 1 \in 1 .. (Len(q) - 1) /\ Tail(q)[k - 1] = i
    BY <2>1, <2>2, <1>1, <1>3
  <2> QED
    BY <2>3, <1>4 DEF InQueue
<1> QED
  BY <1>1, <1>2, <1>5

-----------------------------------------------------------------------------
(* The inductive invariant.  The three properties about sleepers and wakes   *)
(* need each other, and need to know which tasks and timers can exist.       *)

(* Control, RUNNING, sched and cur agree. *)
Control ==
    /\ RunningExact
    /\ pc = "idle" <=> sched = NoSched
    /\ pc = "poll" <=> cur # NoTask

(* Ids that were not handed out name no task, parked or polled. *)
Unborn ==
    \A s \in Scheds, i \in Ids :
        i >= next_id[s] => task[s][i] = Absent /\ ~(sched = s /\ cur = i)

(* No future knows of a later run(), and while a run() is in progress the    *)
(* sleepers it registered belong to its scheduler.                           *)
Epochs ==
    \A s \in Scheds, i \in Ids :
        /\ task[s][i].epoch <= runNo
        /\ Sleeping(s, i) /\ pc # "idle" => s = sched

(* No timer lies in the past. *)
TimersAhead == \A t \in timers : clock <= t.at

IInv ==
    /\ TypeOK
    /\ Control
    /\ Unborn
    /\ Epochs
    /\ TimersAhead
    /\ NoLostWakeup
    /\ NoLostSleeper
    /\ NoOversleep

-----------------------------------------------------------------------------
(* Type correctness, with the agreement of control and RUNNING it needs.     *)

LEMMA TypeInit == Init => TypeOK /\ Control
<1> SUFFICES ASSUME Init PROVE TypeOK /\ Control
  OBVIOUS
<1> USE ConstantsAssumption
    DEF Init, Ids, NoTask, NoDeadline, Deadline
<1>1. Absent \in Future
  BY DEF Absent, Plain, Future
<1>2. task \in [Scheds -> [Ids -> Future]]
  BY <1>1
<1>3. ready \in [Scheds -> Seq(Ids)]
  OBVIOUS
<1>4. Control
  BY DEF Control, RunningExact
<1>5. next_id \in [Scheds -> 0 .. MaxTasks]
  OBVIOUS
<1>6. clock \in Deadline /\ timers \in SUBSET Timer /\ timer_seq \in Nat
  OBVIOUS
<1>7. running \in BOOLEAN
  OBVIOUS
<1>8. /\ pc \in {"idle", "loop", "poll"}
      /\ sched \in Scheds \cup {NoSched} /\ cur \in Ids \cup {NoTask}
      /\ runNo \in 0 .. MaxRuns /\ wakes \in 0 .. MaxWakes
  OBVIOUS
<1> HIDE DEF Init
<1> QED
  BY <1>2, <1>3, <1>4, <1>5, <1>6, <1>7, <1>8 DEF TypeOK

LEMMA TypeStep == TypeOK /\ Control /\ [Next]_vars => TypeOK' /\ Control'
<1> SUFFICES ASSUME TypeOK, Control, [Next]_vars
             PROVE  TypeOK' /\ Control'
  OBVIOUS
<1> USE ConstantsAssumption
    DEF TypeOK, Control, RunningExact, Ids, NoTask, NoDeadline, Deadline
<1>f. /\ Plain("new") \in Future
      /\ Plain("yield") \in Future
      /\ Absent \in Future
      /\ [Plain("await") EXCEPT !.evt = "pending"] \in Future
  BY DEF Plain, Absent, Future
<1>1. ASSUME NEW s \in Scheds, Spawn(s) PROVE TypeOK' /\ Control'
  <2>1. next_id[s] \in Ids
    BY <1>1 DEF Spawn
  <2>2. task' \in [Scheds -> [Ids -> Future]]
    BY <1>1, <2>1, <1>f DEF Spawn
  <2>3. ready' \in [Scheds -> Seq(Ids)]
    BY <1>1, <2>1 DEF Spawn
  <2>4. next_id' \in [Scheds -> 0 .. MaxTasks]
    BY <1>1 DEF Spawn
  <2> QED
    BY <1>1, <2>2, <2>3, <2>4 DEF Spawn, heap, thread
<1>2. ASSUME NEW s \in Scheds, RunEnter(s) PROVE TypeOK' /\ Control'
  BY <1>2 DEF RunEnter, UserCode
<1>3. ASSUME NEW s \in Scheds, NestedRun(s) PROVE TypeOK' /\ Control'
  BY <1>3 DEF NestedRun, vars
<1>4. ASSUME NEW s \in Scheds, NEW i \in Ids, Notify(s, i)
      PROVE  TypeOK' /\ Control'
  <2>1. task' \in [Scheds -> [Ids -> Future]]
    <3>1. task[s][i] \in Future
      OBVIOUS
    <3>2. [task[s][i] EXCEPT !.evt = "fired"] \in Future
      BY <3>1 DEF Future
    <3>3. CASE task[s][i].evt = "pending"
      <4>1. task' = [task EXCEPT ![s][i].evt = "fired"]
        BY <1>4, <3>3 DEF Notify
      <4> QED
        BY <4>1, <3>2
    <3>4. CASE task[s][i].evt # "pending"
      BY <1>4, <3>4 DEF Notify
    <3> QED
      BY <3>3, <3>4
  <2>2. ready' \in [Scheds -> Seq(Ids)]
    BY <1>4 DEF Notify
  <2>3. UNCHANGED <<next_id, clock, timers, timer_seq, running, pc, sched,
                    cur, runNo>>
    BY <1>4 DEF Notify, heap, thread
  <2>4. wakes' \in 0 .. MaxWakes
    <3>1. wakes < MaxWakes /\ wakes' = wakes + 1
      BY <1>4 DEF Notify
    <3> QED
      BY <3>1
  <2> QED
    BY <2>1, <2>2, <2>3, <2>4
<1>5. CASE PopReady
  <2>1. sched \in Scheds /\ Head(ready[sched]) \in Ids
    BY <1>5, InQueueTail DEF PopReady
  <2>2. ready' \in [Scheds -> Seq(Ids)]
    BY <1>5, <2>1, InQueueTail DEF PopReady
  <2>3. CASE Resumes(task[sched][Head(ready[sched])])
    <3>1. /\ task' = [task EXCEPT ![sched][Head(ready[sched])] = Absent]
          /\ pc' = "poll" /\ cur' = Head(ready[sched])
      BY <1>5, <2>3 DEF PopReady
    <3>2. task' \in [Scheds -> [Ids -> Future]]
      BY <3>1, <2>1, <1>f
    <3> QED
      BY <1>5, <2>1, <2>2, <3>1, <3>2 DEF PopReady, heap
  <2>4. CASE ~Resumes(task[sched][Head(ready[sched])])
    <3>1. UNCHANGED <<task, pc, cur>>
      BY <1>5, <2>4 DEF PopReady
    <3> QED
      BY <1>5, <2>2, <3>1 DEF PopReady, heap
  <2> QED
    BY <2>3, <2>4
<1>6. CASE FireTimer
  <2>1. PICK t \in timers :
          /\ timers' = timers \ {t}
          /\ clock' = IF t.at > clock THEN t.at ELSE clock
          /\ ready' = [ready EXCEPT ![t.s] = Append(@, t.id)]
    BY <1>6 DEF FireTimer
  <2>2. t.at \in Deadline /\ t.s \in Scheds /\ t.id \in Ids
    BY <2>1 DEF Timer
  <2>3. ready' \in [Scheds -> Seq(Ids)] /\ clock' \in Deadline
    BY <2>1, <2>2
  <2>4. timers' \in SUBSET Timer
    BY <2>1
  <2> QED
    BY <1>6, <2>3, <2>4 DEF FireTimer, thread
<1>7. CASE Finish
  BY <1>7 DEF Finish, RunExit, heap
<1>8. CASE Panic
  BY <1>8 DEF Panic, RunExit, heap
<1>9. ASSUME NEW f \in Future, pc = "poll", Park(f)
      PROVE  /\ task' \in [Scheds -> [Ids -> Future]]
             /\ sched \in Scheds /\ cur \in Ids
             /\ Control'
  BY <1>9 DEF Park
<1>10. CASE Yield
  <2>1. ready' \in [Scheds -> Seq(Ids)]
    BY <1>10 DEF Yield
  <2> QED
    BY <1>9, <1>10, <1>f, <2>1 DEF Yield, Park
<1>11. CASE AwaitEvent
  BY <1>9, <1>11, <1>f DEF AwaitEvent, Park
<1>12. ASSUME NEW ms \in Deadline, NEW evt \in {"none", "pending"},
              SleepFor(ms, evt)
       PROVE  TypeOK' /\ Control'
  <2> DEFINE at == clock + ms
             f  == [st |-> "await", at |-> at, evt |-> evt, epoch |-> runNo]
             t  == [at |-> at, seq |-> timer_seq, s |-> sched, id |-> cur]
  <2>1. CASE UNCHANGED vars
    BY <2>1 DEF vars
  <2>2. CASE RunExit
    BY <2>2 DEF RunExit, heap
  <2>3. CASE /\ at <= MaxU64 /\ timers' = timers \cup {t}
             /\ timer_seq' = timer_seq + 1 /\ Park(f) /\ UNCHANGED ready
    <3>1. pc = "poll" /\ at \in Deadline
      BY <1>12, <2>3 DEF SleepFor, Fits
    <3>2. f \in Future
      BY <3>1 DEF Future
    <3>3. t \in Timer
      BY <3>1 DEF Timer
    <3> HIDE DEF f, t
    <3> QED
      BY <1>9, <2>3, <3>1, <3>2, <3>3 DEF Park
  <2> QED
    BY <1>12, <2>1, <2>2, <2>3 DEF SleepFor, Fits
<1>13. CASE Complete
  BY <1>13 DEF Complete, heap
<1>14. CASE UNCHANGED vars
  BY <1>14 DEF vars
<1> QED
  BY <1>1, <1>2, <1>3, <1>4, <1>5, <1>6, <1>7, <1>8, <1>10, <1>11, <1>12,
     <1>13, <1>14
  DEF Next, RunLoop, PollEnds, Sleep

(* Every variable of the thread keeps its type: in particular the clock      *)
(* stays within a u64 because sleep() never registers a wrapped deadline.    *)
THEOREM TypeCorrect == Spec => []TypeOK
<1>1. Init => TypeOK /\ Control
  BY TypeInit
<1>2. TypeOK /\ Control /\ [Next]_vars => TypeOK' /\ Control'
  BY TypeStep
<1> QED
  BY <1>1, <1>2, PTL DEF Spec

-----------------------------------------------------------------------------
(* Safety.  What each kind of step does to the queues and the futures is     *)
(* stated pointwise first; the conjuncts of IInv then follow one by one.     *)

(* Everything in IInv but the types and the agreement of control. *)
Safe ==
    /\ Unborn
    /\ Epochs
    /\ TimersAhead
    /\ NoLostWakeup
    /\ NoLostSleeper
    /\ NoOversleep

(* A push on one queue keeps every token and adds the pushed one. *)
LEMMA Push ==
    ASSUME TypeOK, NEW s \in Scheds, NEW j \in Ids,
           ready' = [ready EXCEPT ![s] = Append(@, j)]
    PROVE  /\ InQueue(ready'[s], j)
           /\ \A r \in Scheds, i \in Ids :
                 InQueue(ready[r], i) => InQueue(ready'[r], i)
<1>1. ready[s] \in Seq(Ids) /\ ready'[s] = Append(ready[s], j)
  BY DEF TypeOK
<1>2. \A i : InQueue(ready'[s], i) <=> (i = j \/ InQueue(ready[s], i))
  BY <1>1, InQueueAppend
<1>3. \A r \in Scheds : r # s => ready'[r] = ready[r]
  BY DEF TypeOK
<1> QED
  BY <1>2, <1>3

LEMMA SafeInit == Init => Safe
<1> SUFFICES ASSUME Init PROVE Safe
  OBVIOUS
<1>1. \A s \in Scheds, i \in Ids : task[s][i] = Absent
  BY DEF Init
<1>2. /\ Absent.st = "absent" /\ Absent.epoch = 0
      /\ Absent.evt = "none" /\ Absent.at = NoDeadline
  BY DEF Absent, Plain
<1>3. \A s \in Scheds, i \in Ids : ~Sleeping(s, i) /\ ~Woken(s, i)
  BY <1>1, <1>2 DEF Sleeping, Woken
<1>4. /\ runNo = 0 /\ timers = {} /\ cur = NoTask
      /\ \A i \in Ids : i # NoTask
  BY DEF Init, Ids, NoTask
<1> QED
  BY <1>1, <1>2, <1>3, <1>4
     DEF Safe, Unborn, Epochs, TimersAhead, NoLostWakeup, NoLostSleeper,
         NoOversleep

(* A step that leaves the clock, the timers, runNo and the scheduler in      *)
(* charge alone, keeps the tokens of the futures it does not touch, and lets *)
(* the one it touches neither sleep nor become runnable without a token.     *)
LEMMA SafeLocal ==
    ASSUME TypeOK, Control, Safe, TypeOK',
           UNCHANGED <<clock, timers, runNo>>,
           NEW s \in Scheds, NEW j \in Ids,
           pc' # "idle" => sched' = sched /\ pc # "idle",
           \A r \in Scheds, i \in Ids :
              ~(r = s /\ i = j) =>
                  /\ task'[r][i] = task[r][i]
                  /\ InQueue(ready[r], i) => InQueue(ready'[r], i),
           task'[s][j].epoch <= runNo,
           Woken(s, j)' => InQueue(ready'[s], j),
           Sleeping(s, j)' => /\ Sleeping(s, j)
                              /\ task'[s][j].at = task[s][j].at
                              /\ clock = task[s][j].at /\ InQueue(ready[s], j)
                                    => InQueue(ready'[s], j)
    PROVE  Epochs' /\ TimersAhead' /\ NoLostWakeup' /\ NoLostSleeper'
             /\ NoOversleep'
<1>1. ASSUME NEW r \in Scheds, NEW i \in Ids, Sleeping(r, i)'
      PROVE  /\ Sleeping(r, i) /\ task'[r][i].at = task[r][i].at
             /\ clock = task[r][i].at /\ InQueue(ready[r], i)
                   => InQueue(ready'[r], i)
  BY <1>1 DEF Sleeping
<1>2. ASSUME NEW r \in Scheds, NEW i \in Ids, Woken(r, i)'
      PROVE  InQueue(ready'[r], i)
  BY <1>2 DEF Woken, Safe, NoLostWakeup
<1>3. Epochs'
  BY <1>1 DEF Safe, Epochs
<1>4. TimersAhead'
  BY DEF Safe, TimersAhead
<1>5. NoLostWakeup'
  BY <1>2 DEF NoLostWakeup
<1>6. NoLostSleeper'
  BY <1>1 DEF Safe, NoLostSleeper
<1>7. NoOversleep'
  BY <1>1 DEF Safe, NoOversleep
<1> QED
  BY <1>3, <1>4, <1>5, <1>6, <1>7

LEMMA SafeSpawn ==
    ASSUME TypeOK, Control, Safe, TypeOK', NEW s \in Scheds, Spawn(s)
    PROVE  Safe'
<1>0. PICK j \in Ids : j = next_id[s]
  BY ConstantsAssumption DEF Spawn, TypeOK, Ids
<1>1. /\ task' = [task EXCEPT ![s][j] = Plain("new")]
      /\ ready' = [ready EXCEPT ![s] = Append(@, j)]
      /\ next_id' = [next_id EXCEPT ![s] = @ + 1]
      /\ UNCHANGED <<clock, timers, runNo, pc, sched, cur>>
      /\ s # sched
  BY <1>0 DEF Spawn, heap, thread
<1>2. /\ task'[s][j] = Plain("new")
      /\ \A r \in Scheds, i \in Ids :
            ~(r = s /\ i = j) => task'[r][i] = task[r][i]
  BY <1>1 DEF TypeOK
<1>3. /\ InQueue(ready'[s], j)
      /\ \A r \in Scheds, i \in Ids :
            InQueue(ready[r], i) => InQueue(ready'[r], i)
  BY <1>1, Push
<1>4. ~Sleeping(s, j)' /\ task'[s][j].epoch <= runNo
  BY <1>2 DEF Sleeping, Plain, TypeOK
<1>5. Epochs' /\ TimersAhead' /\ NoLostWakeup' /\ NoLostSleeper' /\ NoOversleep'
  BY <1>1, <1>2, <1>3, <1>4, SafeLocal
<1>6. Unborn'
  <2> SUFFICES ASSUME NEW r \in Scheds, NEW i \in Ids, i >= next_id'[r]
               PROVE  task'[r][i] = Absent /\ ~(sched' = r /\ cur' = i)
    BY DEF Unborn
  <2>1. r = s => next_id'[r] = j + 1
    BY <1>0, <1>1 DEF TypeOK
  <2>2. r # s => next_id'[r] = next_id[r]
    BY <1>1 DEF TypeOK
  <2>3. i >= next_id[r] /\ ~(r = s /\ i = j)
    <3>1. CASE r = s
      BY <3>1, <1>0, <2>1, ConstantsAssumption DEF Ids
    <3>2. CASE r # s
      BY <3>2, <2>2
    <3> QED
      BY <3>1, <3>2
  <2> QED
    BY <2>3, <1>1, <1>2 DEF Safe, Unborn
<1> QED
  BY <1>5, <1>6 DEF Safe

LEMMA SafeNotify ==
    ASSUME TypeOK, Control, Safe, TypeOK',
           NEW s \in Scheds, NEW j \in Ids, Notify(s, j)
    PROVE  Safe'
<1>1. /\ ready' = [ready EXCEPT ![s] = Append(@, j)]
      /\ UNCHANGED <<clock, timers, runNo, pc, sched, cur, next_id>>
      /\ j < next_id[s]
  BY DEF Notify, heap, thread
<1>2. task[s][j] \in Future
  BY DEF TypeOK
<1>3. /\ \A r \in Scheds, i \in Ids :
            ~(r = s /\ i = j) => task'[r][i] = task[r][i]
      /\ task'[s][j].st = task[s][j].st
      /\ task'[s][j].at = task[s][j].at
      /\ task'[s][j].epoch = task[s][j].epoch
  <2>1. CASE task[s][j].evt = "pending"
    <3>1. task' = [task EXCEPT ![s][j].evt = "fired"]
      BY <2>1 DEF Notify
    <3>2. task'[s][j] = [task[s][j] EXCEPT !.evt = "fired"]
      BY <3>1 DEF TypeOK
    <3>3. \A r \in Scheds, i \in Ids :
             ~(r = s /\ i = j) => task'[r][i] = task[r][i]
      BY <3>1 DEF TypeOK
    <3> QED
      BY <3>2, <3>3, <1>2 DEF Future
  <2>2. CASE task[s][j].evt # "pending"
    BY <2>2 DEF Notify
  <2> QED
    BY <2>1, <2>2
<1>4. /\ InQueue(ready'[s], j)
      /\ \A r \in Scheds, i \in Ids :
            InQueue(ready[r], i) => InQueue(ready'[r], i)
  BY <1>1, Push
<1>5. /\ Sleeping(s, j)' => Sleeping(s, j)
      /\ task'[s][j].epoch <= runNo
  BY <1>1, <1>3 DEF Sleeping, Safe, Epochs
<1>6. Epochs' /\ TimersAhead' /\ NoLostWakeup' /\ NoLostSleeper' /\ NoOversleep'
  BY <1>1, <1>3, <1>4, <1>5, SafeLocal
<1>7. Unborn'
  <2> SUFFICES ASSUME NEW r \in Scheds, NEW i \in Ids, i >= next_id'[r]
               PROVE  task'[r][i] = Absent /\ ~(sched' = r /\ cur' = i)
    BY DEF Unborn
  <2>1. i >= next_id[r] /\ ~(r = s /\ i = j)
    BY <1>1 DEF TypeOK, Ids
  <2> QED
    BY <2>1, <1>1, <1>3 DEF Safe, Unborn
<1> QED
  BY <1>6, <1>7 DEF Safe

LEMMA SafePopReady ==
    ASSUME TypeOK, Control, Safe, TypeOK', PopReady
    PROVE  Safe'
<1>0. PICK s \in Scheds : s = sched
  BY DEF PopReady, Control, TypeOK
<1>1. /\ pc = "loop" /\ ready[s] # <<>>
      /\ ready' = [ready EXCEPT ![s] = Tail(@)]
      /\ UNCHANGED <<clock, timers, runNo, sched, next_id>>
  BY <1>0 DEF PopReady, heap
<1>2. ready[s] \in Seq(Ids)
  BY DEF TypeOK
<1>j. PICK j \in Ids : j = Head(ready[s])
  BY <1>1, <1>2, InQueueTail
<1>3. \A r \in Scheds, i \in Ids :
         ~(r = s /\ i = j) => (InQueue(ready[r], i) => InQueue(ready'[r], i))
  <2>1. ready'[s] = Tail(ready[s])
    BY <1>1 DEF TypeOK
  <2>2. \A r \in Scheds : r # s => ready'[r] = ready[r]
    BY <1>1 DEF TypeOK
  <2> QED
    BY <1>1, <1>2, <1>j, <2>1, <2>2, InQueueTail
<1>4. CASE Resumes(task[s][j])
  <2>1. /\ task' = [task EXCEPT ![s][j] = Absent]
        /\ cur' = j
    BY <1>0, <1>j, <1>4 DEF PopReady
  <2>2. /\ task'[s][j] = Absent
        /\ \A r \in Scheds, i \in Ids :
              ~(r = s /\ i = j) => task'[r][i] = task[r][i]
    BY <1>1, <1>2, <2>1 DEF TypeOK
  <2>3. ~Sleeping(s, j)' /\ ~Woken(s, j)'
    BY <1>1, <2>2 DEF Sleeping, Woken, Absent, Plain
  <2>4. task'[s][j].epoch <= runNo
    BY <2>2 DEF Absent, Plain, TypeOK
  <2>5. Epochs' /\ TimersAhead' /\ NoLostWakeup' /\ NoLostSleeper' /\ NoOversleep'
    <3>1. /\ Woken(s, j)' => InQueue(ready'[s], j)
          /\ Sleeping(s, j)' =>
                /\ Sleeping(s, j)
                /\ task'[s][j].at = task[s][j].at
                /\ clock = task[s][j].at /\ InQueue(ready[s], j)
                      => InQueue(ready'[s], j)
      BY <1>1, <2>3
    <3> QED
      BY <1>1, <1>2, <1>3, <2>2, <2>4, <3>1, <1>0, SafeLocal
  <2>6. task[s][j] # Absent
    BY <1>4 DEF Resumes, Absent, Plain
  <2>7. Unborn'
    BY <1>0, <1>1, <2>1, <2>2, <2>6 DEF Safe, Unborn
  <2> QED
    BY <2>5, <2>7 DEF Safe
<1>5. CASE ~Resumes(task[s][j])
  <2>1. UNCHANGED <<task, pc, cur>>
    BY <1>0, <1>j, <1>5 DEF PopReady
  <2>2. ~Woken(s, j)'
    BY <1>1, <1>5, <2>1 DEF Woken, Resumes
  <2>3. Sleeping(s, j) => ~(clock >= task[s][j].at)
    BY <1>5 DEF Resumes, Sleeping
  <2>4. Sleeping(s, j) => clock # task[s][j].at
    <3>1. clock \in Nat
      BY ConstantsAssumption DEF TypeOK, Deadline
    <3> QED
      BY <2>3, <3>1
  <2>5. Sleeping(s, j)' <=> Sleeping(s, j)
    BY <1>1, <2>1 DEF Sleeping
  <2>6. task'[s][j].epoch <= runNo
    BY <1>1, <1>2, <2>1 DEF Safe, Epochs
  <2>7. /\ Woken(s, j)' => InQueue(ready'[s], j)
        /\ Sleeping(s, j)' =>
              /\ Sleeping(s, j)
              /\ task'[s][j].at = task[s][j].at
              /\ clock = task[s][j].at /\ InQueue(ready[s], j)
                    => InQueue(ready'[s], j)
    BY <2>1, <2>2, <2>4, <2>5, <1>1
  <2>8. Epochs' /\ TimersAhead' /\ NoLostWakeup' /\ NoLostSleeper' /\ NoOversleep'
    BY <1>1, <1>2, <1>3, <2>1, <2>6, <2>7, <1>0, SafeLocal
  <2>9. Unborn'
    BY <1>1, <2>1 DEF Safe, Unborn
  <2> QED
    BY <2>8, <2>9 DEF Safe
<1> QED
  BY <1>4, <1>5

LEMMA SafeFireTimer ==
    ASSUME TypeOK, Control, Safe, TypeOK', FireTimer
    PROVE  Safe'
<1>0. PICK s \in Scheds : s = sched
  BY DEF FireTimer, Control, TypeOK
<1>1. /\ pc = "loop" /\ ready[s] = <<>>
      /\ UNCHANGED <<task, next_id, pc, sched, cur, runNo>>
  BY <1>0 DEF FireTimer, thread
<1>2. PICK t \in timers :
         /\ \A u \in timers \ {t} : Before(t, u)
         /\ timers' = timers \ {t}
         /\ clock' = IF t.at > clock THEN t.at ELSE clock
         /\ ready' = [ready EXCEPT ![t.s] = Append(@, t.id)]
  BY DEF FireTimer
<1>3. /\ t.at \in Nat /\ t.s \in Scheds /\ t.id \in Ids
      /\ \A u \in timers : u.at \in Nat
      /\ clock \in Nat
  BY <1>2, ConstantsAssumption, SMTT(30) DEF TypeOK, Timer, Deadline
<1>4. /\ InQueue(ready'[t.s], t.id)
      /\ \A r \in Scheds, i \in Ids :
            InQueue(ready[r], i) => InQueue(ready'[r], i)
  BY <1>2, <1>3, Push
<1>5. clock' = t.at
  BY <1>2, <1>3 DEF Safe, TimersAhead
<1>6. \A u \in timers : t.at <= u.at
  BY <1>2, <1>3 DEF Before
<1>7. \A i \in Ids : ~InQueue(ready[s], i)
  BY <1>1 DEF InQueue
<1>8. \A r \in Scheds, i \in Ids :
         /\ Sleeping(r, i)' <=> Sleeping(r, i)
         /\ Woken(r, i)' <=> Woken(r, i)
  BY <1>1 DEF Sleeping, Woken
<1>9. ASSUME NEW r \in Scheds, NEW i \in Ids, Sleeping(r, i)
      PROVE  \E u \in timers : u.s = r /\ u.id = i /\ u.at = task[r][i].at
  <2>1. r = s
    BY <1>0, <1>1, <1>9 DEF Safe, Epochs
  <2> QED
    BY <1>7, <1>9, <2>1 DEF Safe, NoLostSleeper
<1>10. Unborn' /\ Epochs'
  BY <1>1, <1>8 DEF Safe, Unborn, Epochs
<1>11. TimersAhead'
  BY <1>2, <1>5, <1>6 DEF TimersAhead
<1>12. NoLostWakeup'
  BY <1>4, <1>8 DEF Safe, NoLostWakeup
<1>13. NoOversleep'
  BY <1>1, <1>5, <1>6, <1>8, <1>9 DEF NoOversleep
<1>14. NoLostSleeper'
  <2> SUFFICES ASSUME NEW r \in Scheds, NEW i \in Ids, Sleeping(r, i)
               PROVE  \/ \E u \in timers' :
                            u.s = r /\ u.id = i /\ u.at = task'[r][i].at
                      \/ clock' = task'[r][i].at /\ InQueue(ready'[r], i)
    BY <1>8 DEF NoLostSleeper
  <2>1. PICK u \in timers : u.s = r /\ u.id = i /\ u.at = task[r][i].at
    BY <1>9
  <2> QED
    BY <2>1, <1>1, <1>2, <1>4, <1>5
<1> QED
  BY <1>10, <1>11, <1>12, <1>13, <1>14 DEF Safe

LEMMA SafeRunEnter ==
    ASSUME TypeOK, Control, Safe, TypeOK', NEW s \in Scheds, RunEnter(s)
    PROVE  Safe'
<1>1. /\ runNo' = runNo + 1 /\ timers' = {} /\ cur' = NoTask
      /\ UNCHANGED <<task, ready, next_id>>
  BY DEF RunEnter
<1>2. \A r \in Scheds, i \in Ids :
         task[r][i].epoch \in Nat /\ task[r][i].epoch <= runNo
  BY DEF Safe, Epochs, TypeOK, Future
<1>3. \A r \in Scheds, i \in Ids :
         task'[r][i].epoch <= runNo' /\ task'[r][i].epoch # runNo'
  BY <1>1, <1>2 DEF TypeOK
<1>4. \A r \in Scheds, i \in Ids :
         /\ ~Sleeping(r, i)'
         /\ Woken(r, i)' <=> Woken(r, i)
         /\ i # NoTask
  BY <1>1, <1>3 DEF Sleeping, Woken, NoTask, Ids
<1> QED
  BY <1>1, <1>3, <1>4
     DEF Safe, Unborn, Epochs, TimersAhead, NoLostWakeup, NoLostSleeper,
         NoOversleep

LEMMA SafeRunExit ==
    ASSUME TypeOK, Control, Safe, RunExit
    PROVE  Safe'
<1>1. /\ UNCHANGED <<task, ready, next_id, clock, timers, runNo>>
      /\ pc' = "idle" /\ cur' = NoTask
  BY DEF RunExit, heap
<1>2. \A r \in Scheds, i \in Ids :
         /\ Sleeping(r, i)' <=> Sleeping(r, i)
         /\ Woken(r, i)' <=> Woken(r, i)
         /\ i # NoTask
  BY <1>1 DEF Sleeping, Woken, NoTask, Ids
<1> QED
  BY <1>1, <1>2
     DEF Safe, Unborn, Epochs, TimersAhead, NoLostWakeup, NoLostSleeper,
         NoOversleep

(* A task is polled only if it was handed out, so parking it again is safe.  *)
LEMMA SafePark ==
    ASSUME TypeOK, Control, Safe, TypeOK', NEW f \in Future,
           pc = "poll", Park(f),
           NEW s \in Scheds, s = sched, NEW j \in Ids, j = cur
    PROVE  /\ task'[s][j] = f
           /\ \A r \in Scheds, i \in Ids :
                 ~(r = s /\ i = j) => task'[r][i] = task[r][i]
           /\ UNCHANGED <<next_id, clock, runNo, sched>>
           /\ pc' # "idle" /\ pc # "idle" /\ cur' = NoTask
           /\ Unborn'
<1>1. /\ task'[s][j] = f
      /\ \A r \in Scheds, i \in Ids :
            ~(r = s /\ i = j) => task'[r][i] = task[r][i]
      /\ UNCHANGED <<next_id, clock, runNo, sched>>
      /\ pc' # "idle" /\ cur' = NoTask
  BY DEF Park, TypeOK
<1>2. ASSUME NEW r \in Scheds, NEW i \in Ids, i >= next_id[r]
      PROVE  task'[r][i] = Absent /\ i # NoTask
  <2>1. ~(r = s /\ i = j)
    BY <1>2 DEF Safe, Unborn
  <2> QED
    BY <1>1, <1>2, <2>1 DEF Safe, Unborn, Ids, NoTask
<1> QED
  BY <1>1, <1>2 DEF Unborn

LEMMA SafeYield ==
    ASSUME TypeOK, Control, Safe, TypeOK', Yield
    PROVE  Safe'
<1>0. PICK s \in Scheds, j \in Ids : s = sched /\ j = cur /\ pc = "poll"
  BY DEF Yield, Control, TypeOK
<1>1. /\ Park(Plain("yield")) /\ ready' = [ready EXCEPT ![s] = Append(@, j)]
      /\ UNCHANGED timers
  BY <1>0 DEF Yield
<1>2. Plain("yield") \in Future
  BY DEF Plain, Future
<1>3. /\ task'[s][j] = Plain("yield")
      /\ \A r \in Scheds, i \in Ids :
            ~(r = s /\ i = j) => task'[r][i] = task[r][i]
      /\ UNCHANGED <<clock, runNo, sched>>
      /\ pc # "idle" /\ Unborn'
  BY <1>0, <1>1, <1>2, SafePark
<1>4. /\ InQueue(ready'[s], j)
      /\ \A r \in Scheds, i \in Ids :
            InQueue(ready[r], i) => InQueue(ready'[r], i)
  BY <1>1, Push
<1>5. ~Sleeping(s, j)' /\ task'[s][j].epoch <= runNo
  BY <1>3 DEF Sleeping, Plain, TypeOK
<1>6. Epochs' /\ TimersAhead' /\ NoLostWakeup' /\ NoLostSleeper' /\ NoOversleep'
  BY <1>1, <1>3, <1>4, <1>5, SafeLocal
<1> QED
  BY <1>3, <1>6 DEF Safe

LEMMA SafeAwaitEvent ==
    ASSUME TypeOK, Control, Safe, TypeOK', AwaitEvent
    PROVE  Safe'
<1> DEFINE f == [Plain("await") EXCEPT !.evt = "pending"]
<1>0. PICK s \in Scheds, j \in Ids : s = sched /\ j = cur /\ pc = "poll"
  BY DEF AwaitEvent, Control, TypeOK
<1>1. Park(f) /\ UNCHANGED <<ready, timers>>
  BY DEF AwaitEvent
<1>2. /\ f \in Future
      /\ f.st = "await" /\ f.evt = "pending" /\ f.at = NoDeadline /\ f.epoch = 0
  BY DEF Plain, Future
<1> HIDE DEF f
<1>3. /\ task'[s][j] = f
      /\ \A r \in Scheds, i \in Ids :
            ~(r = s /\ i = j) => task'[r][i] = task[r][i]
      /\ UNCHANGED <<clock, runNo, sched>>
      /\ pc # "idle" /\ Unborn'
  BY <1>0, <1>1, <1>2, SafePark
<1>4. ~Sleeping(s, j)' /\ ~Woken(s, j)' /\ task'[s][j].epoch <= runNo
  BY <1>2, <1>3 DEF Sleeping, Woken, TypeOK
<1>5. /\ Woken(s, j)' => InQueue(ready'[s], j)
      /\ Sleeping(s, j)' =>
            /\ Sleeping(s, j)
            /\ task'[s][j].at = task[s][j].at
            /\ clock = task[s][j].at /\ InQueue(ready[s], j)
                  => InQueue(ready'[s], j)
  BY <1>4
<1>6. Epochs' /\ TimersAhead' /\ NoLostWakeup' /\ NoLostSleeper' /\ NoOversleep'
  BY <1>1, <1>3, <1>4, <1>5, SafeLocal
<1> QED
  BY <1>3, <1>6 DEF Safe

LEMMA SafeSleepFor ==
    ASSUME TypeOK, Control, Safe, TypeOK',
           NEW ms \in Deadline, NEW evt \in {"none", "pending"},
           SleepFor(ms, evt)
    PROVE  Safe'
<1> DEFINE at == clock + ms
           f  == [st |-> "await", at |-> at, evt |-> evt, epoch |-> runNo]
           t  == [at |-> at, seq |-> timer_seq, s |-> sched, id |-> cur]
<1>0. PICK s \in Scheds, j \in Ids : s = sched /\ j = cur /\ pc = "poll"
  BY DEF SleepFor, Fits, Control, TypeOK
<1>1. CASE UNCHANGED vars
  BY <1>1 DEF vars, Safe, Unborn, Epochs, TimersAhead, NoLostWakeup,
              NoLostSleeper, NoOversleep, Sleeping, Woken
<1>2. CASE RunExit
  BY <1>2, SafeRunExit
<1>3. CASE /\ ms > 0 /\ at <= MaxU64 /\ timers' = timers \cup {t}
           /\ timer_seq' = timer_seq + 1 /\ Park(f) /\ UNCHANGED ready
  <2>1. at \in Deadline /\ clock <= at
    BY <1>3, ConstantsAssumption DEF TypeOK, Deadline
  <2>2. /\ f \in Future /\ f.st = "await" /\ f.at = at /\ f.evt # "fired"
        /\ f.epoch = runNo
    BY <2>1 DEF Future, TypeOK
  <2>3. t.at = at /\ t.s = s /\ t.id = j
    BY <1>0
  <2>t. timers' = timers \cup {t} /\ UNCHANGED ready /\ Park(f)
    BY <1>3
  <2> HIDE DEF f, t, at
  <2>4. /\ task'[s][j] = f
        /\ \A r \in Scheds, i \in Ids :
              ~(r = s /\ i = j) => task'[r][i] = task[r][i]
        /\ UNCHANGED <<clock, runNo, sched>>
        /\ pc # "idle" /\ Unborn'
    BY <1>0, <2>t, <2>2, SafePark
  <2>5. \A r \in Scheds, i \in Ids :
           ~(r = s /\ i = j) => /\ Sleeping(r, i)' <=> Sleeping(r, i)
                                /\ Woken(r, i)' <=> Woken(r, i)
    BY <2>4 DEF Sleeping, Woken
  <2>6. ~Woken(s, j)'
    BY <2>2, <2>4 DEF Woken
  <2>7. Epochs'
    BY <1>0, <2>2, <2>4, <2>5 DEF Safe, Epochs, TypeOK
  <2>8. TimersAhead'
    BY <2>t, <2>1, <2>3, <2>4 DEF Safe, TimersAhead
  <2>9. NoLostWakeup'
    BY <2>t, <2>5, <2>6 DEF Safe, NoLostWakeup
  <2>10. NoLostSleeper'
    <3> SUFFICES ASSUME NEW r \in Scheds, NEW i \in Ids, Sleeping(r, i)'
                 PROVE  \/ \E u \in timers' :
                              u.s = r /\ u.id = i /\ u.at = task'[r][i].at
                        \/ clock' = task'[r][i].at /\ InQueue(ready'[r], i)
      BY DEF NoLostSleeper
    <3>1. CASE r = s /\ i = j
      BY <3>1, <2>t, <2>2, <2>3, <2>4
    <3>2. CASE ~(r = s /\ i = j)
      BY <3>2, <2>t, <2>4, <2>5 DEF Safe, NoLostSleeper
    <3> QED
      BY <3>1, <3>2
  <2>11. NoOversleep'
    BY <2>1, <2>2, <2>4, <2>5 DEF Safe, NoOversleep
  <2> QED
    BY <2>4, <2>7, <2>8, <2>9, <2>10, <2>11 DEF Safe
<1> QED
  BY <1>1, <1>2, <1>3 DEF SleepFor, Fits

LEMMA SafeStep ==
    TypeOK /\ Control /\ Safe /\ TypeOK' /\ [Next]_vars => Safe'
<1> SUFFICES ASSUME TypeOK, Control, Safe, TypeOK', [Next]_vars
             PROVE  Safe'
  OBVIOUS
<1>1. ASSUME UNCHANGED vars PROVE Safe'
  BY <1>1 DEF vars, Safe, Unborn, Epochs, TimersAhead, NoLostWakeup,
              NoLostSleeper, NoOversleep, Sleeping, Woken
<1>2. ASSUME NEW s \in Scheds, Spawn(s) \/ RunEnter(s) \/ NestedRun(s)
      PROVE  Safe'
  BY <1>1, <1>2, SafeSpawn, SafeRunEnter DEF NestedRun
<1>3. ASSUME NEW s \in Scheds, NEW i \in Ids, Notify(s, i)
      PROVE  Safe'
  BY <1>3, SafeNotify
<1>4. CASE RunLoop
  BY <1>4, SafePopReady, SafeFireTimer, SafeRunExit DEF RunLoop, Finish
<1>5. CASE Complete
  <2>1. /\ UNCHANGED <<task, ready, next_id, clock, timers, runNo, sched>>
        /\ pc # "idle" /\ cur' = NoTask
    BY <1>5 DEF Complete, heap
  <2>2. \A r \in Scheds, i \in Ids :
           /\ Sleeping(r, i)' <=> Sleeping(r, i)
           /\ Woken(r, i)' <=> Woken(r, i)
           /\ i # NoTask
    BY <2>1 DEF Sleeping, Woken, Ids, NoTask
  <2> QED
    BY <2>1, <2>2 DEF Safe, Unborn, Epochs, TimersAhead, NoLostWakeup,
                      NoLostSleeper, NoOversleep
<1>6. CASE PollEnds
  BY <1>5, <1>6, SafeYield, SafeAwaitEvent, SafeSleepFor, SafeRunExit
     DEF PollEnds, Sleep, Panic
<1> QED
  BY <1>1, <1>2, <1>3, <1>4, <1>6 DEF Next

(* The invariant holds in every reachable state. *)
THEOREM Invariance == Spec => []IInv
<1>1. Init => TypeOK /\ Control /\ Safe
  BY TypeInit, SafeInit
<1>2. TypeOK /\ Control /\ Safe /\ [Next]_vars
          => TypeOK' /\ Control' /\ Safe'
  BY TypeStep, SafeStep
<1>3. TypeOK /\ Control /\ Safe => IInv
  BY DEF Safe, IInv
<1> QED
  BY <1>1, <1>2, <1>3, PTL DEF Spec

-----------------------------------------------------------------------------
(* The properties that follow.                                               *)

(* No spawn, yield or event wake is ever lost, for any tasks and any order   *)
(* of wakes, panics and runs.                                                *)
THEOREM WakeupsKept == Spec => []NoLostWakeup
<1>1. IInv => NoLostWakeup
  BY DEF IInv
<1> QED
  BY <1>1, Invariance, PTL

(* No sleeper of the current run is ever stranded. *)
THEOREM SleepersKept == Spec => []NoLostSleeper
<1>1. IInv => NoLostSleeper
  BY DEF IInv
<1> QED
  BY <1>1, Invariance, PTL

(* The virtual clock never passes the deadline of a task that still sleeps. *)
THEOREM VirtualTimeExact == Spec => []NoOversleep
<1>1. IInv => NoOversleep
  BY DEF IInv
<1> QED
  BY <1>1, Invariance, PTL

(* RUNNING is exact, whatever panics and nested calls of run() there are. *)
THEOREM NotReentrant == Spec => []RunningExact
<1>1. IInv => RunningExact
  BY DEF IInv, Control
<1> QED
  BY <1>1, Invariance, PTL

(* When run() returns, every task left in its scheduler waits for an event. *)
THEOREM ReturnsQuiescent == Spec => FinishIsQuiescent
<1>1. ASSUME IInv, Next, pc = "loop", pc' = "idle", NEW i \in Ids
      PROVE  ~Woken(sched, i) /\ ~Sleeping(sched, i)
  <2>1. PICK s \in Scheds : s = sched
    BY <1>1 DEF IInv, Control, TypeOK
  <2>2. Finish
    BY <1>1 DEF Next, RunLoop, PollEnds, Sleep, Spawn, RunEnter, NestedRun,
                Notify, UserCode, PopReady, FireTimer, thread, Yield,
                AwaitEvent, SleepFor, Fits, Complete, Panic
  <2>3. ready[s] = <<>> /\ timers = {}
    BY <2>1, <2>2 DEF Finish
  <2>4. ~InQueue(ready[s], i)
    BY <2>3 DEF InQueue
  <2> QED
    BY <1>1, <2>1, <2>3, <2>4 DEF IInv, NoLostWakeup, NoLostSleeper
<1>2. IInv /\ [Next]_vars =>
         [(pc = "loop" /\ pc' = "idle") =>
             \A i \in Ids : ~Woken(sched, i) /\ ~Sleeping(sched, i)]_vars
  BY <1>1
<1> QED
  BY <1>2, Invariance, PTL DEF Spec, FinishIsQuiescent

-----------------------------------------------------------------------------
(* The refinement.                                                           *)

(* The future of the task that is polled is out of the map, and only a       *)
(* future that is awaited waits for an event.                                *)
Polled == pc = "poll" => task[sched][cur] = Absent
EventsAwaited ==
    \A s \in Scheds, i \in Ids : task[s][i].evt = "pending" => task[s][i].st = "await"

LEMMA FuturesStep ==
    TypeOK /\ Control /\ Polled /\ EventsAwaited /\ [Next]_vars
        => Polled' /\ EventsAwaited'
<1> SUFFICES ASSUME TypeOK, Control, Polled, EventsAwaited, [Next]_vars
             PROVE  Polled' /\ EventsAwaited'
  OBVIOUS
<1> USE DEF Polled, EventsAwaited
<1>f. /\ \A st : Plain(st).evt = "none"
      /\ Absent.evt = "none"
  BY DEF Plain, Absent
<1>1. ASSUME NEW s \in Scheds, Spawn(s) PROVE Polled' /\ EventsAwaited'
  <2>0. PICK j \in Ids : j = next_id[s]
    BY <1>1, ConstantsAssumption DEF Spawn, TypeOK, Ids
  <2>1. /\ task' = [task EXCEPT ![s][j] = Plain("new")]
        /\ UNCHANGED <<pc, sched, cur>> /\ s # sched
    BY <1>1, <2>0 DEF Spawn, thread
  <2>2. \A r \in Scheds, i \in Ids :
            task'[r][i] = IF r = s /\ i = j THEN Plain("new") ELSE task[r][i]
    BY <2>1 DEF TypeOK
  <2>3. pc = "poll" => sched \in Scheds /\ cur \in Ids
    BY DEF Control, TypeOK
  <2> QED BY <2>1, <2>2, <2>3, <1>f
<1>2. ASSUME NEW s \in Scheds, RunEnter(s) PROVE Polled' /\ EventsAwaited'
  BY <1>2 DEF RunEnter
<1>3. CASE UNCHANGED vars
  BY <1>3 DEF vars
<1>4. ASSUME NEW s \in Scheds, NEW j \in Ids, Notify(s, j)
      PROVE  Polled' /\ EventsAwaited'
  <2>1. UNCHANGED <<pc, sched, cur>>
    BY <1>4 DEF Notify, thread
  <2>2. CASE task[s][j].evt = "pending"
    <3>1. task' = [task EXCEPT ![s][j].evt = "fired"]
      BY <1>4, <2>2 DEF Notify
    <3>2. \A r \in Scheds, i \in Ids :
              task'[r][i] = IF r = s /\ i = j THEN [task[s][j] EXCEPT !.evt = "fired"]
                                              ELSE task[r][i]
      BY <3>1 DEF TypeOK
    <3>3. task'[s][j].evt = "fired"
      BY <3>2 DEF TypeOK, Future
    <3>4. pc = "poll" => sched \in Scheds /\ cur \in Ids /\ ~(sched = s /\ cur = j)
      BY <2>2, <1>f DEF Control, TypeOK
    <3>5. Polled'
      BY <2>1, <3>2, <3>4
    <3>6. EventsAwaited'
      BY <3>2, <3>3
    <3> QED BY <3>5, <3>6
  <2>3. CASE task[s][j].evt # "pending"
    BY <1>4, <2>1, <2>3 DEF Notify
  <2> QED BY <2>2, <2>3
<1>5. CASE PopReady
  <2>0. PICK s \in Scheds, j \in Ids : s = sched /\ j = Head(ready[sched])
    BY <1>5, InQueueTail DEF PopReady, Control, TypeOK
  <2>1. CASE Resumes(task[s][j])
    <3>1. /\ task' = [task EXCEPT ![s][j] = Absent]
          /\ sched' = s /\ cur' = j
      BY <1>5, <2>0, <2>1 DEF PopReady
    <3>2. \A r \in Scheds, i \in Ids :
              task'[r][i] = IF r = s /\ i = j THEN Absent ELSE task[r][i]
      BY <3>1 DEF TypeOK
    <3> QED BY <3>1, <3>2, <1>f
  <2>2. CASE ~Resumes(task[s][j])
    BY <1>5, <2>0, <2>2 DEF PopReady
  <2> QED BY <2>1, <2>2
<1>6. CASE FireTimer
  BY <1>6 DEF FireTimer, thread
<1>7. CASE RunExit
  BY <1>7 DEF RunExit
<1>8. CASE Complete
  BY <1>8 DEF Complete
<1>9. ASSUME NEW f \in Future, pc = "poll", Park(f), f.evt = "pending" => f.st = "await"
      PROVE  Polled' /\ EventsAwaited'
  <2>0. PICK s \in Scheds, j \in Ids : s = sched /\ j = cur
    BY <1>9 DEF Control, TypeOK
  <2>1. /\ pc' = "loop"
        /\ \A r \in Scheds, i \in Ids :
              task'[r][i] = IF r = s /\ i = j THEN f ELSE task[r][i]
    BY <1>9, <2>0 DEF Park, TypeOK
  <2> QED BY <1>9, <2>1
<1>10. CASE Yield
  <2>1. Plain("yield") \in Future
    BY DEF Plain, Future
  <2> QED BY <1>9, <1>10, <1>f, <2>1 DEF Yield
<1>11. CASE AwaitEvent
  <2> DEFINE f == [Plain("await") EXCEPT !.evt = "pending"]
  <2>1. f \in Future /\ f.st = "await"
    BY DEF Plain, Future
  <2>2. pc = "poll" /\ Park(f)
    BY <1>11 DEF AwaitEvent
  <2> HIDE DEF f
  <2> QED BY <1>9, <2>1, <2>2
<1>12. ASSUME NEW ms \in Deadline, NEW evt \in {"none", "pending"}, SleepFor(ms, evt)
       PROVE  Polled' /\ EventsAwaited'
  <2> DEFINE f == [st |-> "await", at |-> clock + ms, evt |-> evt, epoch |-> runNo]
  <2>1. CASE Fits(clock + ms) /\ Park(f) /\ pc = "poll"
    <3>1. f \in Future /\ f.st = "await"
      BY <2>1, ConstantsAssumption DEF Fits, Deadline, TypeOK, Future
    <3> HIDE DEF f
    <3> QED BY <1>9, <2>1, <3>1
  <2> QED BY <1>3, <1>7, <1>12, <2>1 DEF SleepFor
<1> QED
  BY <1>1, <1>2, <1>3, <1>4, <1>5, <1>6, <1>7, <1>8, <1>10, <1>11, <1>12
     DEF Next, NestedRun, RunLoop, PollEnds, Finish, Panic, Sleep

Inv == TypeOK /\ Control /\ Safe /\ Polled /\ EventsAwaited

LEMMA InvInit == Init => Inv
<1> SUFFICES ASSUME Init PROVE Inv
  OBVIOUS
<1>1. TypeOK /\ Control /\ Safe
  BY TypeInit, SafeInit
<1>2. Polled /\ EventsAwaited
  BY DEF Init, Polled, EventsAwaited, Absent, Plain
<1> QED BY <1>1, <1>2 DEF Inv

LEMMA InvStep == Inv /\ [Next]_vars => Inv'
  BY TypeStep, SafeStep, FuturesStep DEF Inv

-----------------------------------------------------------------------------
(* The abstract variables, task by task.                                     *)

LEMMA Pointwise ==
    \A s \in Scheds, i \in Ids :
        /\ Lives[s][i] = LifeOf(s, i) /\ Lives'[s][i] = LifeOf(s, i)'
        /\ Dues[s][i] = DueOf(s, i)   /\ Dues'[s][i] = DueOf(s, i)'
        /\ <<s, i>> \in Armed <=> Sleeping(s, i)
        /\ <<s, i>> \in Armed' <=> Sleeping(s, i)'
  BY Zenon DEF Lives, Dues, Armed

IsTable(f, S, I) == f = [r \in S |-> [i \in I |-> f[r][i]]]

(* A table that differs from another in one place at most. *)
LEMMA Differs ==
    ASSUME NEW S, NEW I, NEW f, NEW g, IsTable(f, S, I), IsTable(g, S, I),
           NEW s \in S, NEW j \in I,
           \A r \in S, i \in I : ~(r = s /\ i = j) => g[r][i] = f[r][i]
    PROVE  g = [f EXCEPT ![s][j] = g[s][j]]
<1> USE DEF IsTable
<1> DEFINE h == [f EXCEPT ![s][j] = g[s][j]]
<1>1. ASSUME NEW r \in S PROVE f[r] = [i \in I |-> f[r][i]] /\ g[r] = [i \in I |-> g[r][i]]
  <2>1. f[r] = [q \in S |-> [i \in I |-> f[q][i]]][r]
    OBVIOUS
  <2>2. g[r] = [q \in S |-> [i \in I |-> g[q][i]]][r]
    OBVIOUS
  <2> QED BY <2>1, <2>2, Zenon
<1>2. ASSUME NEW r \in S, r # s PROVE h[r] = g[r]
  <2>1. h[r] = f[r]
    BY <1>2
  <2>2. [i \in I |-> f[r][i]] = [i \in I |-> g[r][i]]
    BY <1>2
  <2> QED BY <1>1, <2>1, <2>2
<1>3. h[s] = g[s]
  <2>1. h[s] = [f[s] EXCEPT ![j] = g[s][j]]
    OBVIOUS
  <2>2. [f[s] EXCEPT ![j] = g[s][j]] = [i \in I |-> IF i = j THEN g[s][j] ELSE f[s][i]]
    BY <1>1
  <2>3. [i \in I |-> IF i = j THEN g[s][j] ELSE f[s][i]] = [i \in I |-> g[s][i]]
    OBVIOUS
  <2> QED BY <1>1, <2>1, <2>2, <2>3
<1>4. h = [r \in S |-> h[r]] /\ g = [r \in S |-> g[r]]
  OBVIOUS
<1>5. \A r \in S : h[r] = g[r]
  BY <1>2, <1>3
<1> HIDE DEF h
<1>6. h = g
  BY <1>4, <1>5
<1> QED BY <1>6 DEF h

LEMMA Tables ==
    /\ IsTable(Lives, Scheds, Ids) /\ IsTable(Lives', Scheds, Ids)
    /\ IsTable(Dues, Scheds, Ids)  /\ IsTable(Dues', Scheds, Ids)
  BY DEF Lives, Dues, IsTable

(* A step that touches one task changes the abstract variables there.        *)
LEMMA OneTask ==
    ASSUME NEW s \in Scheds, NEW j \in Ids,
           \A r \in Scheds, i \in Ids : ~(r = s /\ i = j) =>
               /\ LifeOf(r, i)' = LifeOf(r, i) /\ DueOf(r, i)' = DueOf(r, i)
               /\ Sleeping(r, i)' <=> Sleeping(r, i)
    PROVE  /\ Lives' = [Lives EXCEPT ![s][j] = LifeOf(s, j)']
           /\ Dues' = [Dues EXCEPT ![s][j] = DueOf(s, j)']
           /\ DueOf(s, j)' = DueOf(s, j) => Dues' = Dues
           /\ Sleeping(s, j)' => Armed' = Armed \cup {<<s, j>>}
           /\ ~Sleeping(s, j)' => Armed' = Armed \ {<<s, j>>}
           /\ (Sleeping(s, j)' <=> Sleeping(s, j)) => Armed' = Armed
<1>0. \A r \in Scheds, i \in Ids : ~(r = s /\ i = j) =>
          Lives'[r][i] = Lives[r][i] /\ Dues'[r][i] = Dues[r][i]
  <2> SUFFICES ASSUME NEW r \in Scheds, NEW i \in Ids, ~(r = s /\ i = j)
               PROVE  Lives'[r][i] = Lives[r][i] /\ Dues'[r][i] = Dues[r][i]
    OBVIOUS
  <2>1. LifeOf(r, i)' = LifeOf(r, i) /\ DueOf(r, i)' = DueOf(r, i)
    OBVIOUS
  <2>2. /\ Lives[r][i] = LifeOf(r, i) /\ Lives'[r][i] = LifeOf(r, i)'
        /\ Dues[r][i] = DueOf(r, i)   /\ Dues'[r][i] = DueOf(r, i)'
    BY Pointwise, Zenon
  <2> QED BY <2>1, <2>2, Zenon
<1>1. Lives' = [Lives EXCEPT ![s][j] = Lives'[s][j]]
  BY <1>0, Tables, Differs
<1>2. Dues' = [Dues EXCEPT ![s][j] = Dues'[s][j]]
  BY <1>0, Tables, Differs
<1>3. DueOf(s, j)' = DueOf(s, j) => Dues' = Dues
  <2>1. SUFFICES ASSUME DueOf(s, j)' = DueOf(s, j) PROVE Dues' = Dues
    OBVIOUS
  <2>2. \A r \in Scheds, i \in Ids : DueOf(r, i)' = DueOf(r, i)
    BY <2>1
  <2> QED BY <2>2, Zenon DEF Dues
<1>4. Armed \subseteq Scheds \X Ids /\ Armed' \subseteq Scheds \X Ids
  BY DEF Armed
<1>5. \A p \in Scheds \X Ids : p = <<p[1], p[2]>> /\ p[1] \in Scheds /\ p[2] \in Ids
  OBVIOUS
<1>6. \A p \in Scheds \X Ids : p # <<s, j>> => (p \in Armed' <=> p \in Armed)
  BY <1>5, Pointwise
<1>7. /\ <<s, j>> \in Armed' <=> Sleeping(s, j)'
      /\ <<s, j>> \in Armed <=> Sleeping(s, j)
  BY Pointwise
<1>8. Sleeping(s, j)' => Armed' = Armed \cup {<<s, j>>}
  BY <1>4, <1>6, <1>7
<1>9. ~Sleeping(s, j)' => Armed' = Armed \ {<<s, j>>}
  BY <1>4, <1>6, <1>7
<1>10. (Sleeping(s, j)' <=> Sleeping(s, j)) => Armed' = Armed
  <2> SUFFICES ASSUME Sleeping(s, j)' <=> Sleeping(s, j) PROVE Armed' = Armed
    OBVIOUS
  <2>1. <<s, j>> \in Armed' <=> <<s, j>> \in Armed
    BY <1>7, Zenon
  <2>2. \A p \in Scheds \X Ids : p \in Armed' <=> p \in Armed
    BY <1>6, <2>1, Zenon
  <2> QED BY <1>4, <2>2, Zenon
<1> QED BY <1>1, <1>2, <1>3, <1>8, <1>9, <1>10, Pointwise

(* A step that touches no task.  *)
LEMMA NoTaskTouched ==
    ASSUME UNCHANGED <<task, next_id, runNo>>, Control,
           \A r \in Scheds, i \in Ids :
               (sched' = r /\ cur' = i) <=> (sched = r /\ cur = i)
    PROVE  UNCHANGED <<Lives, Dues, Armed>>
<1>1. \A r \in Scheds, i \in Ids :
          /\ DueOf(r, i)' = DueOf(r, i)
          /\ Sleeping(r, i)' <=> Sleeping(r, i)
          /\ Woken(r, i)' <=> Woken(r, i)
  BY DEF DueOf, Sleeping, Woken
<1>l. \A r \in Scheds, i \in Ids : LifeOf(r, i)' = LifeOf(r, i)
  BY <1>1 DEF LifeOf
<1>2. Lives' = Lives /\ Dues' = Dues
  BY <1>1, <1>l, Zenon DEF Lives, Dues
<1>3. Armed' = Armed
  BY <1>1 DEF Armed
<1> QED BY <1>2, <1>3

-----------------------------------------------------------------------------
(* Step by step.                                                             *)

LEMMA SpawnIsBorn ==
    ASSUME Inv, NEW s \in Scheds, Spawn(s)
    PROVE  \E j \in Ids : Executor!Born(s, j)
<1>0. PICK j \in Ids : j = next_id[s]
  BY ConstantsAssumption DEF Spawn, Inv, TypeOK, Ids
<1>1. /\ task' = [task EXCEPT ![s][j] = Plain("new")]
      /\ next_id' = [next_id EXCEPT ![s] = @ + 1]
      /\ UNCHANGED <<clock, runNo, pc, sched, cur>> /\ s # sched
  BY <1>0 DEF Spawn, heap, thread
<1>2. \A r \in Scheds, i \in Ids :
          task'[r][i] = IF r = s /\ i = j THEN Plain("new") ELSE task[r][i]
  BY <1>1 DEF Inv, TypeOK
<1>3. next_id'[s] = j + 1 /\ \A r \in Scheds : r # s => next_id'[r] = next_id[r]
  BY <1>0, <1>1 DEF Inv, TypeOK
<1>4. task[s][j] = Absent
  BY <1>0, ConstantsAssumption DEF Inv, Safe, Unborn, Ids
<1>5. \A r \in Scheds, i \in Ids : ~(r = s /\ i = j) =>
          /\ LifeOf(r, i)' = LifeOf(r, i) /\ DueOf(r, i)' = DueOf(r, i)
          /\ Sleeping(r, i)' <=> Sleeping(r, i)
  <2> SUFFICES ASSUME NEW r \in Scheds, NEW i \in Ids, ~(r = s /\ i = j)
               PROVE  /\ LifeOf(r, i)' = LifeOf(r, i) /\ DueOf(r, i)' = DueOf(r, i)
                      /\ Sleeping(r, i)' <=> Sleeping(r, i)
    OBVIOUS
  <2>1. task'[r][i] = task[r][i]
    BY <1>2
  <2>2. i >= next_id'[r] <=> i >= next_id[r]
    BY <1>0, <1>3, ConstantsAssumption DEF Ids
  <2> QED BY <1>1, <2>1, <2>2 DEF LifeOf, DueOf, Sleeping, Woken
<1>6. /\ LifeOf(s, j) = "unborn" /\ DueOf(s, j) = NoDeadline /\ ~Sleeping(s, j)
  BY <1>0, <1>4, ConstantsAssumption DEF LifeOf, DueOf, Sleeping, Absent, Plain, Ids
<1>7. /\ LifeOf(s, j)' = "ready" /\ DueOf(s, j)' = NoDeadline /\ ~Sleeping(s, j)'
  <2>1. ~(j >= next_id'[s])
    BY <1>3, ConstantsAssumption DEF Ids
  <2> QED BY <1>1, <1>2, <2>1 DEF LifeOf, DueOf, Sleeping, Woken, Plain
<1>8. /\ Lives' = [Lives EXCEPT ![s][j] = "ready"]
      /\ UNCHANGED <<Dues, Armed>>
  BY <1>5, <1>6, <1>7, OneTask
<1>9. Lives[s][j] = "unborn"
  BY <1>6, Pointwise
<1> QED BY <1>1, <1>8, <1>9 DEF Executor!Born

LEMMA RunEnterIsBegin ==
    ASSUME Inv, NEW s \in Scheds, RunEnter(s)
    PROVE  Executor!Begin(s)
<1>1. /\ sched = NoSched /\ cur = NoTask
      /\ sched' = s /\ cur' = NoTask /\ clock' = 0 /\ runNo' = runNo + 1
      /\ UNCHANGED <<task, next_id>>
  BY DEF RunEnter, UserCode, Inv, Control, RunningExact
<1>2. \A r \in Scheds, i \in Ids : i # NoTask
  BY DEF Ids, NoTask
<1>3. \A r \in Scheds, i \in Ids :
          /\ DueOf(r, i)' = DueOf(r, i)
          /\ Woken(r, i)' <=> Woken(r, i)
          /\ ~Sleeping(r, i)'
  <2> SUFFICES ASSUME NEW r \in Scheds, NEW i \in Ids
               PROVE  /\ DueOf(r, i)' = DueOf(r, i)
                      /\ Woken(r, i)' <=> Woken(r, i)
                      /\ ~Sleeping(r, i)'
    OBVIOUS
  <2>1. task[r][i].epoch \in Nat /\ task[r][i].epoch <= runNo /\ runNo \in Nat
    BY DEF Inv, TypeOK, Future, Safe, Epochs
  <2> QED BY <1>1, <2>1 DEF DueOf, Woken, Sleeping
<1>4. \A r \in Scheds, i \in Ids : LifeOf(r, i)' = LifeOf(r, i)
  BY <1>1, <1>2, <1>3 DEF LifeOf
<1>5. UNCHANGED <<Lives, Dues>>
  BY <1>3, <1>4, Zenon DEF Lives, Dues
<1>6. Armed' = {}
  BY <1>3 DEF Armed
<1> QED BY <1>1, <1>5, <1>6 DEF Executor!Begin

LEMMA NotifyIsEvent ==
    ASSUME Inv, NEW s \in Scheds, NEW j \in Ids, Notify(s, j)
    PROVE  Executor!Event(s, j) \/ UNCHANGED Executor!evars
<1>1. UNCHANGED <<next_id, clock, runNo, pc, sched, cur>> /\ j < next_id[s]
  BY DEF Notify, heap, thread
<1>2. CASE task[s][j].evt # "pending"
  <2>1. task' = task
    BY <1>2 DEF Notify
  <2>2. UNCHANGED <<Lives, Dues, Armed>>
    BY <1>1, <2>1, NoTaskTouched DEF Inv
  <2> QED BY <1>1, <2>2 DEF Executor!evars
<1>3. CASE task[s][j].evt = "pending"
  <2>1. task' = [task EXCEPT ![s][j].evt = "fired"]
    BY <1>3 DEF Notify
  <2>2. \A r \in Scheds, i \in Ids :
            task'[r][i] = IF r = s /\ i = j THEN [task[s][j] EXCEPT !.evt = "fired"]
                                            ELSE task[r][i]
    BY <2>1 DEF Inv, TypeOK
  <2>3. /\ task[s][j].st = "await" /\ task'[s][j].st = "await"
        /\ task'[s][j].evt = "fired" /\ task'[s][j].at = task[s][j].at
        /\ task'[s][j].epoch = task[s][j].epoch
    <3>1. task[s][j] \in Future /\ task'[s][j] = [task[s][j] EXCEPT !.evt = "fired"]
      BY <2>2 DEF Inv, TypeOK
    <3>2. task[s][j].st = "await"
      BY <1>3 DEF Inv, EventsAwaited
    <3> QED BY <3>1, <3>2 DEF Future
  <2>4. ~(sched = s /\ cur = j)
    <3>1. Absent.evt = "none"
      BY DEF Absent, Plain
    <3>2. sched = s /\ cur = j => pc = "poll"
      BY DEF Inv, Control, Ids, NoTask
    <3> QED BY <1>3, <3>1, <3>2 DEF Inv, Polled
  <2>5. \A r \in Scheds, i \in Ids : ~(r = s /\ i = j) =>
            /\ LifeOf(r, i)' = LifeOf(r, i) /\ DueOf(r, i)' = DueOf(r, i)
            /\ Sleeping(r, i)' <=> Sleeping(r, i)
    BY <1>1, <2>2 DEF LifeOf, DueOf, Sleeping, Woken
  <2>6. ~(j >= next_id[s])
    BY <1>1 DEF Inv, TypeOK, Ids
  <2>7. LifeOf(s, j) = "waiting" /\ LifeOf(s, j)' = "ready"
    BY <1>1, <1>3, <2>3, <2>4, <2>6 DEF LifeOf, Woken
  <2>8. DueOf(s, j)' = DueOf(s, j) /\ (Sleeping(s, j)' <=> Sleeping(s, j))
    BY <1>1, <2>3 DEF DueOf, Sleeping
  <2>9. Lives' = [Lives EXCEPT ![s][j] = "ready"] /\ UNCHANGED <<Dues, Armed>>
    BY <2>5, <2>7, <2>8, OneTask
  <2>10. Lives[s][j] = "waiting"
    BY <2>7, Pointwise
  <2> QED BY <1>1, <2>9, <2>10 DEF Executor!Event
<1> QED BY <1>2, <1>3

LEMMA PopReadyIsResume ==
    ASSUME Inv, PopReady
    PROVE  (\E s \in Scheds, j \in Ids : Executor!Resume(s, j)) \/ UNCHANGED Executor!evars
<1>0. PICK s \in Scheds, j \in Ids : s = sched /\ j = Head(ready[sched])
  BY InQueueTail DEF PopReady, Inv, Control, TypeOK
<1>1. UNCHANGED <<next_id, clock, sched, runNo>> /\ cur = NoTask
  BY DEF PopReady, heap, Inv, Control
<1>2. CASE ~Resumes(task[s][j])
  <2>1. UNCHANGED <<task, cur>>
    BY <1>0, <1>2 DEF PopReady
  <2>2. UNCHANGED <<Lives, Dues, Armed>>
    BY <1>1, <2>1, NoTaskTouched DEF Inv
  <2> QED BY <1>1, <2>1, <2>2 DEF Executor!evars
<1>3. CASE Resumes(task[s][j])
  <2>1. task' = [task EXCEPT ![s][j] = Absent] /\ cur' = j
    BY <1>0, <1>3 DEF PopReady
  <2>2. \A r \in Scheds, i \in Ids :
            task'[r][i] = IF r = s /\ i = j THEN Absent ELSE task[r][i]
    BY <2>1 DEF Inv, TypeOK
  <2>a. Absent.st = "absent" /\ Absent.evt = "none" /\ Absent.at = NoDeadline
    BY DEF Absent, Plain
  <2>3. ~(j >= next_id[s])
    BY <1>3, <2>a DEF Inv, Safe, Unborn, Resumes
  <2>n. \A i \in Ids : i # NoTask
    BY DEF Ids, NoTask
  <2>4. \A r \in Scheds, i \in Ids : ~(r = s /\ i = j) =>
            /\ LifeOf(r, i)' = LifeOf(r, i) /\ DueOf(r, i)' = DueOf(r, i)
            /\ Sleeping(r, i)' <=> Sleeping(r, i)
    BY <1>0, <1>1, <2>1, <2>2, <2>n DEF LifeOf, DueOf, Sleeping, Woken
  <2>5. LifeOf(s, j)' = "running" /\ DueOf(s, j)' = NoDeadline /\ ~Sleeping(s, j)'
    BY <1>0, <1>1, <2>1, <2>2, <2>3, <2>a DEF LifeOf, DueOf, Sleeping
  <2>6. /\ Lives' = [Lives EXCEPT ![s][j] = "running"]
        /\ Dues' = [Dues EXCEPT ![s][j] = NoDeadline]
        /\ Armed' = Armed \ {<<s, j>>}
    BY <2>4, <2>5, OneTask
  <2>7. \/ LifeOf(s, j) = "ready"
        \/ LifeOf(s, j) = "waiting" /\ DueOf(s, j) # NoDeadline /\ DueOf(s, j) <= clock
    <3>1. CASE Woken(s, j)
      BY <1>1, <2>3, <2>n, <3>1 DEF LifeOf
    <3>2. CASE ~Woken(s, j)
      <4>1. /\ task[s][j].st = "await" /\ task[s][j].at # NoDeadline
            /\ clock >= task[s][j].at
        BY <1>3, <3>2 DEF Resumes, Woken
      <4>2. LifeOf(s, j) = "waiting" /\ DueOf(s, j) = task[s][j].at
        BY <1>1, <2>3, <2>n, <3>2, <4>1 DEF LifeOf, DueOf
      <4> QED BY <4>1, <4>2
    <3> QED BY <3>1, <3>2
  <2>8. Executor!Runnable(s, j)
    BY <2>7, Pointwise DEF Executor!Runnable
  <2> QED BY <1>0, <1>1, <2>1, <2>6, <2>8 DEF Executor!Resume
<1> QED BY <1>2, <1>3

(* When the queue has drained nobody is ready, and every sleeper has its     *)
(* timer.                                                                    *)
LEMMA Drained ==
    ASSUME Inv, pc = "loop", NEW s \in Scheds, s = sched, ready[s] = <<>>
    PROVE  /\ cur = NoTask
           /\ \A i \in Ids : Lives[s][i] # "ready"
           /\ \A i \in Ids : Executor!Asleep(s, i) =>
                  \E t \in timers : t.at = Dues[s][i]
<1>1. cur = NoTask
  BY DEF Inv, Control
<1>2. \A i \in Ids : ~InQueue(ready[s], i)
  BY DEF InQueue
<1>3. \A i \in Ids : ~Woken(s, i)
  BY <1>2 DEF Inv, Safe, NoLostWakeup
<1>4. \A i \in Ids : LifeOf(s, i) # "ready"
  BY <1>3 DEF LifeOf
<1>5. ASSUME NEW i \in Ids, Executor!Asleep(s, i)
      PROVE  \E t \in timers : t.at = Dues[s][i]
  <2>1. Sleeping(s, i)
    BY <1>5, Pointwise DEF Executor!Asleep
  <2>2. PICK t \in timers : t.at = task[s][i].at
    BY <1>2, <2>1 DEF Inv, Safe, NoLostSleeper
  <2>3. Dues[s][i] = task[s][i].at
    BY <2>1, Pointwise DEF DueOf, Sleeping
  <2> QED BY <2>2, <2>3
<1> QED BY <1>1, <1>4, <1>5, Pointwise

LEMMA FireTimerIsAdvance ==
    ASSUME Inv, FireTimer
    PROVE  (\E at \in Deadline : Executor!Advance(at)) \/ UNCHANGED Executor!evars
<1>0. PICK s \in Scheds : s = sched /\ pc = "loop" /\ ready[s] = <<>>
  BY DEF FireTimer, Inv, Control, TypeOK
<1>1. UNCHANGED <<task, next_id, sched, cur, runNo>>
  BY DEF FireTimer, thread
<1>2. PICK t \in timers :
          /\ \A u \in timers \ {t} : Before(t, u)
          /\ clock' = IF t.at > clock THEN t.at ELSE clock
  BY DEF FireTimer
<1>3. /\ t.at \in Deadline /\ t.at \in Nat /\ clock \in Nat
      /\ \A u \in timers : u.at \in Nat
  BY ConstantsAssumption DEF Inv, TypeOK, Timer, Deadline
<1>4. clock <= t.at /\ \A u \in timers : t.at <= u.at
  BY <1>2, <1>3 DEF Before, Inv, Safe, TimersAhead
<1>5. UNCHANGED <<Lives, Dues, Armed>>
  BY <1>1, NoTaskTouched DEF Inv
<1>6. CASE t.at = clock
  BY <1>1, <1>2, <1>5, <1>6 DEF Executor!evars
<1>7. CASE t.at > clock
  <2>1. /\ cur = NoTask
        /\ \A i \in Ids : Lives[s][i] # "ready"
        /\ \A i \in Ids : Executor!Asleep(s, i) => t.at <= Dues[s][i] /\ Dues[s][i] \in Nat
    BY <1>0, <1>3, <1>4, Drained
  <2>2. Executor!Idle
    BY <1>0, <1>3, <1>7, <2>1 DEF Executor!Idle, Executor!Pressing
  <2> QED BY <1>0, <1>1, <1>2, <1>3, <1>5, <1>7, <2>1, <2>2 DEF Executor!Advance
<1> QED BY <1>3, <1>4, <1>6, <1>7

LEMMA FinishIsEnd ==
    ASSUME Inv, Finish
    PROVE  Executor!End
<1>0. PICK s \in Scheds : s = sched /\ pc = "loop" /\ ready[s] = <<>>
  BY DEF Finish, Inv, Control, TypeOK
<1>1. /\ timers = {} /\ sched' = NoSched /\ cur' = NoTask
      /\ UNCHANGED <<task, next_id, clock, runNo>>
  BY DEF Finish, RunExit, heap
<1>2. /\ cur = NoTask
      /\ \A i \in Ids : Lives[s][i] # "ready" /\ ~Executor!Asleep(s, i)
  BY <1>0, <1>1, Drained
<1>3. UNCHANGED <<Lives, Dues, Armed>>
  <2>1. \A i \in Ids : i # NoTask
    BY DEF Ids, NoTask
  <2> QED BY <1>1, <1>2, <2>1, NoTaskTouched DEF Inv
<1> QED BY <1>0, <1>1, <1>2, <1>3 DEF Executor!End, Executor!Idle, Executor!Pressing

(* The task that is polled. *)
LEMMA OnTheCpu ==
    ASSUME Inv, pc = "poll"
    PROVE  \E s \in Scheds, j \in Ids :
               /\ s = sched /\ j = cur
               /\ task[s][j] = Absent
               /\ j < next_id[s]
               /\ DueOf(s, j) = NoDeadline /\ ~Sleeping(s, j)
<1>0. PICK s \in Scheds, j \in Ids : s = sched /\ j = cur
  BY DEF Inv, Control, TypeOK
<1>1. task[s][j] = Absent
  BY <1>0 DEF Inv, Polled
<1>2. next_id[s] \in Nat /\ j \in Nat /\ ~(j >= next_id[s])
  BY <1>0, ConstantsAssumption DEF Inv, TypeOK, Safe, Unborn, Ids
<1>3. j < next_id[s]
  BY <1>2
<1>4. Absent.st = "absent"
  BY DEF Absent, Plain
<1> QED BY <1>0, <1>1, <1>3, <1>4 DEF DueOf, Sleeping

(* The rest of the poll: the task is no longer running, and gone for good.   *)
LEMMA PolledIsOver ==
    ASSUME Inv, pc = "poll", UNCHANGED <<task, next_id, runNo>>, cur' = NoTask
    PROVE  \E s \in Scheds, j \in Ids :
               /\ s = sched /\ j = cur
               /\ Lives' = [Lives EXCEPT ![s][j] = "over"]
               /\ UNCHANGED <<Dues, Armed>>
<1>0. PICK s \in Scheds, j \in Ids :
          /\ s = sched /\ j = cur
          /\ task[s][j] = Absent
          /\ j < next_id[s]
          /\ DueOf(s, j) = NoDeadline /\ ~Sleeping(s, j)
  BY OnTheCpu
<1>1. \A i \in Ids : i # NoTask
  BY DEF Ids, NoTask
<1>2. \A r \in Scheds, i \in Ids :
          /\ DueOf(r, i)' = DueOf(r, i)
          /\ Sleeping(r, i)' <=> Sleeping(r, i)
          /\ Woken(r, i)' <=> Woken(r, i)
  BY DEF DueOf, Sleeping, Woken
<1>3. \A r \in Scheds, i \in Ids : ~(r = s /\ i = j) =>
          /\ LifeOf(r, i)' = LifeOf(r, i) /\ DueOf(r, i)' = DueOf(r, i)
          /\ Sleeping(r, i)' <=> Sleeping(r, i)
  BY <1>0, <1>1, <1>2 DEF LifeOf
<1>4. LifeOf(s, j)' = "over"
  <2>1. Absent.st = "absent" /\ Absent.evt = "none"
    BY DEF Absent, Plain
  <2>2. ~(j >= next_id'[s])
    BY <1>0 DEF Inv, TypeOK, Ids
  <2>3. task'[s][j] = Absent /\ ~(cur' = j)
    BY <1>0, <1>1
  <2> QED BY <2>1, <2>2, <2>3 DEF LifeOf, Woken
<1>5. Lives' = [Lives EXCEPT ![s][j] = "over"] /\ UNCHANGED <<Dues, Armed>>
  BY <1>2, <1>3, <1>4, OneTask
<1> QED BY <1>0, <1>5

LEMMA CompleteIsReturn ==
    ASSUME Inv, Complete
    PROVE  \E s \in Scheds, j \in Ids : Executor!Return(s, j)
<1>1. /\ pc = "poll" /\ cur' = NoTask
      /\ UNCHANGED <<task, next_id, runNo, clock, sched>>
  BY DEF Complete, heap
<1>2. PICK s \in Scheds, j \in Ids :
          /\ s = sched /\ j = cur
          /\ Lives' = [Lives EXCEPT ![s][j] = "over"]
          /\ UNCHANGED <<Dues, Armed>>
  BY <1>1, PolledIsOver
<1> QED BY <1>1, <1>2 DEF Executor!Return

LEMMA RunExitIsAbort ==
    ASSUME Inv, pc = "poll", RunExit
    PROVE  \E s \in Scheds, j \in Ids : Executor!Abort(s, j)
<1>1. /\ cur' = NoTask /\ sched' = NoSched
      /\ UNCHANGED <<task, next_id, runNo, clock>>
  BY DEF RunExit, heap
<1>2. PICK s \in Scheds, j \in Ids :
          /\ s = sched /\ j = cur
          /\ Lives' = [Lives EXCEPT ![s][j] = "over"]
          /\ UNCHANGED <<Dues, Armed>>
  BY <1>1, PolledIsOver
<1> QED BY <1>1, <1>2 DEF Executor!Abort

(* poll() returned Pending: a yield, or a wait for an event or a deadline.   *)
LEMMA ParkIsSuspend ==
    ASSUME Inv, pc = "poll", NEW f \in Future, Park(f),
           f.st \in {"yield", "await"}, f.evt # "fired",
           f.at # NoDeadline => f.st = "await" /\ f.epoch = runNo /\ clock < f.at
    PROVE  \E s \in Scheds, j \in Ids : Executor!Suspend(s, j)
<1>0. PICK s \in Scheds, j \in Ids :
          /\ s = sched /\ j = cur
          /\ task[s][j] = Absent
          /\ j < next_id[s]
          /\ DueOf(s, j) = NoDeadline /\ ~Sleeping(s, j)
  BY OnTheCpu
<1>1. /\ task' = [task EXCEPT ![s][j] = f] /\ cur' = NoTask
      /\ UNCHANGED <<next_id, clock, sched, runNo>>
  BY <1>0 DEF Park
<1>2. \A r \in Scheds, i \in Ids :
          task'[r][i] = IF r = s /\ i = j THEN f ELSE task[r][i]
  BY <1>1 DEF Inv, TypeOK
<1>3. \A i \in Ids : i # NoTask
  BY DEF Ids, NoTask
<1>4. \A r \in Scheds, i \in Ids : ~(r = s /\ i = j) =>
          /\ LifeOf(r, i)' = LifeOf(r, i) /\ DueOf(r, i)' = DueOf(r, i)
          /\ Sleeping(r, i)' <=> Sleeping(r, i)
  BY <1>0, <1>1, <1>2, <1>3 DEF LifeOf, DueOf, Sleeping, Woken
<1>5. ~(j >= next_id'[s])
  BY <1>0, <1>1 DEF Inv, TypeOK, Ids
<1>6. task'[s][j] = f /\ ~(cur' = j)
  BY <1>0, <1>1, <1>2, <1>3
<1>7. LifeOf(s, j)' \in {"ready", "waiting"}
  BY <1>5, <1>6 DEF LifeOf, Woken
<1>8. DueOf(s, j)' = f.at
  <2>1. f.st # "await" => f.at = NoDeadline
    OBVIOUS
  <2> QED BY <1>6, <2>1 DEF DueOf
<1>9. Sleeping(s, j)' <=> f.at # NoDeadline
  BY <1>1, <1>6 DEF Sleeping
<1>10. /\ Lives' = [Lives EXCEPT ![s][j] = LifeOf(s, j)']
       /\ Dues' = [Dues EXCEPT ![s][j] = f.at]
       /\ Armed' = IF f.at = NoDeadline THEN Armed ELSE Armed \cup {<<s, j>>}
  <2>1. f.at = NoDeadline => (Sleeping(s, j)' <=> Sleeping(s, j))
    BY <1>0, <1>9
  <2> QED BY <1>4, <1>8, <1>9, <2>1, OneTask
<1>11. f.at \in Deadline \cup {NoDeadline}
  BY DEF Future
<1>12. /\ \E l \in {"ready", "waiting"} : Lives' = [Lives EXCEPT ![s][j] = l]
       /\ \E d \in Deadline \cup {NoDeadline} :
             /\ d # NoDeadline => clock < d
             /\ Dues' = [Dues EXCEPT ![s][j] = d]
             /\ Armed' = IF d = NoDeadline THEN Armed ELSE Armed \cup {<<s, j>>}
  BY <1>7, <1>10, <1>11
<1> QED BY <1>0, <1>1, <1>12 DEF Executor!Suspend

-----------------------------------------------------------------------------
LEMMA StutterIsStutter == Inv /\ UNCHANGED vars => UNCHANGED Executor!evars
<1> SUFFICES ASSUME Inv, UNCHANGED vars PROVE UNCHANGED Executor!evars
  OBVIOUS
<1>1. UNCHANGED <<task, next_id, runNo, sched, cur, clock>>
  BY DEF vars
<1>2. UNCHANGED <<Lives, Dues, Armed>>
  BY <1>1, NoTaskTouched DEF Inv
<1> QED BY <1>1, <1>2 DEF Executor!evars

LEMMA PollIsStep ==
    ASSUME Inv, PollEnds
    PROVE  Executor!ExecutorNext \/ UNCHANGED Executor!evars
<1>1. CASE Yield
  <2>1. Plain("yield") \in Future /\ Plain("yield").st = "yield"
        /\ Plain("yield").evt = "none" /\ Plain("yield").at = NoDeadline
    BY DEF Plain, Future
  <2>2. pc = "poll" /\ Park(Plain("yield"))
    BY <1>1 DEF Yield
  <2> QED BY <2>1, <2>2, ParkIsSuspend DEF Executor!ExecutorNext
<1>2. CASE AwaitEvent
  <2> DEFINE f == [Plain("await") EXCEPT !.evt = "pending"]
  <2>1. f \in Future /\ f.st = "await" /\ f.evt = "pending" /\ f.at = NoDeadline
    BY DEF Plain, Future
  <2>2. pc = "poll" /\ Park(f)
    BY <1>2 DEF AwaitEvent
  <2> HIDE DEF f
  <2> QED BY <2>1, <2>2, ParkIsSuspend DEF Executor!ExecutorNext
<1>3. ASSUME NEW ms \in Deadline, NEW evt \in {"none", "pending"}, SleepFor(ms, evt)
      PROVE  Executor!ExecutorNext \/ UNCHANGED Executor!evars
  <2> DEFINE f == [st |-> "await", at |-> clock + ms, evt |-> evt, epoch |-> runNo]
  <2>1. CASE ms > 0 /\ Fits(clock + ms) /\ Park(f)
    <3>1. ms \in Nat /\ clock \in Nat /\ runNo \in Nat /\ clock + ms \in Deadline
      BY <2>1, ConstantsAssumption DEF Fits, Deadline, Inv, TypeOK
    <3>2. f \in Future /\ f.st = "await" /\ f.evt # "fired" /\ f.epoch = runNo
          /\ f.at = clock + ms
      BY <3>1 DEF Future
    <3>3. pc = "poll" /\ clock < clock + ms
      BY <1>3, <2>1, <3>1 DEF SleepFor
    <3> HIDE DEF f
    <3> QED BY <2>1, <3>2, <3>3, ParkIsSuspend DEF Executor!ExecutorNext
  <2>2. CASE RunExit
    <3>1. pc = "poll"
      BY <1>3 DEF SleepFor
    <3> QED BY <2>2, <3>1, RunExitIsAbort DEF Executor!ExecutorNext
  <2>3. CASE UNCHANGED vars
    BY <2>3, StutterIsStutter
  <2> QED BY <1>3, <2>1, <2>2, <2>3 DEF SleepFor
<1>4. CASE Sleep
  BY <1>3, <1>4 DEF Sleep
<1>5. CASE Complete
  BY <1>5, CompleteIsReturn DEF Executor!ExecutorNext
<1>6. CASE Panic
  BY <1>6, RunExitIsAbort DEF Panic, Executor!ExecutorNext
<1> QED BY <1>1, <1>2, <1>4, <1>5, <1>6 DEF PollEnds

LEMMA NextSimulates ==
    Inv /\ [Next]_vars => [Executor!ExecutorNext]_(Executor!evars)
<1> SUFFICES ASSUME Inv, [Next]_vars
             PROVE  Executor!ExecutorNext \/ UNCHANGED Executor!evars
  OBVIOUS
<1>1. ASSUME NEW s \in Scheds, Spawn(s) PROVE Executor!ExecutorNext
  BY <1>1, SpawnIsBorn DEF Executor!ExecutorNext
<1>2. ASSUME NEW s \in Scheds, RunEnter(s) PROVE Executor!ExecutorNext
  BY <1>2, RunEnterIsBegin DEF Executor!ExecutorNext
<1>3. ASSUME NEW s \in Scheds, NestedRun(s) PROVE UNCHANGED Executor!evars
  BY <1>3, StutterIsStutter DEF NestedRun
<1>4. ASSUME NEW s \in Scheds, NEW i \in Ids, Notify(s, i)
      PROVE  Executor!ExecutorNext \/ UNCHANGED Executor!evars
  BY <1>4, NotifyIsEvent DEF Executor!ExecutorNext
<1>5. CASE PopReady
  BY <1>5, PopReadyIsResume DEF Executor!ExecutorNext
<1>6. CASE FireTimer
  BY <1>6, FireTimerIsAdvance DEF Executor!ExecutorNext
<1>7. CASE Finish
  BY <1>7, FinishIsEnd DEF Executor!ExecutorNext
<1>8. CASE PollEnds
  BY <1>8, PollIsStep
<1>9. CASE UNCHANGED vars
  BY <1>9, StutterIsStutter
<1> QED
  BY <1>1, <1>2, <1>3, <1>4, <1>5, <1>6, <1>7, <1>8, <1>9 DEF Next, RunLoop

LEMMA InitMaps == Init => Executor!ExecutorInit
<1> SUFFICES ASSUME Init PROVE Executor!ExecutorInit
  OBVIOUS
<1>1. /\ sched = NoSched /\ cur = NoTask /\ clock = 0
      /\ \A s \in Scheds, i \in Ids : task[s][i] = Absent
      /\ \A s \in Scheds : next_id[s] = 0
  BY DEF Init
<1>2. \A i \in Ids : i >= 0
  BY ConstantsAssumption DEF Ids
<1>3. Absent.st = "absent"
  BY DEF Absent, Plain
<1>4. \A s \in Scheds, i \in Ids :
          LifeOf(s, i) = "unborn" /\ DueOf(s, i) = NoDeadline /\ ~Sleeping(s, i)
  BY <1>1, <1>2, <1>3 DEF LifeOf, DueOf, Sleeping
<1>5. /\ Lives = [s \in Scheds |-> [i \in Ids |-> "unborn"]]
      /\ Dues = [s \in Scheds |-> [i \in Ids |-> NoDeadline]]
  BY <1>4, Zenon DEF Lives, Dues
<1>6. Armed = {}
  BY <1>4 DEF Armed
<1> QED BY <1>1, <1>5, <1>6 DEF Executor!ExecutorInit

-----------------------------------------------------------------------------
(* Every behaviour of the scheduler is, through the mapping, one of the      *)
(* executor that has no queue, no wakers and no heap: stale and duplicate    *)
(* tokens, orphaned timers, spurious wakes, panics and rejected nested runs  *)
(* have no effect that a caller could see.                                   *)
THEOREM Implements == Spec => ImplementsExecutor
<1>1. Inv /\ [Next]_vars => Inv'
  BY InvStep
<1>2. Inv /\ [Next]_vars => [Executor!ExecutorNext]_(Executor!evars)
  BY NextSimulates
<1> QED
  BY InvInit, InitMaps, <1>1, <1>2, PTL
     DEF Spec, ImplementsExecutor, Executor!ExecutorSpec

-----------------------------------------------------------------------------
(* The order that yield_now() promises.                                      *)

(* A token of j stands in front of every token of i. *)
InFront(q, j, i) ==
    \E k \in DOMAIN q : q[k] = j /\ \A m \in 1 .. k : q[m] # i

(* Whoever a task that yielded is to go behind is still in front of it. *)
StillInFront ==
    \A s \in Scheds, i \in Ids :
        task[s][i].st = "yield" => \A j \in ahead[s][i] : InFront(ready[s], j, i)

AheadTyped == ahead \in [Scheds -> [Ids -> SUBSET Ids]]

OrderInv == Inv /\ AheadTyped /\ StillInFront

LEMMA InFrontAppend ==
    ASSUME NEW S, NEW q \in Seq(S), NEW e \in S, NEW i, NEW j, InFront(q, j, i)
    PROVE  InFront(Append(q, e), j, i)
<1>1. /\ Len(q) \in Nat /\ DOMAIN q = 1 .. Len(q)
      /\ DOMAIN Append(q, e) = 1 .. (Len(q) + 1)
      /\ \A k \in 1 .. Len(q) : Append(q, e)[k] = q[k]
  OBVIOUS
<1>2. PICK k \in 1 .. Len(q) : q[k] = j /\ \A m \in 1 .. k : q[m] # i
  BY <1>1 DEF InFront
<1>3. k \in DOMAIN Append(q, e) /\ \A m \in 1 .. k : m \in 1 .. Len(q)
  BY <1>1, <1>2
<1> QED
  BY <1>1, <1>2, <1>3 DEF InFront

(* What is queued is in front of whoever is not, and stays there when that   *)
(* one is queued.                                                            *)
LEMMA QueuedIsInFront ==
    ASSUME NEW S, NEW q \in Seq(S), NEW i \in S, NEW j,
           InQueue(q, j), ~InQueue(q, i)
    PROVE  InFront(Append(q, i), j, i)
<1>1. Len(q) \in Nat /\ DOMAIN q = 1 .. Len(q)
  OBVIOUS
<1>2. PICK k \in 1 .. Len(q) : q[k] = j
  BY <1>1 DEF InQueue
<1>3. \A m \in 1 .. k : m \in DOMAIN q
  BY <1>1, <1>2
<1>4. InFront(q, j, i)
  BY <1>1, <1>2, <1>3 DEF InFront, InQueue
<1> QED
  BY <1>4, InFrontAppend

LEMMA InFrontTail ==
    ASSUME NEW S, NEW q \in Seq(S), q # <<>>, NEW i, NEW j, InFront(q, j, i)
    PROVE  Head(q) # i /\ (Head(q) # j => InFront(Tail(q), j, i))
<1>1. /\ Len(q) \in Nat \ {0} /\ DOMAIN q = 1 .. Len(q) /\ Head(q) = q[1]
      /\ DOMAIN Tail(q) = 1 .. (Len(q) - 1)
  OBVIOUS
<1>2. \A k \in 1 .. (Len(q) - 1) : Tail(q)[k] = q[k + 1]
  BY <1>1
<1>3. PICK k \in 1 .. Len(q) : q[k] = j /\ \A m \in 1 .. k : q[m] # i
  BY <1>1 DEF InFront
<1>4. 1 \in 1 .. k
  BY <1>1, <1>3
<1>5. ASSUME Head(q) # j PROVE InFront(Tail(q), j, i)
  <2>1. k # 1
    BY <1>1, <1>3, <1>5
  <2>2. k - 1 \in 1 .. (Len(q) - 1) /\ Tail(q)[k - 1] = j
    BY <1>1, <1>2, <1>3, <2>1
  <2>3. ASSUME NEW m \in 1 .. (k - 1) PROVE Tail(q)[m] # i
    <3>1. m \in 1 .. (Len(q) - 1) /\ m + 1 \in 1 .. k
      BY <1>1, <1>3
    <3> QED BY <3>1, <1>2, <1>3
  <2> QED BY <1>1, <2>2, <2>3 DEF InFront
<1> QED
  BY <1>1, <1>3, <1>4, <1>5

(* What a step does to the future of a task and to the queue it stands in,   *)
(* as far as the order is concerned.                                         *)
Kept(s, i) ==
    \/ UNCHANGED ready[s]
    \/ \E e \in Ids : ready'[s] = Append(ready[s], e)

OrderStep(s, i) ==
    \* The head is popped, and if it yielded, it resumes.
    \/ /\ pc = "loop" /\ sched = s /\ ready[s] # <<>>
       /\ ready'[s] = Tail(ready[s])
       /\ \/ task'[s][i] = task[s][i]
                /\ (task[s][i].st = "yield" => Head(ready[s]) # i)
          \/ task'[s][i] = Absent /\ Head(ready[s]) = i
    \* Or nobody is polled and i does not begin to wait behind others.
    \/ /\ pc # "loop" \/ sched # s \/ ready[s] = <<>>
       /\ Kept(s, i)
       /\ task[s][i].st = "yield" <=> task'[s][i].st = "yield"
    \* Or i yields.
    \/ /\ ready'[s] = Append(ready[s], i)
       /\ task[s][i] = Absent /\ task'[s][i].st = "yield"

LEMMA NextKeepsOrder ==
    ASSUME Inv, Next, NEW s \in Scheds, NEW i \in Ids
    PROVE  OrderStep(s, i)
<1>t. /\ task \in [Scheds -> [Ids -> Future]] /\ ready \in [Scheds -> Seq(Ids)]
      /\ sched \in Scheds \cup {NoSched} /\ cur \in Ids \cup {NoTask}
      /\ next_id \in [Scheds -> 0 .. MaxTasks]
      /\ \A r \in Scheds : ready[r] \in Seq(Ids)
  BY DEF Inv, TypeOK
<1>p. Absent.st = "absent" /\ Plain("new").st = "new" /\ Plain("yield").st = "yield"
  BY DEF Absent, Plain
<1>c. pc = "poll" => sched \in Scheds /\ cur \in Ids /\ task[sched][cur] = Absent
  BY DEF Inv, TypeOK, Control, Polled, Ids, NoTask
<1>1. ASSUME NEW r \in Scheds, Spawn(r) PROVE OrderStep(s, i)
  <2>1. pc # "loop"
    BY <1>1 DEF Spawn, UserCode
  <2>2. next_id[r] \in Ids /\ task[r][next_id[r]] = Absent
    BY <1>1, <1>t, ConstantsAssumption DEF Spawn, Ids, Inv, Safe, Unborn
  <2>3. Kept(s, i)
    BY <1>1, <1>t, <2>2 DEF Spawn, Kept
  <2>4. task[s][i].st = "yield" <=> task'[s][i].st = "yield"
    BY <1>1, <1>t, <1>p, <2>2 DEF Spawn
  <2> QED BY <2>1, <2>3, <2>4 DEF OrderStep
<1>2. ASSUME pc # "loop" \/ ready[sched] = <<>>, UNCHANGED <<task, ready>>
      PROVE  OrderStep(s, i)
  BY <1>2 DEF OrderStep, Kept
<1>3. ASSUME NEW r \in Scheds, RunEnter(r) \/ NestedRun(r) PROVE OrderStep(s, i)
  BY <1>2, <1>3 DEF RunEnter, NestedRun, UserCode, vars
<1>4. ASSUME NEW r \in Scheds, NEW j \in Ids, Notify(r, j) PROVE OrderStep(s, i)
  <2>1. pc # "loop"
    BY <1>4 DEF Notify, UserCode
  <2>2. Kept(s, i)
    <3>1. ready' = [ready EXCEPT ![r] = Append(@, j)]
      BY <1>4 DEF Notify
    <3> QED BY <1>t, <3>1 DEF Kept
  <2>3. task[s][i].st = "yield" <=> task'[s][i].st = "yield"
    <3>1. CASE task[r][j].evt = "pending"
      <4>1. task' = [task EXCEPT ![r][j].evt = "fired"]
        BY <1>4, <3>1 DEF Notify
      <4> QED BY <1>t, <4>1 DEF Future
    <3>2. CASE task[r][j].evt # "pending"
      BY <1>4, <3>2 DEF Notify
    <3> QED BY <3>1, <3>2
  <2> QED BY <2>1, <2>2, <2>3 DEF OrderStep
<1>5. ASSUME PopReady PROVE OrderStep(s, i)
  <2>1. pc = "loop" /\ ready[sched] # <<>> /\ sched \in Scheds
    BY <1>5 DEF PopReady, Inv, Control, TypeOK
  <2>2. CASE s # sched
    BY <2>1, <2>2, <1>5, <1>t DEF PopReady, OrderStep, Kept
  <2>3. CASE s = sched
    <3>1. ready'[s] = Tail(ready[s])
      BY <2>1, <2>3, <1>5, <1>t DEF PopReady
    <3>2. \/ /\ task'[s][i] = task[s][i]
             /\ task[s][i].st = "yield" => Head(ready[s]) # i
          \/ task'[s][i] = Absent /\ Head(ready[s]) = i
      <4>1. CASE Resumes(task[sched][Head(ready[sched])])
        BY <4>1, <2>1, <2>3, <1>5, <1>t DEF PopReady, Resumes
      <4>2. CASE ~Resumes(task[sched][Head(ready[sched])])
        BY <4>2, <2>1, <2>3, <1>5, <1>t DEF PopReady, Resumes
      <4> QED BY <4>1, <4>2
    <3> QED BY <2>1, <2>3, <3>1, <3>2 DEF OrderStep
  <2> QED BY <2>2, <2>3
<1>6. ASSUME FireTimer PROVE OrderStep(s, i)
  <2>1. ready[sched] = <<>> /\ UNCHANGED task
    BY <1>6 DEF FireTimer
  <2>2. PICK t \in timers : ready' = [ready EXCEPT ![t.s] = Append(@, t.id)]
    BY <1>6 DEF FireTimer
  <2>3. t.id \in Ids
    BY DEF Inv, TypeOK, Timer
  <2>4. Kept(s, i)
    BY <2>2, <2>3, <1>t DEF Kept
  <2> QED BY <2>1, <2>4 DEF OrderStep
<1>7. ASSUME Finish \/ Panic PROVE OrderStep(s, i)
  BY <1>2, <1>7 DEF Finish, Panic, RunExit
<1>8. ASSUME Yield PROVE OrderStep(s, i)
  <2>1. /\ pc = "poll" /\ ready' = [ready EXCEPT ![sched] = Append(@, cur)]
        /\ task' = [task EXCEPT ![sched][cur] = Plain("yield")]
    BY <1>8 DEF Yield, Park
  <2>2. CASE s = sched /\ i = cur
    BY <2>1, <2>2, <1>t, <1>c, <1>p DEF OrderStep
  <2>3. CASE s # sched \/ i # cur
    <3>1. Kept(s, i)
      BY <2>1, <1>t, <1>c DEF Kept
    <3>2. task'[s][i] = task[s][i]
      BY <2>1, <2>3, <1>t, <1>c
    <3> QED BY <2>1, <3>1, <3>2 DEF OrderStep
  <2> QED BY <2>2, <2>3
<1>9. ASSUME NEW f, f.st # "yield", Park(f), pc = "poll", UNCHANGED ready
      PROVE  OrderStep(s, i)
  <2>1. task' = [task EXCEPT ![sched][cur] = f]
    BY <1>9 DEF Park
  <2>2. task[s][i].st = "yield" <=> task'[s][i].st = "yield"
    BY <2>1, <1>9, <1>t, <1>c, <1>p
  <2> QED BY <1>9, <2>2 DEF OrderStep, Kept
<1>10. ASSUME AwaitEvent PROVE OrderStep(s, i)
  <2>1. [Plain("await") EXCEPT !.evt = "pending"].st # "yield"
    BY DEF Plain
  <2> QED BY <1>9, <1>10, <2>1 DEF AwaitEvent
<1>11. ASSUME NEW ms \in Deadline, NEW evt \in {"none", "pending"}, SleepFor(ms, evt)
       PROVE  OrderStep(s, i)
  <2>1. pc = "poll"
    BY <1>11 DEF SleepFor
  <2>2. ASSUME UNCHANGED vars \/ RunExit PROVE OrderStep(s, i)
    BY <1>2, <2>1, <2>2 DEF vars, RunExit
  <2>3. ASSUME NEW at, UNCHANGED ready,
               Park([st |-> "await", at |-> at, evt |-> evt, epoch |-> runNo])
        PROVE  OrderStep(s, i)
    BY <1>9, <2>1, <2>3
  <2> QED BY <1>11, <2>2, <2>3 DEF SleepFor
<1>12. ASSUME Complete PROVE OrderStep(s, i)
  BY <1>2, <1>12 DEF Complete
<1> QED
  BY <1>1, <1>3, <1>4, <1>5, <1>6, <1>7, <1>8, <1>10, <1>11, <1>12
     DEF Next, RunLoop, PollEnds, Sleep

LEMMA OrderStepHolds ==
    ASSUME OrderInv, OrderNext, task' \in [Scheds -> [Ids -> Future]],
           NEW s \in Scheds, NEW i \in Ids
    PROVE  /\ task'[s][i].st = "yield" =>
                 \A j \in ahead'[s][i] : InFront(ready'[s], j, i)
           /\ task[s][i].st = "yield" /\ task'[s][i].st = "absent" =>
                 ahead[s][i] = {}
<1>t. ready[s] \in Seq(Ids) /\ ahead[s][i] \subseteq Ids
  BY DEF OrderInv, Inv, TypeOK, AheadTyped
<1>a. ahead'[s][i] = IF task'[s][i].st = "yield" /\ task[s][i].st # "yield"
                     THEN ReadyBefore(s, i)
                     ELSE {j \in ahead[s][i] : ~Polls(s, j)}
  BY DEF OrderNext, Ahead
<1>h. task[s][i].st = "yield" => \A j \in ahead[s][i] : InFront(ready[s], j, i)
  BY DEF OrderInv, StillInFront
<1>o. OrderStep(s, i)
  BY NextKeepsOrder DEF OrderInv, OrderNext
<1>p. Absent.st = "absent"
  BY DEF Absent, Plain
<1>1. CASE /\ pc = "loop" /\ sched = s /\ ready[s] # <<>>
           /\ ready'[s] = Tail(ready[s])
           /\ \/ task'[s][i] = task[s][i]
                    /\ (task[s][i].st = "yield" => Head(ready[s]) # i)
              \/ task'[s][i] = Absent /\ Head(ready[s]) = i
  <2>1. ASSUME task[s][i].st = "yield", NEW j \in ahead[s][i], ~Polls(s, j)
        PROVE  InFront(ready'[s], j, i)
    <3>1. Head(ready[s]) # j
      BY <1>1, <2>1 DEF Polls
    <3> QED BY <1>1, <1>t, <1>h, <2>1, <3>1, InFrontTail
  <2>2. ASSUME task[s][i].st = "yield", task'[s][i].st = "absent"
        PROVE  ahead[s][i] = {}
    <3>1. Head(ready[s]) = i
      BY <1>1, <2>2
    <3> QED BY <1>1, <1>t, <1>h, <2>2, <3>1, InFrontTail
  <2> QED BY <1>1, <1>a, <1>p, <2>1, <2>2
<1>2. CASE /\ pc # "loop" \/ sched # s \/ ready[s] = <<>>
           /\ Kept(s, i)
           /\ task[s][i].st = "yield" <=> task'[s][i].st = "yield"
  <2>1. ASSUME task[s][i].st = "yield", NEW j \in ahead[s][i]
        PROVE  InFront(ready'[s], j, i)
    BY <1>2, <1>t, <1>h, <2>1, InFrontAppend DEF Kept
  <2> QED BY <1>2, <1>a, <2>1
<1>3. CASE /\ ready'[s] = Append(ready[s], i)
           /\ task[s][i] = Absent /\ task'[s][i].st = "yield"
  <2>1. ASSUME NEW j \in ReadyBefore(s, i) PROVE InFront(ready'[s], j, i)
    BY <1>3, <1>t, <2>1, QueuedIsInFront DEF ReadyBefore
  <2> QED BY <1>3, <1>a, <1>p, <2>1
<1> QED
  BY <1>o, <1>1, <1>2, <1>3 DEF OrderStep

(* A task that yields resumes behind everyone who was ready at the time: the *)
(* queue keeps the order in which tokens came, whatever wakes, timers, stale *)
(* tokens and panics there are in between.                                   *)
THEOREM YieldsGoBehind == OrderSpec => YieldGoesBehind
<1>1. OrderInit => OrderInv
  <2> SUFFICES ASSUME OrderInit PROVE OrderInv
    OBVIOUS
  <2>1. Inv
    BY InvInit DEF OrderInit
  <2>2. AheadTyped /\ \A s \in Scheds, i \in Ids : ahead[s][i] = {}
    BY DEF OrderInit, Nobody, AheadTyped
  <2> QED BY <2>1, <2>2 DEF OrderInv, StillInFront
<1>2. OrderInv /\ [OrderNext]_<<vars, history>> => OrderInv'
  <2> SUFFICES ASSUME OrderInv, [OrderNext]_<<vars, history>> PROVE OrderInv'
    OBVIOUS
  <2>1. CASE UNCHANGED <<vars, history>>
    BY <2>1, InvStep DEF OrderInv, AheadTyped, StillInFront, vars, history, InFront
  <2>2. CASE OrderNext
    <3>1. Inv'
      BY <2>2, InvStep DEF OrderInv, OrderNext
    <3>2. AheadTyped'
      <4>1. ASSUME NEW s \in Scheds, NEW i \in Ids
            PROVE  /\ ReadyBefore(s, i) \subseteq Ids
                   /\ {j \in ahead[s][i] : ~Polls(s, j)} \subseteq Ids
        BY DEF ReadyBefore, OrderInv, AheadTyped
      <4> QED BY <2>2, <4>1 DEF OrderNext, Ahead, AheadTyped
    <3>3. StillInFront'
      BY <2>2, <3>1, OrderStepHolds DEF StillInFront, Inv, TypeOK
    <3> QED BY <3>1, <3>2, <3>3 DEF OrderInv
  <2> QED BY <2>1, <2>2
<1>3. OrderInv /\ [OrderNext]_<<vars, history>> =>
         [\A s \in Scheds, i \in Ids :
             (task[s][i].st = "yield" /\ task'[s][i].st = "absent")
                 => ahead[s][i] = {}]_<<vars, history>>
  <2> SUFFICES ASSUME OrderInv, OrderNext, NEW s \in Scheds, NEW i \in Ids,
                      task[s][i].st = "yield", task'[s][i].st = "absent"
               PROVE  ahead[s][i] = {}
    OBVIOUS
  <2>1. task' \in [Scheds -> [Ids -> Future]]
    BY InvStep DEF OrderInv, OrderNext, Inv, TypeOK
  <2> QED BY <2>1, OrderStepHolds
<1> QED
  BY <1>1, <1>2, <1>3, PTL DEF OrderSpec, YieldGoesBehind

-----------------------------------------------------------------------------
(* The order that sleep() promises.                                          *)

(* A timer of j for the instant at goes before every timer of i for it. *)
TimerFirst(s, i, j, at) ==
    \E t \in timers :
        /\ t.s = s /\ t.id = j /\ t.at = at
        /\ \A u \in timers : u.s = s /\ u.id = i /\ u.at = at => Before(t, u)

(* Task j wakes before i at the instant at: its timer goes first, and i is   *)
(* not queued at that instant; or its timer has fired, and its token stands  *)
(* in front of every token of i.                                             *)
WakesFirst(s, i, j, at) ==
    \/ TimerFirst(s, i, j, at) /\ (clock = at => ~InQueue(ready[s], i))
    \/ clock = at /\ InFront(ready[s], j, i)

SleepsAt(s, i, at) == Sleeping(s, i) /\ task[s][i].at = at

(* Whoever slept before a sleeper until the same instant sleeps still, and   *)
(* wakes first.                                                              *)
EarlierFirst ==
    \A s \in Scheds, i \in Ids, at \in Deadline :
        SleepsAt(s, i, at) =>
            \A j \in earlier[s][i] : SleepsAt(s, j, at) /\ WakesFirst(s, i, j, at)

EarlierTyped == earlier \in [Scheds -> [Ids -> SUBSET Ids]]

(* The next timer is registered after all. *)
SeqsBelow == \A t \in timers : t.seq < timer_seq

SleepInv == Inv /\ SeqsBelow /\ EarlierTyped /\ EarlierFirst

(* A step that neither takes a future out nor puts one in changes no more of *)
(* it than whether its event has come; and only a run() that begins makes    *)
(* the sleepers those of an earlier run.                                     *)
LEMMA FutureKept ==
    ASSUME Inv, Next, NEW s \in Scheds, NEW i \in Ids,
           task[s][i].st # "absent", task'[s][i].st # "absent"
    PROVE  /\ task'[s][i].st = task[s][i].st
           /\ task'[s][i].at = task[s][i].at
           /\ task'[s][i].epoch = task[s][i].epoch
<1>t. /\ task \in [Scheds -> [Ids -> Future]]
      /\ next_id \in [Scheds -> 0 .. MaxTasks]
      /\ sched \in Scheds \cup {NoSched} /\ cur \in Ids \cup {NoTask}
  BY DEF Inv, TypeOK
<1>p. Absent.st = "absent"
  BY DEF Absent, Plain
<1>c. pc = "poll" => sched \in Scheds /\ cur \in Ids /\ task[sched][cur] = Absent
  BY DEF Inv, TypeOK, Control, Polled, Ids, NoTask
<1>1. ASSUME task'[s][i] = task[s][i]
      PROVE  /\ task'[s][i].st = task[s][i].st
             /\ task'[s][i].at = task[s][i].at
             /\ task'[s][i].epoch = task[s][i].epoch
  BY <1>1
<1>2. ASSUME NEW r \in Scheds, Spawn(r) PROVE task'[s][i] = task[s][i]
  <2>1. next_id[r] \in Ids /\ task[r][next_id[r]] = Absent
    BY <1>2, <1>t, ConstantsAssumption DEF Spawn, Ids, Inv, Safe, Unborn
  <2> QED BY <1>2, <1>t, <1>p, <2>1 DEF Spawn
<1>3. ASSUME NEW r \in Scheds, NEW j \in Ids, Notify(r, j)
      PROVE  /\ task'[s][i].st = task[s][i].st
             /\ task'[s][i].at = task[s][i].at
             /\ task'[s][i].epoch = task[s][i].epoch
  BY <1>3, <1>t DEF Notify, Future
<1>4. ASSUME PopReady PROVE task'[s][i] = task[s][i]
  <2>1. sched \in Scheds
    BY <1>4 DEF PopReady, Inv, Control, TypeOK
  <2>2. CASE Resumes(task[sched][Head(ready[sched])])
    BY <1>4, <1>t, <1>p, <2>1, <2>2 DEF PopReady
  <2>3. CASE ~Resumes(task[sched][Head(ready[sched])])
    BY <1>4, <2>3 DEF PopReady
  <2> QED BY <2>2, <2>3
<1>5. ASSUME NEW f, Park(f), pc = "poll" PROVE task'[s][i] = task[s][i]
  BY <1>5, <1>t, <1>c, <1>p DEF Park
<1>6. ASSUME NEW ms \in Deadline, NEW evt \in {"none", "pending"}, SleepFor(ms, evt)
      PROVE  task'[s][i] = task[s][i]
  BY <1>5, <1>6 DEF SleepFor, RunExit, vars
<1>7. ASSUME Yield \/ AwaitEvent PROVE task'[s][i] = task[s][i]
  BY <1>5, <1>7 DEF Yield, AwaitEvent
<1>8. ASSUME NEW r \in Scheds, RunEnter(r) \/ NestedRun(r)
      PROVE  task'[s][i] = task[s][i]
  BY <1>8 DEF RunEnter, NestedRun, vars
<1>9. ASSUME FireTimer \/ Finish \/ Complete \/ Panic PROVE task'[s][i] = task[s][i]
  BY <1>9 DEF FireTimer, Finish, Complete, Panic, RunExit
<1> QED
  BY <1>1, <1>2, <1>3, <1>4, <1>6, <1>7, <1>8, <1>9
     DEF Next, RunLoop, PollEnds, Sleep

LEMMA RunKept ==
    ASSUME Inv, Next, NEW s \in Scheds, NEW i \in Ids, task[s][i].st # "absent",
           Sleeping(s, i)'
    PROVE  runNo' = runNo
<1>1. task'[s][i].st # "absent" /\ task'[s][i].epoch = runNo'
  BY DEF Sleeping
<1>2. task[s][i].epoch = runNo' /\ runNo \in Nat /\ task[s][i].epoch <= runNo
  BY <1>1, FutureKept, ConstantsAssumption DEF Inv, TypeOK, Safe, Epochs
<1>3. ASSUME NEW r \in Scheds, RunEnter(r) PROVE FALSE
  BY <1>2, <1>3 DEF RunEnter
<1> QED
  BY <1>3 DEF Next, Spawn, NestedRun, Notify, RunLoop, PollEnds, PopReady,
              FireTimer, Finish, RunExit, Yield, AwaitEvent, Sleep, SleepFor, Park,
              Complete, Panic, thread, vars

LEMMA SeqsStep ==
    ASSUME Inv, SeqsBelow, [Next]_vars
    PROVE  SeqsBelow'
<1>t. timer_seq \in Nat /\ \A t \in timers : t.seq \in Nat
  BY DEF Inv, TypeOK, Timer
<1>1. ASSUME timers' \subseteq timers, timer_seq' = timer_seq PROVE SeqsBelow'
  BY <1>1 DEF SeqsBelow
<1>2. ASSUME NEW ms \in Deadline, NEW evt \in {"none", "pending"}, SleepFor(ms, evt)
      PROVE  SeqsBelow'
  <2>1. CASE UNCHANGED vars \/ RunExit
    BY <1>1, <2>1 DEF vars, RunExit, heap
  <2>2. CASE /\ timers' = timers \cup {[at |-> clock + ms, seq |-> timer_seq,
                                        s |-> sched, id |-> cur]}
             /\ timer_seq' = timer_seq + 1
    <3>1. ASSUME NEW t \in timers' PROVE t.seq < timer_seq'
      BY <1>t, <2>2, <3>1 DEF SeqsBelow
    <3> QED BY <3>1 DEF SeqsBelow
  <2> QED BY <1>2, <2>1, <2>2 DEF SleepFor
<1>3. ASSUME NEW r \in Scheds, Spawn(r) \/ RunEnter(r) \/ NestedRun(r) PROVE SeqsBelow'
  <2>1. CASE RunEnter(r)
    BY <2>1 DEF RunEnter, SeqsBelow
  <2>2. CASE Spawn(r) \/ NestedRun(r)
    BY <1>1, <2>2 DEF Spawn, NestedRun, heap, vars
  <2> QED BY <1>3, <2>1, <2>2
<1>4. ASSUME NEW r \in Scheds, NEW j \in Ids, Notify(r, j) PROVE SeqsBelow'
  BY <1>1, <1>4 DEF Notify, heap
<1>5. ASSUME PopReady \/ FireTimer \/ Finish \/ Panic PROVE SeqsBelow'
  BY <1>1, <1>5 DEF PopReady, FireTimer, Finish, Panic, RunExit, heap
<1>6. ASSUME Yield \/ AwaitEvent \/ Complete \/ UNCHANGED vars PROVE SeqsBelow'
  BY <1>1, <1>6 DEF Yield, AwaitEvent, Complete, heap, vars
<1> QED
  BY <1>2, <1>3, <1>4, <1>5, <1>6 DEF Next, RunLoop, PollEnds, Sleep

(* A push on the queue of s lets nobody through, unless it is i's, in time. *)
LEMMA PushKeeps ==
    ASSUME NEW s, NEW i, NEW j, NEW at, WakesFirst(s, i, j, at),
           ready[s] \in Seq(Ids), UNCHANGED <<timers, clock>>,
           \/ UNCHANGED ready[s]
           \/ \E e \in Ids : /\ ready'[s] = Append(ready[s], e)
                             /\ e = i => clock # at
    PROVE  WakesFirst(s, i, j, at)'
<1>1. TimerFirst(s, i, j, at) => TimerFirst(s, i, j, at)'
  BY DEF TimerFirst
<1>2. CASE UNCHANGED ready[s]
  BY <1>1, <1>2 DEF WakesFirst, InQueue, InFront
<1>3. ASSUME NEW e \in Ids, ready'[s] = Append(ready[s], e), e = i => clock # at
      PROVE  WakesFirst(s, i, j, at)'
  <2>1. InQueue(ready'[s], i) <=> InQueue(ready[s], i) \/ i = e
    BY <1>3, InQueueAppend
  <2>2. InFront(ready[s], j, i) => InFront(ready'[s], j, i)
    BY <1>3, InFrontAppend
  <2> QED BY <1>1, <1>3, <2>1, <2>2 DEF WakesFirst
<1> QED BY <1>2, <1>3

LEMMA PopKeeps ==
    ASSUME Inv, PopReady, NEW s \in Scheds, NEW i \in Ids, NEW j \in Ids,
           NEW at \in Deadline, SleepsAt(s, j, at), WakesFirst(s, i, j, at),
           task'[s][j].st # "absent"
    PROVE  WakesFirst(s, i, j, at)'
<1>t. /\ task \in [Scheds -> [Ids -> Future]] /\ ready \in [Scheds -> Seq(Ids)]
      /\ ready[s] \in Seq(Ids) /\ sched \in Scheds
  BY DEF Inv, TypeOK, PopReady, Control
<1>h. UNCHANGED <<timers, clock>>
  BY DEF PopReady, heap
<1>1. CASE s # sched
  <2>1. UNCHANGED ready[s]
    BY <1>1, <1>t DEF PopReady
  <2> QED BY <1>t, <1>h, <2>1, PushKeeps
<1>2. CASE s = sched
  <2>1. ready[s] # <<>> /\ ready'[s] = Tail(ready[s])
    BY <1>2, <1>t DEF PopReady
  <2>2. ASSUME TimerFirst(s, i, j, at), clock = at => ~InQueue(ready[s], i)
        PROVE  WakesFirst(s, i, j, at)'
    <3>1. InQueue(Tail(ready[s]), i) => InQueue(ready[s], i)
      <4>1. /\ Len(ready[s]) \in Nat \ {0} /\ DOMAIN ready[s] = 1 .. Len(ready[s])
            /\ DOMAIN Tail(ready[s]) = 1 .. (Len(ready[s]) - 1)
        BY <1>t, <2>1
      <4>2. \A k \in DOMAIN Tail(ready[s]) :
                k + 1 \in DOMAIN ready[s] /\ Tail(ready[s])[k] = ready[s][k + 1]
        BY <1>t, <2>1, <4>1
      <4> QED BY <4>2 DEF InQueue
    <3>2. TimerFirst(s, i, j, at)'
      BY <1>h, <2>2 DEF TimerFirst
    <3> QED BY <1>h, <2>1, <2>2, <3>1, <3>2 DEF WakesFirst
  <2>3. ASSUME clock = at, InFront(ready[s], j, i) PROVE WakesFirst(s, i, j, at)'
    <3>1. Resumes(task[s][j])
      BY <2>3, ConstantsAssumption DEF SleepsAt, Sleeping, Resumes, Deadline
    <3>2. Head(ready[s]) # j
      <4>1. Absent.st = "absent"
        BY DEF Absent, Plain
      <4> QED BY <1>2, <1>t, <3>1, <4>1 DEF PopReady
    <3>3. InFront(Tail(ready[s]), j, i)
      BY <1>t, <2>1, <2>3, <3>2, InFrontTail
    <3> QED BY <1>h, <2>1, <2>3, <3>3 DEF WakesFirst
  <2> QED BY <2>2, <2>3 DEF WakesFirst
<1> QED BY <1>1, <1>2

LEMMA FireKeeps ==
    ASSUME Inv, FireTimer, NEW s \in Scheds, NEW i \in Ids, NEW j \in Ids,
           NEW at \in Deadline, SleepsAt(s, i, at), WakesFirst(s, i, j, at)
    PROVE  WakesFirst(s, i, j, at)'
<1>t. /\ ready \in [Scheds -> Seq(Ids)] /\ clock \in Nat /\ at \in Nat
      /\ \A u \in timers : u.at \in Nat /\ u.seq \in Nat /\ u.s \in Scheds /\ u.id \in Ids
  BY ConstantsAssumption DEF Inv, TypeOK, Timer, Deadline
<1>s. s = sched /\ ready[s] = <<>>
  BY DEF FireTimer, SleepsAt, Inv, Safe, Epochs
<1>c. clock <= at /\ \A u \in timers : clock <= u.at
  BY DEF SleepsAt, Inv, Safe, NoOversleep, TimersAhead
<1>1. PICK u \in timers :
          /\ \A v \in timers \ {u} : Before(u, v)
          /\ timers' = timers \ {u}
          /\ clock' = IF u.at > clock THEN u.at ELSE clock
          /\ ready' = [ready EXCEPT ![u.s] = Append(@, u.id)]
  BY DEF FireTimer
<1>2. ~InFront(ready[s], j, i)
  BY <1>s DEF InFront
<1>3. PICK t \in timers :
          /\ t.s = s /\ t.id = j /\ t.at = at
          /\ \A v \in timers : v.s = s /\ v.id = i /\ v.at = at => Before(t, v)
  BY <1>2 DEF WakesFirst, TimerFirst
<1>4. i # j
  BY <1>3, <1>t DEF Before
<1>5. CASE u = t
  <2>1. clock' = at
    BY <1>1, <1>3, <1>5, <1>c, <1>t
  <2>2. ready'[s] = <<j>>
    <3>1. ready' = [ready EXCEPT ![s] = Append(@, j)]
      BY <1>1, <1>3, <1>5
    <3>2. ready'[s] = Append(ready[s], j)
      BY <3>1, <1>t
    <3> QED BY <3>2, <1>s
  <2>3. InFront(<<j>>, j, i)
    <3>1. DOMAIN <<j>> = 1 .. 1 /\ <<j>>[1] = j
      OBVIOUS
    <3>2. 1 \in DOMAIN <<j>> /\ \A m \in 1 .. 1 : <<j>>[m] # i
      BY <3>1, <1>4
    <3> QED BY <3>1, <3>2 DEF InFront
  <2> QED BY <2>1, <2>2, <2>3 DEF WakesFirst
<1>6. CASE u # t
  <2>1. TimerFirst(s, i, j, at)'
    BY <1>1, <1>3, <1>6 DEF TimerFirst
  <2>2. ASSUME InQueue(ready'[s], i) PROVE clock' # at
    <3>1. u.s = s /\ u.id = i
      <4>1. CASE u.s = s
        <5>1. ready'[s] = <<u.id>>
          BY <1>1, <4>1, <1>s, <1>t
        <5>2. DOMAIN <<u.id>> = 1 .. 1 /\ <<u.id>>[1] = u.id
          OBVIOUS
        <5> QED BY <2>2, <4>1, <5>1, <5>2 DEF InQueue
      <4>2. CASE u.s # s
        <5>1. ready'[s] = ready[s]
          BY <1>1, <4>2, <1>t
        <5> QED BY <2>2, <5>1, <1>s DEF InQueue
      <4> QED BY <4>1, <4>2
    <3>2. Before(u, t) /\ (u.at = at => Before(t, u))
      BY <1>1, <1>3, <1>6, <3>1
    <3>3. u.at < at
      BY <3>2, <1>3, <1>t DEF Before
    <3> QED BY <1>1, <1>c, <1>t, <3>3
  <2> QED BY <2>1, <2>2 DEF WakesFirst
<1> QED BY <1>5, <1>6

LEMMA SleepKeeps ==
    ASSUME Inv, NEW ms \in Deadline, NEW evt \in {"none", "pending"}, SleepFor(ms, evt),
           NEW s \in Scheds, NEW i \in Ids, NEW j \in Ids, NEW at \in Deadline,
           SleepsAt(s, i, at), WakesFirst(s, i, j, at)
    PROVE  WakesFirst(s, i, j, at)'
<1>t. ready[s] \in Seq(Ids)
  BY DEF Inv, TypeOK
<1>1. CASE UNCHANGED vars \/ RunExit
  BY <1>1, <1>t, PushKeeps DEF vars, RunExit, heap
<1>2. CASE /\ timers' = timers \cup {[at |-> clock + ms, seq |-> timer_seq,
                                      s |-> sched, id |-> cur]}
           /\ UNCHANGED <<ready, clock>>
  <2>1. ~(s = sched /\ i = cur)
    <3>1. task[sched][cur] = Absent
      BY DEF SleepFor, Inv, Polled
    <3> QED BY <3>1 DEF SleepsAt, Sleeping, Absent, Plain
  <2>2. \A u \in timers' : u.s = s /\ u.id = i => u \in timers
    BY <1>2, <2>1
  <2>3. TimerFirst(s, i, j, at) => TimerFirst(s, i, j, at)'
    BY <1>2, <2>2 DEF TimerFirst
  <2> QED BY <1>2, <2>3 DEF WakesFirst, InQueue, InFront
<1> QED
  BY <1>1, <1>2 DEF SleepFor, Park

(* Through every step that neither wakes the two sleepers nor starts another *)
(* run, the one that is to wake first stays first.                           *)
LEMMA NextKeepsFirst ==
    ASSUME Inv, Next, NEW s \in Scheds, NEW i \in Ids, NEW j \in Ids,
           NEW at \in Deadline, SleepsAt(s, i, at), SleepsAt(s, j, at),
           WakesFirst(s, i, j, at), runNo' = runNo,
           task'[s][j].st # "absent", ~WokenInTime(s, i)
    PROVE  WakesFirst(s, i, j, at)'
<1>t. /\ ready \in [Scheds -> Seq(Ids)] /\ ready[s] \in Seq(Ids)
      /\ next_id \in [Scheds -> 0 .. MaxTasks] /\ runNo \in Nat
  BY ConstantsAssumption DEF Inv, TypeOK
<1>p. Absent.st = "absent"
  BY DEF Absent, Plain
<1>i. task[s][i].st = "await" /\ task[s][i].at = at
  BY DEF SleepsAt, Sleeping
<1>c. pc = "poll" => sched \in Scheds /\ cur \in Ids /\ task[sched][cur] = Absent
  BY DEF Inv, TypeOK, Control, Polled, Ids, NoTask
<1>1. ASSUME UNCHANGED <<ready, timers, clock>> PROVE WakesFirst(s, i, j, at)'
  BY <1>1, <1>t, PushKeeps
<1>2. ASSUME NEW r \in Scheds, Spawn(r) PROVE WakesFirst(s, i, j, at)'
  <2>1. next_id[r] \in Ids /\ task[r][next_id[r]] = Absent
    BY <1>2, <1>t, ConstantsAssumption DEF Spawn, Ids, Inv, Safe, Unborn
  <2>2. UNCHANGED <<timers, clock>> /\ ready' = [ready EXCEPT ![r] = Append(@, next_id[r])]
    BY <1>2 DEF Spawn, heap
  <2>3. CASE r = s
    <3>1. ready'[s] = Append(ready[s], next_id[r]) /\ next_id[r] # i
      BY <1>t, <1>p, <1>i, <2>1, <2>2, <2>3
    <3> QED BY <1>t, <2>1, <2>2, <3>1, PushKeeps
  <2>4. CASE r # s
    BY <1>t, <2>2, <2>4, PushKeeps
  <2> QED BY <2>3, <2>4
<1>3. ASSUME NEW r \in Scheds, NEW k \in Ids, Notify(r, k) PROVE WakesFirst(s, i, j, at)'
  <2>1. UNCHANGED <<timers, clock>> /\ ready' = [ready EXCEPT ![r] = Append(@, k)]
    BY <1>3 DEF Notify, heap
  <2>2. CASE r = s
    <3>1. ready'[s] = Append(ready[s], k) /\ (k = i => clock # at)
      BY <1>3, <1>t, <1>i, <2>1, <2>2 DEF WokenInTime
    <3> QED BY <1>t, <2>1, <3>1, PushKeeps
  <2>3. CASE r # s
    BY <1>t, <2>1, <2>3, PushKeeps
  <2> QED BY <2>2, <2>3
<1>4. ASSUME Yield PROVE WakesFirst(s, i, j, at)'
  <2>1. /\ UNCHANGED <<timers, clock>> /\ ready' = [ready EXCEPT ![sched] = Append(@, cur)]
        /\ sched \in Scheds /\ cur \in Ids /\ task[sched][cur] = Absent
    BY <1>4, <1>c DEF Yield, Park
  <2>2. CASE sched = s
    <3>1. ready'[s] = Append(ready[s], cur) /\ cur # i
      BY <1>t, <1>p, <1>i, <2>1, <2>2
    <3> QED BY <1>t, <2>1, <3>1, PushKeeps
  <2>3. CASE sched # s
    BY <1>t, <2>1, <2>3, PushKeeps
  <2> QED BY <2>2, <2>3
<1>5. ASSUME NEW r \in Scheds, RunEnter(r) PROVE FALSE
  BY <1>5, <1>t DEF RunEnter
<1>6. ASSUME NEW r \in Scheds, NestedRun(r) PROVE WakesFirst(s, i, j, at)'
  BY <1>1, <1>6 DEF NestedRun, vars
<1>7. ASSUME Finish \/ Panic \/ AwaitEvent \/ Complete PROVE WakesFirst(s, i, j, at)'
  BY <1>1, <1>7 DEF Finish, Panic, RunExit, AwaitEvent, Park, Complete, heap
<1> QED
  BY <1>2, <1>3, <1>4, <1>5, <1>6, <1>7, PopKeeps, FireKeeps, SleepKeeps
     DEF Next, RunLoop, PollEnds, Sleep

(* A task that falls asleep does so behind all who sleep until then, unless  *)
(* it has a timer there already.                                             *)
LEMMA FallsAsleepLast ==
    ASSUME Inv, SeqsBelow, Next, NEW s \in Scheds, NEW i \in Ids, NEW at \in Deadline,
           task[s][i].st = "absent", SleepsAt(s, i, at)',
           NEW j \in AsleepBefore(s, i, at)
    PROVE  SleepsAt(s, j, at)' /\ WakesFirst(s, i, j, at)'
<1>t. /\ task \in [Scheds -> [Ids -> Future]] /\ clock \in Nat
      /\ next_id \in [Scheds -> 0 .. MaxTasks]
      /\ sched \in Scheds \cup {NoSched} /\ cur \in Ids \cup {NoTask}
      /\ at # NoDeadline
  BY ConstantsAssumption DEF Inv, TypeOK, Deadline, NoDeadline
<1>p. Absent.at = NoDeadline /\ Plain("new").at = NoDeadline /\ Plain("yield").at = NoDeadline
  BY DEF Absent, Plain
<1>i. task'[s][i].st = "await" /\ task'[s][i].at = at
  BY DEF SleepsAt, Sleeping
<1>c. pc = "poll" => sched \in Scheds /\ cur \in Ids /\ task[sched][cur] = Absent
  BY DEF Inv, TypeOK, Control, Polled, Ids, NoTask
<1>1. PICK ms \in Deadline, evt \in {"none", "pending"} : SleepFor(ms, evt)
  <2>1. ASSUME UNCHANGED task PROVE FALSE
    BY <2>1, <1>i
  <2>2. ASSUME NEW r \in Scheds, Spawn(r) PROVE FALSE
    <3>1. next_id[r] \in Ids
      BY <2>2, <1>t, ConstantsAssumption DEF Spawn, Ids
    <3> QED BY <2>2, <3>1, <1>t, <1>p, <1>i DEF Spawn
  <2>3. ASSUME NEW r \in Scheds, NEW k \in Ids, Notify(r, k) PROVE FALSE
    <3>1. task'[s][i].st = task[s][i].st
      BY <2>3, <1>t DEF Notify, Future
    <3> QED BY <3>1, <1>i
  <2>4. ASSUME PopReady PROVE FALSE
    <3>1. sched \in Scheds
      BY <2>4 DEF PopReady, Inv, Control, TypeOK
    <3> QED BY <2>1, <2>4, <3>1, <1>t, <1>p, <1>i DEF PopReady
  <2>5. ASSUME NEW f, f.at = NoDeadline, Park(f), pc = "poll" PROVE FALSE
    BY <2>5, <1>t, <1>c, <1>i DEF Park
  <2>6. ASSUME Yield \/ AwaitEvent PROVE FALSE
    <3>1. [Plain("await") EXCEPT !.evt = "pending"].at = NoDeadline
      BY DEF Plain
    <3> QED BY <2>5, <2>6, <3>1, <1>p DEF Yield, AwaitEvent
  <2>7. ASSUME NEW r \in Scheds, RunEnter(r) \/ NestedRun(r) PROVE FALSE
    BY <2>1, <2>7 DEF RunEnter, NestedRun, vars
  <2>8. ASSUME FireTimer \/ Finish \/ Complete \/ Panic PROVE FALSE
    BY <2>1, <2>8 DEF FireTimer, Finish, Complete, Panic, RunExit
  <2> QED
    BY <2>2, <2>3, <2>4, <2>6, <2>7, <2>8 DEF Next, RunLoop, PollEnds, Sleep
<1>2. /\ pc = "poll" /\ ms > 0
      /\ timers' = timers \cup {[at |-> clock + ms, seq |-> timer_seq,
                                 s |-> sched, id |-> cur]}
      /\ UNCHANGED <<clock, runNo>>
      /\ task' = [task EXCEPT ![sched][cur] =
                     [st |-> "await", at |-> clock + ms, evt |-> evt, epoch |-> runNo]]
  BY <1>1, <1>i DEF SleepFor, Park, RunExit, vars
<1>3. s = sched /\ i = cur
  BY <1>2, <1>t, <1>c, <1>i
<1>4. at = clock + ms /\ clock < at
  BY <1>2, <1>3, <1>t, <1>i DEF Deadline
<1>5. /\ j \in Ids /\ SleepsAt(s, j, at)
      /\ ~ \E t \in timers : t.s = s /\ t.id = i /\ t.at = at
  BY DEF AsleepBefore, SleepsAt
<1>6. j # i
  BY <1>5 DEF SleepsAt, Sleeping
<1>7. SleepsAt(s, j, at)'
  <2>1. task'[s][j] = task[s][j]
    BY <1>2, <1>3, <1>5, <1>6, <1>t
  <2> QED BY <1>2, <1>5, <2>1 DEF SleepsAt, Sleeping
<1>8. PICK t \in timers : t.s = s /\ t.id = j /\ t.at = at
  BY <1>4, <1>5, <1>t DEF SleepsAt, Inv, Safe, NoLostSleeper
<1>9. \A u \in timers' : u.s = s /\ u.id = i /\ u.at = at => Before(t, u)
  BY <1>2, <1>5, <1>8 DEF Before, SeqsBelow
<1> QED
  BY <1>2, <1>4, <1>7, <1>8, <1>9, <1>t DEF WakesFirst, TimerFirst

(* A future is taken out of the map by the poll in which it resumes. *)
LEMMA LeavesByPop ==
    ASSUME Inv, Next, NEW s \in Scheds, NEW i \in Ids,
           task[s][i].st # "absent", task'[s][i].st = "absent"
    PROVE  /\ ready[s] # <<>> /\ Head(ready[s]) = i
           /\ Resumes(task[s][i])
<1>t. /\ task \in [Scheds -> [Ids -> Future]]
      /\ next_id \in [Scheds -> 0 .. MaxTasks]
      /\ sched \in Scheds \cup {NoSched} /\ cur \in Ids \cup {NoTask}
  BY DEF Inv, TypeOK
<1>p. Plain("new").st = "new" /\ Plain("yield").st = "yield" /\ Plain("await").st = "await"
  BY DEF Plain
<1>c. pc = "poll" => sched \in Scheds /\ cur \in Ids /\ task[sched][cur] = Absent
  BY DEF Inv, TypeOK, Control, Polled, Ids, NoTask
<1>1. ASSUME UNCHANGED task PROVE FALSE
  BY <1>1
<1>2. ASSUME NEW r \in Scheds, Spawn(r) PROVE FALSE
  <2>1. next_id[r] \in Ids
    BY <1>2, <1>t, ConstantsAssumption DEF Spawn, Ids
  <2> QED BY <1>2, <2>1, <1>t, <1>p DEF Spawn
<1>3. ASSUME NEW r \in Scheds, NEW k \in Ids, Notify(r, k) PROVE FALSE
  BY <1>3, <1>t DEF Notify, Future
<1>4. ASSUME NEW f, f.st # "absent", Park(f), pc = "poll" PROVE FALSE
  BY <1>4, <1>t, <1>c DEF Park
<1>5. ASSUME Yield \/ AwaitEvent PROVE FALSE
  <2>1. [Plain("await") EXCEPT !.evt = "pending"].st = "await"
    BY DEF Plain
  <2> QED BY <1>4, <1>5, <2>1, <1>p DEF Yield, AwaitEvent
<1>6. ASSUME NEW ms \in Deadline, NEW evt \in {"none", "pending"}, SleepFor(ms, evt)
      PROVE  FALSE
  BY <1>1, <1>4, <1>6 DEF SleepFor, RunExit, vars
<1>7. ASSUME NEW r \in Scheds, RunEnter(r) \/ NestedRun(r) PROVE FALSE
  BY <1>1, <1>7 DEF RunEnter, NestedRun, vars
<1>8. ASSUME FireTimer \/ Finish \/ Complete \/ Panic PROVE FALSE
  BY <1>1, <1>8 DEF FireTimer, Finish, Complete, Panic, RunExit
<1>9. PopReady
  BY <1>2, <1>3, <1>5, <1>6, <1>7, <1>8 DEF Next, RunLoop, PollEnds, Sleep
<1>10. sched \in Scheds /\ Resumes(task[sched][Head(ready[sched])])
  BY <1>1, <1>9 DEF PopReady, Inv, Control, TypeOK
<1>11. s = sched /\ i = Head(ready[sched])
  BY <1>9, <1>10, <1>t DEF PopReady
<1> QED BY <1>9, <1>10, <1>11 DEF PopReady

LEMMA EarlierStep ==
    ASSUME SleepInv, OrderNext, Inv'
    PROVE  EarlierTyped' /\ EarlierFirst'
<1>n. Inv /\ SeqsBelow /\ Next /\ Earlier
  BY DEF SleepInv, OrderNext
<1>1. EarlierTyped'
  <2>1. ASSUME NEW s \in Scheds, NEW i \in Ids
        PROVE  /\ \A at : AsleepBefore(s, i, at) \subseteq Ids
               /\ earlier[s][i] \subseteq Ids
    BY DEF AsleepBefore, SleepInv, EarlierTyped
  <2>2. ASSUME NEW s \in Scheds, NEW i \in Ids
        PROVE  (IF task[s][i].st = "absent" /\ task'[s][i].at # NoDeadline
                THEN AsleepBefore(s, i, task'[s][i].at)
                ELSE {j \in earlier[s][i] : /\ task'[s][j].st # "absent"
                                            /\ task'[s][i].st # "absent"
                                            /\ ~WokenInTime(s, i)}) \in SUBSET Ids
    BY <2>1
  <2> QED BY <1>n, <2>2 DEF Earlier, EarlierTyped
<1>2. ASSUME NEW s \in Scheds, NEW i \in Ids, NEW at \in Deadline,
             SleepsAt(s, i, at)', NEW j \in earlier'[s][i]
      PROVE  SleepsAt(s, j, at)' /\ WakesFirst(s, i, j, at)'
  <2>i. task'[s][i].st = "await" /\ task'[s][i].at = at /\ at # NoDeadline
    BY <1>2 DEF SleepsAt, Sleeping
  <2>e. earlier'[s][i] =
            IF task[s][i].st = "absent" /\ task'[s][i].at # NoDeadline
            THEN AsleepBefore(s, i, task'[s][i].at)
            ELSE {k \in earlier[s][i] : /\ task'[s][k].st # "absent"
                                        /\ task'[s][i].st # "absent"
                                        /\ ~WokenInTime(s, i)}
    BY <1>n DEF Earlier
  <2>1. CASE task[s][i].st = "absent"
    <3>1. j \in AsleepBefore(s, i, at)
      BY <1>2, <2>1, <2>i, <2>e
    <3> QED BY <1>n, <1>2, <2>1, <3>1, FallsAsleepLast
  <2>2. CASE task[s][i].st # "absent"
    <3>1. /\ j \in earlier[s][i] /\ j \in Ids
          /\ task'[s][j].st # "absent" /\ ~WokenInTime(s, i)
      BY <1>2, <2>2, <2>e DEF SleepInv, EarlierTyped
    <3>2. runNo' = runNo
      BY <1>n, <1>2, <2>2, RunKept DEF SleepsAt
    <3>3. SleepsAt(s, i, at)
      BY <1>n, <1>2, <2>2, <2>i, <3>2, FutureKept DEF SleepsAt, Sleeping
    <3>4. SleepsAt(s, j, at) /\ WakesFirst(s, i, j, at)
      BY <3>1, <3>3 DEF SleepInv, EarlierFirst
    <3>5. task[s][j].st # "absent"
      BY <3>4 DEF SleepsAt, Sleeping
    <3>6. SleepsAt(s, j, at)'
      BY <1>n, <3>1, <3>2, <3>4, <3>5, FutureKept DEF SleepsAt, Sleeping
    <3> QED BY <1>n, <3>1, <3>2, <3>3, <3>4, <3>6, NextKeepsFirst
  <2> QED BY <2>1, <2>2
<1> QED
  BY <1>1, <1>2 DEF EarlierFirst

(* Sleepers wake in the order of their instants, and of falling asleep among *)
(* those of one instant: for any number of tasks, and whatever tokens and    *)
(* timers without an owner there are in between.                             *)
THEOREM WakesAreOrdered == OrderSpec => SleepersWakeInOrder
<1>1. OrderInit => SleepInv
  <2> SUFFICES ASSUME OrderInit PROVE SleepInv
    OBVIOUS
  <2>1. Inv /\ SeqsBelow
    BY InvInit DEF OrderInit, Init, SeqsBelow
  <2>2. EarlierTyped /\ \A s \in Scheds, i \in Ids : earlier[s][i] = {}
    BY DEF OrderInit, Nobody, EarlierTyped
  <2> QED BY <2>1, <2>2 DEF SleepInv, EarlierFirst
<1>2. SleepInv /\ [OrderNext]_<<vars, history>> => SleepInv'
  <2> SUFFICES ASSUME SleepInv, [OrderNext]_<<vars, history>> PROVE SleepInv'
    OBVIOUS
  <2>1. Inv' /\ SeqsBelow'
    BY InvStep, SeqsStep DEF SleepInv, OrderNext, vars
  <2>2. CASE UNCHANGED <<vars, history>>
    BY <2>1, <2>2 DEF SleepInv, EarlierTyped, EarlierFirst, vars, history, SleepsAt,
                      Sleeping, WakesFirst, TimerFirst, InQueue, InFront
  <2>3. CASE OrderNext
    BY <2>1, <2>3, EarlierStep DEF SleepInv
  <2> QED BY <2>2, <2>3
<1>3. SleepInv /\ [OrderNext]_<<vars, history>> =>
         [\A s \in Scheds, i \in Ids :
             (Sleeping(s, i) /\ task[s][i].evt # "fired" /\ task'[s][i].st = "absent")
                 => /\ earlier[s][i] = {}
                    /\ \A j \in Ids : Sleeping(s, j) => task[s][i].at <= task[s][j].at
         ]_<<vars, history>>
  <2> SUFFICES ASSUME SleepInv, OrderNext, NEW s \in Scheds, NEW i \in Ids,
                      Sleeping(s, i), task[s][i].evt # "fired",
                      task'[s][i].st = "absent"
               PROVE  /\ earlier[s][i] = {}
                      /\ \A j \in Ids : Sleeping(s, j) => task[s][i].at <= task[s][j].at
    OBVIOUS
  <2>t. /\ Inv /\ Next /\ ready[s] \in Seq(Ids) /\ clock \in Nat
        /\ earlier[s][i] \subseteq Ids
        /\ task \in [Scheds -> [Ids -> Future]]
    BY ConstantsAssumption DEF SleepInv, OrderNext, Inv, TypeOK, EarlierTyped, Deadline
  <2>1. ready[s] # <<>> /\ Head(ready[s]) = i /\ Resumes(task[s][i])
    BY <2>t, LeavesByPop DEF Sleeping
  <2>2. task[s][i].at \in Deadline
    BY <2>t DEF Sleeping, Future
  <2>3. clock >= task[s][i].at
    BY <2>1 DEF Resumes, Sleeping
  <2>4. ASSUME NEW j \in Ids, Sleeping(s, j)
        PROVE  clock <= task[s][j].at /\ task[s][j].at \in Deadline
    BY <2>t, <2>4 DEF Inv, Safe, NoOversleep, Sleeping, Future
  <2>5. clock = task[s][i].at
    BY <2>t, <2>2, <2>3, <2>4, ConstantsAssumption DEF Deadline
  <2>6. ASSUME NEW j \in earlier[s][i] PROVE FALSE
    <3>1. WakesFirst(s, i, j, clock)
      BY <2>2, <2>5, <2>6 DEF SleepInv, EarlierFirst, SleepsAt
    <3>2. InQueue(ready[s], i)
      BY <2>t, <2>1 DEF InQueue
    <3>3. ~InFront(ready[s], j, i)
      BY <2>t, <2>1, InFrontTail
    <3> QED BY <3>1, <3>2, <3>3 DEF WakesFirst
  <2> QED
    BY <2>4, <2>5, <2>6
<1> QED
  BY <1>1, <1>2, <1>3, PTL DEF OrderSpec, SleepersWakeInOrder
=============================================================================
