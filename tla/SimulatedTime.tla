------------------------------ MODULE SimulatedTime ------------------------------
(*****************************************************************************)
(* SimulatedTime (crates/navian-dst/src/time.rs) and the timeout() helper    *)
(* built on it (executor.rs): tasks on any thread sleep, race a future with  *)
(* a timeout and read the monotonic clock, while the harness moves the clock *)
(* forwards and backwards.                                                   *)
(*                                                                           *)
(* The clock is a tokio watch channel: a value with a version that every     *)
(* send increments.  A receiver remembers the version it has seen, and       *)
(* changed() returns once there is a newer one.  The sender lives as long as *)
(* the SimulatedTime a sleeper borrows, so changed() cannot fail.            *)
(*                                                                           *)
(* Instants are counted in ms from real_epoch.                               *)
(*****************************************************************************)
EXTENDS Integers

CONSTANTS
    Tasks,        \* the callers
    MaxI,         \* i64::MAX; clock values are MinI .. MaxI
    StartMs,      \* the argument of SimulatedTime::new
    MaxInstant,   \* ms from real_epoch to the largest representable Instant
    Durations,    \* the durations in ms, as u128, that tasks sleep for
    MaxChanges    \* bound: how often the harness moves the clock

MinI  == -MaxI - 1
MaxU  == 2 * MaxI + 1
Clock == MinI .. MaxI

(* What the constants are assumed to be. *)
TimeAssumption ==
    /\ MaxI \in Nat
    /\ StartMs \in Clock
    /\ MaxInstant \in Nat
    /\ Durations \subseteq Nat
    /\ MaxChanges \in Nat

VARIABLES
    clock,       \* the value of the watch channel
    version,     \* its version
    hwm,         \* instant_hwm_ms
    pc,          \* pc[t]: where task t is
    wakeAt,      \* wakeAt[t]: wake_at of its sleep()
    seen,        \* seen[t]: the version its receiver has seen
    fut,         \* fut[t]: the future it runs under timeout(), or "none"
    raw,         \* raw[t]: raw_elapsed of its instant_now()
    returned,    \* history: the latest instant returned to anyone
    floor        \* history: floor[t] is returned when t's call began

vars == <<clock, version, hwm, pc, wakeAt, seen, fut, raw, returned, floor>>

sleep   == <<wakeAt, seen, fut>>
instant == <<hwm, raw, returned, floor>>

-----------------------------------------------------------------------------
Larger(a, b) == IF a > b THEN a ELSE b
Saturate(x)  == IF x > MaxI THEN MaxI ELSE IF x < MinI THEN MinI ELSE x

(* `as i64`, and what + gives without overflow checks. *)
Wrap(x) == ((x - MinI) % (2 * (MaxI + 1))) + MinI

(* now_ms().saturating_sub(start_ms).max(0) *)
ElapsedAt(c) == Larger(Saturate(c - StartMs), 0)

(* checked_add on the real Instant succeeds. *)
Representable(ms) == ms <= MaxInstant

(* The binary search between an offset that is representable and one that    *)
(* is not.                                                                   *)
Search[range \in (0 .. MaxU) \X (0 .. MaxU)] ==
    LET lo  == range[1]
        hi  == range[2]
        mid == lo + (hi - lo) \div 2
    IN  IF hi - lo <= 1 THEN lo
        ELSE IF Representable(mid) THEN Search[<<mid, hi>>] ELSE Search[<<lo, mid>>]

max_representable_instant ==
    IF Representable(MaxU) THEN MaxU ELSE Search[<<0, MaxU>>]

\* Mutation: an addition that overflows falls back to real_epoch.
InstantOrEpoch(elapsed) == IF Representable(elapsed) THEN elapsed ELSE 0

InstantAt(elapsed) ==
    IF Representable(elapsed) THEN elapsed ELSE max_representable_instant

Init ==
    /\ clock = StartMs
    /\ version = 0
    /\ hwm = 0
    /\ pc = [t \in Tasks |-> "idle"]
    /\ wakeAt = [t \in Tasks |-> 0]
    /\ seen = [t \in Tasks |-> 0]
    /\ fut = [t \in Tasks |-> "none"]
    /\ raw = [t \in Tasks |-> 0]
    /\ returned = 0
    /\ floor = [t \in Tasks |-> 0]

(* The harness. *)
MoveTo(c) ==
    /\ version < MaxChanges
    /\ clock' = c
    /\ version' = version + 1
    /\ UNCHANGED <<pc, sleep, instant>>

advance_ms(delta) == MoveTo(Saturate(clock + delta))
set_to_ms(ms)     == MoveTo(ms)

-----------------------------------------------------------------------------
(* instant_now() reads the clock here ...                                    *)
ReadClock(t) ==
    /\ pc[t] = "idle"
    /\ pc' = [pc EXCEPT ![t] = "instant"]
    /\ raw' = [raw EXCEPT ![t] = ElapsedAt(clock)]
    /\ floor' = [floor EXCEPT ![t] = returned]
    /\ UNCHANGED <<clock, version, hwm, returned, sleep>>

(* ... and does its fetch_max and prev.max(raw_elapsed) here.  The rest of   *)
(* the call is local, so it counts as returned from now on.                  *)
Result(t) == InstantAt(Larger(hwm, raw[t]))

FetchMax(t) ==
    /\ pc[t] = "instant"
    /\ pc' = [pc EXCEPT ![t] = "idle"]
    /\ hwm' = Larger(hwm, raw[t])
    /\ returned' = Larger(returned, Result(t))
    /\ raw' = [raw EXCEPT ![t] = 0]      \* the locals die with the call
    /\ floor' = [floor EXCEPT ![t] = 0]
    /\ UNCHANGED <<clock, version, sleep>>

-----------------------------------------------------------------------------
(* sleep(d), alone (f = "none") or as the second branch of timeout()'s       *)
(* select! (f = "pending").  The duration is truncated to an i64; a build    *)
(* with overflow checks panics when the sum does not fit.                    *)
SleepBegin(t, d, f) ==
    LET at == clock + Wrap(d)
    IN  /\ pc[t] = "idle"
        /\ \/ /\ wakeAt' = [wakeAt EXCEPT ![t] = Wrap(at)]
              /\ fut' = [fut EXCEPT ![t] = f]
              /\ pc' = [pc EXCEPT ![t] = "subscribe"]
           \/ /\ at \notin Clock
              /\ pc' = [pc EXCEPT ![t] = "panicked"]
              /\ UNCHANGED <<wakeAt, fut>>
        /\ UNCHANGED <<clock, version, seen, instant>>

LookedAtTheClock(t, next) ==
    /\ pc' = [pc EXCEPT ![t] = next]
    /\ UNCHANGED <<clock, version, wakeAt, fut, instant>>

Subscribe(t) ==
    /\ pc[t] = "subscribe"
    /\ seen' = [seen EXCEPT ![t] = version]
    /\ LookedAtTheClock(t, "check")

(* sleep() or timeout() is over; with the receiver its state goes. *)
Return(t) ==
    /\ pc' = [pc EXCEPT ![t] = "idle"]
    /\ wakeAt' = [wakeAt EXCEPT ![t] = 0]
    /\ seen' = [seen EXCEPT ![t] = 0]
    /\ fut' = [fut EXCEPT ![t] = "none"]  \* the other branch is dropped
    /\ UNCHANGED <<clock, version, instant>>

(* One turn of sleep()'s loop. *)
Elapsed(t) ==
    /\ pc[t] = "check"
    /\ clock >= wakeAt[t]
    /\ Return(t)

NotElapsed(t) ==
    /\ pc[t] = "check"
    /\ clock < wakeAt[t]
    /\ LookedAtTheClock(t, "wait")
    /\ UNCHANGED seen

\* Mutation: changed() consumes a change without comparing again.
ChangedUnseen(t) ==
    /\ pc[t] = "wait"
    /\ seen[t] # version
    /\ seen' = [seen EXCEPT ![t] = version]
    /\ LookedAtTheClock(t, "wait")

(* changed() returns; the loop compares the clock as it is by then. *)
Changed(t) ==
    /\ pc[t] = "wait"
    /\ seen[t] # version
    /\ seen' = [seen EXCEPT ![t] = version]
    /\ LookedAtTheClock(t, "check")

(* The future raced by timeout() becomes able to complete. *)
FutureReady(t) ==
    /\ fut[t] = "pending"
    /\ fut' = [fut EXCEPT ![t] = "ready"]
    /\ UNCHANGED <<clock, version, pc, wakeAt, seen, instant>>

(* select! polls its branches in a random order: with both ready, either one *)
(* can win.  A future that completes in the first poll, before sleep() has   *)
(* begun, is no step here.                                                   *)
FutureWins(t) ==
    /\ pc[t] = "wait"
    /\ fut[t] = "ready"
    /\ Return(t)

-----------------------------------------------------------------------------
TaskStep(t) ==
    Subscribe(t) \/ Elapsed(t) \/ NotElapsed(t) \/ Changed(t) \/ FutureWins(t)

Next ==
    \/ \E delta \in Clock : advance_ms(delta)
    \/ \E ms \in Clock : set_to_ms(ms)
    \/ \E t \in Tasks :
        \/ ReadClock(t) \/ FetchMax(t)
        \/ \E d \in Durations, f \in {"none", "pending"} : SleepBegin(t, d, f)
        \/ FutureReady(t)
        \/ TaskStep(t)

Spec     == Init /\ [][Next]_vars

(* The executor polls a task whose waker was called: at a change of the      *)
(* clock, or when its future is ready.                                       *)
FairSpec == Spec /\ \A t \in Tasks : WF_vars(TaskStep(t))

-----------------------------------------------------------------------------
Asleep(t) == pc[t] \in {"subscribe", "check", "wait"}

TypeOK ==
    /\ clock \in Clock
    /\ version \in 0 .. MaxChanges
    /\ hwm \in 0 .. MaxI
    /\ pc \in [Tasks -> {"idle", "instant", "subscribe", "check", "wait", "panicked"}]
    /\ wakeAt \in [Tasks -> Clock]
    /\ seen \in [Tasks -> 0 .. MaxChanges]
    /\ fut \in [Tasks -> {"none", "pending", "ready"}]
    /\ raw \in [Tasks -> 0 .. MaxI]
    /\ returned \in 0 .. MaxInstant
    /\ floor \in [Tasks -> 0 .. MaxInstant]

(* instant_now() is monotonic across threads: a call never returns less than *)
(* a call that had returned before it began, although the clock and the mark *)
(* are read separately, the clock may jump back in between, and the addition *)
(* to the real Instant may overflow in one call and not in the other.        *)
InstantMonotonic ==
    [][\A t \in Tasks :
          (pc[t] = "instant" /\ pc'[t] # "instant") => floor[t] <= Result(t)]_vars

(* "There is no missed-wakeup race": a sleeper that waits with nothing new   *)
(* to see has compared its deadline with the clock as it is now, although    *)
(* the deadline, the subscription and the comparison use separate reads.     *)
NoMissedChange ==
    \A t \in Tasks :
        (pc[t] = "wait" /\ seen[t] = version) => clock < wakeAt[t]

(* A sleeper whose deadline stays behind the clock wakes up, whatever the    *)
(* order of subscribe, clock changes (which may coalesce) and polls.         *)
SleeperWakes == \A t \in Tasks : []<>~(Asleep(t) /\ clock >= wakeAt[t])

(* timeout() returns once its future is ready, even if the clock never       *)
(* moves again.                                                              *)
TimeoutReturns == \A t \in Tasks : (Asleep(t) /\ fut[t] = "ready") ~> ~Asleep(t)
=============================================================================
