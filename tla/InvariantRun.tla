------------------------------ MODULE InvariantRun ------------------------------
(*****************************************************************************)
(* An engine with a stateful predicate, over the steps of a run: the         *)
(* CounterWorld of invariant.rs, whose "monotonic" remembers the value it    *)
(* was last shown, next to "under_cap", which remembers nothing.  The two    *)
(* may be declared in either order, and the harness may call check() or      *)
(* check_all() after each step.                                              *)
(*****************************************************************************)
EXTENDS InvariantEngine, Integers

CONSTANTS
    MaxValue,   \* in Nat: the counter and its cap are in 0 .. MaxValue
    MaxSteps    \* in Nat, bound: the steps of the run

VARIABLES
    order,      \* the names in the order of declaration
    call,       \* what the harness calls: "check" or "check_all"
    step,
    value,      \* the counter
    cap,        \* its cap: the world may change it as well
    last,       \* history: its value one step before
    prev,       \* the Cell<i64> "monotonic" keeps
    reported    \* reported[k]: what step k reported, as a sequence

vars == <<order, call, step, value, cap, last, prev, reported>>

-----------------------------------------------------------------------------
(* The predicates, as the closure with its Cell sees the world ...           *)
Holds(name, v, c, p) == IF name = "under_cap" THEN v <= c ELSE v >= p

Verdicts(v, c, p) ==
    [i \in DOMAIN order |-> [name |-> order[i], holds |-> Holds(order[i], v, c, p)]]

(* ... and as the world really moved.                                        *)
BrokenAt(v, c, l) == {n \in {"under_cap", "monotonic"} : ~Holds(n, v, c, l)}

(* The declaration order the tests use, and its reverse. *)
Init ==
    /\ order \in {<<"under_cap", "monotonic">>, <<"monotonic", "under_cap">>}
    /\ call \in {"check", "check_all"}
    /\ step = 0
    /\ value = 0
    /\ cap = MaxValue
    /\ last = 0
    /\ prev = 0
    /\ reported = <<>>

(* "monotonic" stores what it is shown, if it is evaluated at all. *)
Remember(evaluated, v) ==
    IF \E i \in evaluated : order[i] = "monotonic" THEN v ELSE prev

Step(v, c) ==
    LET verdicts == Verdicts(v, c, prev)
        first    == check(step, verdicts)
    IN  /\ step < MaxSteps
        /\ step' = step + 1
        /\ value' = v
        /\ cap' = c
        /\ last' = value
        /\ \/ /\ call = "check"
              /\ reported' = Append(reported,
                    IF first = NoViolation THEN <<>> ELSE <<first>>)
              /\ prev' = Remember(Evaluated(verdicts), v)
           \/ /\ call = "check_all"
              /\ reported' = Append(reported, check_all(step, verdicts))
              /\ prev' = Remember(DOMAIN verdicts, v)
        /\ UNCHANGED <<order, call>>

Next == \E v, c \in 0 .. MaxValue : Step(v, c)

Spec == Init /\ [][Next]_vars

-----------------------------------------------------------------------------
Names(report) == {report[i].invariant : i \in DOMAIN report}
SawViolation  == \E k \in DOMAIN reported : reported[k] # <<>>

(* "Use check_all (which always evaluates every invariant)": its report of a *)
(* step is exactly what that step broke, in the order of declaration.        *)
AllIsExact ==
    [][(call = "check_all" /\ step' # step) =>
        LET now == reported'[step + 1]
        IN  /\ Names(now) = BrokenAt(value', cap', value)
            /\ Len(now) = 2 => now[1].invariant = order[1]]_vars

(* "The step index at which it first broke": although the predicate has a    *)
(* memory, check() reports the first step that broke anything, and names the *)
(* first invariant declared among the broken ones.                           *)
FirstViolationExact ==
    [][(call = "check" /\ step' # step /\ ~SawViolation) =>
        LET now    == reported'[step + 1]
            broken == BrokenAt(value', cap', value)
        IN  /\ now = <<>> <=> broken = {}
            /\ now # <<>> =>
                /\ now[1].step = step
                /\ now[1].invariant \in broken
                /\ order[1] \in broken => now[1].invariant = order[1]]_vars

(* "May be skipped on a step where an earlier invariant already failed":     *)
(* after a violation the memory of a predicate declared second may lag, and  *)
(* one declared first never does.                                            *)
OnlyTheSecondLags ==
    prev # value =>
        /\ call = "check"
        /\ order[2] = "monotonic"
        /\ SawViolation
=============================================================================
