----------------------------- MODULE PlantedLedger -----------------------------
(*****************************************************************************)
(* The harness as a whole, as crates/navian-dst/tests/catches_planted_bug.rs *)
(* uses it: a ledger driven over the simulated link by a fault schedule, the *)
(* invariant engine after every step, and ddmin to shrink a failing schedule *)
(* to the faults that matter.                                                *)
(*                                                                           *)
(* ddmin is called with an input of N elements: by anybody, with a predicate *)
(* of theirs, or by the harness, with the positions 1 .. N of the fault      *)
(* points of a schedule and a run of the ledger as the predicate.  The       *)
(* ledger is one task, so its yields change nothing.                         *)
(*****************************************************************************)
EXTENDS Ddmin, Delivery, InvariantEngine

CONSTANTS
    STEPS,  \* how many steps a schedule of the ledger has
    Faults  \* the faults on it

ASSUME LedgerAssumption ==
    /\ STEPS \in Nat
    /\ \A f \in Faults :
            f.kind \in {"None", "TransientError", "CrashRestart", "ClockSkew"}

VARIABLES
    schedule,   \* the ledger's schedule, or <<>> if the caller is another
    failing     \* the sets of fault points on which the buggy ledger fails

Harness == schedule # <<>>

-----------------------------------------------------------------------------
(* Only a silent drop loses the write. *)
persisted(d) == d # "Dropped"

(* The deposits of the first n steps that reached durable storage ...        *)
durable(s, n) == Cardinality({k \in 0 .. n - 1 : persisted(DeliveryOf(at(s, k)))})

(* ... and those the caller was told of: the buggy ledger acknowledges       *)
(* before it knows the outcome of its persist, the correct one afterwards.   *)
acknowledged(s, n, buggy) == IF buggy THEN n ELSE durable(s, n)

(* The engine's look at the ledger after the deposit of a step. *)
Look(s, step, buggy) ==
    check(step, <<[name  |-> "acknowledged_writes_are_durable",
                   holds |-> durable(s, step + 1) >= acknowledged(s, step + 1, buggy)]>>)

(* found is only set when it is empty. *)
Kept(steps) == CHOOSE k \in steps : \A l \in steps : k <= l

run_ledger(s, buggy) ==
    LET bad == {k \in 0 .. Len(s) - 1 : Look(s, k, buggy) # NoViolation}
    IN  IF bad = {} THEN NoViolation ELSE Look(s, Kept(bad), buggy)

(* fault_points: the k-th step that carries a fault. *)
FaultPoint(s, k) ==
    CHOOSE i \in fault_steps(s) : Cardinality({j \in fault_steps(s) : j < i}) = k - 1

\* Mutation: the steps of the subset are taken for positions.
Rebuild_shifted(s, points) ==
    LET kept == {FaultPoint(s, k) : k \in points}
    IN  [i \in DOMAIN s |-> IF i \in kept THEN s[i] ELSE Quiet]

(* A full-length schedule with only these fault points. *)
Rebuild(s, points) ==
    LET kept == {FaultPoint(s, k) : k \in points}
    IN  [i \in DOMAIN s |-> IF i - 1 \in kept THEN s[i] ELSE Quiet]

(* The runs behind ddmin's predicate.  The harness is deterministic, so they *)
(* are made once.                                                            *)
Failing(s) == {points \in SUBSET (1 .. N) :
                    run_ledger(Rebuild(s, points), TRUE) # NoViolation}

reproduces(subset) == {subset[k] : k \in DOMAIN subset} \in failing

-----------------------------------------------------------------------------
LedgerInit ==
    /\ Init
    /\ \/ schedule = <<>> /\ failing = {}
       \/ /\ schedule \in {s \in [1 .. STEPS -> Faults \cup {Quiet}] :
                                fault_count(s) = N}
          /\ failing = Failing(schedule)

(* The harness calls ddmin once it has a schedule that fails, and the ledger *)
(* answers.                                                                  *)
LedgerNext ==
    /\ Harness => 1 .. N \in failing
    /\ Next
    /\ Harness => /\ \A x \in yes' \ yes : reproduces(x)
                  /\ \A x \in no' \ no : ~reproduces(x)
    /\ UNCHANGED <<schedule, failing>>

LedgerSpec == /\ LedgerInit
              /\ [][LedgerNext]_<<vars, schedule, failing>>
              /\ WF_<<vars, schedule, failing>>(LedgerNext)

-----------------------------------------------------------------------------
Crashes == {k \in fault_steps(schedule) : at(schedule, k).kind = "CrashRestart"}

(* "The buggy ledger must fail exactly when a crash occurs", at the step of  *)
(* the first one, and "the correct ledger must never lose an acknowledged    *)
(* write".                                                                   *)
FailsExactlyAtTheFirstCrash ==
    LET v == run_ledger(schedule, TRUE)
    IN  IF Crashes = {}
        THEN v = NoViolation
        ELSE v # NoViolation /\ v.step \in Crashes /\ \A k \in Crashes : v.step <= k

CorrectSurvives == run_ledger(schedule, FALSE) = NoViolation

(* "ddmin must isolate the lone essential fault", and it is a crash: noise,  *)
(* and all crashes but one, are shrunk away.                                 *)
ShrinksToOneCrash ==
    pc = "done" =>
        /\ Len(current) = 1
        /\ FaultPoint(schedule, current[1]) \in Crashes

(* Whatever the noise around its crashes, a failure of the ledger is found   *)
(* where it happens, and what ddmin leaves of its schedule is one crash.     *)
BlamesTheCrash ==
    Harness =>
        /\ pc = "empty" => FailsExactlyAtTheFirstCrash /\ CorrectSurvives
        /\ ShrinksToOneCrash

(* Every loop iteration shortens the input or refines the granularity, so    *)
(* ddmin returns, whatever the predicate answers, and in the documented      *)
(* number of evaluations.  Every failing schedule is shrunk.                 *)
FailuresAreShrunk ==
    /\ [][evals' <= MaxEvals]_vars
    /\ (Harness => Crashes # {}) => <>(pc = "done")
=============================================================================
