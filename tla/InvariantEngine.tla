---------------------------- MODULE InvariantEngine ----------------------------
(*****************************************************************************)
(* The invariant engine of navian-dst (crates/navian-dst/src/invariant.rs),  *)
(* as operators.  One evaluation of the engine is a sequence of verdicts,    *)
(* one per invariant in the order of declaration: [name, holds].             *)
(*****************************************************************************)
EXTENDS Integers, Sequences, FiniteSets

Violation(step, name) == [step |-> step, invariant |-> name]
NoViolation           == Violation(0, "none")

Broken(verdicts) == {i \in DOMAIN verdicts : ~verdicts[i].holds}

\* Mutation: the last broken invariant is the one reported.
FirstBrokenLast(verdicts) ==
    CHOOSE i \in Broken(verdicts) : \A j \in Broken(verdicts) : j <= i

(* Where the evaluation in declaration order stops. *)
FirstBroken(verdicts) ==
    CHOOSE i \in Broken(verdicts) : \A j \in Broken(verdicts) : i <= j

(* check(): the first violation, or none. *)
check(step, verdicts) ==
    IF Broken(verdicts) = {}
    THEN NoViolation
    ELSE Violation(step, verdicts[FirstBroken(verdicts)].name)

(* The n-th broken invariant: n are broken up to it. *)
NthBroken(verdicts, n) ==
    CHOOSE i \in Broken(verdicts) : Cardinality({j \in Broken(verdicts) : j <= i}) = n

(* check_all(): every violation, in the order of declaration. *)
check_all(step, verdicts) ==
    [n \in 1 .. Cardinality(Broken(verdicts)) |->
        Violation(step, verdicts[NthBroken(verdicts, n)].name)]

\* Mutation: the failing predicate is not run.
EvaluatedShort(verdicts) ==
    IF Broken(verdicts) = {} THEN DOMAIN verdicts ELSE 1 .. FirstBroken(verdicts) - 1

(* The invariants check() evaluates at all: it stops at the first failure.   *)
Evaluated(verdicts) ==
    IF Broken(verdicts) = {} THEN DOMAIN verdicts ELSE 1 .. FirstBroken(verdicts)
=============================================================================
