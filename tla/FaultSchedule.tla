------------------------------ MODULE FaultSchedule ------------------------------
(*****************************************************************************)
(* Fault schedules (crates/navian-dst/src/schedule.rs): one fault per step,  *)
(* steps numbered from 0.  A fault is a record; delta is the skew of a       *)
(* ClockSkew and 0 for the others.                                           *)
(*****************************************************************************)
EXTENDS Integers, Sequences, FiniteSets

Fault(kind)  == [kind |-> kind, delta |-> 0]
Quiet        == Fault("None")
Transient    == Fault("TransientError")
Crash        == Fault("CrashRestart")
Skew(delta)  == [kind |-> "ClockSkew", delta |-> delta]

IsFault(f) == f.kind # "None"

(* A run may take more steps than were scheduled: the tail is quiet. *)
at(s, k) == IF k < Len(s) THEN s[k + 1] ELSE Quiet

fault_steps(s) == {k \in 0 .. Len(s) - 1 : IsFault(s[k + 1])}
fault_count(s) == Cardinality(fault_steps(s))

without_clock_skew(s) ==
    [k \in DOMAIN s |-> IF s[k].kind = "ClockSkew" THEN Quiet ELSE s[k]]

(* Every schedule of up to n steps over a set of faults. *)
Schedules(n, faults) == UNION {[1 .. k -> faults] : k \in 0 .. n}
=============================================================================
