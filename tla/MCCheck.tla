-------------------------------- MODULE MCCheck --------------------------------
(*****************************************************************************)
(* Model-checking instance of `check`: the comparison of the runs, and one   *)
(* run from the inside.  The comparison knows a run by its result, so the    *)
(* two are checked side by side, each with the other at rest.                *)
(*****************************************************************************)
EXTENDS CheckCompare, SequencesExt

CONSTANTS Cap, MaxBytes

VARIABLES
    part,   \* "compare" or "run"
    timeout, hangs, size, rpc, result, elapsed, child, grandchild, written,
    inPipe, buf, reader, inTime

R == INSTANCE CheckRun WITH pc <- rpc

ASSUME OneRunAssumption == R!CheckAssumption

rvars == <<timeout, hangs, size, rpc, result, elapsed, child, grandchild, written,
           inPipe, buf, reader, inTime>>

(* Every output of up to n bytes. *)
UpTo(n, bytes) == UNION {[1 .. k -> bytes] : k \in 0 .. n}

Text(ls) == FlattenSeq([i \in DOMAIN ls |-> <<ls[i], "LF">>])

(* Three commands: one that fails and is ignored, in all the ways there are; *)
(* one that ends its lines in every way; and one that writes many lines.     *)
MCOutputs == [small |-> UpTo(1, {"a", "b", "LF"}) \cup {<<"b", "LF">>, <<"a", "LF">>},
              ends  |-> UpTo(4, {"a", "CR", "LF"}),
              long  |-> {Text(ls) : ls \in UpTo(4, {"a", "b"})}]
MCErrors   == [small |-> {"", "e"}, ends |-> {""}, long |-> {""}]
MCStatuses == [small |-> {"0", "1"}, ends |-> {"0"}, long |-> {"0"}]
MCRuns     == [small |-> 0 .. 3, ends |-> {2}, long |-> {2}]

MCInit ==
    /\ Init
    /\ R!Init
    /\ \/ part = "compare" /\ ~timeout /\ ~hangs /\ size = [p \in R!Pipes |-> 0]
       \/ part = "run" /\ options = [command |-> "small", runs |-> 0, timeout |-> "none",
                                     empty |-> FALSE, badRegex |-> FALSE, ignored |-> {}]

MCNext ==
    \/ part = "compare" /\ Next /\ UNCHANGED <<part, rvars>>
    \/ part = "run" /\ R!Next /\ UNCHANGED <<part, vars>>

InRun(A) == part = "run" /\ A

MCSpec ==
    /\ MCInit
    /\ [][MCNext]_<<part, vars, rvars>>
    /\ WF_rvars(InRun(R!RunOnce)) /\ WF_rvars(InRun(R!Tick)) /\ WF_rvars(InRun(R!ChildStep))
    /\ \A p \in R!Pipes : WF_rvars(InRun(R!Reader(p)))

-----------------------------------------------------------------------------
(* What run_once() returns: all that was written, no zombie, and no timeout  *)
(* for a run that was over in time.                                          *)
ResultsAreWhole == R!TypeOK /\ R!CompleteOutput /\ R!NoZombie /\ R!OverInTimeCounts

(* And that it returns, within --timeout or for want of a cause not to.      *)
ReturnsInTime == part = "run" => R!TimeoutBounds /\ R!HangsForACause

(* What run_check() says of the runs: its exit code, and the run it names.   *)
ExitIsRight == ExitContract /\ ReportNamesTheFirst

(* What it compares and shows: lines as they are, in a diff that is minimal  *)
(* or, for large outputs, shows two lines that differ.                       *)
OutputIsExact == FilterIsExact /\ DiffIsMinimal /\ FallbackIsHonest
=============================================================================
