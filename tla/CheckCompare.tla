------------------------------ MODULE CheckCompare ------------------------------
(*****************************************************************************)
(* run_check() of `navian-dst check` (crates/navian-dst-cli/src/check.rs):   *)
(* the command is run a number of times under one seed, each run's stdout is *)
(* filtered line by line, and every run is compared with the first.  What    *)
(* one run does is CheckRun's; here it ends in an outcome.                   *)
(*                                                                           *)
(* Output is a sequence of bytes, of which "LF" and "CR" end lines.          *)
(*****************************************************************************)
EXTENDS LineDiff, Integers, FiniteSets

CONSTANTS
    Commands,   \* the commands, and of each:
    Outputs,    \* Outputs[c]: what it may write to stdout
    Errors,     \* Errors[c]: and to stderr
    Statuses,   \* Statuses[c]: its exit statuses
    Runs,       \* Runs[c]: what --runs it is checked with
    Killed,     \* the status of a run that was killed
    MaxCells,   \* 4_000_000, the limit on the cells of the diff's table
    MaxLines    \* 20_000, the limit on the lines of either side

ASSUME CompareAssumption ==
    /\ MaxCells \in Nat /\ MaxLines \in Nat
    /\ \A c \in Commands :
          /\ Runs[c] \subseteq Nat /\ Killed \notin Statuses[c]
          /\ \A raw \in Outputs[c] : raw \in Seq({raw[n] : n \in DOMAIN raw})

VARIABLES
    options,    \* what the caller asked for
    results,    \* the runs so far
    pc,         \* "validate", "run", "compare" or "exit"
    code,       \* the exit code
    report      \* what is printed: its kind, the run it names, and a diff

vars == <<options, results, pc, code, report>>

-----------------------------------------------------------------------------
(* Lines.                                                                    *)

StripCR(line) ==
    IF line # <<>> /\ line[Len(line)] = "CR" THEN SubSeq(line, 1, Len(line) - 1) ELSE line

(* Where the line that starts at i ends. *)
LineEnd(bytes, i) == Min({k \in i .. Len(bytes) : bytes[k] = "LF"} \cup {Len(bytes) + 1})

\* Mutation: only terminated lines are kept.
filter_terminated(raw, ignored) ==
    LET from[i \in 1 .. Len(raw) + 2] ==
            IF LineEnd(raw, i) > Len(raw)
            THEN <<>>
            ELSE LET line == StripCR(SubSeq(raw, i, LineEnd(raw, i) - 1))
                 IN  (IF line \in ignored THEN <<>> ELSE Append(line, "LF"))
                        \o from[LineEnd(raw, i) + 1]
    IN  from[1]

(* filter_stdout: drops the lines an --ignore pattern matches, and ends each *)
(* of the others with one LF.                                                *)
filter_stdout(raw, ignored) ==
    LET from[i \in 1 .. Len(raw) + 2] ==
            IF i > Len(raw)
            THEN <<>>
            ELSE LET line == StripCR(SubSeq(raw, i, LineEnd(raw, i) - 1))
                 IN  (IF line \in ignored THEN <<>> ELSE Append(line, "LF"))
                        \o from[LineEnd(raw, i) + 1]
    IN  from[1]

(* Rust's str::lines: a CR belongs to the line end only in front of an LF.   *)
lines(text) ==
    LET from[i \in 1 .. Len(text) + 2] ==
            IF i > Len(text)
            THEN <<>>
            ELSE LET line == SubSeq(text, i, LineEnd(text, i) - 1)
                 IN  <<IF LineEnd(text, i) <= Len(text) THEN StripCR(line) ELSE line>>
                        \o from[LineEnd(text, i) + 1]
    IN  from[1]

-----------------------------------------------------------------------------
(* The diff.                                                                 *)

TooLarge(n, m) == n * m > MaxCells \/ Max({n, m}) > MaxLines

(* Of outputs that are too large, the first lines at one place that differ.  *)
FirstDifference(a, b) ==
    LET D == {i \in DOMAIN a \cap DOMAIN b : a[i] # b[i]}
    IN  IF D = {} THEN <<>> ELSE <<<<"del", a[Min(D)]>>, <<"ins", b[Min(D)]>>>>

unified_diff(a, b) ==
    [full  |-> ~TooLarge(Len(a), Len(b)),
     body  |-> IF TooLarge(Len(a), Len(b)) THEN FirstDifference(a, b) ELSE Diff(a, b),
     sizes |-> IF TooLarge(Len(a), Len(b)) THEN Len(a) # Len(b) ELSE FALSE]

-----------------------------------------------------------------------------
(* The runs.                                                                 *)

NoDiff       == [full |-> FALSE, body |-> <<>>, sizes |-> FALSE]
Report(kind, idx, diff) == [kind |-> kind, idx |-> idx, diff |-> diff]

\* Mutation: only the output is compared.
MatchesOutput(r, s) == r.timed_out = s.timed_out /\ r.stdout = s.stdout

(* RunResult::matches: stderr is no part of the key. *)
Matches(r, s) ==
    /\ r.timed_out = s.timed_out
    /\ r.stdout = s.stdout
    /\ r.status = s.status

Init ==
    /\ \E c \in Commands :
          options \in [command : {c}, runs : Runs[c], timeout : {"none", "zero", "given"},
                       empty : BOOLEAN, badRegex : BOOLEAN, ignored : {{}, {<<"b">>}}]
    /\ results = <<>>
    /\ pc = "validate"
    /\ code = -1
    /\ report = Report("none", 0, NoDiff)

Exit(c, r) == pc' = "exit" /\ code' = c /\ report' = r

Validate ==
    /\ pc = "validate"
    /\ IF \/ options.runs < 2 \/ options.timeout = "zero"
          \/ options.empty \/ options.badRegex
       THEN Exit(2, Report("usage", 0, NoDiff))
       ELSE pc' = "run" /\ UNCHANGED <<code, report>>
    /\ UNCHANGED <<options, results>>

(* A run ends by itself ... *)
RunEnds(raw, status, stderr) ==
    /\ pc = "run"
    /\ results' = Append(results,
            [timed_out |-> FALSE, raw |-> raw, status |-> status, stderr |-> stderr,
             stdout |-> filter_stdout(raw, options.ignored)])
    /\ pc' = IF Len(results') = options.runs THEN "compare" ELSE "run"
    /\ UNCHANGED <<options, code, report>>

(* ... or is killed after the timeout, and its output is not used ... *)
RunTimesOut ==
    /\ pc = "run" /\ options.timeout = "given"
    /\ results' = Append(results,
            [timed_out |-> TRUE, raw |-> <<>>, status |-> Killed, stderr |-> "",
             stdout |-> <<>>])
    /\ pc' = IF Len(results') = options.runs THEN "compare" ELSE "run"
    /\ UNCHANGED <<options, code, report>>

(* ... or cannot be spawned. *)
RunFails ==
    /\ pc = "run"
    /\ Exit(2, Report("spawn", Len(results) + 1, NoDiff))
    /\ UNCHANGED <<options, results>>

(* The first timeout goes first, then the first run that differs. *)
Compare ==
    LET late  == {i \in DOMAIN results : results[i].timed_out}
        other == {i \in DOMAIN results : ~Matches(results[1], results[i])}
    IN  /\ pc = "compare"
        /\ IF late # {} THEN Exit(1, Report("timeout", Min(late), NoDiff))
           ELSE IF other = {} THEN Exit(0, Report("deterministic", 0, NoDiff))
           ELSE LET r == results[1]
                    s == results[Min(other)]
                IN  IF r.stdout = s.stdout
                    THEN Exit(1, Report("status", Min(other), NoDiff))
                    ELSE Exit(1, Report("output", Min(other),
                                    unified_diff(lines(r.stdout), lines(s.stdout))))
        /\ UNCHANGED <<options, results>>

Next ==
    \/ Validate \/ RunTimesOut \/ RunFails \/ Compare
    \/ \E raw \in Outputs[options.command], status \in Statuses[options.command],
          stderr \in Errors[options.command] : RunEnds(raw, status, stderr)

Spec == Init /\ [][Next]_vars

-----------------------------------------------------------------------------
Done == pc = "exit"

(* An independent reading of the filter: the last line is given its LF, then *)
(* one CR goes in front of every LF.                                         *)
Terminated(raw) ==
    IF raw = <<>> \/ raw[Len(raw)] = "LF" THEN raw ELSE Append(raw, "LF")

Canonical(raw) ==
    LET t == Terminated(raw)
        from[n \in 1 .. Len(t) + 2] ==
            IF n > Len(t) THEN <<>>
            ELSE (IF t[n] = "CR" /\ t[n + 1] = "LF" THEN <<>> ELSE <<t[n]>>) \o from[n + 1]
    IN  from[1]

(* "Byte-exact", up to "a trailing-newline or CRLF difference": without an   *)
(* --ignore the comparison sees everything but those.                        *)
FilterIsExact ==
    options.ignored = {} =>
        \A i \in DOMAIN results : results[i].stdout = Canonical(results[i].raw)

(* The exit-code contract.  0: no two of the runs, not just the first and    *)
(* another, differ in what is compared, and none was killed.  1: a run was   *)
(* killed, or two differ.  2: nothing was compared.                          *)
SamePair(r, s) == r.stdout = s.stdout /\ r.status = s.status
ExitContract ==
    Done =>
        LET compared == Len(results) = options.runs /\ options.runs >= 2
            alike == /\ \A i \in DOMAIN results : ~results[i].timed_out
                     /\ \A i, j \in DOMAIN results : SamePair(results[i], results[j])
        IN  /\ code = 0 <=> compared /\ alike
            /\ code = 1 <=> compared /\ ~alike
            /\ code = 2 <=> ~compared

(* The run a report names: the first that was killed, or the first that is   *)
(* not like run 1, and then all before it are.                               *)
ReportNamesTheFirst ==
    Done /\ code = 1 =>
        /\ report.idx \in DOMAIN results
        /\ report.kind = "timeout" =>
            /\ results[report.idx].timed_out
            /\ \A i \in 1 .. report.idx - 1 : ~results[i].timed_out
        /\ report.kind # "timeout" =>
            /\ ~SamePair(results[1], results[report.idx])
            /\ \A i, j \in 1 .. report.idx - 1 : SamePair(results[i], results[j])

(* How many lines a diff keeps as context. *)
Kept(body) == Cardinality({n \in DOMAIN body : body[n][1] = "equal"})

(* A full diff turns run 1's lines into the other's and keeps as many  *)
(* of them as can be kept.                                                   *)
DiffIsMinimal ==
    report.kind = "output" /\ report.diff.full =>
        LET a == lines(results[1].stdout)
            b == lines(results[report.idx].stdout)
            d == report.diff.body
        IN  /\ Taken(d, "del") = a
            /\ Taken(d, "ins") = b
            /\ \A M \in Alignments(a, b) : Cardinality(M) <= Kept(d)

(* The fallback for large outputs shows two lines that differ, and does not  *)
(* when one output is a prefix of the other.                                 *)
FallbackIsHonest ==
    report.kind = "output" /\ ~report.diff.full =>
        LET a == lines(results[1].stdout)
            b == lines(results[report.idx].stdout)
            short == Min({Len(a), Len(b)})
        IN  report.diff.body = <<>> <=> SubSeq(a, 1, short) = SubSeq(b, 1, short)
=============================================================================
