---------------------------------- MODULE Gates ----------------------------------
(*****************************************************************************)
(* The commands a CI job gates on: `scan --deny`, the `baseline` it is       *)
(* measured against, and `invariants --deny` (crates/navian-dst-cli/src:     *)
(* main.rs, scanner.rs scan_path, baseline.rs, presence.rs).  Developers     *)
(* edit the tree between the commands; directories and files may be          *)
(* unreadable, files may not parse, and the baseline may be missing, damaged *)
(* or from another version.                                                  *)
(*                                                                           *)
(* A file's content is what the two analyses find in it.  Its leaks are the  *)
(* fingerprints of its findings, by line; a fingerprint covers rule,         *)
(* function and snippet, so the same one may occur often, anywhere.  Its     *)
(* signals are what the invariants command looks for, each with the depth of *)
(* macro bodies around it.                                                   *)
(*****************************************************************************)
EXTENDS Naturals, FiniteSets, SequencesExt

CONSTANTS
    NFiles,        \* the .rs files, numbered in the order of their names
    Dirs,          \* the directories under the path given to the commands
    Skipped,       \* those named target or .something
    dir,           \* dir[f]: the directory of file f
    Prints,        \* the fingerprints
    Confidence,    \* Confidence[p]: the rank of its rule, 1 .. 3
    Contents,      \* Contents[f]: what file f may contain
    MaxLeaks,      \* bound: the leaks of one file
    MaxMacroDepth  \* MAX_MACRO_DEPTH

Files      == 1 .. NFiles
Thresholds == 1 .. 3   \* advisory, medium, high
NoGate     == 0
Signals    == {"marker", "local marker", "Invariant::new", "engine",
               "empty engine", "check", "check of one", "assert"}

(* What the constants are assumed to be. *)
GatesAssumption ==
    /\ NFiles \in Nat
    /\ Skipped \subseteq Dirs
    /\ dir \in [Files -> Dirs]
    /\ Confidence \in [Prints -> Thresholds]
    /\ \A f \in Files : \A c \in Contents[f] :
        /\ c.leaks \in BoundedSeq(Prints, MaxLeaks)
        /\ c.signals \subseteq Signals \X Nat
        /\ c.waived \in BOOLEAN
    /\ MaxLeaks \in Nat
    /\ MaxMacroDepth \in Nat

VARIABLES
    tree,      \* tree[f]: the content of f
    torn,      \* the files that cannot be read or parsed
    locked,    \* the directories that cannot be read
    store,     \* the baseline file: its entries, or why it does not load
    last,      \* the latest command and its exit code, until the tree changes
    accepted   \* history: what the latest baseline written has seen

vars == <<tree, torn, locked, store, last, accepted>>

Nothing == [command |-> [cmd |-> "none"]]
Missing == [loads |-> FALSE]
Corrupt == [loads |-> FALSE]

\* fingerprint_counts()
Bag(s) == [p \in Prints |-> Cardinality({i \in DOMAIN s : s[i] = p})]

-----------------------------------------------------------------------------
(* The walk.  filter_entry never enters a skipped directory; one that cannot *)
(* be read is an error in the place of its files.                            *)
Reached == {f \in Files : dir[f] \notin Skipped \cup locked}

(* What walking the tree shows of it; both walks skip what does not parse.   *)
Parsed     == Reached \ torn
Unparsed   == Reached \cap torn
Unwalkable == locked \ Skipped

(* parse_failures.  scan_path drops the errors of the walk itself            *)
(* (filter_map(Result::ok)), check_path records them.                        *)
ScanFailures == Unparsed

\* Mutation: check_path drops them too.
UnparsedOnly     == Unparsed
PresenceFailures == Unparsed \cup Unwalkable

(* report.leaks, sorted by file and line *)
FoundLeaks ==
    FlattenSeq([f \in Files |-> IF f \in Parsed THEN tree[f].leaks ELSE <<>>])

-----------------------------------------------------------------------------
\* Mutation: a fingerprint that occurs in the baseline is suppressed.
SuppressAll(leaks, entries) ==
    SelectSeq(leaks, LAMBDA p : p \notin ToSet(entries))

(* report.leaks.retain(..): each leak takes one from the budget of its       *)
(* fingerprint, while there is some.                                         *)
Retain(leaks, entries) ==
    LET after[n \in 0 .. Len(leaks)] ==
            IF n = 0 THEN [kept |-> <<>>, remaining |-> Bag(entries)]
            ELSE IF after[n - 1].remaining[leaks[n]] > 0
                 THEN [after[n - 1] EXCEPT !.remaining[leaks[n]] = @ - 1]
                 ELSE [after[n - 1] EXCEPT !.kept = Append(@, leaks[n])]
    IN  after[Len(leaks)].kept

AnyAtOrAbove(leaks, threshold) ==
    \E i \in DOMAIN leaks : Confidence[leaks[i]] >= threshold

-----------------------------------------------------------------------------
(* presence.rs: what the visitor sees of a file, and the status it gets.     *)
Seen(f, s) ==
    \E d \in 0 .. (IF s \in {"marker", "local marker"} THEN 0 ELSE MaxMacroDepth) :
        <<s, d>> \in tree[f].signals

(* A bare name that the file defines itself is no marker. *)
IsSite(f) == Seen(f, "marker")

HasInvariant(f) == \E s \in {"Invariant::new", "engine", "check"} : Seen(f, s)

Status(f) ==
    IF HasInvariant(f) THEN "Ok"
    ELSE IF Seen(f, "assert") THEN "RawOnly" ELSE "Missing"

AnyUnwaived(status) ==
    \E f \in Parsed : IsSite(f) /\ Status(f) = status /\ ~tree[f].waived

-----------------------------------------------------------------------------
Init ==
    /\ tree \in [Files -> UNION {Contents[f] : f \in Files}]
    /\ \A f \in Files : tree[f] \in Contents[f]
    /\ torn = {}
    /\ locked = {}
    /\ store = Missing
    /\ last = Nothing
    /\ accepted = Bag(<<>>)

(* Developers, and the file system. *)
Edited == last' = Nothing /\ UNCHANGED accepted

Save(f) ==
    /\ \E c \in Contents[f] : tree' = [tree EXCEPT ![f] = c]
    /\ \E broken \in BOOLEAN : torn' = IF broken THEN torn \cup {f} ELSE torn \ {f}
    /\ Edited /\ UNCHANGED <<locked, store>>

Chmod(d) ==
    /\ locked' = IF d \in locked THEN locked \ {d} ELSE locked \cup {d}
    /\ Edited /\ UNCHANGED <<tree, torn, store>>

(* The baseline is lost, damaged, or replaced by one of another version.     *)
LoseBaseline ==
    /\ store' = Corrupt
    /\ Edited /\ UNCHANGED <<tree, torn, locked>>

(* The line that describes the gate's decision, before the command makes it. *)
InvariantsLine(gated, deny_raw) ==
    IF ~gated THEN "none"
    ELSE IF PresenceFailures # {} THEN "uncertified"
    ELSE IF AnyUnwaived("Missing") THEN "FAIL"
    ELSE IF deny_raw /\ AnyUnwaived("RawOnly") THEN "FAIL"
    ELSE "pass"

ScanLine(gate, leaks) ==
    IF gate = NoGate THEN "none"
    ELSE IF ScanFailures # {} THEN "uncertified"
    ELSE IF AnyAtOrAbove(leaks, gate) THEN "FAIL"
    ELSE "pass"

Exits(command, line, code) ==
    /\ last' = [command |-> command, line |-> line, code |-> code]
    /\ UNCHANGED <<tree, torn, locked>>

(* `navian-dst baseline`: files that do not parse are only noted. *)
Baseline ==
    /\ store' = [loads |-> TRUE, findings |-> FoundLeaks]
    /\ accepted' = Bag(FoundLeaks)
    /\ Exits([cmd |-> "baseline"], "none", 0)

(* Its write fails: before the old file is truncated, or after. *)
BaselineNotWritten ==
    /\ store' \in {store, Corrupt}
    /\ Exits([cmd |-> "baseline"], "none", 2)
    /\ UNCHANGED accepted

ScanCommand(gate, based) == [cmd |-> "scan", gate |-> gate # NoGate, threshold |-> gate, based |-> based]

(* `navian-dst scan`: a baseline that does not load is an error, gate or not *)
(* (WrongPath is the error of a path that does not exist, for all of them).  *)
ScanUsageError(gate) ==
    /\ ~store.loads
    /\ Exits(ScanCommand(gate, TRUE), "none", 2)
    /\ UNCHANGED <<store, accepted>>

Kept(based) == IF based THEN Retain(FoundLeaks, store.findings) ELSE FoundLeaks

Scan(gate, based) ==
    /\ based => store.loads
    /\ UNCHANGED <<store, accepted>>
    /\ \/ /\ gate = NoGate
          /\ Exits(ScanCommand(gate, based), ScanLine(gate, Kept(based)), 0)
       \/ /\ gate # NoGate /\ ScanFailures # {}
          /\ Exits(ScanCommand(gate, based), ScanLine(gate, Kept(based)), 2)
       \/ /\ gate # NoGate /\ ScanFailures = {}
          /\ AnyAtOrAbove(Kept(based), gate)
          /\ Exits(ScanCommand(gate, based), ScanLine(gate, Kept(based)), 1)
       \/ /\ gate # NoGate /\ ScanFailures = {}
          /\ ~AnyAtOrAbove(Kept(based), gate)
          /\ Exits(ScanCommand(gate, based), ScanLine(gate, Kept(based)), 0)

(* `navian-dst invariants`: --deny-raw implies --deny. *)
Invariants(gated, deny_raw) ==
    LET command == [cmd |-> "invariants", gate |-> gated, based |-> FALSE]
        fails   == \/ gated /\ AnyUnwaived("Missing")
                   \/ deny_raw /\ AnyUnwaived("RawOnly")
    IN  /\ deny_raw => gated
        /\ UNCHANGED <<store, accepted>>
        /\ \/ /\ gated /\ PresenceFailures # {}
              /\ Exits(command, InvariantsLine(gated, deny_raw), 2)
           \/ /\ ~(gated /\ PresenceFailures # {}) /\ fails
              /\ Exits(command, InvariantsLine(gated, deny_raw), 1)
           \/ /\ ~(gated /\ PresenceFailures # {}) /\ ~fails
              /\ Exits(command, InvariantsLine(gated, deny_raw), 0)

WrongPath ==
    /\ \E cmd \in {"scan", "baseline", "invariants"} : Exits([cmd |-> cmd], "none", 2)
    /\ UNCHANGED <<store, accepted>>

Next ==
    \/ \E f \in Files : Save(f)
    \/ \E d \in Dirs : Chmod(d)
    \/ LoseBaseline
    \/ Baseline
    \/ BaselineNotWritten
    \/ WrongPath
    \/ \E gate \in Thresholds \cup {NoGate} :
        ScanUsageError(gate) \/ \E based \in BOOLEAN : Scan(gate, based)
    \/ \E gated, deny_raw \in BOOLEAN : Invariants(gated, deny_raw)

Spec == Init /\ [][Next]_vars

-----------------------------------------------------------------------------
TypeOK ==
    /\ \A f \in Files : tree[f] \in Contents[f]
    /\ torn \subseteq Files
    /\ locked \subseteq Dirs
    /\ store.loads => store.findings \in Seq(Prints)
    /\ accepted \in [Prints -> Nat]

(* The files a gate answers for, and those of them nobody could look into.   *)
Answerable == {f \in Files : dir[f] \notin Skipped}
Unseen     == {f \in Answerable : f \in torn \/ dir[f] \in locked}

Gated(cmd) == last.command.cmd = cmd /\ last.code # 2 /\ last.command.gate

(* How often the readable tree has fingerprint p. *)
Occurring(p) ==
    Cardinality({o \in (Answerable \ Unseen) \X (1 .. MaxLeaks) :
                    /\ o[2] \in DOMAIN tree[o[1]].leaks
                    /\ tree[o[1]].leaks[o[2]] = p})

IsNew(p) == Occurring(p) > (IF last.command.based THEN accepted[p] ELSE 0)

(* `scan --deny --baseline` fails if and only if some finding at or above    *)
(* the threshold occurs more often than when the baseline was written:       *)
(* findings may move, an added copy is never absorbed, and neither a failed  *)
(* write nor a damaged file changes what is accepted.                        *)
DeniesExactlyNew ==
    Gated("scan") =>
        (last.code = 1 <=> \E p \in Prints : Confidence[p] >= last.command.threshold /\ IsNew(p))

(* A green `invariants --deny` has seen every file it answers for, and every *)
(* simulation among them asserts something, or is waived.                    *)
Asserts(f) ==
    \E signal \in tree[f].signals :
        signal[1] \in {"Invariant::new", "engine", "check", "assert"}

GreenInvariantsAssert ==
    (Gated("invariants") /\ last.code = 0) =>
        /\ Unseen = {}
        /\ \A f \in Answerable :
            <<"marker", 0>> \in tree[f].signals => Asserts(f) \/ tree[f].waived

(* The GATE line of the report is "the decision the exit code will encode":  *)
(* both are worked out from the report, one after the other, and agree.      *)
GateLineIsTheExitCode ==
    last # Nothing =>
        /\ last.line = "uncertified" => last.code = 2
        /\ last.line = "FAIL" <=> last.code = 1
        /\ last.line = "pass" => last.code = 0
        /\ last.code = 0 /\ last.line = "none" => ~(last.command.cmd # "baseline" /\ last.command.gate)

-----------------------------------------------------------------------------
(* What main.rs says of the exit code 2 of `scan`, and the code does not do: *)
(* "the gate cannot certify a tree it never saw".                            *)
GreenMeansSeen == (Gated("scan") /\ last.code = 0) => Unseen = {}
=============================================================================
