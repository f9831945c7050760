-------------------------------- MODULE Scaffold --------------------------------
(*****************************************************************************)
(* `navian-dst init` (crates/navian-dst-cli/src/main.rs, init_scaffold): it  *)
(* writes a workflow and a configuration, and leaves files that are there    *)
(* alone.  Any step may fail; developers write and delete the files, too,    *)
(* also while it runs, and run it again.                                     *)
(*****************************************************************************)
EXTENDS Naturals, Sequences

CONSTANTS
    NFiles,    \* the files it writes, in order
    nested,    \* nested[f]: f is in a directory that may have to be created
    MaxRuns,   \* bound: how often it is run
    MaxEdits   \* bound: how often developers write or delete a file

Files == 1 .. NFiles

(* What the constants are assumed to be. *)
ScaffoldAssumption ==
    /\ NFiles \in Nat
    /\ nested \in [Files -> BOOLEAN]
    /\ MaxRuns \in Nat /\ MaxEdits \in Nat

VARIABLES
    disk,     \* disk[f]: "none", "theirs", "scaffold" or "torn"
    at,       \* the file init is at; 0: it does not run
    step,     \* what it does with it: "exists", "dir" or "write"
    any_err,  \* a step has failed
    runs, edits,
    before,   \* history: the files that were there when the run began
    told      \* history: the torn files of runs that have exited with 2

vars == <<disk, at, step, any_err, runs, edits, before, told>>

Init ==
    /\ disk \in [Files -> {"none", "theirs"}]
    /\ at = 0 /\ step = "exists" /\ any_err = FALSE
    /\ runs = 0 /\ edits = 0 /\ before = {} /\ told = {}

Run ==
    /\ at = 0 /\ runs < MaxRuns
    /\ at' = 1 /\ step' = "exists" /\ any_err' = FALSE
    /\ runs' = runs + 1
    /\ before' = {f \in Files : disk[f] # "none"}
    /\ UNCHANGED <<disk, edits, told>>

ToNext == at' = at + 1 /\ step' = "exists"
ToStep == at' = at /\ step' = IF nested[at] THEN "dir" ELSE "write"

\* Mutation: nothing is looked for.
NothingIsSkipped ==
    /\ at \in Files /\ step = "exists"
    /\ ToStep
    /\ UNCHANGED <<disk, any_err, runs, edits, before, told>>

Exists ==
    /\ at \in Files /\ step = "exists"
    /\ IF disk[at] # "none" THEN ToNext ELSE ToStep
    /\ UNCHANGED <<disk, any_err, runs, edits, before, told>>

CreateDir(works) ==
    /\ at \in Files /\ step = "dir"
    /\ IF works THEN at' = at /\ step' = "write" ELSE ToNext
    /\ any_err' = (any_err \/ ~works)
    /\ UNCHANGED <<disk, runs, edits, before, told>>

(* std::fs::write truncates before it writes, and may fail at any point. *)
Write(result) ==
    /\ at \in Files /\ step = "write"
    /\ disk' = [disk EXCEPT ![at] = result]
    /\ ToNext
    /\ any_err' = (any_err \/ result # "scaffold")
    /\ UNCHANGED <<runs, edits, before, told>>

WriteFails == at \in Files /\ (Write(disk[at]) \/ Write("torn")) /\ any_err'

(* The exit code is 2 if there was an error, and 0 otherwise. *)
Finish ==
    /\ at = NFiles + 1
    /\ at' = 0
    /\ told' = IF any_err THEN told \cup {f \in Files : disk[f] = "torn"} ELSE told
    /\ UNCHANGED <<disk, step, any_err, runs, edits, before>>

(* A developer writes a file of that name, or deletes it. *)
Edit(f, content) ==
    /\ edits < MaxEdits /\ disk[f] # content
    /\ disk' = [disk EXCEPT ![f] = content]
    /\ edits' = edits + 1
    /\ before' = before \ {f}
    /\ told' = told \ {f}
    /\ UNCHANGED <<at, step, any_err, runs>>

Next ==
    \/ Run \/ Exists \/ Finish
    \/ Write("scaffold") \/ WriteFails
    \/ \E works \in BOOLEAN : CreateDir(works)
    \/ \E f \in Files, content \in {"none", "theirs"} : Edit(f, content)

Spec == Init /\ [][Next]_vars

-----------------------------------------------------------------------------
(* What was there when a run began, and nobody else has touched since, that  *)
(* run leaves as it is, whatever fails.                                      *)
KeepsWhatWasThere ==
    [][disk' # disk => \A f \in before : at # 0 /\ at' # 0 /\ disk'[f] # disk[f] => edits' # edits]_vars

(* A later run takes a file that a failed write has torn for one that is     *)
(* there, and exits with 0; but the run that tore it has exited with 2.      *)
TornIsReported == at = 0 => \A f \in Files : disk[f] = "torn" => f \in told
=============================================================================
