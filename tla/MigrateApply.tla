------------------------------ MODULE MigrateApply ------------------------------
(*****************************************************************************)
(* `navian-dst migrate`, from the plan to the exit code                      *)
(* (crates/navian-dst-cli/src/migrate.rs and emit_migrate of main.rs): the   *)
(* rewritten files are written one by one, `cargo check --all-targets` (and  *)
(* `cargo test --doc`, if asked) decides, and a failure writes the originals *)
(* back.  Any write may fail, the process may be killed at any point, and    *)
(* somebody else may save a file at any time.                                *)
(*                                                                           *)
(* A file is known by whose bytes it holds.  Which files the plan changes,   *)
(* which crates stop compiling because of it, and which of them the manifest *)
(* covers, is chosen at the start.                                           *)
(*****************************************************************************)
EXTENDS Integers

CONSTANTS
    NFiles,     \* the files the plan may change, numbered in its order
    Crates,     \* the crates they belong to
    CrateOf,    \* CrateOf[f]: the crate of file f
    MaxEdits    \* bound: saves of a file by somebody else

Files == 1 .. NFiles

ASSUME MigrateAssumption ==
    /\ NFiles \in Nat
    /\ CrateOf \in [Files -> Crates]
    /\ MaxEdits \in Nat

VARIABLES
    dry_run, check_doctests,   \* the options
    changes,    \* the files the plan changes
    breaks,     \* crates that do not compile with the plan applied
    docBreaks,  \* crates whose doctests fail with the plan applied
    covered,    \* the crates that cargo checks, given the manifest found
    disk,       \* disk[f]: whose bytes f holds
    pc,         \* where migrate_path is
    next,       \* the file to write or to restore next
    check,      \* the CheckOutcome, or "none"
    exitCode,   \* what the process returned, or "none"
    edits,      \* how many saves there were, for their bound
    unrestored, \* history: files whose restoring write failed
    touched     \* history: the files somebody else saved

plan    == <<dry_run, check_doctests, changes, breaks, docBreaks, covered>>
result  == <<check, exitCode>>
history == <<edits, touched>>
vars    == <<plan, disk, pc, next, result, unrestored, history>>

-----------------------------------------------------------------------------
(* The manifest is that of a package, and cargo checks that package only, or *)
(* that of a virtual workspace, and cargo checks its members.                *)
Coverage == {{c} : c \in Crates} \cup {Crates}

Init ==
    /\ dry_run \in BOOLEAN
    /\ check_doctests \in BOOLEAN
    /\ changes \in SUBSET Files
    /\ breaks \in SUBSET {CrateOf[f] : f \in changes}
    /\ docBreaks \in SUBSET {CrateOf[f] : f \in changes}
    /\ covered \in Coverage
    /\ disk = [f \in Files |-> "original"]
    /\ pc = "planned"
    /\ next = 1
    /\ check = "none"
    /\ exitCode = "none"
    /\ edits = 0
    /\ unrestored = {}
    /\ touched = {}

\* Mutation: the loop that follows goes on where the last one stopped.
GotoOnly(l) == pc' = l /\ next' = next
Goto(l)     == pc' = l /\ next' = 1

(* apply_and_check is called unless this is a dry run or nothing changes. *)
Begin ==
    /\ pc = "planned"
    /\ IF dry_run \/ changes = {}
       THEN check' = "skipped" /\ Goto("report")
       ELSE check' = check /\ Goto("write")
    /\ UNCHANGED <<plan, disk, exitCode, unrestored, history>>

(* What a write of bytes b that fails leaves behind: the old file, if it     *)
(* could not be opened, and else a truncated one.                            *)
FailedWrite(f) ==
    \E left \in {disk[f], "torn"} : disk' = [disk EXCEPT ![f] = left]

InPlan(f)     == f = next /\ f \in changes

Skip(f) ==
    /\ pc \in {"write", "restore"}
    /\ f = next
    /\ f \notin changes
    /\ next' = next + 1
    /\ UNCHANGED <<plan, disk, pc, result, unrestored, history>>

WriteFile(f) ==
    /\ pc = "write"
    /\ InPlan(f)
    /\ disk' = [disk EXCEPT ![f] = "modified"]
    /\ next' = next + 1
    /\ UNCHANGED <<plan, pc, result, unrestored, history>>

\* Mutation: a failed write is ignored.
WriteFailsCarryingOn(f) ==
    /\ pc = "write"
    /\ InPlan(f)
    /\ FailedWrite(f)
    /\ next' = next + 1
    /\ UNCHANGED <<plan, pc, result, unrestored, history>>

(* A failure to write is final: everything is restored, and cargo not run.   *)
WriteFails(f) ==
    /\ pc = "write"
    /\ InPlan(f)
    /\ FailedWrite(f)
    /\ Goto("restore")
    /\ UNCHANGED <<plan, result, unrestored, history>>

AllWritten ==
    /\ pc = "write"
    /\ next > NFiles
    /\ Goto("check")
    /\ UNCHANGED <<plan, disk, result, unrestored, history>>

(* cargo passes or fails as the covered crates do; a file somebody else has  *)
(* saved may tip it either way.                                              *)
Sees(broken, passes) ==
    \/ passes = (covered \cap broken = {})
    \/ \E f \in Files : CrateOf[f] \in covered /\ disk[f] = "edited"

CargoCheckPasses ==
    /\ pc = "check"
    /\ Sees(breaks, TRUE)
    /\ IF check_doctests
       THEN check' = check /\ Goto("doctest")
       ELSE check' = "passed" /\ Goto("report")
    /\ UNCHANGED <<plan, disk, exitCode, unrestored, history>>

DoctestsPass ==
    /\ pc = "doctest"
    /\ Sees(docBreaks, TRUE)
    /\ check' = "passed"
    /\ Goto("report")
    /\ UNCHANGED <<plan, disk, exitCode, unrestored, history>>

(* cargo reports a failure, or cannot be run at all. *)
CargoFails ==
    /\ pc \in {"check", "doctest"}
    /\ Goto("restore")
    /\ UNCHANGED <<plan, disk, result, unrestored, history>>

(* restore(): the result of every write is ignored. *)
RestoreFile(f) ==
    /\ pc = "restore"
    /\ InPlan(f)
    /\ disk' = [disk EXCEPT ![f] = "original"]
    /\ next' = next + 1
    /\ UNCHANGED <<plan, pc, result, unrestored, history>>

RestoreFails(f) ==
    /\ pc = "restore"
    /\ InPlan(f)
    /\ FailedWrite(f)
    /\ unrestored' = unrestored \cup {f}
    /\ next' = next + 1
    /\ UNCHANGED <<plan, pc, result, history>>

AllRestored ==
    /\ pc = "restore"
    /\ next > NFiles
    /\ check' = "failed"
    /\ Goto("report")
    /\ UNCHANGED <<plan, disk, exitCode, unrestored, history>>

(* emit_migrate: a dry run succeeds whatever happened. *)
Report ==
    /\ pc = "report"
    /\ exitCode' = IF ~dry_run /\ check = "failed" THEN "failure" ELSE "success"
    /\ Goto("exited")
    /\ UNCHANGED <<plan, disk, check, unrestored, history>>

-----------------------------------------------------------------------------
(* The rest of the world. *)

Kill ==
    /\ pc \notin {"exited", "killed"}
    /\ \/ UNCHANGED disk
       \/ \E f \in Files : pc \in {"write", "restore"} /\ InPlan(f) /\ FailedWrite(f)
    /\ Goto("killed")
    /\ UNCHANGED <<plan, result, unrestored, history>>

SomebodySaves(f) ==
    /\ edits < MaxEdits
    /\ edits' = edits + 1
    /\ disk' = [disk EXCEPT ![f] = "edited"]
    /\ touched' = touched \cup {f}
    /\ UNCHANGED <<plan, pc, next, result, unrestored>>

-----------------------------------------------------------------------------
Migrate ==
    \/ Begin \/ AllWritten \/ CargoCheckPasses \/ DoctestsPass \/ CargoFails
    \/ AllRestored \/ Report
    \/ \E f \in Files :
          Skip(f) \/ WriteFile(f) \/ WriteFails(f) \/ RestoreFile(f) \/ RestoreFails(f)

Next == Migrate \/ Kill \/ \E f \in Files : SomebodySaves(f)

Spec == Init /\ [][Next]_vars

-----------------------------------------------------------------------------
TypeOK ==
    /\ dry_run \in BOOLEAN /\ check_doctests \in BOOLEAN
    /\ changes \subseteq Files /\ unrestored \subseteq Files
    /\ breaks \subseteq Crates /\ docBreaks \subseteq Crates
    /\ covered \in Coverage
    /\ disk \in [Files -> {"original", "modified", "edited", "torn"}]
    /\ pc \in {"planned", "write", "check", "doctest", "restore", "report",
               "exited", "killed"}
    /\ next \in 1 .. NFiles + 1
    /\ check \in {"none", "skipped", "passed", "failed"}
    /\ exitCode \in {"none", "success", "failure"}
    /\ edits \in 0 .. MaxEdits
    /\ touched \subseteq Files

(* All or nothing, failing: when migrate reports a failure, a file that does *)
(* not hold its original bytes is one somebody else saved, or one whose own  *)
(* restoring write failed; a failure in the middle of the writes, or of the  *)
(* restoring of one file, does not leave another one behind.                 *)
FailureRestores ==
    exitCode = "failure" =>
        \A f \in Files :
            disk[f] = "original" \/ f \in unrestored \/ disk[f] = "edited"

(* All or nothing, succeeding: when migrate reports success and is not a dry *)
(* run, every change is on disk, none torn, and, unless somebody else saved  *)
(* a file of theirs, the crates cargo covers compile, doctests included if   *)
(* they were asked for.                                                      *)
SuccessIsChecked ==
    (exitCode = "success" /\ ~dry_run) =>
        /\ \A f \in changes : disk[f] \in {"modified", "edited"}
        /\ changes # {} =>
             \/ \E f \in Files : CrateOf[f] \in covered /\ f \in touched
             \/ /\ covered \cap breaks = {}
                /\ check_doctests => covered \cap docBreaks = {}

(* "ALL original files RESTORED (nothing applied)", as emit_migrate says of   *)
(* every failure.  It does not hold: restore() drops the result of its       *)
(* writes, and the file whose restoring write failed stays rewritten or torn.*)
RestoredMeansAll ==
    exitCode = "failure" =>
        \A f \in changes \ touched : disk[f] = "original"
=============================================================================
