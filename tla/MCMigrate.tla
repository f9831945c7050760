------------------------------- MODULE MCMigrate -------------------------------
(*****************************************************************************)
(* Model-checking instance of the commands that write a user's files: the    *)
(* planner of `migrate`, which is run again and again, the diff it shows of  *)
(* a file, the writes, checks and restores of one run, and `init`.  They     *)
(* share nothing (the writes know a plan by the files and crates it touches),*)
(* so they are checked side by side, each with the others at rest.           *)
(*****************************************************************************)
EXTENDS MigrateApply

CONSTANTS
    Defs, def, Impls, impl, NLeaks, leak, Literals, literal, Imports, use,
    Texts, CTX, MaxCells,
    NScaffolds, MaxRuns, MaxSaves

VARIABLES
    part,   \* "plan", "diff", "apply" or "init"
    call, field, lit, builder, imported, reported,
    old, new, ops, i, first, end, hunks, dpc,
    scaffold, at, step, any_err, runs, saves, before, told

P == INSTANCE MigratePlan
D == INSTANCE MigrateDiff WITH pc <- dpc

\* .github/workflows/navian-dst.yml and navian-dst.toml
I == INSTANCE Scaffold WITH
        NFiles <- NScaffolds, nested <- [f \in 1 .. NScaffolds |-> f = 1],
        MaxEdits <- MaxSaves, disk <- scaffold, edits <- saves

ASSUME PlannerAssumption == P!PlanAssumption /\ D!DiffAssumption /\ I!ScaffoldAssumption

pvars == <<call, field, lit, builder, imported, reported>>
dvars == <<old, new, ops, i, first, end, hunks, dpc>>
svars == <<scaffold, at, step, any_err, runs, saves, before, told>>

-----------------------------------------------------------------------------
(* Three files in two crates. *)
TwoCrates   == {"a", "b"}
FirstTwoInA == [f \in Files |-> IF f <= 2 THEN "a" ELSE "b"]

(* A code base: a struct S with two inherent impls, and two structs D in     *)
(* different modules, of which the first derives Debug.                      *)
MCDef ==
    <<[name |-> "S", named |-> TRUE,  derive |-> FALSE],
      [name |-> "D", named |-> TRUE,  derive |-> TRUE],
      [name |-> "D", named |-> TRUE,  derive |-> FALSE]>>

MCImpl ==
    <<[name |-> "S", inherent |-> TRUE],
      [name |-> "S", inherent |-> TRUE],
      [name |-> "D", inherent |-> TRUE]>>

Call(file, form, blk, ctx, around) ==
    [file |-> file, form |-> form, impl |-> blk, ctx |-> ctx, around |-> around]

MCLeak ==
    <<Call(1, "millis",  1, "method",  {}),
      Call(1, "instant", 1, "method",  {1}),
      Call(1, "instant", 1, "closure", {1}),
      Call(1, "instant", 3, "method",  {}),
      Call(2, "sleep",   2, "method",  {})>>

MCLiteral ==
    <<[name |-> "S", rest |-> FALSE, around |-> {1}],
      [name |-> "S", rest |-> TRUE,  around |-> {}]>>

MCUse ==
    <<[file |-> 1, names |-> {"Instant", "SystemTime"}, plain |-> TRUE],
      [file |-> 2, names |-> {"Instant"},               plain |-> TRUE]>>

(* All short files of two kinds of lines, and a long one. *)
FileTexts == UNION {[1 .. n -> {"x", "y"}] : n \in 0 .. 6} \cup {[n \in 1 .. 7 |-> "x"]}

-----------------------------------------------------------------------------
PlanAtRest  == field = [d \in Defs |-> "none"] /\ builder = {}
DiffAtRest  == old = <<>> /\ new = <<>>
ApplyAtRest == ~dry_run /\ ~check_doctests /\ changes = {} /\ covered = Crates
InitAtRest  == \A f \in I!Files : scaffold[f] = "none"

MCInit ==
    /\ part \in {"plan", "diff", "apply", "init"}
    /\ IF part = "apply" THEN Init ELSE Init /\ ApplyAtRest
    /\ IF part = "plan" THEN P!Init ELSE P!Init /\ PlanAtRest
    /\ IF part = "diff" THEN D!Init ELSE D!Init /\ DiffAtRest
    /\ IF part = "init" THEN I!Init ELSE I!Init /\ InitAtRest

MCNext ==
    \/ part = "apply" /\ Next /\ UNCHANGED <<part, pvars, dvars, svars>>
    \/ part = "plan" /\ P!Next /\ UNCHANGED <<part, vars, dvars, svars>>
    \/ part = "diff" /\ D!Next /\ UNCHANGED <<part, vars, pvars, svars>>
    \/ part = "init" /\ I!Next /\ UNCHANGED <<part, vars, pvars, dvars>>

MCSpec == /\ MCInit
          /\ [][MCNext]_<<part, vars, pvars, dvars, svars>>
          /\ WF_pvars(part = "plan" /\ P!Migrate)

-----------------------------------------------------------------------------
(* What a run leaves behind fits together: the seams and the imports.        *)
PlanComplete == P!TypeOK /\ P!SeamComplete /\ P!ImportsKept

(* Run again and again, migrate rewrites or reports every call.              *)
EndsReported == P!EndsReported

(* The diff it prints is one of the change it makes.                         *)
PatchGivesNew == D!PatchGivesNew

(* `init` leaves what is there alone, and tells of a file it has torn.       *)
ScaffoldsSafely == I!KeepsWhatWasThere /\ []I!TornIsReported
=============================================================================
