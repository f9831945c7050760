------------------------------ MODULE MigrateProofs ------------------------------
(*****************************************************************************)
(* Proofs about the commands that write a user's files: MigrateApply for any *)
(* number of files and crates, any plan and any number of saves by somebody  *)
(* else; MigratePlan for any code base and any sequence of edits and runs;   *)
(* Scaffold (`init`) for any number of files, runs and saves; and            *)
(* MigrateDiff for any texts, any context and any limit on the table.        *)
(*****************************************************************************)
EXTENDS MCMigrate, LineDiffProofs, Sequences, FiniteSetTheorems, SequenceTheorems, WellFoundedInduction, TLAPS

Applied(f)    == disk[f] \in {"modified", "edited"}
PutBack(f)    == disk[f] \in {"original", "edited"} \/ f \in unrestored
Interfered    == \E f \in Files : CrateOf[f] \in covered /\ f \in touched
PassesUnless(broken) == covered \cap broken = {} \/ Interfered

(* Files outside the plan hold what they held, or what somebody else saved;  *)
(* a save is remembered.                                                     *)
Outside ==
    /\ \A f \in Files \ changes : disk[f] \in {"original", "edited"}
    /\ \A f \in Files : disk[f] = "edited" => f \in touched

(* How far the two loops over the plan have come, and that cargo sees the    *)
(* whole of it.                                                              *)
Progress ==
    /\ pc = "write" => \A f \in changes : f < next => Applied(f)
    /\ pc \in {"check", "doctest"} => \A f \in changes : Applied(f)
    /\ pc = "doctest" => check_doctests /\ PassesUnless(breaks)
    /\ pc = "restore" => \A f \in changes : f < next => PutBack(f)

(* What an outcome stands for.                                               *)
Outcome ==
    /\ check # "none" => pc \in {"report", "exited", "killed"}
    /\ pc = "report" => check # "none"
    /\ check = "skipped" => dry_run \/ changes = {}
    /\ check = "passed" =>
        /\ \A f \in changes : Applied(f)
        /\ PassesUnless(breaks)
        /\ check_doctests => PassesUnless(docBreaks)
    /\ check = "failed" => \A f \in changes : PutBack(f)

ExitCode ==
    /\ exitCode # "none" => pc = "exited" /\ check # "none"
    /\ exitCode = "failure" => check = "failed"
    /\ exitCode = "success" => dry_run \/ check # "failed"

IInv == TypeOK /\ Outside /\ Progress /\ Outcome /\ ExitCode

(* Before anything is written, nothing is claimed of the outcome.            *)
LEMMA Initial == Init => IInv
BY MigrateAssumption
DEF Init, IInv, TypeOK, Outside, Progress, Outcome, ExitCode, Files

-----------------------------------------------------------------------------
(* Steps that move control and touch no file.                                *)
LEMMA ControlPreserves ==
    ASSUME IInv,
           \/ Begin \/ AllWritten \/ CargoCheckPasses \/ DoctestsPass
           \/ CargoFails \/ AllRestored \/ Report
    PROVE  IInv'
<1> USE MigrateAssumption
<1>1. CASE Begin
  BY <1>1 DEF Begin, Goto, IInv, TypeOK, Outside, Progress, Outcome, ExitCode,
     Applied, PutBack, Interfered, PassesUnless, plan, result, history, Files
<1>2. CASE AllWritten
  <2>1. \A f \in changes : f < next
    BY <1>2 DEF AllWritten, IInv, TypeOK, Files
  <2> QED
    BY <1>2, <2>1 DEF AllWritten, Goto, IInv, TypeOK, Outside, Progress, Outcome,
       ExitCode, Applied, PutBack, Interfered, PassesUnless, plan, result, history, Files
<1>3. CASE CargoCheckPasses
  <2>1. PassesUnless(breaks)
    BY <1>3 DEF CargoCheckPasses, Sees, PassesUnless, Interfered, IInv, Outside
  <2> QED
    BY <1>3, <2>1 DEF CargoCheckPasses, Goto, IInv, TypeOK, Outside, Progress, Outcome,
       ExitCode, Applied, PutBack, Interfered, PassesUnless, plan, result, history, Files
<1>4. CASE DoctestsPass
  <2>1. PassesUnless(docBreaks)
    BY <1>4 DEF DoctestsPass, Sees, PassesUnless, Interfered, IInv, Outside
  <2> QED
    BY <1>4, <2>1 DEF DoctestsPass, Goto, IInv, TypeOK, Outside, Progress, Outcome,
       ExitCode, Applied, PutBack, Interfered, PassesUnless, plan, result, history, Files
<1>5. CASE CargoFails
  BY <1>5 DEF CargoFails, Goto, IInv, TypeOK, Outside, Progress, Outcome, ExitCode,
     Applied, PutBack, Interfered, PassesUnless, plan, result, history, Files
<1>6. CASE AllRestored
  <2>1. \A f \in changes : f < next
    BY <1>6 DEF AllRestored, IInv, TypeOK, Files
  <2> QED
    BY <1>6, <2>1 DEF AllRestored, Goto, IInv, TypeOK, Outside, Progress, Outcome,
       ExitCode, Applied, PutBack, Interfered, PassesUnless, plan, result, history, Files
<1>7. CASE Report
  BY <1>7 DEF Report, Goto, IInv, TypeOK, Outside, Progress, Outcome, ExitCode,
     Applied, PutBack, Interfered, PassesUnless, plan, result, history, Files
<1> QED
  BY <1>1, <1>2, <1>3, <1>4, <1>5, <1>6, <1>7

(* Steps of the two loops.                                                   *)
LEMMA FilePreserves ==
    ASSUME IInv, NEW f \in Files,
           \/ Skip(f) \/ WriteFile(f) \/ WriteFails(f)
           \/ RestoreFile(f) \/ RestoreFails(f)
    PROVE  IInv'
<1> USE MigrateAssumption
<1>1. CASE Skip(f)
  BY <1>1 DEF Skip, IInv, TypeOK, Outside, Progress, Outcome, ExitCode,
     Applied, PutBack, Interfered, PassesUnless, plan, result, history, Files
<1>2. CASE WriteFile(f)
  BY <1>2 DEF WriteFile, InPlan, IInv, TypeOK, Outside, Progress, Outcome, ExitCode,
     Applied, PutBack, Interfered, PassesUnless, plan, result, history, Files
<1>3. CASE WriteFails(f)
  BY <1>3 DEF WriteFails, FailedWrite, Goto, InPlan, IInv, TypeOK, Outside, Progress,
     Outcome, ExitCode, Applied, PutBack, Interfered, PassesUnless, plan, result,
     history, Files
<1>4. CASE RestoreFile(f)
  BY <1>4 DEF RestoreFile, InPlan, IInv, TypeOK, Outside, Progress, Outcome, ExitCode,
     Applied, PutBack, Interfered, PassesUnless, plan, result, history, Files
<1>5. CASE RestoreFails(f)
  BY <1>5 DEF RestoreFails, FailedWrite, InPlan, IInv, TypeOK, Outside, Progress,
     Outcome, ExitCode, Applied, PutBack, Interfered, PassesUnless, plan, result,
     history, Files
<1> QED
  BY <1>1, <1>2, <1>3, <1>4, <1>5

(* The rest of the world.                                                    *)
LEMMA WorldPreserves ==
    ASSUME IInv, Kill \/ \E f \in Files : SomebodySaves(f)
    PROVE  IInv'
<1> USE MigrateAssumption
<1>1. CASE Kill
  BY <1>1, SMTT(30) DEF Kill, FailedWrite, Goto, InPlan, IInv, TypeOK, Outside, Progress,
     Outcome, ExitCode, Applied, PutBack, Interfered, PassesUnless, plan, result,
     history, Files
<1>2. ASSUME NEW f \in Files, SomebodySaves(f) PROVE IInv'
  BY <1>2 DEF SomebodySaves, IInv, TypeOK, Outside, Progress, Outcome, ExitCode,
     Applied, PutBack, Interfered, PassesUnless, plan, result, history, Files
<1> QED
  BY <1>1, <1>2

LEMMA StutterPreserves == IInv /\ UNCHANGED vars => IInv'
BY DEF IInv, TypeOK, Outside, Progress, Outcome, ExitCode, Applied, PutBack,
   Interfered, PassesUnless, vars, plan, result, history

(* The inductive invariant holds in every reachable state.                   *)
THEOREM Invariance == Spec => []IInv
<1>1. IInv /\ [Next]_vars => IInv'
  BY ControlPreserves, FilePreserves, WorldPreserves, StutterPreserves
  DEF Next, Migrate
<1> QED
  BY Initial, <1>1, PTL DEF Spec

-----------------------------------------------------------------------------
(* A reported failure has put every file back, but those it could not write  *)
(* (apply_and_check and restore of migrate.rs).                              *)
THEOREM FailurePutsBack == Spec => []FailureRestores
<1>1. IInv => FailureRestores
  BY DEF IInv, Outside, Outcome, ExitCode, PutBack, FailureRestores
<1> QED
  BY <1>1, Invariance, PTL

(* A reported success has written the whole plan, and cargo has seen it      *)
(* compile, as far as nobody else interfered.                                *)
THEOREM SuccessWasChecked == Spec => []SuccessIsChecked
<1>1. IInv => SuccessIsChecked
  BY DEF IInv, TypeOK, Outside, Outcome, ExitCode, Applied, Interfered, PassesUnless,
     SuccessIsChecked
<1> QED
  BY <1>1, Invariance, PTL

-----------------------------------------------------------------------------
(* The planner.                                                              *)

LEMMA SameCardinality == \A S : P!Cardinality(S) = Cardinality(S)
BY Zenon DEF P!Cardinality, Cardinality

LEMMA SameFinite == \A S : P!IsFiniteSet(S) => IsFiniteSet(S)
BY Zenon DEF P!IsFiniteSet, IsFiniteSet

LEMMA AtMostOne ==
    ASSUME NEW S, \A a, b \in S : a = b
    PROVE  P!Cardinality(S) <= 1
<1>1. CASE S = {}
  BY <1>1, FS_EmptySet, SameCardinality
<1>2. CASE S # {}
  <2>1. PICK a \in S : TRUE
    BY <1>2
  <2>2. S = {a}
    BY <2>1
  <2>3. Cardinality({a}) = 1
    BY FS_Singleton
  <2> QED
    BY <2>2, <2>3, SameCardinality
<1> QED
  BY <1>1, <1>2

(* The name is defined once. *)
Once(name) == P!DefsOf(name) = {P!First(name)}

LEMMA DefinedOnce ==
    ASSUME NEW name, P!Cardinality(P!DefsOf(name)) = 1
    PROVE  Once(name)
<1>1. IsFiniteSet(P!DefsOf(name))
  <2>1. IsFiniteSet(Defs)
    BY PlannerAssumption, SameFinite DEF P!PlanAssumption
  <2> QED
    BY <2>1, FS_Subset DEF P!DefsOf
<1>2. PICK d : P!DefsOf(name) = {d}
  BY <1>1, FS_Singleton, SameCardinality
<1>3. d \in Nat
  BY <1>2, PlannerAssumption DEF P!PlanAssumption, P!DefsOf
<1>4. P!First(name) = d
  BY <1>2, <1>3 DEF P!First
<1> QED
  BY <1>2, <1>4 DEF Once

(* No literal that takes its fields from a base sets the clock as well, and  *)
(* no type has two builders, be its name defined once or not.                *)
BasesAlone  == \A x \in Literals : lit[x] = "timed" => ~literal[x].rest
OneBuilder  == \A name : \A b, c \in P!BuildersOf(name) : b = c

(* What SeamComplete says of a name.  *)
NoDerive    == \A d \in Defs : def[d].derive => field[d] # "clock"
Seam(name)  == (\E l \in P!Leaks : call[l] = "injected" /\ P!Name(l) = name) =>
                   field[P!First(name)] = "clock" /\ P!BuildersOf(name) # {}
Timed(name) == field[P!First(name)] = "clock" =>
                   \A x \in Literals :
                       literal[x].name = name /\ lit[x] = "bare" => literal[x].rest

PlanInv ==
    /\ P!TypeOK /\ P!ImportsKept
    /\ BasesAlone /\ OneBuilder /\ NoDerive
    /\ \A name \in P!Names : Once(name) => Seam(name) /\ Timed(name)

LEMMA PlanInitial == P!Init => PlanInv
<1> SUFFICES ASSUME P!Init PROVE PlanInv
  OBVIOUS
<1>1. P!TypeOK
  BY DEF P!Init, P!TypeOK
<1>2. P!ImportsKept
  BY DEF P!Init, P!ImportsKept
<1>3. OneBuilder
  BY DEF P!Init, OneBuilder, P!BuildersOf
<1>4. NoDerive
  BY DEF P!Init, NoDerive
<1> QED
  BY <1>1, <1>2, <1>3, <1>4 DEF P!Init, PlanInv, BasesAlone, Seam, Timed

LEMMA CallPreserves ==
    ASSUME PlanInv, NEW l \in P!Leaks, P!WriteCall(l) PROVE PlanInv'
<1>1. /\ call' = [call EXCEPT ![l] = "written"] /\ call[l] = "absent"
      /\ UNCHANGED <<field, lit, builder, reported>>
      /\ \A u \in Imports : imported'[u] =
            IF use[u].file = leak[l].file
            THEN imported[u] \cup (use[u].names \cap P!Mentions(l)) ELSE imported[u]
  BY DEF P!WriteCall
<1>2. P!TypeOK'
  BY <1>1 DEF PlanInv, P!TypeOK
<1>3. P!ImportsKept'
  <2> SUFFICES ASSUME NEW u \in Imports, NEW n \in use[u].names, NEW k \in P!Leaks,
                      call'[k] = "written", leak[k].file = use[u].file,
                      n \in P!Mentions(k)
               PROVE  \E v \in Imports : use[v].file = use[u].file /\ n \in imported'[v]
    BY Zenon DEF P!ImportsKept, P!Mentions
  <2>1. CASE k = l
    BY <1>1, <2>1
  <2>2. CASE k # l
    <3>1. call[k] = "written"
      BY <1>1, <2>2 DEF PlanInv, P!TypeOK
    <3>2. PICK v \in Imports : use[v].file = use[u].file /\ n \in imported[v]
      BY <3>1 DEF PlanInv, P!ImportsKept
    <3> QED
      BY <1>1, <3>2
  <2> QED
    BY <2>1, <2>2
<1>4. \A name : Seam(name) => Seam(name)'
  <2>1. \A k \in P!Leaks : call'[k] = "injected" => call[k] = "injected"
    BY <1>1 DEF PlanInv, P!TypeOK
  <2> QED
    BY <1>1, <2>1 DEF Seam, P!BuildersOf
<1> QED
  BY <1>1, <1>2, <1>3, <1>4 DEF PlanInv, BasesAlone, OneBuilder, NoDerive, Timed, P!BuildersOf

LEMMA LiteralPreserves ==
    ASSUME PlanInv, NEW x \in Literals, P!WriteLiteral(x) PROVE PlanInv'
<1> DEFINE f == field[P!First(literal[x].name)]
<1>1. /\ lit' = [lit EXCEPT ![x] = IF f = "none" \/ literal[x].rest THEN "bare" ELSE "timed"]
      /\ UNCHANGED <<call, field, builder, imported, reported>>
  BY DEF P!WriteLiteral
<1>2. P!TypeOK'
  BY <1>1 DEF PlanInv, P!TypeOK
<1>3. P!ImportsKept'
  BY <1>1 DEF PlanInv, P!ImportsKept
<1>4. BasesAlone'
  BY <1>1 DEF PlanInv, BasesAlone, P!TypeOK
<1>5. \A name : Timed(name) => Timed(name)'
  BY <1>1 DEF PlanInv, Timed, P!TypeOK
<1> QED
  BY <1>1, <1>2, <1>3, <1>4, <1>5 DEF PlanInv, OneBuilder, NoDerive, Seam, P!BuildersOf

(* A struct that is rewritten gets the clock, unless it has it. *)
LEMMA RewritesHaveFields ==
    ASSUME PlanInv, NEW l \in P!Rewrites
    PROVE  LET d == P!First(P!Name(l))
           IN  /\ P!Name(l) \in P!Names /\ leak[l].impl \in Impls /\ impl[leak[l].impl].inherent
               /\ ~def[d].derive
               /\ field[d] # "other"
BY PlannerAssumption
   DEF P!PlanAssumption, P!Rewrites, P!Present, P!Rewritable, P!Injectable, P!TypeOK

(* ... and a builder, unless it has one: that of its first rewrite. *)
LEMMA BuildersAre ==
    ASSUME PlanInv, NEW b \in P!NewBuilders(P!Rewrites)
    PROVE  /\ b \in Impls
           /\ ~P!HasWithTime(impl[b].name)
           /\ \E l \in P!Rewrites :
                 /\ leak[l].impl = b
                 /\ \A k \in P!Rewrites : P!Name(k) = impl[b].name => l <= k
<1>1. PICK l \in P!Rewrites :
         /\ leak[l].impl = b /\ ~P!HasWithTime(P!Name(l))
         /\ \A k \in P!Rewrites : P!Name(k) = P!Name(l) => l <= k
  BY Zenon DEF P!NewBuilders
<1>2. P!Name(l) = impl[b].name
  BY <1>1 DEF P!Name
<1>3. b \in Impls
  BY <1>1, RewritesHaveFields
<1> QED
  BY <1>1, <1>2, <1>3

LEMMA BuilderIsThere ==
    ASSUME PlanInv, NEW l \in P!Rewrites
    PROVE  \E b \in builder \cup P!NewBuilders(P!Rewrites) :
               impl[b].inherent /\ impl[b].name = P!Name(l)
<1>1. CASE P!HasWithTime(P!Name(l))
  BY <1>1 DEF P!HasWithTime
<1>2. CASE ~P!HasWithTime(P!Name(l))
  <2> DEFINE same == {k \in P!Rewrites : P!Name(k) = P!Name(l)}
  <2>1. same \in SUBSET Nat /\ same # {}
    BY PlannerAssumption DEF P!PlanAssumption, P!Rewrites, P!Present, P!Leaks
  <2>2. PICK m \in same : \A k \in same : m <= k
    BY <2>1, Least
  <2>3. leak[m].impl \in P!NewBuilders(P!Rewrites)
    BY <1>2, <2>2, Zenon DEF P!NewBuilders
  <2>4. impl[leak[m].impl].inherent /\ impl[leak[m].impl].name = P!Name(l)
    BY <2>2, RewritesHaveFields DEF P!Name
  <2> QED
    BY <2>3, <2>4
<1> QED
  BY <1>1, <1>2

LEMMA RunPreserves ==
    ASSUME PlanInv, P!Migrate PROVE PlanInv'
<1> DEFINE rewrites == P!Rewrites
           defaults == P!NewDefaults(P!Migrated(rewrites))
           applied  == rewrites \ P!Dropped(rewrites, defaults)
           left     == P!Left(rewrites, applied)
           fresh    == P!NewFields(P!Migrated(rewrites))
<1>1. P!Write(rewrites, defaults, applied)
  BY Zenon DEF P!Migrate
<1>2. /\ call' = [l \in P!Leaks |->
                    CASE l \in P!Swallowed(applied) -> "absent"
                      [] l \in applied              -> "injected"
                      [] OTHER                      -> call[l]]
      /\ field' = [d \in Defs |-> IF d \in fresh THEN "clock" ELSE field[d]]
      /\ lit' = [x \in Literals |->
                   CASE x \in P!Swallowing(applied) -> "absent"
                     [] x \in defaults              -> "timed"
                     [] OTHER                       -> lit[x]]
      /\ builder' = builder \cup P!NewBuilders(rewrites)
      /\ imported' = [u \in Imports |->
                        IF \E l \in rewrites : leak[l].file = use[u].file
                        THEN imported[u] \ P!Pruned(u, P!Text(use[u].file, left))
                        ELSE imported[u]]
      /\ reported' = P!Present \ rewrites
  BY <1>1, Zenon DEF P!Write
<1>3. /\ rewrites \subseteq P!Present /\ P!Present \subseteq P!Leaks
      /\ applied \subseteq rewrites
      /\ left = P!Present \ (applied \cup P!Swallowed(applied))
      /\ \A l \in P!Present : call[l] = "written"
  BY Zenon DEF P!Rewrites, P!Present, P!Left
<1>4. \A d \in fresh : /\ d \in Defs /\ d = P!First(def[d].name) /\ field[d] = "none"
                       /\ \E l \in rewrites : P!Name(l) = def[d].name
  BY Zenon DEF P!NewFields, P!Migrated
<1>5. \A x \in defaults : x \in Literals /\ ~literal[x].rest
  BY Zenon DEF P!NewDefaults
<1>6. \A x \in Literals : (\E l \in rewrites : P!Name(l) = literal[x].name) /\ lit[x] = "bare"
                             /\ ~literal[x].rest => x \in defaults
  BY Zenon DEF P!NewDefaults, P!Migrated
<1>7. \A d \in Defs : (\E l \in rewrites : P!Name(l) = def[d].name)
                         /\ d = P!First(def[d].name) /\ field[d] = "none" => d \in fresh
  BY Zenon DEF P!NewFields, P!Migrated
<1>8. \A b \in P!NewBuilders(rewrites) : b \in Impls
  BY BuildersAre
<1> HIDE DEF rewrites, defaults, applied, left, fresh
<1>10. \A l \in P!Leaks :
          /\ call'[l] = "injected" => call[l] = "injected" \/ l \in rewrites
          /\ call'[l] = "written" => l \in left /\ call[l] = "written"
          /\ call'[l] \in {"absent", "injected", call[l]}
  BY <1>2, <1>3 DEF P!Present
<1>11. \A x \in Literals :
          /\ lit'[x] = "bare" => lit[x] = "bare" /\ x \notin defaults
          /\ lit'[x] = "timed" => lit[x] = "timed" \/ x \in defaults
          /\ lit'[x] \in {"absent", "timed", lit[x]}
  BY <1>2
<1>12. P!TypeOK'
  <2>1. \A u \in Imports : imported'[u] \subseteq imported[u]
    BY <1>2
  <2> QED
    BY <1>2, <1>3, <1>8, <1>10, <1>11, <2>1 DEF PlanInv, P!TypeOK
<1>13. P!ImportsKept'
  <2> SUFFICES ASSUME NEW u \in Imports, NEW n \in use[u].names, NEW k \in P!Leaks,
                      call'[k] = "written", leak[k].file = use[u].file,
                      n \in P!Mentions(k)
               PROVE  \E v \in Imports : use[v].file = use[u].file /\ n \in imported'[v]
    BY Zenon DEF P!ImportsKept, P!Mentions
  <2>1. PICK v \in Imports : use[v].file = use[u].file /\ n \in imported[v]
    BY <1>10 DEF PlanInv, P!ImportsKept
  <2>2. n \in P!Text(use[v].file, left)
    BY <1>10, <2>1 DEF P!Text
  <2>3. n \notin P!Pruned(v, P!Text(use[v].file, left))
    BY <2>2 DEF P!Pruned
  <2> QED
    BY <1>2, <2>1, <2>3
<1>14. BasesAlone'
  BY <1>5, <1>11 DEF PlanInv, BasesAlone
<1>15. OneBuilder'
  <2> SUFFICES ASSUME NEW name, NEW b \in P!BuildersOf(name)', NEW c \in P!BuildersOf(name)'
               PROVE  b = c
    BY Zenon DEF OneBuilder
  <2>1. /\ b \in builder \cup P!NewBuilders(rewrites) /\ impl[b].inherent /\ impl[b].name = name
        /\ c \in builder \cup P!NewBuilders(rewrites) /\ impl[c].inherent /\ impl[c].name = name
    BY <1>2 DEF P!BuildersOf
  <2>2. CASE b \in builder /\ c \in builder
    BY <2>1, <2>2 DEF PlanInv, OneBuilder, P!BuildersOf
  <2>3. CASE b \in P!NewBuilders(rewrites)
    <3>1. ~P!HasWithTime(name)
      BY <2>1, <2>3, BuildersAre DEF rewrites
    <3>2. c \in P!NewBuilders(rewrites)
      BY <2>1, <3>1 DEF P!HasWithTime
    <3>3. PICK l \in rewrites : /\ leak[l].impl = b
                                /\ \A k \in rewrites : P!Name(k) = name => l <= k
      BY <2>1, <2>3, BuildersAre DEF rewrites
    <3>4. PICK k \in rewrites : /\ leak[k].impl = c
                                /\ \A h \in rewrites : P!Name(h) = name => k <= h
      BY <2>1, <3>2, BuildersAre DEF rewrites
    <3>5. l <= k /\ k <= l
      BY <2>1, <3>3, <3>4 DEF P!Name
    <3>6. l \in Nat /\ k \in Nat
      BY <1>3, <3>3, <3>4 DEF P!Leaks
    <3> QED
      BY <3>3, <3>4, <3>5, <3>6
  <2>4. CASE c \in P!NewBuilders(rewrites) /\ b \in builder
    <3>1. ~P!HasWithTime(name)
      BY <2>1, <2>4, BuildersAre DEF rewrites
    <3> QED
      BY <2>1, <2>4, <3>1 DEF P!HasWithTime
  <2> QED
    BY <2>1, <2>2, <2>3, <2>4
<1>16. NoDerive'
  <2>1. \A d \in fresh : ~def[d].derive
    BY <1>4, RewritesHaveFields DEF rewrites
  <2> QED
    BY <1>2, <2>1 DEF PlanInv, NoDerive
<1>17. ASSUME NEW name \in P!Names, Once(name)
       PROVE  Seam(name)' /\ Timed(name)'
  <2> DEFINE d == P!First(name)
  <2>1. d \in Defs /\ def[d].name = name
    BY <1>17 DEF Once, P!DefsOf
  <2>2. Seam(name) /\ Timed(name)
    BY <1>17 DEF PlanInv
  <2>3. field'[d] = IF d \in fresh THEN "clock" ELSE field[d]
    BY <1>2, <2>1
  <2>4. Seam(name)'
    <3> SUFFICES ASSUME NEW l \in P!Leaks, call'[l] = "injected", P!Name(l) = name
                 PROVE  field'[d] = "clock" /\ P!BuildersOf(name)' # {}
      BY Zenon DEF Seam, P!Name, P!First, P!DefsOf
    <3>1. CASE call[l] = "injected"
      <4>1. field[d] = "clock" /\ P!BuildersOf(name) # {}
        BY <2>2, <3>1 DEF Seam
      <4> QED
        BY <1>2, <2>3, <4>1 DEF P!BuildersOf
    <3>2. CASE l \in rewrites
      <4>1. field[d] # "other"
        BY <3>2, RewritesHaveFields DEF rewrites
      <4>2. field[d] \in {"none", "clock", "other"}
        BY <2>1 DEF PlanInv, P!TypeOK
      <4>3. field'[d] = "clock"
        BY <1>7, <2>1, <2>3, <3>2, <4>1, <4>2
      <4>4. P!BuildersOf(name)' # {}
        BY <1>2, <3>2, BuilderIsThere DEF rewrites, P!BuildersOf
      <4> QED
        BY <4>3, <4>4
    <3> QED
      BY <1>10, <3>1, <3>2
  <2>5. Timed(name)'
    <3> SUFFICES ASSUME field'[d] = "clock", NEW x \in Literals,
                        literal[x].name = name, lit'[x] = "bare", ~literal[x].rest
                 PROVE  FALSE
      BY Zenon DEF Timed, P!First, P!DefsOf
    <3>1. lit[x] = "bare" /\ x \notin defaults
      BY <1>11
    <3>2. CASE d \in fresh
      BY <1>4, <1>6, <2>1, <3>1, <3>2
    <3>3. CASE d \notin fresh
      BY <2>2, <2>3, <3>1, <3>3 DEF Timed
    <3> QED
      BY <3>2, <3>3
  <2> QED
    BY <2>4, <2>5
<1>18. \A name \in P!Names : Once(name)' <=> Once(name)
  BY DEF Once, P!DefsOf, P!First
<1> QED
  BY <1>12, <1>13, <1>14, <1>15, <1>16, <1>17, <1>18 DEF PlanInv, P!Names

LEMMA PlanPreserves == PlanInv /\ [P!Next]_pvars => PlanInv'
<1>1. ASSUME PlanInv, UNCHANGED pvars PROVE PlanInv'
  BY <1>1 DEF pvars, PlanInv, P!TypeOK, P!ImportsKept, BasesAlone, OneBuilder, NoDerive,
              Seam, Timed, P!BuildersOf
<1> QED
  BY <1>1, CallPreserves, LiteralPreserves, RunPreserves DEF P!Next

LEMMA PlanIsComplete == PlanInv => PlanComplete
<1> SUFFICES ASSUME PlanInv PROVE P!SeamComplete
  BY DEF PlanInv, PlanComplete
<1>1. ASSUME NEW name \in P!Names, P!Cardinality(P!DefsOf(name)) = 1
      PROVE  /\ (\E l \in P!Leaks : call[l] = "injected" /\ P!Name(l) = name) =>
                    field[P!First(name)] = "clock" /\ P!BuildersOf(name) # {}
             /\ P!Cardinality(P!BuildersOf(name)) <= 1
             /\ field[P!First(name)] = "clock" =>
                    \A x \in Literals :
                        literal[x].name = name /\ lit[x] # "absent" =>
                            (lit[x] = "bare" <=> literal[x].rest)
  <2>1. Seam(name) /\ Timed(name)
    BY <1>1, DefinedOnce DEF PlanInv
  <2>2. P!Cardinality(P!BuildersOf(name)) <= 1
    BY AtMostOne DEF PlanInv, OneBuilder
  <2>3. \A x \in Literals : lit[x] \in {"absent", "bare", "timed"}
    BY DEF PlanInv, P!TypeOK
  <2> QED
    BY <2>1, <2>2, <2>3 DEF Seam, Timed, PlanInv, BasesAlone
<1> QED
  BY <1>1, Zenon DEF PlanInv, NoDerive, P!SeamComplete

(* After any sequence of edits and runs, what migrate has done to a type     *)
(* that is defined once fits together, and no import that is used is pruned  *)
(* (migrate.rs, plan_sources).                                               *)
THEOREM PlansFitTogether == MCSpec => []PlanComplete
<1>1. MCInit => PlanInv
  BY PlanInitial DEF MCInit
<1>2. PlanInv /\ [MCNext]_<<part, vars, pvars, dvars, svars>> => PlanInv'
  BY PlanPreserves DEF MCNext
<1> QED
  BY <1>1, <1>2, PlanIsComplete, PTL DEF MCSpec
-----------------------------------------------------------------------------
(* `init`.                                                                   *)

ScaffoldTyped ==
    /\ scaffold \in [I!Files -> {"none", "theirs", "scaffold", "torn"}]
    /\ at \in 0 .. NScaffolds + 1 /\ any_err \in BOOLEAN /\ saves \in Nat

(* What was there when the run began still is, and the run does not get to   *)
(* write it; and it knows when a file is torn that nobody was told of.       *)
ScaffoldInv ==
    /\ ScaffoldTyped
    /\ \A f \in before : scaffold[f] # "none"
    /\ at \in I!Files /\ step # "exists" => at \notin before
    /\ \A f \in I!Files : scaffold[f] = "torn" => f \in told \/ (at # 0 /\ any_err)
    /\ before \subseteq I!Files

LEMMA ScaffoldInitial == I!Init => ScaffoldInv
<1>1. NScaffolds \in Nat
  BY PlannerAssumption DEF I!ScaffoldAssumption
<1>2. I!Init => any_err \in BOOLEAN
  BY Zenon DEF I!Init
<1>3. I!Init => ScaffoldTyped
  BY <1>1, <1>2 DEF I!Init, ScaffoldTyped, I!Files
<1> QED
  BY <1>1, <1>3 DEF I!Init, ScaffoldInv, I!Files

(* A write leaves alone whatever was there.                                  *)
LEMMA WritePreserves ==
    ASSUME ScaffoldInv, NEW bytes \in {"none", "theirs", "scaffold", "torn"},
           I!Write(bytes), bytes = "torn" => any_err'
    PROVE  /\ ScaffoldInv'
           /\ \A f \in before : scaffold'[f] = scaffold[f]
<1>1. NScaffolds \in Nat
  BY PlannerAssumption DEF I!ScaffoldAssumption
<1>2. /\ at \in I!Files /\ step = "write" /\ at \notin before
      /\ scaffold' = [scaffold EXCEPT ![at] = bytes]
      /\ at' = at + 1 /\ step' = "exists"
      /\ any_err' = (any_err \/ bytes # "scaffold")
      /\ UNCHANGED <<runs, saves, before, told>>
  BY DEF I!Write, I!ToNext, ScaffoldInv
<1>3. ScaffoldTyped'
  BY <1>1, <1>2 DEF ScaffoldInv, ScaffoldTyped, I!Files
<1>4. \A f \in before : scaffold'[f] = scaffold[f]
  BY <1>2 DEF ScaffoldInv, ScaffoldTyped
<1>5. \A f \in I!Files : f # at => scaffold'[f] = scaffold[f]
  BY <1>2 DEF ScaffoldInv, ScaffoldTyped
<1>6. \A f \in I!Files :
         scaffold'[f] = "torn" => f \in told' \/ (at' # 0 /\ any_err')
  <2>1. at' # 0
    BY <1>1, <1>2 DEF I!Files
  <2>2. ASSUME NEW f \in I!Files, f # at, scaffold'[f] = "torn"
        PROVE  f \in told' \/ any_err'
    BY <1>2, <1>5, <2>2 DEF ScaffoldInv
  <2>3. scaffold'[at] = bytes
    BY <1>2 DEF ScaffoldInv, ScaffoldTyped
  <2> QED
    BY <2>1, <2>2, <2>3
<1> QED
  BY <1>2, <1>3, <1>4, <1>6 DEF ScaffoldInv, I!Files

LEMMA ScaffoldPreserves ==
    ASSUME ScaffoldInv, I!Next
    PROVE  /\ ScaffoldInv'
           /\ saves' # saves \/ \A f \in before : scaffold'[f] = scaffold[f]
<1>1. NScaffolds \in Nat
  BY PlannerAssumption DEF I!ScaffoldAssumption
<1>2. CASE I!Run
  <2>1. any_err' \in BOOLEAN
    BY <1>2, Zenon DEF I!Run
  <2>2. ScaffoldTyped'
    BY <1>1, <1>2, <2>1 DEF I!Run, ScaffoldInv, ScaffoldTyped
  <2> QED
    BY <1>1, <1>2, <2>2 DEF I!Run, ScaffoldInv, I!Files
<1>3. CASE I!Exists
  BY <1>1, <1>3 DEF I!Exists, I!ToNext, I!ToStep, ScaffoldInv, ScaffoldTyped, I!Files
<1>4. CASE I!Finish
  BY <1>1, <1>4 DEF I!Finish, ScaffoldInv, ScaffoldTyped, I!Files
<1>5. ASSUME NEW works \in BOOLEAN, I!CreateDir(works)
      PROVE  ScaffoldInv' /\ UNCHANGED scaffold
  <2>1. /\ at \in I!Files /\ step = "dir" /\ any_err' = (any_err \/ ~works)
        /\ UNCHANGED <<scaffold, runs, saves, before, told>>
        /\ (at' = at /\ step' = "write") \/ (at' = at + 1 /\ step' = "exists")
    BY <1>5 DEF I!CreateDir, I!ToNext
  <2>2. ScaffoldTyped' /\ at' # 0
    BY <1>1, <2>1 DEF ScaffoldInv, ScaffoldTyped, I!Files
  <2>3. any_err => any_err'
    BY <2>1 DEF ScaffoldInv, ScaffoldTyped
  <2> QED
    BY <2>1, <2>2, <2>3 DEF ScaffoldInv, I!Files
<1>6. CASE I!Write("scaffold")
  BY <1>6, WritePreserves
<1>7. CASE I!WriteFails
  <2>1. at \in I!Files /\ any_err' /\ (I!Write(scaffold[at]) \/ I!Write("torn"))
    BY <1>7 DEF I!WriteFails
  <2>2. scaffold[at] \in {"none", "theirs", "scaffold", "torn"}
    BY <2>1 DEF ScaffoldInv, ScaffoldTyped
  <2> QED
    BY <2>1, <2>2, WritePreserves
<1>8. ASSUME NEW f \in I!Files, NEW content \in {"none", "theirs"}, I!Edit(f, content)
      PROVE  ScaffoldInv' /\ saves' # saves
  <2>1. /\ scaffold' = [scaffold EXCEPT ![f] = content] /\ saves' = saves + 1
        /\ before' = before \ {f} /\ told' = told \ {f}
        /\ UNCHANGED <<at, step, any_err, runs>>
    BY <1>8 DEF I!Edit
  <2>2. \A g \in I!Files : scaffold'[g] = IF g = f THEN content ELSE scaffold[g]
    BY <2>1 DEF ScaffoldInv, ScaffoldTyped
  <2>3. ScaffoldTyped' /\ saves' # saves
    BY <2>1 DEF ScaffoldInv, ScaffoldTyped
  <2> QED
    BY <2>1, <2>2, <2>3 DEF ScaffoldInv
<1> QED
  BY <1>2, <1>3, <1>4, <1>5, <1>6, <1>7, <1>8
     DEF I!Next, I!Run, I!Exists, I!Finish

(* Whatever fails, and however often developers and `init` alternate, a run  *)
(* writes no file that was there when it began, and a torn file has made     *)
(* some run exit with 2 (main.rs, init_scaffold).                            *)
THEOREM KeepsAndTells == MCSpec => ScaffoldsSafely
<1>1. MCInit => ScaffoldInv
  BY ScaffoldInitial DEF MCInit
<1>2. ASSUME ScaffoldInv, [MCNext]_<<part, vars, pvars, dvars, svars>>
      PROVE  /\ ScaffoldInv'
             /\ \/ UNCHANGED svars
                \/ saves' # saves \/ \A f \in before : scaffold'[f] = scaffold[f]
  <2>1. CASE UNCHANGED svars
    BY <1>2, <2>1 DEF svars, ScaffoldInv, ScaffoldTyped
  <2>2. CASE I!Next
    BY <1>2, <2>2, ScaffoldPreserves
  <2> QED
    BY <1>2, <2>1, <2>2 DEF MCNext
<1>3. ScaffoldInv => I!TornIsReported
  BY DEF ScaffoldInv, I!TornIsReported
<1>4. ScaffoldInv /\ [MCNext]_<<part, vars, pvars, dvars, svars>> =>
         [scaffold' # scaffold =>
             \A f \in before : at # 0 /\ at' # 0 /\ scaffold'[f] # scaffold[f]
                 => saves' # saves]_(I!vars)
  BY <1>2 DEF svars
<1>5. ScaffoldInv /\ [MCNext]_<<part, vars, pvars, dvars, svars>> => ScaffoldInv'
  BY <1>2
<1> QED
  BY <1>1, <1>3, <1>4, <1>5, PTL DEF MCSpec, ScaffoldsSafely, I!KeepsWhatWasThere
-----------------------------------------------------------------------------
(* The diff of MigrateDiff is that of LineDiff.                              *)

LEMMA SameDiff == \A a, b : D!Diff(a, b) = Diff(a, b)
BY Zenon DEF D!Diff, Diff, D!Lcs, Lcs, D!Prefixed, Prefixed, D!Cells, Cells, D!Max, Max

LEMMA SameTaken == \A w, op : D!Taken(w, op) = Taken(w, op)
BY Zenon DEF D!Taken, Taken

-----------------------------------------------------------------------------
(* The hunks of a diff.                                                      *)

Kept(w, k)  == w[k][1] = "equal"
EndOf(hs, n) == IF n = 0 THEN 0 ELSE hs[n][2]

DiffTyped ==
    /\ old \in Texts /\ new \in Texts
    /\ i \in Nat \ {0} /\ first \in Nat /\ end \in Nat
    /\ hunks \in Seq(Nat \X Nat)
    /\ dpc \in {"diff", "seek", "extend", "done", "omitted"}

Computed ==
    /\ dpc = "diff" => hunks = <<>> /\ i = 1
    /\ dpc \in {"seek", "extend", "done"} => ops = D!Diff(old, new) /\ i <= Len(ops) + 1

(* A hunk comes after the one before it, has a change, and begins with a     *)
(* line that is kept unless it begins at the first line.  What is before it  *)
(* is kept.                                                                  *)
HunkFits(w, hs, n) ==
    /\ EndOf(hs, n - 1) < hs[n][1] /\ hs[n][1] <= hs[n][2] /\ hs[n][2] <= Len(w)
    /\ \A k \in EndOf(hs, n - 1) + 1 .. hs[n][1] - 1 : Kept(w, k)
    /\ hs[n][1] > 1 => Kept(w, hs[n][1])
    /\ \E k \in hs[n][1] .. hs[n][2] : ~Kept(w, k)

HunksFit == \A n \in 1 .. Len(hunks) : HunkFits(ops, hunks, n)

(* The search goes on behind the last hunk, from where CTX lines are kept.   *)
SearchFits ==
    /\ EndOf(hunks, Len(hunks)) = i - 1
    /\ dpc = "seek" /\ i > 1 => \A k \in i .. i + CTX - 1 : k <= Len(ops) => Kept(ops, k)
    /\ dpc = "done" => \A k \in i .. Len(ops) : Kept(ops, k)

ExtentFits ==
    dpc = "extend" =>
        /\ i <= first /\ first <= Len(ops) /\ first <= end /\ end <= Len(ops) + 1
        /\ ~Kept(ops, first)
        /\ \A k \in i .. first - 1 : Kept(ops, k)
        /\ i <= D!Leading(first)

DiffInv == DiffTyped /\ Computed /\ HunksFit /\ SearchFits /\ ExtentFits

(* The lines of the two texts. *)
AllLines == {old[k] : k \in DOMAIN old} \cup {new[k] : k \in DOMAIN new}

LEMMA WiderSeq ==
    ASSUME NEW S, NEW T, S \subseteq T, NEW s \in Seq(S)
    PROVE  s \in Seq(T)
<1>1. Len(s) \in Nat /\ s \in [1 .. Len(s) -> T]
  BY LenProperties
<1> QED
  BY <1>1, ArrayIsSeq

LEMMA TextsAreSeqs ==
    ASSUME DiffTyped
    PROVE  /\ old \in Seq(AllLines) /\ new \in Seq(AllLines)
           /\ Script(D!Diff(old, new), AllLines, old, 1, new, 1, Lcs(old, new)[<<1, 1>>])
           /\ D!Diff(old, new) \in Seq(Steps(AllLines)) /\ Len(D!Diff(old, new)) \in Nat
<1>1. old \in Seq({old[k] : k \in DOMAIN old}) /\ new \in Seq({new[k] : k \in DOMAIN new})
  BY PlannerAssumption DEF D!DiffAssumption, DiffTyped
<1>2. old \in Seq(AllLines)
  <2>1. {old[k] : k \in DOMAIN old} \subseteq AllLines
    BY DEF AllLines
  <2> QED BY <1>1, <2>1, WiderSeq
<1>3. new \in Seq(AllLines)
  <2>1. {new[k] : k \in DOMAIN new} \subseteq AllLines
    BY DEF AllLines
  <2> QED BY <1>1, <2>1, WiderSeq
<1>4. Script(D!Diff(old, new), AllLines, old, 1, new, 1, Lcs(old, new)[<<1, 1>>])
  BY <1>2, <1>3, DiffIsScript, SameDiff
<1>5. D!Diff(old, new) \in Seq(Steps(AllLines))
  BY <1>4 DEF Script
<1>6. Len(D!Diff(old, new)) \in Nat
  BY <1>5, LenProperties
<1> QED
  BY <1>2, <1>3, <1>4, <1>5, <1>6

LEMMA Context == CTX \in Nat \ {0}
BY PlannerAssumption DEF D!DiffAssumption

LEMMA LeadingIs ==
    ASSUME NEW k \in Nat
    PROVE  D!Leading(k) = IF k - CTX > 1 THEN k - CTX ELSE 1
<1> DEFINE S == {1, k - CTX}
           most == IF k - CTX > 1 THEN k - CTX ELSE 1
           Is(z) == z \in S /\ \A y \in S : z >= y
<1>1. D!Leading(k) = CHOOSE z \in S : \A y \in S : z >= y
  BY Zenon DEF D!Leading, D!Max
<1>2. most \in S /\ \A y \in S : most >= y
  BY Context
<1>3. \A z \in S : (\A y \in S : z >= y) => z = most
  BY <1>2, Context
<1> HIDE DEF S, most
<1>4. D!Leading(k) = most
  BY <1>1, <1>2, <1>3
<1> QED
  BY <1>4 DEF most

LEMMA SmallerIs ==
    ASSUME NEW j \in Nat, NEW k \in Nat
    PROVE  D!Min({j, k}) \in Nat /\ D!Min({j, k}) = IF j <= k THEN j ELSE k
<1> DEFINE S == {j, k}
           least == IF j <= k THEN j ELSE k
<1>1. D!Min(S) = CHOOSE z \in S : \A y \in S : z <= y
  BY Zenon DEF D!Min
<1>2. least \in S /\ (\A y \in S : least <= y) /\ least \in Nat
  OBVIOUS
<1>3. \A z \in S : (\A y \in S : z <= y) => z = least
  BY <1>2
<1> HIDE DEF S, least
<1>4. D!Min(S) = least
  BY <1>1, <1>2, <1>3
<1> QED
  BY <1>2, <1>4 DEF S, least

LEMMA FirstOf ==
    ASSUME NEW S \in SUBSET Nat, S # {}
    PROVE  D!Min(S) \in S /\ \A y \in S : D!Min(S) <= y
<1>1. \E z \in S : \A y \in S : z <= y
  BY Least
<1>2. D!Min(S) = CHOOSE z \in S : \A y \in S : z <= y
  BY Zenon DEF D!Min
<1> QED
  BY <1>1, <1>2

(* The equal run at k ends with the diff or at a change. *)
LEMMA RunEndIs ==
    ASSUME Len(ops) \in Nat, NEW k \in 1 .. Len(ops) + 1
    PROVE  /\ D!RunEnd(k) \in k .. Len(ops) + 1
           /\ \A z \in k .. D!RunEnd(k) - 1 : D!IsEqual(z)
<1> DEFINE S == {z \in k .. Len(ops) + 1 : z = Len(ops) + 1 \/ ~D!IsEqual(z)}
<1>1. S \in SUBSET Nat /\ Len(ops) + 1 \in S
  OBVIOUS
<1>2. D!RunEnd(k) = D!Min(S)
  BY Zenon DEF D!RunEnd
<1>3. D!Min(S) \in S /\ \A y \in S : D!Min(S) <= y
  <2> HIDE DEF S
  <2> QED BY <1>1, FirstOf
<1>4. ASSUME NEW z \in k .. D!RunEnd(k) - 1 PROVE D!IsEqual(z)
  <2>1. z \in k .. Len(ops) + 1 /\ z < D!RunEnd(k)
    BY <1>2, <1>3
  <2>2. ~(z \in S)
    BY <1>1, <1>2, <1>3, <2>1
  <2> QED BY <2>1, <2>2
<1> QED
  BY <1>2, <1>3, <1>4

LEMMA DiffInitial == D!Init => DiffInv
<1> SUFFICES ASSUME D!Init PROVE DiffInv
  OBVIOUS
<1>1. hunks = <<>> /\ Len(hunks) = 0 /\ i = 1 /\ first = 0 /\ end = 0 /\ dpc = "diff"
  BY DEF D!Init
<1>2. DiffTyped
  BY <1>1 DEF DiffTyped, D!Init
<1> QED
  BY <1>1, <1>2 DEF DiffInv, Computed, HunksFit, SearchFits, ExtentFits, EndOf

LEMMA ComputePreserves == DiffInv /\ D!Compute => DiffInv'
<1> SUFFICES ASSUME DiffInv, D!Compute PROVE DiffInv'
  OBVIOUS
<1>1. /\ hunks = <<>> /\ Len(hunks) = 0 /\ i = 1 /\ dpc = "diff"
      /\ UNCHANGED <<old, new, i, first, end, hunks>>
  BY DEF D!Compute, DiffInv, Computed
<1>2. dpc' = "omitted" \/ (dpc' = "seek" /\ ops' = D!Diff(old, new))
  BY DEF D!Compute
<1>3. Len(D!Diff(old, new)) \in Nat
  BY TextsAreSeqs DEF DiffInv
<1>4. DiffTyped'
  BY <1>1, <1>2 DEF DiffTyped, DiffInv
<1>5. D!Diff(old, new)' = D!Diff(old, new)
  BY <1>1
<1>6. Computed'
  BY <1>1, <1>2, <1>3, <1>5 DEF Computed
<1>7. HunksFit'
  BY <1>1 DEF HunksFit
<1>8. SearchFits' /\ ExtentFits'
  BY <1>1, <1>2 DEF SearchFits, ExtentFits, EndOf
<1> QED
  BY <1>4, <1>6, <1>7, <1>8 DEF DiffInv

LEMMA SeekPreserves == DiffInv /\ D!Seek => DiffInv'
<1> SUFFICES ASSUME DiffInv, D!Seek PROVE DiffInv'
  OBVIOUS
<1> DEFINE ahead == {k \in DOMAIN ops : k >= i /\ ~D!IsEqual(k)}
<1>1. /\ dpc = "seek" /\ UNCHANGED <<old, new, ops, i, hunks>>
      /\ \/ ahead = {} /\ dpc' = "done" /\ UNCHANGED <<first, end>>
         \/ ahead # {} /\ first' = D!Min(ahead) /\ end' = D!Min(ahead) /\ dpc' = "extend"
  BY DEF D!Seek
<1>2. /\ ops = D!Diff(old, new) /\ Len(ops) \in Nat /\ DOMAIN ops = 1 .. Len(ops)
      /\ i \in Nat \ {0} /\ i <= Len(ops) + 1 /\ hunks \in Seq(Nat \X Nat) /\ Len(hunks) \in Nat
  BY <1>1, TextsAreSeqs, LenProperties DEF DiffInv, Computed, DiffTyped
<1>4. HunksFit'
  BY <1>1 DEF HunksFit, DiffInv
<1>5. EndOf(hunks, Len(hunks))' = i' - 1
  BY <1>1 DEF SearchFits, DiffInv
<1>6. CASE ahead = {}
  <2>1. DiffTyped' /\ Computed' /\ ExtentFits'
    BY <1>1, <1>6 DEF DiffInv, DiffTyped, Computed, ExtentFits
  <2>2. \A k \in i .. Len(ops) : Kept(ops, k)
    BY <1>2, <1>6 DEF D!IsEqual, Kept
  <2>3. SearchFits'
    BY <1>1, <1>5, <1>6, <2>2 DEF SearchFits
  <2> QED BY <1>4, <2>1, <2>3 DEF DiffInv
<1>7. CASE ahead # {}
  <2> DEFINE c == D!Min(ahead)
  <2>1. c \in ahead /\ \A y \in ahead : c <= y
    <3>1. ahead \in SUBSET Nat
      BY <1>2
    <3> HIDE DEF ahead
    <3> QED BY <1>7, <3>1, FirstOf
  <2>2. c \in Nat /\ c \in 1 .. Len(ops) /\ c >= i /\ ~Kept(ops, c)
    BY <1>2, <2>1 DEF D!IsEqual, Kept
  <2>3. \A k \in i .. c - 1 : Kept(ops, k)
    <3> TAKE k \in i .. c - 1
    <3>1. k \in DOMAIN ops /\ k >= i /\ ~(c <= k)
      BY <1>2, <2>2
    <3> QED BY <2>1, <3>1 DEF D!IsEqual, Kept
  <2>4. first' = c /\ end' = c /\ dpc' = "extend"
    BY <1>1, <1>7
  <2> HIDE DEF c, ahead
  <2>5. DiffTyped' /\ Computed' /\ SearchFits'
    BY <1>1, <1>5, <2>2, <2>4 DEF DiffInv, DiffTyped, Computed, SearchFits
  <2>6. i <= D!Leading(c)
    <3>1. CASE i = 1
      BY <1>2, <2>2, <3>1, Context, LeadingIs, SMTT(20)
    <3>2. CASE i > 1
      <4>1. ~(c \in i .. i + CTX - 1)
        <5>1. \A k \in i .. i + CTX - 1 : k <= Len(ops) => Kept(ops, k)
          BY <1>1, <3>2 DEF DiffInv, SearchFits
        <5> QED BY <1>2, <2>2, <5>1
      <4>2. c - CTX >= i
        BY <1>2, <2>2, <4>1, Context
      <4>3. D!Leading(c) = c - CTX
        BY <1>2, <2>2, <3>2, <4>2, Context, LeadingIs
      <4> QED BY <4>2, <4>3, <1>2, <2>2, Context
    <3> QED BY <1>2, <3>1, <3>2
  <2>7. ExtentFits'
    <3>1. i' = i /\ Len(ops)' = Len(ops)
      BY <1>1
    <3>2. D!Leading(first)' = D!Leading(c)
      BY <2>4, LeadingIs, Zenon DEF D!Leading
    <3>3. i <= c /\ c <= Len(ops) /\ c <= Len(ops) + 1 /\ c <= c
      BY <1>2, <2>2
    <3> QED BY <1>1, <2>2, <2>3, <2>4, <2>6, <3>1, <3>2, <3>3 DEF ExtentFits
  <2> QED BY <1>4, <2>5, <2>7 DEF DiffInv
<1> QED
  BY <1>6, <1>7

LEMMA FitsWhen ==
    ASSUME NEW w, NEW hs, NEW n, NEW e, EndOf(hs, n - 1) = e,
           NEW x, NEW y, hs[n][1] = x, hs[n][2] = y,
           e < x, x <= y, y <= Len(w),
           \A k \in e + 1 .. x - 1 : Kept(w, k),
           x > 1 => Kept(w, x),
           \E k \in x .. y : ~Kept(w, k)
    PROVE  HunkFits(w, hs, n)
BY DEF HunkFits

LEMMA ClosePreserves ==
    ASSUME DiffInv, dpc = "extend", NEW last \in Nat,
           first < last, last <= Len(ops) + 1,
           \A k \in last .. last + CTX - 1 : k <= Len(ops) => Kept(ops, k),
           D!Close(last), UNCHANGED <<old, new, ops, first>>
    PROVE  DiffInv'
<1> DEFINE N == Len(hunks)
           x == D!Leading(first)
           h == <<x, last - 1>>
<1>1. /\ ops = D!Diff(old, new) /\ Len(ops) \in Nat
      /\ i \in Nat \ {0} /\ i <= Len(ops) + 1 /\ hunks \in Seq(Nat \X Nat) /\ N \in Nat
      /\ first \in Nat /\ end \in Nat
  BY TextsAreSeqs, LenProperties DEF DiffInv, Computed, DiffTyped
<1>2. /\ hunks' = Append(hunks, h) /\ i' = last /\ dpc' = "seek"
      /\ UNCHANGED <<old, new, ops, first, end>>
  BY DEF D!Close
<1>3. /\ i <= first /\ first <= Len(ops) /\ ~Kept(ops, first)
      /\ \A k \in i .. first - 1 : Kept(ops, k)
      /\ i <= x
  BY DEF DiffInv, ExtentFits
<1>4. x \in Nat /\ x <= first /\ (x > 1 => x < first)
  <2>1. x = IF first - CTX > 1 THEN first - CTX ELSE 1
    BY <1>1, LeadingIs
  <2>2. first >= 1
    BY <1>1, <1>3
  <2> HIDE DEF x
  <2> QED BY <1>1, <2>1, <2>2, Context
<1> HIDE DEF x
<1>5. h \in Nat \X Nat /\ h[1] = x /\ h[2] = last - 1
  BY <1>1, <1>4
<1> HIDE DEF h
<1>6. /\ hunks' \in Seq(Nat \X Nat) /\ Len(hunks') = N + 1 /\ hunks'[N + 1] = h
      /\ \A n \in 1 .. N : hunks'[n] = hunks[n]
  BY <1>1, <1>2, <1>5, AppendProperties
<1> HIDE DEF N
<1>8. \A n \in 0 .. N : EndOf(hunks', n) = EndOf(hunks, n)
  <2> TAKE n \in 0 .. N
  <2>1. n = 0 \/ (n # 0 /\ hunks'[n] = hunks[n])
    BY <1>1, <1>6
  <2> QED BY <2>1 DEF EndOf
<1>9. EndOf(hunks, N) = i - 1 /\ EndOf(hunks', N + 1) = last - 1
  <2>1. EndOf(hunks, N) = i - 1
    BY DEF DiffInv, SearchFits, N
  <2>2. N + 1 # 0 /\ hunks'[N + 1][2] = last - 1
    BY <1>1, <1>5, <1>6
  <2> QED BY <2>1, <2>2 DEF EndOf
<1>10. DiffTyped'
  BY <1>1, <1>2, <1>6 DEF DiffInv, DiffTyped
<1>11. Computed'
  BY <1>1, <1>2 DEF Computed, DiffInv, DiffTyped
<1>12. ASSUME NEW n \in 1 .. N PROVE HunkFits(ops, hunks', n)
  <2>1. HunkFits(ops, hunks, n)
    BY DEF DiffInv, HunksFit, N
  <2>2. EndOf(hunks', n - 1) = EndOf(hunks, n - 1)
    BY <1>1, <1>8
  <2> QED BY <1>6, <2>1, <2>2 DEF HunkFits
<1>13. HunkFits(ops, hunks', N + 1)
  <2>2. hunks'[N + 1][1] = x /\ hunks'[N + 1][2] = last - 1
    BY <1>5, <1>6
  <2>3. i - 1 < x /\ x <= last - 1 /\ last - 1 <= Len(ops)
    BY <1>1, <1>3, <1>4
  <2>4. \A k \in i - 1 + 1 .. x - 1 : Kept(ops, k)
    <3> TAKE k \in i - 1 + 1 .. x - 1
    <3>1. k \in i .. first - 1
      BY <1>1, <1>4
    <3> QED BY <1>3, <3>1
  <2>5. x > 1 => Kept(ops, x)
    <3>1. x > 1 => x \in i .. first - 1
      BY <1>1, <1>3, <1>4
    <3> QED BY <1>3, <3>1
  <2>6. first \in x .. last - 1
    BY <1>1, <1>4
  <2> DEFINE g == N + 1
  <2> HIDE DEF g
  <2>7. hunks'[g][1] = x /\ hunks'[g][2] = last - 1
    BY <2>2 DEF g
  <2>9. EndOf(hunks', g - 1) = i - 1
    <3>1. g - 1 = N
      BY <1>1 DEF g
    <3>2. EndOf(hunks', N) = i - 1
      BY <1>1, <1>8, <1>9
    <3> QED BY <3>1, <3>2
  <2>8. HunkFits(ops, hunks', g)
    BY <1>3, <2>3, <2>4, <2>5, <2>6, <2>7, <2>9, FitsWhen
  <2> QED BY <2>8 DEF g
<1>14. HunksFit'
  <2>1. \A n \in 1 .. N + 1 : n \in 1 .. N \/ n = N + 1
    BY <1>1
  <2> QED BY <1>2, <1>6, <1>12, <1>13, <2>1 DEF HunksFit
<1>15. SearchFits' /\ ExtentFits'
  BY <1>2, <1>6, <1>9 DEF SearchFits, ExtentFits
<1> QED
  BY <1>10, <1>11, <1>14, <1>15 DEF DiffInv

LEMMA ExtendPreserves == DiffInv /\ D!Extend => DiffInv'
<1> SUFFICES ASSUME DiffInv, D!Extend PROVE DiffInv'
  OBVIOUS
<1> DEFINE e == D!RunEnd(end)
           run == e - end
           least == D!Min({run, CTX})
<1>1. dpc = "extend" /\ UNCHANGED <<old, new, ops, first>>
  BY DEF D!Extend
<1>2. /\ ops = D!Diff(old, new) /\ Len(ops) \in Nat /\ i \in Nat \ {0} /\ first \in Nat /\ end \in Nat
      /\ i <= first /\ first <= Len(ops) /\ first <= end /\ end <= Len(ops) + 1 /\ ~Kept(ops, first)
  BY <1>1, TextsAreSeqs DEF DiffInv, Computed, DiffTyped, ExtentFits
<1>3. ASSUME end' \in Nat, end' >= end, end' <= Len(ops) + 1, UNCHANGED <<hunks, i, dpc>>
      PROVE  DiffInv'
  <2>4. DiffTyped' /\ Computed' /\ HunksFit'
    BY <1>1, <1>3 DEF DiffInv, DiffTyped, Computed, HunksFit
  <2>5. SearchFits'
    BY <1>1, <1>3 DEF DiffInv, SearchFits
  <2>6. D!Leading(first)' = D!Leading(first)
    BY <1>1, Zenon DEF D!Leading
  <2>7. first <= end'
    BY <1>2, <1>3
  <2>8. ExtentFits'
    BY <1>1, <1>3, <2>6, <2>7 DEF DiffInv, ExtentFits
  <2> QED BY <2>4, <2>5, <2>8 DEF DiffInv
<1>4. CASE end > Len(ops)
  <2>1. D!Close(end)
    BY <1>4 DEF D!Extend
  <2>2. \A k \in end .. end + CTX - 1 : k <= Len(ops) => Kept(ops, k)
    BY <1>2, <1>4, Context
  <2>3. first < end
    BY <1>2, <1>4
  <2> QED BY <1>1, <1>2, <2>1, <2>2, <2>3, ClosePreserves
<1>5. CASE end <= Len(ops) /\ ~Kept(ops, end)
  <2>1. end' = end + 1 /\ UNCHANGED <<hunks, i, dpc>>
    BY <1>2, <1>5 DEF D!Extend, D!IsEqual, Kept
  <2> QED BY <1>2, <1>3, <1>5, <2>1
<1>6. CASE end <= Len(ops) /\ Kept(ops, end)
  <2>1. end \in 1 .. Len(ops) + 1
    BY <1>2
  <2>2. e \in end .. Len(ops) + 1 /\ \A k \in end .. e - 1 : Kept(ops, k)
    BY <1>2, <2>1, RunEndIs DEF D!IsEqual, Kept
  <2>3. \/ (e > Len(ops) \/ D!FarApart(run)) /\ D!Close(end + least)
        \/ end' = e /\ UNCHANGED <<hunks, i, dpc>>
    BY <1>2, <1>6 DEF D!Extend, D!IsEqual, Kept
  <2> HIDE DEF e
  <2>4. run \in Nat /\ first < end
    <3>1. first # end
      BY <1>2, <1>6
    <3> QED BY <1>2, <2>2, <3>1
  <2>5. least \in Nat /\ least = IF run <= CTX THEN run ELSE CTX
    BY <2>4, Context, SmallerIs
  <2> HIDE DEF least
  <2>6. CASE end' = e /\ UNCHANGED <<hunks, i, dpc>>
    BY <1>2, <1>3, <2>2, <2>6
  <2>7. CASE (e > Len(ops) \/ D!FarApart(run)) /\ D!Close(end + least)
    <3>1. end + least \in Nat /\ first < end + least /\ end + least <= Len(ops) + 1
      BY <1>2, <2>2, <2>4, <2>5, Context
    <3>2. ASSUME NEW k \in end + least .. end + least + CTX - 1, k <= Len(ops)
          PROVE  k \in end .. e - 1
      <4>1. CASE e > Len(ops)
        BY <1>2, <2>2, <2>5, <3>2, <4>1, Context
      <4>2. CASE run > 2 * CTX
        BY <1>2, <2>2, <2>4, <2>5, <3>2, <4>2, Context
      <4> QED BY <2>7, <4>1, <4>2 DEF D!FarApart
    <3> QED BY <1>1, <2>2, <2>7, <3>1, <3>2, ClosePreserves
  <2> QED BY <2>3, <2>6, <2>7
<1> QED
  BY <1>2, <1>4, <1>5, <1>6

LEMMA DiffPreserves == DiffInv /\ [D!Next]_dvars => DiffInv'
<1>1. ASSUME DiffInv, UNCHANGED dvars PROVE DiffInv'
  <2>1. UNCHANGED <<old, new, ops, i, first, end, hunks, dpc>>
    BY <1>1 DEF dvars
  <2>2. D!Diff(old, new)' = D!Diff(old, new) /\ D!Leading(first)' = D!Leading(first)
    BY <2>1
  <2>3. DiffTyped' /\ Computed'
    BY <1>1, <2>1, <2>2 DEF DiffInv, DiffTyped, Computed
  <2>4. HunksFit' /\ SearchFits'
    BY <1>1, <2>1 DEF DiffInv, HunksFit, SearchFits
  <2>5. ExtentFits'
    BY <1>1, <2>1, <2>2 DEF DiffInv, ExtentFits
  <2> QED BY <2>3, <2>4, <2>5 DEF DiffInv
<1> QED
  BY <1>1, ComputePreserves, SeekPreserves, ExtendPreserves DEF D!Next
-----------------------------------------------------------------------------
(* What patch(1) makes of the hunks.                                         *)

(* D has a Cardinality of its own, which is the same. *)
LEMMA CardinalityOfDiff == \A S : D!Cardinality(S) = Cardinality(S)
BY Zenon DEF D!Cardinality, Cardinality

(* Where the steps of the diff are in the two texts. *)
Placed(p, q) == Traces(p, ops, "del", old, 1) /\ Traces(q, ops, "ins", new, 1)

LEMMA LinesAre ==
    ASSUME Len(ops) \in Nat, NEW t, Len(t) \in Nat, NEW op, NEW p, Traces(p, ops, op, t, 1),
           NEW x \in 1 .. Len(ops) + 1, NEW y \in x - 1 .. Len(ops)
    PROVE  D!Lines(x, y, op) = p[y + 1] - p[x]
<1>1. D!Lines(x, y, op) = D!Cardinality(Counted(ops, x, y, op))
  BY Zenon DEF D!Lines, Counted
<1> QED
  BY <1>1, CardinalityOfDiff, CountedAre

(* Of lines that are all kept, none is passed over. *)
LEMMA KeptRun ==
    ASSUME NEW w, Len(w) \in Nat, NEW t, Len(t) \in Nat, NEW op, NEW p, Traces(p, w, op, t, 1),
           NEW x \in 1 .. Len(w) + 1, NEW y \in x .. Len(w) + 1,
           \A k \in x .. y - 1 : Kept(w, k)
    PROVE  /\ \A k \in x .. y : p[k] = p[x] + k - x
           /\ \A k \in x .. y - 1 : w[k][2] = t[p[k]]
<1>1. \A k \in 1 .. Len(w) + 1 : p[k] \in Nat
  BY DEF Traces
<1>2. ASSUME NEW k \in x .. y - 1
      PROVE  /\ k \in 1 .. Len(w) /\ w[k][2] = t[p[k]] /\ p[k + 1] = p[k] + 1
  <2>1. k \in 1 .. Len(w)
    BY <1>2
  <2>2. w[k][1] \in {"equal", op}
    BY <1>2 DEF Kept
  <2> QED BY <2>1, <2>2, OneAtATime
<1> DEFINE bad == {k \in Nat : k \in x .. y /\ p[k] # p[x] + k - x}
<1>3. ASSUME bad # {} PROVE FALSE
  <2>1. PICK k \in bad : \A j \in bad : k <= j
    <3>1. bad \in SUBSET Nat
      OBVIOUS
    <3> QED BY <1>3, <3>1, Least
  <2>2. k \in Nat /\ k \in x .. y /\ p[k] # p[x] + k - x
    BY <2>1
  <2>3. k # x
    BY <1>1, <2>2
  <2> DEFINE h == k - 1
  <2>4. h \in Nat /\ h \in x .. y /\ h \in x .. y - 1 /\ h + 1 = k /\ h < k
    BY <2>2, <2>3
  <2>5. p[h] = p[x] + h - x
    <3> HIDE DEF h
    <3> QED BY <2>1, <2>4
  <2>6. p[h + 1] = p[h] + 1
    <3> HIDE DEF h
    <3> QED BY <1>2, <2>4
  <2>7. p[x] \in Nat
    BY <1>1
  <2>8. p[k] = p[h] + 1
    BY <2>4, <2>6
  <2> HIDE DEF bad
  <2> QED BY <2>2, <2>4, <2>5, <2>7, <2>8
<1>4. \A k \in x .. y : k \in Nat
  OBVIOUS
<1> QED
  BY <1>2, <1>3, <1>4

LEMMA KeptAlike ==
    ASSUME NEW lines, old \in Seq(lines), new \in Seq(lines), Len(ops) \in Nat,
           NEW p, NEW q, Placed(p, q),
           NEW x \in 1 .. Len(ops) + 1, NEW y \in x .. Len(ops) + 1,
           \A k \in x .. y - 1 : Kept(ops, k)
    PROVE  Piece(old, p[x], p[y]) = Piece(new, q[x], q[y])
<1>1. Traces(p, ops, "del", old, 1) /\ Traces(q, ops, "ins", new, 1)
  BY DEF Placed
<1>2. Len(old) \in Nat /\ Len(new) \in Nat
  BY LenProperties
<1>3. /\ p[x] \in 1 .. Len(old) + 1 /\ p[y] \in 1 .. Len(old) + 1
      /\ q[x] \in 1 .. Len(new) + 1 /\ q[y] \in 1 .. Len(new) + 1
  <2>1. y \in 1 .. Len(ops) + 1
    OBVIOUS
  <2> QED BY <1>1, <1>2, <2>1, Within
<1>4. /\ \A k \in x .. y : p[k] = p[x] + k - x /\ q[k] = q[x] + k - x
      /\ \A k \in x .. y - 1 : old[p[k]] = new[q[k]]
  <2>1. /\ \A k \in x .. y : p[k] = p[x] + k - x
        /\ \A k \in x .. y - 1 : ops[k][2] = old[p[k]]
    BY <1>1, <1>2, KeptRun
  <2>2. /\ \A k \in x .. y : q[k] = q[x] + k - x
        /\ \A k \in x .. y - 1 : ops[k][2] = new[q[k]]
    BY <1>1, <1>2, KeptRun
  <2> QED BY <2>1, <2>2
<1> DEFINE r == y - x
           s == Piece(old, p[x], p[y])
           t == Piece(new, q[x], q[y])
<1>5. r \in Nat /\ p[y] = p[x] + r /\ q[y] = q[x] + r
  BY <1>3, <1>4
<1>6. s \in Seq(lines) /\ Len(s) = r /\ \A k \in 1 .. r : s[k] = old[p[x] + k - 1]
  <2> DEFINE u == p[x]
             v == p[y]
  <2>1. u \in 1 .. Len(old) + 1 /\ v \in u .. Len(old) + 1 /\ v - u = r
    BY <1>2, <1>3, <1>5, SMTT(20)
  <2>2. s = Piece(old, u, v)
    OBVIOUS
  <2> HIDE DEF r, u, v, s, t
  <2>3. /\ Piece(old, u, v) \in Seq(lines) /\ Len(Piece(old, u, v)) = v - u
        /\ \A k \in 1 .. v - u : Piece(old, u, v)[k] = old[u + k - 1]
    BY <2>1, PieceIs
  <2>4. s \in Seq(lines) /\ Len(s) = r /\ \A k \in 1 .. r : s[k] = old[u + k - 1]
    BY <2>1, <2>2, <2>3
  <2> QED BY <2>4 DEF u
<1>7. t \in Seq(lines) /\ Len(t) = r /\ \A k \in 1 .. r : t[k] = new[q[x] + k - 1]
  <2> DEFINE u == q[x]
             v == q[y]
  <2>1. u \in 1 .. Len(new) + 1 /\ v \in u .. Len(new) + 1 /\ v - u = r
    BY <1>2, <1>3, <1>5, SMTT(20)
  <2>2. t = Piece(new, u, v)
    OBVIOUS
  <2> HIDE DEF r, u, v, s, t
  <2>3. /\ Piece(new, u, v) \in Seq(lines) /\ Len(Piece(new, u, v)) = v - u
        /\ \A k \in 1 .. v - u : Piece(new, u, v)[k] = new[u + k - 1]
    BY <2>1, PieceIs
  <2>4. t \in Seq(lines) /\ Len(t) = r /\ \A k \in 1 .. r : t[k] = new[u + k - 1]
    BY <2>1, <2>2, <2>3
  <2> QED BY <2>4 DEF u
<1>8. \A k \in 1 .. r : old[p[x] + k - 1] = new[q[x] + k - 1]
  <2> TAKE k \in 1 .. r
  <2> DEFINE j == x + k - 1
  <2>1. j \in x .. y /\ j \in x .. y - 1 /\ j - x = k - 1
    BY <1>5
  <2>2. p[j] = p[x] + j - x /\ q[j] = q[x] + j - x /\ old[p[j]] = new[q[j]]
    <3> HIDE DEF j
    <3> QED BY <1>4, <2>1
  <2>3. p[x] + j - x = p[x] + k - 1 /\ q[x] + j - x = q[x] + k - 1
    BY <1>3, <2>1
  <2> HIDE DEF j
  <2> QED BY <2>2, <2>3
<1> HIDE DEF s, t, r
<1>9. \A k \in 1 .. Len(s) : s[k] = t[k]
  BY <1>6, <1>7, <1>8
<1>10. s = t
  BY <1>6, <1>7, <1>9, SeqEqual
<1> QED
  BY <1>10 DEF s, t

LEMMA ApplyFits ==
    ASSUME NEW s, NEW h, NEW from, NEW done, s.fits = TRUE,
           from = IF h.a = 0 THEN h.a0 + 1 ELSE h.a0,
           done = s.out \o SubSeq(old, s.at, from - 1),
           from >= s.at,
           SubSeq(old, from, from + h.a - 1) = D!Taken(h.body, "del"),
           Len(D!Taken(h.body, "ins")) = h.b,
           h.b > 0 => h.b0 = Len(done) + 1
    PROVE  D!ApplyHunk(s, h) =
              [fits |-> TRUE, at |-> from + h.a, out |-> done \o D!Taken(h.body, "ins")]
BY Zenon DEF D!ApplyHunk

(* What is done once the first k steps are. *)
Reached(p, q, k) == [fits |-> TRUE, at |-> p[k + 1], out |-> Piece(new, 1, q[k + 1])]

LEMMA HunkApplies ==
    ASSUME NEW lines, old \in Seq(lines), new \in Seq(lines), ops \in Seq(Steps(lines)),
           NEW p, NEW q, Placed(p, q), hunks \in Seq(Nat \X Nat),
           NEW n \in 1 .. Len(hunks), HunkFits(ops, hunks, n)
    PROVE  D!ApplyHunk(Reached(p, q, EndOf(hunks, n - 1)), D!Hunk(hunks[n]))
              = Reached(p, q, EndOf(hunks, n))
<1> DEFINE e == EndOf(hunks, n - 1)
           x == hunks[n][1]
           y == hunks[n][2]
           s == Reached(p, q, e)
           h == D!Hunk(hunks[n])
<1>1. /\ Traces(p, ops, "del", old, 1) /\ Traces(q, ops, "ins", new, 1)
      /\ Len(old) \in Nat /\ Len(new) \in Nat /\ Len(ops) \in Nat /\ Len(hunks) \in Nat
  BY LenProperties DEF Placed
<1>2. e \in Nat /\ x \in Nat /\ y \in Nat /\ EndOf(hunks, n) = y
  <2>1. \A k \in 1 .. Len(hunks) : hunks[k][1] \in Nat /\ hunks[k][2] \in Nat
    BY ElementOfSeq, SMTT(20)
  <2>2. n - 1 = 0 \/ n - 1 \in 1 .. Len(hunks)
    BY <1>1
  <2>3. e \in Nat
    BY <2>1, <2>2 DEF EndOf
  <2>4. n # 0
    BY <1>1
  <2> QED BY <2>1, <2>3, <2>4 DEF EndOf
<1>3. /\ e < x /\ x <= y /\ y <= Len(ops)
      /\ \A k \in e + 1 .. x - 1 : Kept(ops, k)
      /\ x > 1 => Kept(ops, x)
  BY DEF HunkFits
<1>4. /\ h.a0 = D!Start(hunks[n], "del") /\ h.a = D!Lines(x, y, "del")
      /\ h.b0 = D!Start(hunks[n], "ins") /\ h.b = D!Lines(x, y, "ins")
      /\ h.body = SubSeq(ops, x, y)
  BY DEF D!Hunk
<1>5. s.fits = TRUE /\ s.at = p[e + 1] /\ s.out = Piece(new, 1, q[e + 1])
  BY DEF Reached
<1>s. \A op : D!Start(hunks[n], op)
          = IF D!Lines(x, y, op) = 0 THEN 0 ELSE D!Lines(1, x - 1, op) + 1
  BY DEF D!Start
<1> HIDE DEF e, x, y, s, h
<1>6. /\ e + 1 \in 1 .. Len(ops) + 1 /\ x \in 1 .. Len(ops) + 1 /\ x \in 1 .. Len(ops)
      /\ y \in x .. Len(ops) /\ y + 1 \in x .. Len(ops) + 1 /\ y + 1 \in 1 .. Len(ops) + 1
      /\ x \in e + 1 .. Len(ops) + 1 /\ y \in x - 1 .. Len(ops) /\ 1 \in 1 .. Len(ops) + 1
      /\ x - 1 \in 1 - 1 .. Len(ops)
  BY <1>1, <1>2, <1>3
<1>7. /\ p[e + 1] \in 1 .. Len(old) + 1 /\ p[x] \in p[e + 1] .. Len(old) + 1
      /\ p[x] \in 1 .. Len(old) + 1
      /\ p[y + 1] \in p[x] .. Len(old) + 1 /\ p[1] = 1
  <2>1. p[e + 1] \in 1 .. Len(old) + 1 /\ p[x] \in 1 .. Len(old) + 1 /\ p[y + 1] \in 1 .. Len(old) + 1
    BY <1>1, <1>6, Within
  <2>2. p[e + 1] <= p[x]
    BY <1>1, <1>6, InOrder
  <2>3. p[x] <= p[y + 1]
    BY <1>1, <1>6, InOrder
  <2>4. p[1] = 1
    BY <1>1 DEF Traces
  <2> QED BY <1>1, <2>1, <2>2, <2>3, <2>4, SMTT(20)
<1>8. /\ q[e + 1] \in 1 .. Len(new) + 1 /\ q[x] \in q[e + 1] .. Len(new) + 1
      /\ q[x] \in 1 .. Len(new) + 1
      /\ q[y + 1] \in q[x] .. Len(new) + 1 /\ q[1] = 1
  <2>1. q[e + 1] \in 1 .. Len(new) + 1 /\ q[x] \in 1 .. Len(new) + 1 /\ q[y + 1] \in 1 .. Len(new) + 1
    BY <1>1, <1>6, Within
  <2>2. q[e + 1] <= q[x]
    BY <1>1, <1>6, InOrder
  <2>3. q[x] <= q[y + 1]
    BY <1>1, <1>6, InOrder
  <2>4. q[1] = 1
    BY <1>1 DEF Traces
  <2> QED BY <1>1, <2>1, <2>2, <2>3, <2>4, SMTT(20)
<1>9. /\ D!Lines(x, y, "del") = p[y + 1] - p[x] /\ D!Lines(x, y, "ins") = q[y + 1] - q[x]
      /\ D!Lines(1, x - 1, "del") = p[x] - 1 /\ D!Lines(1, x - 1, "ins") = q[x] - 1
  <2>1. D!Lines(x, y, "del") = p[y + 1] - p[x] /\ D!Lines(x, y, "ins") = q[y + 1] - q[x]
    BY <1>1, <1>6, LinesAre
  <2> DEFINE z == x - 1
  <2>2. z \in 1 - 1 .. Len(ops) /\ z + 1 = x
    BY <1>1, <1>6
  <2> HIDE DEF z
  <2>3. D!Lines(1, z, "del") = p[z + 1] - p[1] /\ D!Lines(1, z, "ins") = q[z + 1] - q[1]
    BY <1>1, <1>6, <2>2, LinesAre
  <2>4. D!Lines(1, z, "del") = p[x] - 1 /\ D!Lines(1, z, "ins") = q[x] - 1
    BY <1>7, <1>8, <2>2, <2>3
  <2> QED BY <2>1, <2>4 DEF z
<1>10. h.a = p[y + 1] - p[x] /\ h.b = q[y + 1] - q[x]
  BY <1>4, <1>9
<1>11. h.a0 = IF h.a = 0 THEN 0 ELSE p[x]
  <2>1. p[x] - 1 + 1 = p[x]
    BY <1>1, <1>7
  <2> QED BY <1>4, <1>9, <1>s, <2>1
<1>12. h.b # 0 => h.b0 = q[x]
  <2>1. q[x] - 1 + 1 = q[x]
    BY <1>1, <1>8
  <2> QED BY <1>4, <1>9, <1>s, <2>1
(* A hunk that takes nothing from the old file is at its beginning. *)
<1>13. h.a = 0 => p[x] = 1
  <2>1. CASE x = 1
    BY <1>7, <2>1
  <2>2. CASE x > 1
    <3>1. p[x + 1] = p[x] + 1
      <4>1. ops[x][1] \in {"equal", "del"}
        BY <1>3, <2>2 DEF Kept
      <4> QED BY <1>1, <1>6, <4>1, OneAtATime, SMTT(20)
    <3>2. x + 1 \in 1 .. Len(ops) + 1 /\ y + 1 \in x + 1 .. Len(ops) + 1
      BY <1>1, <1>6
    <3>3. p[x + 1] <= p[y + 1]
      BY <1>1, <3>2, InOrder
    <3> QED BY <1>1, <1>7, <1>10, <3>1, <3>3, SMTT(20)
  <2> QED BY <1>6, <2>1, <2>2
<1>14. p[x] = IF h.a = 0 THEN h.a0 + 1 ELSE h.a0
  BY <1>11, <1>13
<1>15. s.out \o SubSeq(old, s.at, p[x] - 1) = Piece(new, 1, q[x])
  <2>1. Piece(old, p[e + 1], p[x]) = Piece(new, q[e + 1], q[x])
    <3> DEFINE z == e + 1
    <3>1. z \in 1 .. Len(ops) + 1 /\ x \in z .. Len(ops) + 1 /\ \A k \in z .. x - 1 : Kept(ops, k)
      BY <1>3, <1>6
    <3> HIDE DEF z
    <3>2. Piece(old, p[z], p[x]) = Piece(new, q[z], q[x])
      BY <1>1, <3>1, KeptAlike
    <3> QED BY <3>2 DEF z
  <2>2. Piece(new, 1, q[e + 1]) \o Piece(new, q[e + 1], q[x]) = Piece(new, 1, q[x])
    <3>1. 1 \in 1 .. Len(new) + 1
      BY <1>1
    <3> QED BY <1>8, <3>1, PiecesJoin
  <2>3. SubSeq(old, s.at, p[x] - 1) = Piece(old, p[e + 1], p[x])
    BY <1>5 DEF Piece
  <2> QED BY <1>5, <2>1, <2>2, <2>3
<1>16. /\ D!Taken(h.body, "del") = Piece(old, p[x], p[y + 1])
       /\ D!Taken(h.body, "ins") = Piece(new, q[x], q[y + 1])
  BY <1>1, <1>4, <1>6, TakenIs, SameTaken, SMTT(20)
<1>17. SubSeq(old, p[x], p[x] + h.a - 1) = D!Taken(h.body, "del")
  <2>1. p[x] + h.a - 1 = p[y + 1] - 1
    BY <1>1, <1>7, <1>10, SMTT(20)
  <2> QED BY <1>16, <2>1 DEF Piece
<1>18. Len(D!Taken(h.body, "ins")) = h.b
  <2> DEFINE u == q[x]
             v == q[y + 1]
  <2>1. u \in 1 .. Len(new) + 1 /\ v \in u .. Len(new) + 1 /\ h.b = v - u
    BY <1>8, <1>10
  <2>2. D!Taken(h.body, "ins") = Piece(new, u, v)
    BY <1>16
  <2> HIDE DEF u, v
  <2>3. Len(Piece(new, u, v)) = v - u
    BY <2>1, PieceIs
  <2> QED BY <2>1, <2>2, <2>3
<1>19. Len(Piece(new, 1, q[x])) + 1 = q[x]
  <2>1. 1 \in 1 .. Len(new) + 1
    BY <1>1
  <2> DEFINE v == q[x]
  <2>3. v \in 1 .. Len(new) + 1
    BY <1>8
  <2> HIDE DEF v
  <2>4. Len(Piece(new, 1, v)) = v - 1
    BY <2>1, <2>3, PieceIs
  <2>2. Len(Piece(new, 1, q[x])) = q[x] - 1
    BY <2>4 DEF v
  <2> QED BY <1>1, <1>8, <2>2, SMTT(20)
<1>20. p[x] >= s.at
  BY <1>1, <1>5, <1>7
<1>21. h.b > 0 => h.b0 = Len(Piece(new, 1, q[x])) + 1
  BY <1>1, <1>8, <1>10, <1>12, <1>19
<1>22. D!ApplyHunk(s, h) =
          [fits |-> TRUE, at |-> p[x] + h.a, out |-> Piece(new, 1, q[x]) \o D!Taken(h.body, "ins")]
  BY <1>5, <1>14, <1>15, <1>17, <1>18, <1>20, <1>21, ApplyFits
<1>23. p[x] + h.a = p[y + 1]
  BY <1>1, <1>7, <1>10, SMTT(20)
<1>24. Piece(new, 1, q[x]) \o D!Taken(h.body, "ins") = Piece(new, 1, q[y + 1])
  <2>1. 1 \in 1 .. Len(new) + 1
    BY <1>1
  <2> QED BY <1>8, <1>16, <2>1, PiecesJoin
<1>25. D!ApplyHunk(s, h) = Reached(p, q, y)
  BY <1>22, <1>23, <1>24 DEF Reached
<1> QED
  BY <1>2, <1>25 DEF s, e, h

LEMMA HunksApply ==
    ASSUME NEW lines, old \in Seq(lines), new \in Seq(lines), ops \in Seq(Steps(lines)),
           NEW p, NEW q, Placed(p, q), hunks \in Seq(Nat \X Nat), HunksFit
    PROVE  D!Apply(D!Patch) =
              LET last == Reached(p, q, EndOf(hunks, Len(hunks)))
              IN  [fits |-> last.fits, text |-> last.out \o SubSeq(old, last.at, Len(old))]
<1> DEFINE N == Len(hunks)
           patch == D!Patch
           at1(f, n) == IF n = 0 THEN [fits |-> TRUE, at |-> 1, out |-> <<>>]
                        ELSE D!ApplyHunk(f[n - 1], patch[n])
           Is(f) == f = [n \in 0 .. Len(patch) |->
                            IF n = 0 THEN [fits |-> TRUE, at |-> 1, out |-> <<>>]
                            ELSE D!ApplyHunk(f[n - 1], patch[n])]
           all == CHOOSE f : Is(f)
           g == [n \in 0 .. N |-> Reached(p, q, EndOf(hunks, n))]
<1>1. N \in Nat /\ DOMAIN hunks = 1 .. N
  BY LenProperties
<1>2. Len(patch) = N /\ \A n \in 1 .. N : patch[n] = D!Hunk(hunks[n])
  <2>1. patch = [n \in 1 .. N |-> D!Hunk(hunks[n])]
    BY <1>1 DEF D!Patch
  <2>2. patch \in [1 .. N -> {D!Hunk(hunks[n]) : n \in 1 .. N}]
    BY <2>1
  <2> QED BY <1>1, <2>1, <2>2, ArrayIsSeq
<1>3. D!Apply(patch) = [fits |-> all[Len(patch)].fits,
                        text |-> all[Len(patch)].out \o SubSeq(old, all[Len(patch)].at, Len(old))]
  BY Zenon DEF D!Apply
<1> HIDE DEF N, patch
<1>4. ASSUME NEW n \in 0 .. N PROVE g[n] = at1(g, n)
  <2>1. CASE n = 0
    <3>1. EndOf(hunks, 0) = 0
      BY DEF EndOf
    <3>2. p[0 + 1] = 1 /\ q[0 + 1] = 1
      BY DEF Placed, Traces
    <3>3. Piece(new, 1, 1) = <<>>
      BY SubSeqEmpty DEF Piece
    <3>4. Reached(p, q, 0) = [fits |-> TRUE, at |-> 1, out |-> <<>>]
      BY <3>2, <3>3 DEF Reached
    <3> QED BY <2>1, <3>1, <3>4
  <2>2. CASE n # 0
    <3>1. n \in 1 .. N /\ n - 1 \in 0 .. N
      BY <1>1, <2>2
    <3>2. HunkFits(ops, hunks, n)
      BY <3>1 DEF HunksFit, N
    <3>3. D!ApplyHunk(Reached(p, q, EndOf(hunks, n - 1)), D!Hunk(hunks[n]))
              = Reached(p, q, EndOf(hunks, n))
      BY <3>1, <3>2, HunkApplies DEF N
    <3>4. g[n - 1] = Reached(p, q, EndOf(hunks, n - 1)) /\ g[n] = Reached(p, q, EndOf(hunks, n))
      BY <3>1
    <3>5. patch[n] = D!Hunk(hunks[n])
      BY <1>2, <3>1
    <3> HIDE DEF g
    <3> QED BY <2>2, <3>3, <3>4, <3>5
  <2> QED BY <2>1, <2>2
<1>5. Is(g)
  <2>1. g = [n \in 0 .. N |-> g[n]]
    OBVIOUS
  <2> HIDE DEF g
  <2>2. g = [n \in 0 .. N |-> at1(g, n)]
    BY <1>4, <2>1
  <2> QED BY <1>2, <2>2
<1>6. Is(all)
  <2> HIDE DEF Is
  <2> QED BY <1>5
<1>7. \A n \in 0 .. N : all[n] = at1(all, n)
  <2> HIDE DEF all
  <2>1. all = [n \in 0 .. N |-> at1(all, n)]
    BY <1>2, <1>6
  <2> HIDE DEF at1
  <2> QED BY <2>1
<1> HIDE DEF all, g
<1>8. ASSUME \E n \in 0 .. N : all[n] # g[n] PROVE FALSE
  <2> DEFINE bad == {n \in Nat : n \in 0 .. N /\ all[n] # g[n]}
  <2>1. PICK n \in bad : \A m \in bad : n <= m
    <3>1. bad \in SUBSET Nat
      OBVIOUS
    <3>2. bad # {}
      <4>1. PICK m \in 0 .. N : all[m] # g[m]
        BY <1>8
      <4>2. m \in bad
        BY <4>1
      <4> QED BY <4>2
    <3> QED BY <3>1, <3>2, Least
  <2>2. n \in Nat /\ n \in 0 .. N /\ all[n] # g[n]
    BY <2>1
  <2>3. all[n] = at1(all, n) /\ g[n] = at1(g, n)
    BY <1>4, <1>7, <2>2
  <2>4. n # 0
    BY <2>2, <2>3
  <2> DEFINE h == n - 1
  <2>5. h \in Nat /\ h \in 0 .. N /\ h < n
    BY <1>1, <2>2, <2>4
  <2>6. all[h] = g[h]
    <3> HIDE DEF h
    <3> QED BY <2>1, <2>2, <2>5
  <2> QED BY <2>2, <2>3, <2>4, <2>6
<1>9. all[Len(patch)] = Reached(p, q, EndOf(hunks, N))
  <2>1. N \in 0 .. N
    BY <1>1
  <2>2. g[N] = Reached(p, q, EndOf(hunks, N))
    BY <2>1 DEF g
  <2> QED BY <1>2, <1>8, <2>1, <2>2
<1> QED
  BY <1>3, <1>9 DEF patch, N

LEMMA PatchIsRight == DiffInv => PatchGivesNew
<1> SUFFICES ASSUME DiffInv, dpc = "done"
             PROVE  /\ D!Apply(D!Patch) = [fits |-> TRUE, text |-> new]
                    /\ hunks = <<>> <=> old = new
  BY DEF PatchGivesNew, D!PatchGivesNew
<1> DEFINE lines == AllLines
           e == EndOf(hunks, Len(hunks))
<1>1. /\ old \in Seq(lines) /\ new \in Seq(lines) /\ ops \in Seq(Steps(lines))
      /\ Script(ops, lines, old, 1, new, 1, Lcs(old, new)[<<1, 1>>]) /\ ops = D!Diff(old, new)
  BY TextsAreSeqs DEF DiffInv, Computed
<1>2. PICK p : Traces(p, ops, "del", old, 1)
  BY <1>1 DEF Script, Traced
<1>3. PICK q : Traces(q, ops, "ins", new, 1)
  BY <1>1 DEF Script, Traced
<1>4. Placed(p, q)
  BY <1>2, <1>3 DEF Placed
<1>5. /\ hunks \in Seq(Nat \X Nat) /\ HunksFit /\ i \in Nat \ {0} /\ i <= Len(ops) + 1
      /\ e = i - 1 /\ \A k \in i .. Len(ops) : Kept(ops, k)
  BY DEF DiffInv, DiffTyped, Computed, SearchFits
<1> HIDE DEF lines
<1>6. Len(old) \in Nat /\ Len(new) \in Nat /\ Len(ops) \in Nat
  BY <1>1, LenProperties
<1>7. D!Apply(D!Patch) = [fits |-> TRUE, text |-> Piece(new, 1, q[e + 1]) \o SubSeq(old, p[e + 1], Len(old))]
  <2>1. D!Apply(D!Patch) =
           [fits |-> Reached(p, q, e).fits,
            text |-> Reached(p, q, e).out \o SubSeq(old, Reached(p, q, e).at, Len(old))]
    BY <1>1, <1>4, <1>5, HunksApply
  <2> HIDE DEF e
  <2>2. Reached(p, q, e).fits = TRUE /\ Reached(p, q, e).at = p[e + 1] /\ Reached(p, q, e).out = Piece(new, 1, q[e + 1])
    BY DEF Reached
  <2> QED BY <2>1, <2>2
<1>8. e + 1 = i
  BY <1>5
<1> HIDE DEF e
<1> DEFINE L == Len(ops) + 1
<1>9. /\ p[L] = Len(old) + 1 /\ q[L] = Len(new) + 1 /\ L \in 1 .. Len(ops) + 1
      /\ i \in 1 .. Len(ops) + 1 /\ L \in i .. Len(ops) + 1
  BY <1>2, <1>3, <1>5, <1>6 DEF Traces
<1>10. Piece(old, p[i], p[L]) = Piece(new, q[i], q[L])
  <2>1. \A k \in i .. L - 1 : Kept(ops, k)
    BY <1>5, <1>6
  <2> HIDE DEF L
  <2> QED BY <1>1, <1>4, <1>6, <1>9, <2>1, KeptAlike
<1>11. Piece(new, 1, q[i]) \o Piece(new, q[i], q[L]) = Piece(new, 1, q[L])
  <2>1. q[i] \in 1 .. Len(new) + 1
    BY <1>3, <1>6, <1>9, Within
  <2>2. 1 \in 1 .. Len(new) + 1 /\ q[L] \in q[i] .. Len(new) + 1
    BY <1>6, <1>9, <2>1
  <2> HIDE DEF L
  <2> QED BY <1>1, <2>1, <2>2, PiecesJoin
<1>12. Piece(old, p[i], p[L]) = SubSeq(old, p[i], Len(old))
  <2>1. p[L] - 1 = Len(old)
    BY <1>6, <1>9
  <2> HIDE DEF L
  <2> QED BY <2>1 DEF Piece
<1>13. Piece(new, 1, q[L]) = new
  <2> DEFINE v == Len(new) + 1
             s == Piece(new, 1, v)
  <2>1. 1 \in 1 .. Len(new) + 1 /\ v \in 1 .. Len(new) + 1 /\ v - 1 = Len(new)
    BY <1>6
  <2>2. s \in Seq(lines) /\ Len(s) = v - 1 /\ \A k \in 1 .. v - 1 : s[k] = new[1 + k - 1]
    <3> HIDE DEF v
    <3> QED BY <1>1, <2>1, PieceIs
  <2>3. \A k \in 1 .. Len(new) : 1 + k - 1 = k
    OBVIOUS
  <2> HIDE DEF s, v
  <2>4. Len(s) = Len(new) /\ \A k \in 1 .. Len(s) : s[k] = new[k]
    BY <2>1, <2>2, <2>3
  <2>5. s = new
    BY <1>1, <2>2, <2>4, SeqEqual
  <2> QED BY <1>9, <2>5 DEF s, v
<1>14. D!Apply(D!Patch) = [fits |-> TRUE, text |-> new]
  BY <1>7, <1>8, <1>10, <1>11, <1>12, <1>13
<1>15. ASSUME hunks = <<>> PROVE old = new
  <2>1. e = 0
    BY <1>15 DEF e, EndOf
  <2>2. p[e + 1] = 1 /\ q[e + 1] = 1
    BY <1>2, <1>3, <2>1 DEF Traces
  <2>3. Piece(new, 1, 1) = <<>> /\ SubSeq(old, 1, Len(old)) = old
    BY <1>1, SubSeqEmpty DEF Piece
  <2>4. <<>> \o old = old
    BY <1>1, ConcatEmptySeq
  <2>5. D!Apply(D!Patch) = [fits |-> TRUE, text |-> old]
    BY <1>7, <2>2, <2>3, <2>4
  <2>6. [fits |-> TRUE, text |-> old].text = [fits |-> TRUE, text |-> new].text
    BY <1>14, <2>5
  <2> QED BY <2>6
<1>16. ASSUME old = new PROVE hunks = <<>>
  <2>1. AllKept(ops)
    BY <1>1, <1>16 DEF Script
  <2> SUFFICES ASSUME hunks # <<>> PROVE FALSE
    OBVIOUS
  <2>2. 1 \in 1 .. Len(hunks)
    BY <1>5
  <2>3. HunkFits(ops, hunks, 1)
    BY <1>5, <2>2 DEF HunksFit
  <2>4. PICK k \in hunks[1][1] .. hunks[1][2] : ~Kept(ops, k)
    BY <2>3 DEF HunkFits
  <2>5. k \in 1 .. Len(ops)
    <3>1. EndOf(hunks, 1 - 1) = 0 /\ EndOf(hunks, 1 - 1) < hunks[1][1] /\ hunks[1][2] <= Len(ops)
      BY <2>3 DEF HunkFits, EndOf
    <3>2. hunks[1][1] \in Nat /\ hunks[1][2] \in Nat
      BY <1>5, <2>2, ElementOfSeq
    <3> QED BY <1>6, <3>1, <3>2
  <2> QED BY <2>1, <2>4, <2>5 DEF AllKept, Kept
<1> QED
  BY <1>14, <1>15, <1>16

(* Property PatchGivesNew: applied to the old file, the hunks that migrate   *)
(* prints of a diff all fit and give the new file; and there are none only   *)
(* when the two are the same (migrate.rs, unified_diff).                     *)
THEOREM DiffIsAPatch == MCSpec => []PatchGivesNew
<1>1. MCInit => DiffInv
  BY DiffInitial DEF MCInit
<1>2. DiffInv /\ [MCNext]_<<part, vars, pvars, dvars, svars>> => DiffInv'
  BY DiffPreserves DEF MCNext
<1> QED
  BY <1>1, <1>2, PatchIsRight, PTL DEF MCSpec
=============================================================================
