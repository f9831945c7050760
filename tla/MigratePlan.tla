------------------------------- MODULE MigratePlan -------------------------------
(*****************************************************************************)
(* The planner of `migrate` (crates/navian-dst-cli/src/migrate.rs,           *)
(* plan_sources): which time leaks it rewrites, what it adds to a struct so  *)
(* that the rewritten calls have a clock, which edits it drops because they  *)
(* overlap, and which imports it prunes.  Developers write code between the  *)
(* runs.  Cargo's verdict and the restoring of files are MigrateApply's.     *)
(*                                                                           *)
(* The constants are the syntax that may be written: struct definitions,     *)
(* impl blocks, struct literals, calls that leak time, use items.  The       *)
(* variables are which of it is there, and what has become of it.  Leaks are *)
(* numbered in the order the visitor meets them, file by file.               *)
(*****************************************************************************)
EXTENDS Naturals, FiniteSets

CONSTANTS
    Defs,       \* the struct definitions, numbered in visiting order
    def,        \* def[d]: [name, named, derive]: named fields? a derive that
                \* the clock would break?
    Impls,      \* the impl blocks
    impl,       \* impl[i]: [name, inherent]
    NLeaks,     \* the calls that read the time or sleep, 1 .. NLeaks
    leak,       \* leak[l]: [file, form, impl, ctx, around]; see below
    Literals,   \* the struct literals
    literal,    \* literal[x]: [name, rest, around]: ends in ..base?
    Imports,    \* the use items
    use         \* use[u]: [file, names, plain]: private, without renames?

Leaks == 1 .. NLeaks
Names == {def[d].name : d \in Defs}

(* Instant::now, tokio's sleep, SystemTime::now()..as_millis() bare or under *)
(* an integer cast; the chain under another cast, SystemTime::now() without a *)
(* chain, and all other time calls.                                          *)
Rewritten == {"instant", "sleep", "millis"}
Forms     == Rewritten \cup {"millis as float", "system now", "other"}

(* The function around the leak; a nested closure hides it. *)
Contexts == {"method", "no self", "trait", "free", "closure"}

(* leak[l].around and literal[x].around are the millis chains in whose       *)
(* arguments it is: the rewrite of a chain replaces all of its text.         *)
PlanAssumption ==
    /\ Defs \subseteq Nat /\ IsFiniteSet(Defs) /\ NLeaks \in Nat
    /\ \A d \in Defs : {def[d].named, def[d].derive} \subseteq BOOLEAN
    /\ \A i \in Impls : impl[i].inherent \in BOOLEAN
    /\ \A l \in Leaks :
        /\ leak[l].form \in Forms /\ leak[l].ctx \in Contexts
        /\ leak[l].ctx = "method" => leak[l].impl \in Impls /\ impl[leak[l].impl].inherent
        /\ \A k \in leak[l].around : k < l /\ leak[k].form = "millis"
    /\ \A x \in Literals :
        /\ literal[x].name \in Names /\ literal[x].rest \in BOOLEAN
        /\ literal[x].around \subseteq {l \in Leaks : leak[l].form = "millis"}
    /\ \A u \in Imports : use[u].plain \in BOOLEAN

VARIABLES
    call,       \* call[l]: "absent", as "written", or "injected" (rewritten)
    field,      \* field[d]: the field time of d: "none", the "clock", "other"
    lit,        \* lit[x]: "absent", "bare", or "timed": it sets time
    builder,    \* the impl blocks that have a with_time
    imported,   \* imported[u]: the names u still imports
    reported    \* the leaks the latest run reported as skipped

vars == <<call, field, lit, builder, imported, reported>>

-----------------------------------------------------------------------------
(* Pass 1: the first definition of a name wins. *)
DefsOf(name) == {d \in Defs : def[d].name = name}
First(name)  == CHOOSE d \in DefsOf(name) : \A e \in DefsOf(name) : d <= e

(* Pass 2: resolve_rewrite_target *)
Name(l) == impl[leak[l].impl].name

Injectable(d) == def[d].named /\ ~def[d].derive /\ field[d] # "other"

Rewritable(l) ==
    /\ leak[l].form \in Rewritten
    /\ leak[l].ctx = "method"
    /\ Name(l) \in Names
    /\ Injectable(First(Name(l)))

Present    == {l \in Leaks : call[l] = "written"}
Rewrites   == {l \in Present : Rewritable(l)}
Migrated(rewrites) == {Name(l) : l \in rewrites}

(* Pass 3: the edits. *)
NewFields(migrated) ==
    {d \in Defs : /\ def[d].name \in migrated
                  /\ d = First(def[d].name)
                  /\ field[d] = "none"}

\* Mutation: literals that end in ..base get the default, too.
NewDefaultsEverywhere(migrated) ==
    {x \in Literals : literal[x].name \in migrated /\ lit[x] = "bare"}

NewDefaults(migrated) ==
    {x \in Literals : /\ literal[x].name \in migrated
                      /\ lit[x] = "bare"
                      /\ ~literal[x].rest}

HasWithTime(name) == \E i \in builder : impl[i].inherent /\ impl[i].name = name

(* The builder goes into the impl of the first rewrite. *)
NewBuilders(rewrites) ==
    {leak[l].impl : l \in {l \in rewrites :
        /\ ~HasWithTime(Name(l))
        /\ \A k \in rewrites : Name(k) = Name(l) => l <= k}}

\* Mutation: of two edits that overlap, neither is applied.
DroppedBoth(rewrites, defaults) ==
    {l \in rewrites : \/ \E k \in rewrites : l \in leak[k].around \/ k \in leak[l].around
                      \/ \E x \in defaults : l \in literal[x].around}

(* apply_edits goes from the last offset to the first and drops an edit that *)
(* overlaps the one applied before it: the edits in the arguments of a chain *)
(* come later in the text than the chain, and win.                           *)
Dropped(rewrites, defaults) ==
    {l \in rewrites : \/ \E k \in rewrites : l \in leak[k].around
                      \/ \E x \in defaults : l \in literal[x].around}

(* A chain that is replaced takes along what is in its arguments: none of it *)
(* is edited, or the chain would have been dropped.                          *)
Swallowed(applied)  == {l \in Present : leak[l].around \cap applied # {}}
Swallowing(applied) == {x \in Literals : literal[x].around \cap applied # {}}

(* prune_unused_time_imports: what the rewritten text of file f mentions     *)
(* outside of its use items, and what is left of use item u.                 *)
Mentions(l) ==
    CASE leak[l].form = "instant"                       -> {"Instant"}
      [] leak[l].form \in {"millis", "millis as float"} -> {"SystemTime", "UNIX_EPOCH"}
      [] leak[l].form = "system now"                    -> {"SystemTime"}
      [] OTHER                                          -> {}

CANDIDATES == {"SystemTime", "UNIX_EPOCH", "Instant"}

Text(f, there) == UNION {Mentions(l) : l \in {k \in there : leak[k].file = f}}

UsedBySibling(u) ==
    UNION {imported[v] : v \in {w \in Imports \ {u} : use[w].file = use[u].file}}

Pruned(u, text) ==
    IF use[u].plain
    THEN (imported[u] \cap CANDIDATES) \ (text \cup UsedBySibling(u))
    ELSE {}

-----------------------------------------------------------------------------
(* Any code base whose structs may or may not have a field time already.     *)
Init ==
    /\ call = [l \in Leaks |-> "absent"]
    /\ field \in [Defs -> {"none", "clock", "other"}]
    /\ \A d \in Defs : /\ ~def[d].named => field[d] = "none"
                       /\ def[d].derive => field[d] # "clock"
    /\ lit = [x \in Literals |-> "absent"]
    /\ builder \in SUBSET Impls
    /\ \A i, j \in builder : impl[i].name = impl[j].name => i = j
    /\ imported = [u \in Imports |-> use[u].names]
    /\ reported = {}

(* Developers write a call, with the imports it needs and in a chain that is *)
(* there, or a literal that compiles.                                        *)
WriteCall(l) ==
    /\ call[l] = "absent"
    /\ \A k \in leak[l].around : call[k] = "written"
    /\ call' = [call EXCEPT ![l] = "written"]
    /\ imported' = [u \in Imports |->
                      IF use[u].file = leak[l].file
                      THEN imported[u] \cup (use[u].names \cap Mentions(l))
                      ELSE imported[u]]
    /\ UNCHANGED <<field, lit, builder, reported>>

WriteLiteral(x) ==
    LET d == First(literal[x].name)
    IN  /\ lit[x] = "absent"
        /\ def[d].named
        /\ \A k \in literal[x].around : call[k] = "written"
        /\ lit' = [lit EXCEPT ![x] =
                     IF field[d] = "none" \/ literal[x].rest THEN "bare" ELSE "timed"]
        /\ UNCHANGED <<call, field, builder, imported, reported>>

Left(rewrites, applied)          == Present \ (applied \cup Swallowed(applied))

(* The planned changes, written to the files. *)
Write(rewrites, defaults, applied) ==
    LET left == Left(rewrites, applied)
    IN  /\ call' = [l \in Leaks |->
                      CASE l \in Swallowed(applied) -> "absent"
                        [] l \in applied            -> "injected"
                        [] OTHER                    -> call[l]]
        /\ field' = [d \in Defs |->
                       IF d \in NewFields(Migrated(rewrites)) THEN "clock" ELSE field[d]]
        /\ lit' = [x \in Literals |->
                     CASE x \in Swallowing(applied) -> "absent"
                       [] x \in defaults            -> "timed"
                       [] OTHER                     -> lit[x]]
        /\ builder' = builder \cup NewBuilders(rewrites)
        /\ imported' = [u \in Imports |->
                          IF \E l \in rewrites : leak[l].file = use[u].file
                          THEN imported[u] \ Pruned(u, Text(use[u].file, left))
                          ELSE imported[u]]
        /\ reported' = Present \ rewrites

Migrate ==
    \E rewrites \in {Rewrites} :
        \E defaults \in {NewDefaults(Migrated(rewrites))} :
            \E applied \in {rewrites \ Dropped(rewrites, defaults)} :
                Write(rewrites, defaults, applied)

Next ==
    \/ \E l \in Leaks : WriteCall(l)
    \/ \E x \in Literals : WriteLiteral(x)
    \/ Migrate

(* migrate is run again and again; nobody has to write anything. *)
Spec == Init /\ [][Next]_vars /\ WF_vars(Migrate)

-----------------------------------------------------------------------------
TypeOK ==
    /\ call \in [Leaks -> {"absent", "written", "injected"}]
    /\ field \in [Defs -> {"none", "clock", "other"}]
    /\ lit \in [Literals -> {"absent", "bare", "timed"}]
    /\ builder \subseteq Impls
    /\ \A u \in Imports : imported[u] \subseteq use[u].names
    /\ reported \subseteq Leaks

(* Where a name is defined once, the code migrate leaves behind has its seam *)
(* complete, after any sequence of runs and edits: rewritten calls have a    *)
(* clock to call and a builder to inject another, the builder is there once, *)
(* every literal sets the clock or takes it from its base, and no derive     *)
(* is broken.                                                                *)
BuildersOf(name) == {i \in builder : impl[i].inherent /\ impl[i].name = name}

SeamComplete ==
    /\ \A d \in Defs : def[d].derive => field[d] # "clock"
    /\ \A name \in Names : Cardinality(DefsOf(name)) = 1 =>
        /\ (\E l \in Leaks : call[l] = "injected" /\ Name(l) = name) =>
               field[First(name)] = "clock" /\ BuildersOf(name) # {}
        /\ Cardinality(BuildersOf(name)) <= 1
        /\ field[First(name)] = "clock" =>
               \A x \in Literals :
                   literal[x].name = name /\ lit[x] # "absent" =>
                       (lit[x] = "bare" <=> literal[x].rest)

(* Pruning never takes an import that a call still in the file needs, be it  *)
(* one that was skipped or one whose edit was dropped.                       *)
ImportsKept ==
    \A u \in Imports : \A n \in use[u].names :
        (\E l \in Leaks : call[l] = "written" /\ leak[l].file = use[u].file /\ n \in Mentions(l)) =>
            \E v \in Imports : use[v].file = use[u].file /\ n \in imported[v]

(* Run again and again, migrate ends with every call that reads the time     *)
(* either rewritten or reported: an edit that loses against one inside it    *)
(* (counted as rewritten, and not reported) gets its turn in a later run.    *)
EndsReported == <>[](\A l \in Leaks : call[l] = "written" => l \in reported)
=============================================================================
