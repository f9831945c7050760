-------------------------------- MODULE Presence --------------------------------
(*****************************************************************************)
(* check_source() of `navian-dst invariants`                                 *)
(* (crates/navian-dst-cli/src/presence.rs): the walk over one file that      *)
(* decides whether it drives the simulation and whether it asserts anything. *)
(* The file is edited, and read after every edit.  What the command does     *)
(* with the verdicts is Gates'.                                              *)
(*                                                                           *)
(* A file is a sequence of items, one a line.  An item is a tree of nodes:   *)
(*   "def"     a struct, enum, union, fn, trait, type or mod path[1], with   *)
(*             what is in it as args                                         *)
(*   "path"    a path                                                        *)
(*   "call"    path(args)                                                    *)
(*   "method"  _.path[1](args)                                               *)
(*   "macro"   path!(args); parses says whether its body is a list of        *)
(*             expressions: if not, syn cannot see what is in it             *)
(*   "array"   [args]                                                        *)
(*   "paren"   (args[1])                                                     *)
(*****************************************************************************)
EXTENDS Naturals, FiniteSets, SequencesExt

CONSTANTS
    Items,       \* what a file may contain
    MaxItems,    \* bound: the items of a file
    SimMarkers,  \* SIM_MARKERS
    MaxDepth     \* MAX_MACRO_DEPTH

(* What the constants are assumed to be. *)
PresenceAssumption == MaxItems \in Nat /\ MaxDepth \in Nat

VARIABLES
    file,   \* the file
    site    \* the site that is reported of it, or NoSite

vars == <<file, site>>

AssertMacros == {"assert", "assert_eq", "assert_ne",
                 "debug_assert", "debug_assert_eq", "debug_assert_ne"}
CheckMethods == {"check", "check_all"}

tail2(path) ==
    IF Len(path) < 2 THEN <<>> ELSE SubSeq(path, Len(path) - 1, Len(path))

-----------------------------------------------------------------------------
(* LocalDefs: the names a file defines, at any depth but in macros. *)
RECURSIVE Defined(_)
Defined(n) ==
    IF n.kind = "macro" THEN {}
    ELSE (IF n.kind = "def" THEN {n.path[1]} ELSE {})
            \cup UNION {Defined(n.args[i]) : i \in DOMAIN n.args}

LocalDefs(f) == UNION {Defined(f[i]) : i \in DOMAIN f}

RECURSIVE is_empty_collection(_)
is_empty_collection(e) ==
    \/ e.kind = "macro" /\ Last(e.path) = "vec" /\ e.parses /\ e.args = <<>>
    \/ e.kind = "array" /\ e.args = <<>>
    \/ e.kind = "call" /\ e.args = <<>> /\ tail2(e.path) = <<"Vec", "new">>
    \/ e.kind = "paren" /\ is_empty_collection(e.args[1])

\* Mutation: a macro's body may make a file a site.
references_in_macros(path, at) ==
    {path[i] : i \in {j \in DOMAIN path :
        path[j] \in SimMarkers /\ ~(j = 1 /\ path[j] \in at.defs)}}

(* The markers in a path.  A bare name that the file defines is its own, and *)
(* a macro's body makes no site.                                             *)
references(path, at) ==
    {path[i] : i \in {j \in DOMAIN path :
        at.depth = 0 /\ path[j] \in SimMarkers /\ ~(j = 1 /\ path[j] \in at.defs)}}

note_sim_marker(v, path, at) ==
    IF references(path, at) = {} THEN v
    ELSE [v EXCEPT !.markers = @ \cup references(path, at),
                   !.line = IF @ = 0 \/ at.line < @ THEN at.line ELSE @]

(* Its path names the type's function, and the file has no such type. *)
names(path, type, fns, at) ==
    type \notin at.defs /\ \E fn \in fns : tail2(path) = <<type, fn>>

visit_path(v, path, at) ==
    [note_sim_marker(v, path, at) EXCEPT
        !.real = @ \/ names(path, "Invariant", {"new"}, at)]

visit_expr_call(v, n, at) ==
    LET built == names(n.path, "InvariantEngine", {"new"}, at)
        empty == n.args = <<>> \/ is_empty_collection(n.args[1])
    IN  [v EXCEPT
            !.real    = @ \/ names(n.path, "Invariant", {"new"}, at) \/ (built /\ ~empty),
            !.empty   = @ \/ (built /\ empty),
            !.checked = @ \/ names(n.path, "InvariantEngine", CheckMethods, at)]

visit_expr_method_call(v, n) ==
    [v EXCEPT !.checked = @ \/ (n.path[1] \in CheckMethods /\ Len(n.args) = 2)]

(* The walk: a node, then its path and what is in it. *)
RECURSIVE Visit(_, _, _)
Visit(v, n, at) ==
    LET inside == IF n.kind = "macro" THEN [at EXCEPT !.depth = @ + 1] ELSE at
        seen ==
            CASE n.kind = "call"   -> visit_expr_call(v, n, at)
              [] n.kind = "method" -> visit_expr_method_call(v, n)
              [] n.kind = "macro"  ->
                    [v EXCEPT !.asserts =
                        IF Last(n.path) \in AssertMacros THEN @ + 1 ELSE @]
              [] OTHER -> v
        named ==
            IF n.kind \in {"path", "call", "macro"}
            THEN visit_path(seen, n.path, at) ELSE seen
    IN  IF n.kind = "macro" /\ ~(n.parses /\ at.depth < MaxDepth)
        THEN named
        ELSE FoldLeft(LAMBDA w, arg : Visit(w, arg, inside), named, n.args)

PresenceVisitor(f) ==
    FoldLeft(LAMBDA v, i : Visit(v, f[i], [defs |-> LocalDefs(f), line |-> i, depth |-> 0]),
             [markers |-> {}, line |-> 0, real |-> FALSE, checked |-> FALSE,
              empty |-> FALSE, asserts |-> 0],
             [i \in DOMAIN f |-> i])

NoSite == [status |-> "none", markers |-> {}, line |-> 0]

(* A checked engine counts, even if the file has an empty one. *)
has_invariant(v) == v.real \/ v.checked

check_source(f) ==
    LET v == PresenceVisitor(f)
    IN  IF v.markers = {} THEN NoSite
        ELSE [status  |-> IF has_invariant(v) THEN "Ok"
                          ELSE IF v.asserts > 0 THEN "RawOnly" ELSE "Missing",
              markers |-> v.markers,
              line    |-> v.line]

-----------------------------------------------------------------------------
Init == file = <<>> /\ site = NoSite

Insert(i, item) ==
    /\ Len(file) < MaxItems
    /\ file' = InsertAt(file, i, item)
    /\ site' = check_source(file')

Next == \E i \in 1 .. Len(file) + 1, item \in Items : Insert(i, item)

Spec == Init /\ [][Next]_vars

-----------------------------------------------------------------------------
(* What there is to see of an item: its nodes, and the macros around each.   *)
RECURSIVE Nodes(_, _)
Nodes(n, d) ==
    {<<n, d>>} \cup
        (IF n.kind = "macro" /\ ~n.parses THEN {}
         ELSE UNION {Nodes(n.args[i], IF n.kind = "macro" THEN d + 1 ELSE d) :
                        i \in DOMAIN n.args})

Named(n) == n.kind \in {"path", "call", "macro"}
Refers(n) ==
    Named(n) /\ \E i \in DOMAIN n.path :
        n.path[i] \in SimMarkers /\ (i = 1 => n.path[i] \notin LocalDefs(file))

Registers(n) ==
    n.kind = "call" /\ tail2(n.path) = <<"InvariantEngine", "new">>
        /\ n.args # <<>> /\ ~is_empty_collection(n.args[1])
Builds(n) == Named(n) /\ tail2(n.path) = <<"Invariant", "new">>
Evaluates(n) ==
    \/ n.kind = "method" /\ n.path[1] \in CheckMethods /\ Len(n.args) = 2
    \/ n.kind = "call" /\ \E m \in CheckMethods : tail2(n.path) = <<"InvariantEngine", m>>

(* The signals that Gates takes a file for. *)
Signals ==
    LET local == LocalDefs(file)
        Signal(n) ==
            (IF Refers(n) THEN {"marker"} ELSE {})
            \cup (IF Builds(n) /\ "Invariant" \notin local THEN {"Invariant::new"} ELSE {})
            \cup (IF Registers(n) /\ "InvariantEngine" \notin local THEN {"engine"} ELSE {})
            \cup (IF Evaluates(n) /\ (n.kind = "call" => "InvariantEngine" \notin local)
                  THEN {"check"} ELSE {})
            \cup (IF n.kind = "macro" /\ Last(n.path) \in AssertMacros THEN {"assert"} ELSE {})
    IN  UNION {Signal(nd[1]) \X {nd[2]} :
                    nd \in UNION {Nodes(file[i], 0) : i \in DOMAIN file}}

G == INSTANCE Gates WITH
        NFiles <- 1, Dirs <- {"."}, Skipped <- {}, dir <- <<".">>,
        Prints <- {}, Confidence <- <<>>, MaxLeaks <- 0, MaxMacroDepth <- MaxDepth,
        Contents <- <<{}>>, torn <- {}, locked <- {}, store <- [loads |-> FALSE],
        last <- [cmd |-> "none"], accepted <- [loads |-> FALSE],
        tree <- <<[leaks |-> <<>>, signals |-> Signals, waived |-> FALSE]>>

(* The walk, one node after the other, comes to what Gates reads off the     *)
(* set of signals: whether the file is a site, and its status; and the line  *)
(* it names is the first with a reference to the simulation.                 *)
AbstractsToGates ==
    /\ site.status # "none" <=> G!IsSite(1)
    /\ G!IsSite(1) =>
        /\ site.status = G!Status(1)
        /\ \E nd \in Nodes(file[site.line], 0) : nd[2] = 0 /\ Refers(nd[1])
        /\ \A i \in 1 .. site.line - 1 :
                ~\E nd \in Nodes(file[i], 0) : nd[2] = 0 /\ Refers(nd[1])

(* More code never makes a site look worse ("only ever moves a site toward   *)
(* OK, the safe direction"), unless it defines a name.                       *)
Strength(s) ==
    CASE s.status = "Missing" -> 0 [] s.status = "RawOnly" -> 1 [] s.status = "Ok" -> 2

MoreCodeIsNoWeaker ==
    [][ /\ file' # file /\ site.status # "none"
        /\ LocalDefs(file') = LocalDefs(file)
        => /\ site'.status # "none"
           /\ Strength(site') >= Strength(site) ]_vars
=============================================================================
