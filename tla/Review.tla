--------------------------------- MODULE Review ---------------------------------
(*****************************************************************************)
(* `navian-dst review` (crates/navian-dst-cli/src/review.rs): finds every    *)
(* Invariant::new in the files of a tree, and the weaknesses of each: its    *)
(* predicate cannot be false, ignores the state, or is that of another       *)
(* invariant of the same vec!.                                               *)
(*                                                                           *)
(* The source is met as ExtractVisitor walks it: macros are entered and      *)
(* left, invariants are constructed, files end.  A predicate is a closure,   *)
(* [param, body].  Its body is an expression, and named by the place it has  *)
(* in the table Exprs; the parts of an expression come before it there.      *)
(*****************************************************************************)
EXTENDS Integers, FiniteSets, SequencesExt

CONSTANTS
    NFiles,          \* the files
    Exprs,           \* the expressions: [kind, args], args the places of its parts
    Predicates,      \* what predicates there may be
    MaxMacroDepth,   \* MAX_MACRO_DEPTH
    MaxLines,        \* bound: the invariants in the tree
    MaxMacros        \* bound: the macros in the tree

VARIABLES
    files,       \* the files that are still to be walked
    file,        \* the one that is walked now, or 0
    local,       \* local_invariant: it defines a type Invariant
    set_stack,   \* the ids of the vec! around
    next_id,     \* the next id in this file
    out,         \* report.invariants
    pc,          \* "walk" or "done"
    macros,      \* history: the macros around, [vec, nr] each
    opened,      \* history: how many there have been
    source       \* history: all invariants written, as a reader sees them

vars == <<files, file, local, set_stack, next_id, out, pc, macros, opened, source>>

-----------------------------------------------------------------------------
(* Expressions, over a state w:                                              *)
(*   true, false                                                             *)
(*   const      LIMIT > 0                                                    *)
(*   reads      w.a > 0                                                      *)
(*   unwraps    w.opt.unwrap() > 0, or any other call, index or ?            *)
(*   divides    LIMIT / w.a > 0                                              *)
(*   matches    matches!(w.phase, ..)                                        *)
(*   inline     format!("{w:?}") == ..                                       *)
(*   guard      if w.bad { return false; }                                   *)
(*   asserts    assert!(w.ok);, or any other macro that is a statement       *)
(*   or, and, paren, and block, whose value is that of its last part.        *)
Simple   == {"true", "false", "const", "reads", "unwraps", "divides", "matches",
             "inline", "guard", "asserts"}
Compound == {"or", "and", "paren", "block"}

Part(e, n) == Exprs[e].args[n]
Parts(e)   == {Part(e, n) : n \in DOMAIN Exprs[e].args}

Kinds[e \in DOMAIN Exprs] == {Exprs[e].kind} \cup UNION {Kinds[p] : p \in Parts(e)}

(* No calls, method calls, indexing, ? or .await, and no macros that are     *)
(* expressions: visit_expr_macro does not meet one that is a statement.      *)
is_pure_operand(e) == Kinds[e] \cap {"unwraps", "matches", "inline"} = {}

is_trivially_true[e \in DOMAIN Exprs] ==
    \/ Exprs[e].kind = "true"
    \/ Exprs[e].kind = "paren" /\ is_trivially_true[Part(e, 1)]
    \/ /\ Exprs[e].kind = "block" /\ Len(Exprs[e].args) = 1
       /\ is_trivially_true[Part(e, 1)]
    \/ /\ Exprs[e].kind = "or"
       /\ \/ is_trivially_true[Part(e, 1)]
          \/ is_trivially_true[Part(e, 2)] /\ is_pure_operand(Part(e, 1))

(* IdentUse: the name of the parameter is an identifier of the body, or one  *)
(* among the tokens of its macros; one in a format string is no token.       *)
Mentions(e) == Kinds[e] \cap {"reads", "unwraps", "divides", "matches", "guard",
                             "asserts"} # {}

closure_ignores_state(p) ==
    \/ p.param \in {"nothing", "wild"}
    \/ p.param = "ident" /\ ~Mentions(p.body)

predicate_weaknesses(p) ==
    (IF is_trivially_true[p.body] THEN {"Tautology"} ELSE {})
    \cup (IF closure_ignores_state(p) THEN {"IgnoresState"} ELSE {})

(* What the constants are assumed to be: an expression has the parts of its  *)
(* kind, a macro in a block but for its value is one that is a statement,    *)
(* and a closure that does not name the state cannot use it.                 *)
ReviewAssumption ==
    /\ NFiles \in Nat /\ MaxMacroDepth \in Nat /\ MaxLines \in Nat /\ MaxMacros \in Nat
    /\ Exprs \in Seq([kind : Simple \cup Compound, args : Seq(Nat)])
    /\ \A e \in DOMAIN Exprs :
        /\ Parts(e) \subseteq 1 .. e - 1
        /\ Exprs[e].kind \in {"or", "and"} => Len(Exprs[e].args) = 2
        /\ Exprs[e].kind = "paren" => Len(Exprs[e].args) = 1
        /\ Exprs[e].kind = "block" =>
                /\ Exprs[e].args # <<>>
                /\ \A p \in ToSet(Front(Exprs[e].args)) :
                        Exprs[p].kind \notin {"matches", "inline"}
    /\ \A p \in Predicates :
        /\ p \in [param : {"nothing", "wild", "ident", "other"}, body : DOMAIN Exprs]
        /\ p.param \in {"nothing", "wild"} =>
                ~Mentions(p.body) /\ "inline" \notin Kinds[p.body]

-----------------------------------------------------------------------------
Init ==
    /\ files = 1 .. NFiles /\ file = 0 /\ local = FALSE
    /\ set_stack = <<>> /\ next_id = 0
    /\ out = <<>> /\ pc = "walk"
    /\ macros = <<>> /\ opened = 0 /\ source = <<>>

(* review_source: a new visitor for each file that parses ... *)
OpenFile(f, shadowed) ==
    /\ pc = "walk" /\ macros = <<>> /\ f \in files
    /\ files' = files \ {f}
    /\ file' = f
    /\ local' = shadowed
    /\ set_stack' = <<>> /\ next_id' = 0
    /\ UNCHANGED <<out, pc, macros, opened, source>>

(* ... and nothing of one that does not. *)
SkipFile(f) ==
    /\ pc = "walk" /\ macros = <<>> /\ f \in files
    /\ files' = files \ {f}
    /\ file' = 0
    /\ UNCHANGED <<local, set_stack, next_id, out, pc, macros, opened, source>>

(* The body of a macro is walked if it and all around it are vec!, and their *)
(* number is within the limit.                                               *)
Walked(around) ==
    /\ \A i \in DOMAIN around : around[i].vec
    /\ Len(around) <= MaxMacroDepth

EnterMacro(vec) ==
    /\ pc = "walk" /\ file # 0 /\ opened < MaxMacros
    /\ macros' = Append(macros, [vec |-> vec, nr |-> opened + 1])
    /\ opened' = opened + 1
    /\ IF Walked(macros')
       THEN set_stack' = Append(set_stack, next_id) /\ next_id' = next_id + 1
       ELSE UNCHANGED <<set_stack, next_id>>
    /\ UNCHANGED <<files, file, local, out, pc, source>>

LeaveMacro ==
    /\ pc = "walk" /\ macros # <<>>
    /\ macros' = Front(macros)
    /\ set_stack' = IF Walked(macros) THEN Front(set_stack) ELSE set_stack
    /\ UNCHANGED <<files, file, local, next_id, out, pc, opened, source>>

\* Mutation: a set is known by its number alone.
next_scope_of_any_file ==
    IF set_stack # <<>> THEN <<0, "set", Last(set_stack)>> ELSE <<file, "solo", next_id>>

(* A set is known by its file and number; without one, a call is its own. *)
next_scope ==
    IF set_stack # <<>> THEN <<file, "set", Last(set_stack)>> ELSE <<file, "solo", next_id>>

(* visit_expr_call on Invariant::new: a bare one is the file's own, if it    *)
(* has a type of that name.                                                  *)
NewInvariant(pred, qualified) ==
    /\ pc = "walk" /\ file # 0 /\ Len(source) < MaxLines
    /\ source' = Append(source,
            [file |-> file, pred |-> pred, macros |-> macros,
             own |-> local /\ ~qualified])
    /\ IF Walked(macros) /\ (qualified \/ ~local)
       THEN /\ out' = Append(out,
                    [file |-> file, line |-> Len(source'), pred |-> pred,
                     scope |-> next_scope, weaknesses |-> predicate_weaknesses(pred)])
            /\ next_id' = IF set_stack = <<>> THEN next_id + 1 ELSE next_id
       ELSE UNCHANGED <<out, next_id>>
    /\ UNCHANGED <<files, file, local, set_stack, pc, macros, opened>>

Before(a, b) == a.file < b.file \/ (a.file = b.file /\ a.line < b.line)

(* sort_by: every line has one invariant at most, so there is one order.     *)
sorted(invs) ==
    CHOOSE s \in [DOMAIN invs -> ToSet(invs)] :
        /\ ToSet(s) = ToSet(invs)
        /\ \A i, j \in DOMAIN s : i < j => Before(s[i], s[j])

(* The keys of the first n, a scope and a predicate each. *)
seen(invs, n) == {<<invs[i].scope, invs[i].pred>> : i \in 1 .. n}

(* mark_duplicates: all but the first of one key. *)
mark_duplicates(invs) ==
    [i \in DOMAIN invs |->
        IF <<invs[i].scope, invs[i].pred>> \in seen(invs, i - 1)
        THEN [invs[i] EXCEPT !.weaknesses = @ \cup {"Duplicate"}] ELSE invs[i]]

(* review_path, after the walk *)
Finish ==
    /\ pc = "walk" /\ macros = <<>> /\ files = {}
    /\ out' = mark_duplicates(sorted(out))
    /\ pc' = "done"
    /\ UNCHANGED <<files, file, local, set_stack, next_id, macros, opened, source>>

(* A step, with a predicate of preds if it is to construct an invariant. *)
NextOf(preds) ==
    \/ \E f \in files : SkipFile(f) \/ \E shadowed \in BOOLEAN : OpenFile(f, shadowed)
    \/ \E vec \in BOOLEAN : EnterMacro(vec)
    \/ LeaveMacro
    \/ \E pred \in preds, qualified \in BOOLEAN : NewInvariant(pred, qualified)
    \/ Finish

Next == NextOf(Predicates)

Spec == Init /\ [][Next]_vars

-----------------------------------------------------------------------------
(* What a predicate comes to in a state: it holds, does not, or panics. *)
States == {"good", "bad", "zero"}

(* The value of an expression, from those of its parts.  A block ends with   *)
(* the first part that panics or returns, or else the last.                  *)
Result(kind, parts, s) ==
    LET ends == {n \in DOMAIN parts : parts[n] \in {"panic", "return F"} \/ n = Len(parts)}
    IN  CASE kind \in {"true", "const"}              -> "T"
          [] kind = "false"                          -> "F"
          [] kind \in {"reads", "matches", "inline"} -> IF s = "good" THEN "T" ELSE "F"
          [] kind = "unwraps" -> IF s = "good" THEN "T" ELSE "panic"
          [] kind = "divides" -> IF s = "zero" THEN "panic" ELSE "T"
          [] kind = "guard"   -> IF s = "good" THEN "()" ELSE "return F"
          [] kind = "asserts" -> IF s = "good" THEN "()" ELSE "panic"
          [] kind = "or"      -> IF parts[1] = "F" THEN parts[2] ELSE parts[1]
          [] kind = "and"     -> IF parts[1] = "T" THEN parts[2] ELSE parts[1]
          [] kind = "paren"   -> parts[1]
          [] kind = "block"   -> parts[Min(ends)]

Value[e \in DOMAIN Exprs] ==
    [s \in States |->
        Result(Exprs[e].kind, [n \in DOMAIN Exprs[e].args |-> Value[Part(e, n)][s]], s)]

Holds(p, s) == Value[p.body][s]
Flagged(w)  == {i \in DOMAIN out : w \in out[i].weaknesses}

AlwaysHolds(p) == \A s \in States : Holds(p, s) = "T"
Constant(p)    == \A s, t \in States : Holds(p, s) = Holds(p, t)

(* What may stand in front of || true and yet panic or return. *)
Unnoticed  == {"divides", "guard", "asserts"}
Excused(e) == "or" \in Kinds[e] /\ Kinds[e] \cap Unnoticed # {}

(* What is flagged as a tautology holds in every state, and what is flagged  *)
(* as ignoring the state is the same in all: but for what the two analyses   *)
(* do not look for, arithmetic, a return and a macro that is a statement in  *)
(* front of || true, and a parameter named in a format string.               *)
FlagsAreSound ==
    /\ \A i \in Flagged("Tautology") :
            ~Excused(out[i].pred.body) => AlwaysHolds(out[i].pred)
    /\ \A i \in Flagged("IgnoresState") :
            "inline" \notin Kinds[out[i].pred.body] => Constant(out[i].pred)

(* is_pure_operand, by its comment: "no calls, method calls, macros ..", "a  *)
(* panic there would make the predicate failable".  What is flagged holds in *)
(* every state, if it has no arithmetic and no return: no macro can panic in *)
(* front of || true.                                                         *)
NoMacroIsPure ==
    \A i \in Flagged("Tautology") :
        Kinds[out[i].pred.body] \cap {"divides", "guard"} = {} => AlwaysHolds(out[i].pred)

(* Reported are the invariants that are constructed, one time each, in the   *)
(* order of the files: not those in the text of other macros, nor those of   *)
(* a type the file calls Invariant.                                          *)
ExtractsExactly ==
    pc = "done" =>
        /\ {out[i].line : i \in DOMAIN out} =
                {l \in DOMAIN source :
                    /\ ~source[l].own
                    /\ Len(source[l].macros) <= MaxMacroDepth
                    /\ \A m \in ToSet(source[l].macros) : m.vec}
        /\ \A i, j \in DOMAIN out : i < j => Before(out[i], out[j])

(* An invariant is a duplicate iff an earlier one in the very same vec! has  *)
(* its predicate: nothing is, in two sets, two files or on its own.          *)
Set(inv) == LET around == source[inv.line].macros
            IN  IF around = <<>> THEN 0 ELSE Last(around).nr

DuplicatesExact ==
    pc = "done" =>
        Flagged("Duplicate") =
            {i \in DOMAIN out : \E j \in 1 .. i - 1 :
                /\ out[j].pred = out[i].pred
                /\ Set(out[j]) = Set(out[i]) /\ Set(out[i]) # 0}
=============================================================================
