------------------------------- MODULE Scanner -------------------------------
(*****************************************************************************)
(* The leak scanner on one file (crates/navian-dst-cli/src/scanner.rs,       *)
(* scan_source): the pre-pass Defs collects the names the file defines and   *)
(* its `use .. as` renames, then LeakVisitor walks the syntax tree and       *)
(* records what it recognises.                                               *)
(*                                                                           *)
(* The file is written as the walk meets it, one function boundary or        *)
(* statement a line.  An expression is a base (a path, or a call of a path)  *)
(* under a sequence of wrappers, the outermost first: "&", or the name of a  *)
(* method called on it.  `&m.iter()` is "&" and "iter" over the path m.  A   *)
(* node starts where its receiver starts, so nested nodes share a position.  *)
(* Arguments start elsewhere, and are statements of their own here.          *)
(*****************************************************************************)
EXTENDS Integers, Sequences, SequencesExt, FiniteSets

CONSTANTS
    Items,       \* the items a file may define: [kind, name]
    Renames,     \* the lists of `use path as alias;` a file may have
    Exprs,       \* expression statements, and what for loops iterate over
    Inits,       \* the expressions a `let` binds
    Idents,      \* local variables
    FnNames,     \* function names
    MaxLines     \* bound: the lines of the file

ASSUME ScannerAssumption == MaxLines \in Nat

VARIABLES
    ctx,         \* FileCtx
    fn_stack,    \* the functions being visited, innermost last
    map_vars,    \* one set of hash-container locals per function, and one
    leaks,       \* the findings, in the order they were recorded
    expr,        \* the expression being visited, or NoExpr
    at,          \* where it starts: <<line, column>>
    scopes,      \* history: which calls of EnterFn are open, by their line
    hashLocals,  \* history: <<scope, local>>, the local bound to a container
    seen,        \* history: every match handed to record()
    iterated     \* history: [at, hash], a container's iteration or another's

file    == <<fn_stack, map_vars, scopes, hashLocals>>
vars    == <<ctx, leaks, expr, at, seen, iterated, file>>

-----------------------------------------------------------------------------
(* The rules.                                                                *)

Rank == [High |-> 3, Medium |-> 2, Advisory |-> 1]

Rule(cat, conf) == [category |-> cat, confidence |-> conf]

CATALOG == [
    TIME_SYSTEMTIME_NOW     |-> Rule("Time", "High"),
    TIME_INSTANT_NOW        |-> Rule("Time", "High"),
    TIME_CHRONO_NOW         |-> Rule("Time", "Medium"),
    TIME_OFFSETDATETIME_NOW |-> Rule("Time", "Medium"),
    TIME_TOKIO_INSTANT_NOW  |-> Rule("Time", "Medium"),
    TIME_THREAD_SLEEP       |-> Rule("Time", "Medium"),
    TIME_TOKIO_TIMER        |-> Rule("Time", "Medium"),
    RAND_THREAD_RNG         |-> Rule("Random", "High"),
    RAND_RANDOM             |-> Rule("Random", "High"),
    RAND_OSRNG              |-> Rule("Random", "High"),
    RAND_FROM_ENTROPY       |-> Rule("Random", "Medium"),
    RAND_GETRANDOM          |-> Rule("Random", "High"),
    RAND_UUID               |-> Rule("Random", "Medium"),
    RAND_FASTRAND           |-> Rule("Random", "Medium"),
    RAND_GEN_METHOD         |-> Rule("Random", "Advisory"),
    NET_STD                 |-> Rule("Network", "High"),
    NET_REQWEST             |-> Rule("Network", "High"),
    NET_TOKIO               |-> Rule("Network", "High"),
    CONC_THREAD_SPAWN       |-> Rule("Concurrency", "High"),
    CONC_TOKIO_SPAWN        |-> Rule("Concurrency", "Advisory"),
    CONC_RAYON              |-> Rule("Concurrency", "Advisory"),
    ITER_HASH               |-> Rule("Iteration", "Advisory"),
    ENV_VAR                 |-> Rule("Env", "Medium"),
    ENV_PROCESS_ID          |-> Rule("Env", "Medium"),
    ENV_COMMAND             |-> Rule("Env", "Medium"),
    FS_READ_DIR             |-> Rule("Filesystem", "Medium"),
    FS_GLOB                 |-> Rule("Filesystem", "Medium"),
    FS_TEMPFILE             |-> Rule("Filesystem", "Medium"),
    ATOMIC_RELAXED          |-> Rule("Atomic", "Advisory")]

None == "none"

-----------------------------------------------------------------------------
(* Defs: the item definitions and renames of the whole file, its modules     *)
(* merged; the last rename to a name replaces the earlier ones.  A plain     *)
(* `use a::B;` leaves no trace.                                              *)
FileCtx(items, renames) == [
    local_names |-> {i.name : i \in items},
    mod_names   |-> {i.name : i \in {j \in items : j.kind = "mod"}},
    aliases     |-> [a \in {renames[k].alias : k \in DOMAIN renames} \ {"_"} |->
        renames[CHOOSE k \in DOMAIN renames :
            /\ renames[k].alias = a
            /\ \A l \in k + 1 .. Len(renames) : renames[l].alias # a].path]]

resolve(segs) ==
    IF Head(segs) \in DOMAIN ctx.aliases
    THEN ctx.aliases[Head(segs)] \o Tail(segs)
    ELSE segs

(* The match at segment key stands if it is bare and not an item of this     *)
(* file, or qualified by a root that is not one of its modules.              *)
guard_high(rule, segs, key, root) ==
    LET genuine ==
            IF key = 1
            THEN Head(segs) \notin ctx.local_names
            ELSE /\ root \notin ctx.mod_names
                 /\ \E i \in DOMAIN segs \ {key} : segs[i] = root
    IN  IF genuine THEN rule ELSE None

(* What a call may be, in the order of the code. *)
CallClauses(segs) ==
    LET n       == Len(segs)
        last    == segs[n]
        prev    == IF n >= 2 THEN segs[n - 1] ELSE ""
        first   == segs[1]
        has(s)  == s \in ToSet(segs)
        sockets == {i \in 1 .. n :
                        segs[i] \in {"TcpStream", "TcpListener", "UdpSocket"}}
        socket  == CHOOSE i \in sockets : \A j \in sockets : i <= j
    IN  <<
    <<prev = "SystemTime" /\ last = "now",
      guard_high("TIME_SYSTEMTIME_NOW", segs, n - 1, "std")>>,
    <<prev = "Instant" /\ last = "now" /\ has("tokio"), "TIME_TOKIO_INSTANT_NOW">>,
    <<prev = "Instant" /\ last = "now",
      guard_high("TIME_INSTANT_NOW", segs, n - 1, "std")>>,
    <<prev \in {"Utc", "Local"} /\ last = "now", "TIME_CHRONO_NOW">>,
    <<prev = "OffsetDateTime" /\ last \in {"now_utc", "now_local"},
      "TIME_OFFSETDATETIME_NOW">>,
    <<prev = "thread" /\ last = "sleep", "TIME_THREAD_SLEEP">>,
    <<prev = "time" /\ last \in {"sleep", "sleep_until", "interval", "timeout"},
      "TIME_TOKIO_TIMER">>,
    <<prev = "rand" /\ last = "random", "RAND_RANDOM">>,
    <<last = "thread_rng" /\ (n = 1 \/ has("rand")),
      guard_high("RAND_THREAD_RNG", segs, n, "rand")>>,
    <<first = "fastrand", "RAND_FASTRAND">>,
    <<first = "getrandom" /\ n >= 2 /\ "getrandom" \notin ctx.mod_names,
      "RAND_GETRANDOM">>,
    <<prev = "Uuid" /\ last \in {"new_v4", "now_v7"}, "RAND_UUID">>,
    <<n >= 2 /\ last = "from_entropy", "RAND_FROM_ENTROPY">>,
    <<prev = "OsRng" /\ last = "default",
      guard_high("RAND_OSRNG", segs, n - 1, "rand")>>,
    <<first = "reqwest" /\ "reqwest" \notin ctx.mod_names, "NET_REQWEST">>,
    <<n >= 2 /\ first = "tokio" /\ segs[2] = "net" /\ "tokio" \notin ctx.mod_names,
      "NET_TOKIO">>,
    <<sockets # {},
      IF sockets # {} THEN guard_high("NET_STD", segs, socket, "std") ELSE None>>,
    <<has("env") /\ last \in {"var", "vars", "var_os", "vars_os", "args", "args_os"},
      "ENV_VAR">>,
    <<has("process") /\ last = "id", "ENV_PROCESS_ID">>,
    <<prev = "Command", "ENV_COMMAND">>,
    <<last = "read_dir" /\ (n = 1 \/ has("fs")), "FS_READ_DIR">>,
    <<first = "glob" /\ last = "glob", "FS_GLOB">>,
    <<first = "tempfile" \/ (prev \in {"TempDir", "NamedTempFile"} /\ last = "new"),
      "FS_TEMPFILE">>,
    <<prev = "thread" /\ last = "spawn",
      guard_high("CONC_THREAD_SPAWN", segs, n - 1, "std")>>,
    <<first = "tokio" /\ last = "spawn", "CONC_TOKIO_SPAWN">>,
    <<TRUE, None>> >>

(* The clauses are tried in this order, and the first that applies decides,  *)
(* even when its guard drops the match.                                      *)
classify_call(segs) ==
    LET clauses == CallClauses(segs)
    IN  clauses[CHOOSE i \in DOMAIN clauses :
                    /\ clauses[i][1]
                    /\ \A j \in 1 .. i - 1 : ~clauses[j][1]][2]

classify_method(m) ==
    CASE m \in {"gen", "gen_range"} -> "RAND_GEN_METHOD"
      [] m \in {"par_iter", "par_iter_mut", "into_par_iter"} -> "CONC_RAYON"
      [] OTHER -> None

(* OsRng as a value, and the relaxed ordering. *)
classify_path(segs) ==
    LET n == Len(segs)
    IN  CASE segs[n] = "OsRng" -> guard_high("RAND_OSRNG", segs, n, "rand")
          [] n >= 2 /\ SubSeq(segs, n - 1, n) = <<"Ordering", "Relaxed">> -> "ATOMIC_RELAXED"
          [] OTHER -> None

-----------------------------------------------------------------------------
(* record(): one finding for a position and category, the most severe.       *)

record(found, match) ==
    LET same == {i \in DOMAIN found : /\ found[i].at = match.at
                                      /\ found[i].category = match.category}
        old  == CHOOSE i \in same : \A j \in same : i <= j
    IN  CASE same = {} -> Append(found, match)
          [] same # {} /\ Rank[match.confidence] > Rank[found[old].confidence] ->
                [found EXCEPT ![old] = match]
          [] OTHER -> found

(* The match of a rule at a node that starts at pos. *)
Match(rule, node, pos) == [
    rule_id    |-> rule,
    confidence |-> CATALOG[rule].confidence,
    category   |-> CATALOG[rule].category,
    at         |-> pos,
    function   |-> IF fn_stack = <<>> THEN None ELSE Last(fn_stack),
    span       |-> node]

Matches(rule, node, pos) == IF rule = None THEN {} ELSE {Match(rule, node, pos)}

RecordAny(found, rule, node, pos) ==
    IF rule = None THEN found ELSE record(found, Match(rule, node, pos))

(* Record what a node matches: at most two rules, in this order. *)
Report(rule, rule2, node, pos) ==
    /\ leaks' = RecordAny(RecordAny(leaks, rule, node, pos), rule2, node, pos)
    /\ seen' = seen \cup Matches(rule, node, pos) \cup Matches(rule2, node, pos)

-----------------------------------------------------------------------------
(* Hash containers, known by name.                                           *)

NoExpr == [wraps |-> <<>>, base |-> [kind |-> "none", segs |-> <<>>]]

ITER_METHODS ==
    {"iter", "iter_mut", "into_iter", "keys", "values", "values_mut", "drain"}
Stripped == {"&", "iter", "iter_mut", "into_iter"}

IsBase(e) == e.wraps = <<>>

(* HashMap::new() and the like, or a path that names the type. *)
HashCtor(base) == ToSet(base.segs) \cap {"HashMap", "HashSet"} # {}

expr_is_hash_ctor(e) == IsBase(e) /\ HashCtor(e.base)

IsLocal(base) == base.kind = "path" /\ Len(base.segs) = 1

(* strip_iter_wrappers, then is_map_var or expr_is_hash_ctor. *)
iter_base_is_hash(e) ==
    /\ ToSet(e.wraps) \subseteq Stripped
    /\ \/ IsLocal(e.base) /\ Head(e.base.segs) \in Last(map_vars)
       \/ HashCtor(e.base)

(* What it should say: the local was bound to a container in this function.  *)
IteratesHash(e) ==
    /\ ToSet(e.wraps) \subseteq Stripped
    /\ \/ IsLocal(e.base) /\ <<Last(scopes), Head(e.base.segs)>> \in hashLocals
       \/ HashCtor(e.base)

-----------------------------------------------------------------------------
Init ==
    /\ \E items \in SUBSET Items, renames \in Renames : ctx = FileCtx(items, renames)
    /\ fn_stack = <<>>
    /\ map_vars = <<{}>>
    /\ leaks = <<>>
    /\ expr = NoExpr
    /\ at = <<0, 1>>
    /\ scopes = <<0>>
    /\ hashLocals = {}
    /\ seen = {}
    /\ iterated = {}

(* The next line of the file begins, with expression e to visit. *)
NextLine(e) ==
    /\ expr = NoExpr
    /\ at[1] < MaxLines
    /\ at' = <<at[1] + 1, 1>>
    /\ expr' = e
    /\ UNCHANGED ctx

\* Mutation: a nested function shares the locals of the enclosing one.
VisitFnSharing(name) ==
    /\ NextLine(NoExpr)
    /\ fn_stack' = Append(fn_stack, name)
    /\ map_vars' = Append(map_vars, Last(map_vars))
    /\ scopes' = Append(scopes, at[1] + 1)
    /\ UNCHANGED <<leaks, hashLocals, seen, iterated>>

(* A function, a method, or a trait's provided method begins ...             *)
VisitFn(name) ==
    /\ NextLine(NoExpr)
    /\ fn_stack' = Append(fn_stack, name)
    /\ map_vars' = Append(map_vars, {})
    /\ scopes' = Append(scopes, at[1] + 1)
    /\ UNCHANGED <<leaks, hashLocals, seen, iterated>>

(* ... and ends. *)
LeaveFn ==
    /\ fn_stack # <<>>
    /\ NextLine(NoExpr)
    /\ fn_stack' = Front(fn_stack)
    /\ map_vars' = Front(map_vars)
    /\ scopes' = Front(scopes)
    /\ UNCHANGED <<leaks, hashLocals, seen, iterated>>

(* `let x = e;`, or with the type of x written as a hash container. *)
VisitLocal(x, typed, e) ==
    LET hash == typed \/ expr_is_hash_ctor(e)
    IN  /\ NextLine(e)
        /\ map_vars' = IF hash
                       THEN [map_vars EXCEPT ![Len(map_vars)] = @ \cup {x}]
                       ELSE map_vars
        /\ hashLocals' = IF hash
                         THEN hashLocals \cup {<<Last(scopes), x>>}
                         ELSE hashLocals
        /\ UNCHANGED <<fn_stack, leaks, scopes, seen, iterated>>

VisitStatement(e) ==
    /\ NextLine(e)
    /\ UNCHANGED <<leaks, seen, iterated, file>>

(* `for .. in e`: visit_expr_for_loop, with e at its own position next. *)
VisitForLoop(e) ==
    /\ NextLine(e)
    /\ Report(IF iter_base_is_hash(e) THEN "ITER_HASH" ELSE None, None, e, at')
    /\ iterated' = iterated \cup {[at |-> at', hash |-> IteratesHash(e)]}
    /\ UNCHANGED file

(* &e: what is borrowed starts one column further on. *)
VisitReference ==
    /\ ~IsBase(expr)
    /\ Head(expr.wraps) = "&"
    /\ expr' = [expr EXCEPT !.wraps = Tail(@)]
    /\ at' = <<at[1], at[2] + 1>>
    /\ UNCHANGED <<ctx, leaks, seen, iterated, file>>

(* e.m(..): the outer call first, then its receiver, where it starts. *)
VisitMethodCall ==
    /\ ~IsBase(expr)
    /\ Head(expr.wraps) # "&"
    /\ LET m         == Head(expr.wraps)
           receiver  == [expr EXCEPT !.wraps = Tail(@)]
           iterates  == m \in ITER_METHODS
           iter_rule == IF iterates /\ iter_base_is_hash(receiver) THEN "ITER_HASH" ELSE None
       IN  /\ Report(classify_method(m), iter_rule, expr, at)
           /\ iterated' = IF iterates
                          THEN iterated \cup {[at |-> at, hash |-> IteratesHash(receiver)]}
                          ELSE iterated
           /\ expr' = receiver
    /\ UNCHANGED <<ctx, at, file>>

(* p(..): the call, then the path it calls, as an expression. *)
VisitCall ==
    /\ IsBase(expr)
    /\ expr.base.kind = "call"
    /\ Report(classify_call(resolve(expr.base.segs)), None, expr, at)
    /\ expr' = [expr EXCEPT !.base.kind = "path"]
    /\ UNCHANGED <<ctx, at, iterated, file>>

VisitPath ==
    /\ IsBase(expr)
    /\ expr.base.kind = "path"
    /\ Report(classify_path(resolve(expr.base.segs)), None, expr, at)
    /\ expr' = NoExpr
    /\ UNCHANGED <<ctx, at, iterated, file>>

Next ==
    \/ \E name \in FnNames : VisitFn(name)
    \/ LeaveFn
    \/ \E x \in Idents, typed \in BOOLEAN, e \in Inits : VisitLocal(x, typed, e)
    \/ \E e \in Exprs : VisitStatement(e) \/ VisitForLoop(e)
    \/ VisitReference \/ VisitMethodCall \/ VisitCall \/ VisitPath

Spec == Init /\ [][Next]_vars

-----------------------------------------------------------------------------
TypeOK ==
    /\ Len(map_vars) = Len(fn_stack) + 1
    /\ fn_stack \in Seq(FnNames)
    /\ map_vars \in Seq(SUBSET Idents)
    /\ leaks \in Seq(seen)
    /\ at \in (0 .. MaxLines) \X Nat

(* Nested matches that start together, `rand::thread_rng().gen()`, are one   *)
(* finding, and never cost the gate severity: every match has the finding of *)
(* its position and category, that is one of the matches there, whole, and   *)
(* none of them is more severe, whichever of them the walk met first.        *)
StrongestMatch ==
    \A m \in seen :
        LET there == {i \in DOMAIN leaks : /\ leaks[i].at = m.at
                                           /\ leaks[i].category = m.category}
        IN  /\ Cardinality(there) = 1
            /\ \A i \in there : /\ leaks[i] \in seen
                                /\ Rank[leaks[i].confidence] >= Rank[m.confidence]

(* Iteration is reported exactly when it is over a hash container built on   *)
(* the spot or bound to the local earlier in the same function: a local of   *)
(* the same name in an enclosing, nested or finished function decides        *)
(* nothing, and a function that resumes after a nested one keeps its own.    *)
IterationExact ==
    \A p \in {i.at : i \in iterated} :
        [at |-> p, hash |-> TRUE] \in iterated
            <=> \E k \in DOMAIN leaks : leaks[k].at = p /\ leaks[k].rule_id = "ITER_HASH"

=============================================================================
