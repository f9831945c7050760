------------------------------- MODULE MCHarness -------------------------------
(*****************************************************************************)
(* Model-checking instance of three harnesses that hold a run against what   *)
(* it promises: the race of stale_cache_race.rs, which evaluates its         *)
(* invariants when the run is over; the counter of the engine's own tests,   *)
(* which evaluates them after every step; and the retrying clients of        *)
(* hello_retry.rs over a faulty link.  With them `review`, which finds the   *)
(* invariants of a harness in its source.  They share no state, so each      *)
(* behaviour is one of the four, with the others at rest.                    *)
(*****************************************************************************)
EXTENDS StaleCacheRace

CONSTANTS
    MaxValue, MaxSteps,
    Callers, Limits, MaxFaults, MaxResets,
    NFiles, Exprs, Predicates, Common, MaxMacroDepth, MaxLines, MaxMacros, MaxBoth

VARIABLES
    part,   \* the one that runs: "race", "counter", "link" or "review"
    order, call, step, value, cap, last, prev, reported,
    schedule, max_attempts, sends, cpc, attempt, mine, clear, resets, failures,
    files, file, local, set_stack, next_id, out, walk, macros, opened, source

R == INSTANCE InvariantRun
N == INSTANCE SimulatedNetwork WITH pc <- cpc, step <- sends, MaxSteps <- MaxFaults
V == INSTANCE Review WITH pc <- walk

ASSUME LinkAssumption   == N!NetworkAssumption
ASSUME ReviewAssumption == V!ReviewAssumption /\ Common \subseteq Predicates

counter == <<order, call, step, value, cap, last, prev, reported>>
link    == <<schedule, max_attempts, sends, cpc, attempt, mine, clear, resets, failures>>
review  == <<files, file, local, set_stack, next_id, out, walk, macros, opened, source>>

-----------------------------------------------------------------------------
(* Expressions: every operand, alone, under either operator, in a block and  *)
(* in parentheses.  The last of the simple ones are statements, and stand in *)
(* a block with a value, as in { assert!(w.ok); w.a > 0 }.                   *)
Row(kind, args) == [kind |-> kind, args |-> args]

Leaves == <<"true", "false", "const", "reads", "unwraps", "divides", "matches",
            "inline", "guard", "asserts">>
Statements == {9, 10}
Operands   == <<1, 2, 3, 4, 5, 6, 7, 8, 11, 12, 13, 14>>

\* A macro that a semicolon follows.
AsStatement(e) == IF e \in {7, 8} THEN 10 ELSE e

Table ==
    LET Over(row(_)) == [n \in 1 .. 12 |-> row(Operands[n])]
    IN  [n \in 1 .. 10 |-> Row(Leaves[n], <<>>)]
        \o <<Row("block", <<9, 1>>), Row("block", <<9, 2>>)>>
        \o <<Row("block", <<10, 1>>), Row("block", <<10, 4>>)>>
        \o Over(LAMBDA e : Row("or", <<e, 1>>))
        \o Over(LAMBDA e : Row("or", <<e, 4>>))
        \o Over(LAMBDA e : Row("and", <<e, 1>>))
        \o Over(LAMBDA e : Row("block", <<AsStatement(e), 1>>))
        \o [n \in 1 .. 12 |-> Row("paren", <<14 + n>>)]
        \o [n \in 1 .. 12 |-> Row("block", <<62 + n>>)]

On(param, e) == [param |-> param, body |-> e]

AllPredicates ==
    {On("ident", e) : e \in (1 .. 86) \ Statements}
    \cup {On(p, e) : p \in {"nothing", "wild"}, e \in {1, 3}}
    \cup {On("other", 3)}

TwoPredicates == {On("ident", 4), On("ident", 1)}

(* The bound on what `review` reads: any predicate stands alone; and many    *)
(* invariants have few macros, and the common predicates; in a file with a   *)
(* type Invariant of its own they are one less.                              *)
Some == IF source = <<>> /\ opened = 0 THEN Predicates ELSE Common

Narrow ==
    \/ Len(source) = 1 /\ opened = 0
    \/ /\ Len(source) + opened <= IF local THEN MaxBoth - 1 ELSE MaxBoth
       /\ \A l \in DOMAIN source : source[l].pred \in Common

-----------------------------------------------------------------------------
RaceRests    == variant = "Correct" /\ reader_lead = 0 /\ reader_gap = 1 /\ writer_lead = 0
CounterRests == call = "check" /\ order[1] = "under_cap"
LinkRests    == schedule = <<>> /\ max_attempts = CHOOSE n \in Limits : TRUE

MCInit ==
    /\ Init
    /\ R!Init
    /\ N!Init
    /\ V!Init
    /\ part \in {"race", "counter", "link", "review"}
    /\ part = "race" \/ RaceRests
    /\ part = "counter" \/ CounterRests
    /\ part = "link" \/ LinkRests

MCNext ==
    \/ part = "race" /\ Next /\ UNCHANGED <<part, counter, link, review>>
    \/ part = "counter" /\ R!Next /\ UNCHANGED <<part, vars, link, review>>
    \/ part = "link" /\ N!Next /\ UNCHANGED <<part, vars, counter, review>>
    \/ part = "review" /\ V!NextOf(Some) /\ Narrow' /\ UNCHANGED <<part, vars, counter, link>>

(* The harness need not rewind, but a call that a client has begun goes on. *)
InLink(A) == part = "link" /\ A

MCSpec ==
    /\ MCInit
    /\ [][MCNext]_<<part, vars, counter, link, review>>
    /\ \A c \in Callers : WF_link(InLink(N!Send(c) \/ N!Outcome(c)))

-----------------------------------------------------------------------------
(* check() reports the first step that broke anything, check_all() all that  *)
(* every step broke, although one predicate has a memory: see InvariantRun.  *)
ReportsAreExact == R!FirstViolationExact /\ R!AllIsExact

(* Only check(), only after a violation, and only a predicate declared       *)
(* second, can let that memory lag behind the world.                         *)
OnlyTheSecondLags == R!OnlyTheSecondLags

(* A fault of the schedule hits at most one send each time it is played; a   *)
(* client returns Ok exactly if its link was ever clear; and its call ends,  *)
(* and gets through if it outlasts the schedule: see SimulatedNetwork.       *)
FaultsHitOnce == N!FaultsHitOnce
ClearMeansOk  == N!ClearMeansOk
EveryoneGetsThrough == part = "link" => N!EveryoneGetsThrough

(* What `review` flags as a tautology holds in every state, macros or not:   *)
(* see Review.                                                               *)
NoMacroIsPure == V!NoMacroIsPure

(* `review` reports exactly the invariants there are, one time each; its     *)
(* flags are right; and duplicates are those of one set: see Review.         *)
ReviewExact == V!ExtractsExactly /\ V!FlagsAreSound /\ V!DuplicatesExact
=============================================================================
