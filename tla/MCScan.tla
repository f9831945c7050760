-------------------------------- MODULE MCScan --------------------------------
(*****************************************************************************)
(* Model-checking instance of `scan` and the gates: the findings in a file,  *)
(* the identity of a finding, the annotations of a report, the byte scan in  *)
(* front of the parser, and the commands a CI job gates on.  A stage knows   *)
(* the ones before it by their results, so the five are checked side by      *)
(* side, each with the others at rest.                                       *)
(*****************************************************************************)
EXTENDS Scanner, TLC

CONSTANTS
    high, low, src, target,
    NFiles, Dirs, Skipped, dir, Prints, Confidence, Contents, MaxLeaks, MaxMacroDepth,
    Calls, Rules, Fns, Fronts, CAP,
    Paths, Snippets, Levels,
    MAX_NESTING_DEPTH, MaxBrackets

VARIABLES
    part,   \* "file", "identity", "report", "brackets" or "gate"
    leak, printed, stdout,
    depth, exceeds, nested, deepest, opened, closed, brackets,
    tree, torn, locked, store, last, accepted

F == INSTANCE Fingerprint
A == INSTANCE Annotations WITH leaks <- printed, Files <- Paths
N == INSTANCE NestingDepth
G == INSTANCE Gates

ASSUME StagesAssumption ==
    /\ F!FingerprintAssumption /\ A!AnnotationsAssumption
    /\ N!NestingAssumption /\ G!GatesAssumption

fvars == <<leak>>
avars == <<printed, stdout>>
nvars == <<depth, exceeds, nested, deepest, opened, closed, brackets>>
gvars == <<tree, torn, locked, store, last, accepted>>

-----------------------------------------------------------------------------
(* A file: names and expressions.                                            *)
Path(segs)     == [wraps |-> <<>>, base |-> [kind |-> "path", segs |-> segs]]
Call(segs)     == [wraps |-> <<>>, base |-> [kind |-> "call", segs |-> segs]]
Wrap(ws, e)    == [e EXCEPT !.wraps = ws \o @]

SomeItems   == {[kind |-> "mod", name |-> "rand"], [kind |-> "struct", name |-> "Instant"]}
SomeRenames == {<<>>,
                <<[alias |-> "Clock", path |-> <<"mock", "Instant">>],
                  [alias |-> "Clock", path |-> <<"std", "time", "Instant">>]>>}

SomeInits == {Call(<<"HashMap", "new">>), Call(<<"Vec", "new">>)}
SomeExprs ==
    {Wrap(<<"&">>, Path(<<"m">>)),
     Wrap(<<"keys", "iter">>, Path(<<"m">>)),
     Wrap(<<"gen">>, Call(<<"rand", "thread_rng">>)),
     Wrap(<<"gen_range", "gen">>, Call(<<"rand", "random">>)),
     Call(<<"Clock", "now">>),
     Path(<<"Ordering", "Relaxed">>)}

-----------------------------------------------------------------------------
(* Findings: calls of up to three tokens, and ids and names that share their *)
(* characters.                                                               *)
MCCalls  == {<<"a">>, <<"f", "a">>, <<"f", "a", "b">>}
MCRules  == {<<"r">>, <<"r", "f">>}
MCFns    == {<<>>, <<"f">>}
MCFronts == {<<>>, <<" ", " ">>, <<"x", "=">>}

-----------------------------------------------------------------------------
(* A report: names and quotes, two of which look like an escape.  A snippet  *)
(* comes from one line of the source, a name from the file system.           *)
FileNames == UNION {[1 .. n -> {"a", "percent", "colon", "comma", "LF"}] : n \in 1 .. 2}
Quotes == UNION {[1 .. n -> {"percent", "CR", "colon"}] : n \in 0 .. 1}
            \cup {<<"percent", "2", "5">>, <<"colon", "colon">>, <<"percent", "0", "A">>}

-----------------------------------------------------------------------------
(* A tree: what its files may contain, and where they are.                   *)
MCDir        == <<src, src, target>>
MCConfidence == high :> 3 @@ low :> 1

Code(prints) == [leaks |-> prints, signals |-> {}, waived |-> FALSE]
Test(signals) == [leaks |-> <<>>, signals |-> signals, waived |-> FALSE]

Codes ==
    {Code(<<>>), Code(<<high>>), Code(<<low, high>>), Code(<<high, high>>)}

Tests ==
    {Test({<<"marker", 0>>}),
     Test({<<"marker", 0>>, <<"assert", 1>>}),
     Test({<<"marker", 0>>, <<"empty engine", 0>>}),
     Test({<<"local marker", 0>>, <<"marker", 1>>}),
     Test({<<"marker", 0>>, <<"check", 2>>}),
     [Test({<<"marker", 0>>, <<"check of one", 0>>}) EXCEPT !.waived = TRUE]}

MCContents == <<Codes, {Code(<<>>), Code(<<high>>)} \cup Tests, {Code(<<high>>)}>>

-----------------------------------------------------------------------------
FileAtRest     == ctx = FileCtx({}, <<>>)
IdentityAtRest == leak = [n \in 1 .. 2 |-> CHOOSE l \in F!Findings(<<"a">>) : TRUE]
GateAtRest     == tree = <<Code(<<>>), Code(<<>>), Code(<<high>>)>>

MCInit ==
    /\ part \in {"file", "identity", "report", "brackets", "gate"}
    /\ IF part = "file" THEN Init ELSE Init /\ FileAtRest
    /\ IF part = "identity" THEN F!Init ELSE F!Init /\ IdentityAtRest
    /\ IF part = "gate" THEN G!Init ELSE G!Init /\ GateAtRest
    /\ A!Init /\ N!Init

MCNext ==
    \/ part = "file" /\ Next /\ UNCHANGED <<part, fvars, avars, nvars, gvars>>
    \/ part = "identity" /\ F!Next /\ UNCHANGED <<part, vars, avars, nvars, gvars>>
    \/ part = "report" /\ A!Next /\ UNCHANGED <<part, vars, fvars, nvars, gvars>>
    \/ part = "brackets" /\ N!Next /\ UNCHANGED <<part, vars, fvars, avars, gvars>>
    \/ part = "gate" /\ G!Next /\ UNCHANGED <<part, vars, fvars, avars, nvars>>

MCSpec == MCInit /\ [][MCNext]_<<part, vars, fvars, avars, nvars, gvars>>

-----------------------------------------------------------------------------
(* The findings in a file: the strongest match at each place, and iteration  *)
(* over just the hash containers.                                            *)
FindingsExact == TypeOK /\ StrongestMatch /\ IterationExact

(* The identity of a finding: kept when its code moves, and not shared.      *)
IdentityIsStable == F!MovesKeepIdentity /\ []F!FieldsApart

(* The annotations are the findings.                                         *)
OneAnnotationEach == A!OneAnnotationEach

(* The gate of `scan` denies exactly what is new.                            *)
DeniesExactlyNew == G!TypeOK /\ G!DeniesExactlyNew

(* The gate of `invariants` is green only over a tree that asserts, and the  *)
(* line that either gate prints is its exit code.                            *)
GreenInvariantsAssert == G!GreenInvariantsAssert /\ G!GateLineIsTheExitCode

(* The scan of the brackets is wrong by those in strings and comments only.  *)
WrongByTextOnly == N!WrongByTextOnly

(* What main.rs says of the gate of `scan`, and the code does not do.        *)
GreenMeansSeen == G!GreenMeansSeen
=============================================================================
