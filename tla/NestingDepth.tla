------------------------------ MODULE NestingDepth ------------------------------
(*****************************************************************************)
(* exceeds_nesting_depth (crates/navian-dst-cli/src/presence.rs), the scan   *)
(* of the bytes of a file that keeps what is nested too deep from syn.  The  *)
(* source is met one bracket at a time: one of the code, or one in a string  *)
(* or a comment, which the scan cannot tell apart.                           *)
(*****************************************************************************)
EXTENDS Integers

CONSTANTS
    MAX_NESTING_DEPTH,
    MaxBrackets         \* bound: the brackets of the file

(* What the constants are assumed to be. *)
NestingAssumption == MAX_NESTING_DEPTH \in Nat /\ MaxBrackets \in Nat

VARIABLES
    depth,      \* the scan's count
    exceeds,    \* it has returned true
    nested,     \* the brackets of the code that are open here
    deepest,    \* the most that have been open at one place so far
    opened,     \* brackets in text so far: opening ones
    closed,     \* and closing ones
    brackets    \* all brackets so far, for their bound

source == <<nested, deepest, opened, closed, brackets>>
vars   == <<depth, exceeds, source>>

-----------------------------------------------------------------------------
Init ==
    /\ depth = 0 /\ exceeds = FALSE
    /\ nested = 0 /\ deepest = 0 /\ opened = 0 /\ closed = 0 /\ brackets = 0

\* Mutation: the limit itself is too deep.
TooDeepEarly(d) == d >= MAX_NESTING_DEPTH
TooDeep(d)      == d > MAX_NESTING_DEPTH

Counted ==
    /\ ~exceeds
    /\ depth' = depth + 1
    /\ exceeds' = TooDeep(depth + 1)

(* saturating_sub *)
Uncounted ==
    /\ ~exceeds
    /\ depth' = IF depth = 0 THEN 0 ELSE depth - 1
    /\ UNCHANGED exceeds

Bracket == brackets < MaxBrackets /\ brackets' = brackets + 1

Open ==
    /\ Counted /\ Bracket
    /\ nested' = nested + 1
    /\ deepest' = IF nested < deepest THEN deepest ELSE nested + 1
    /\ UNCHANGED <<opened, closed>>

Close ==
    /\ Uncounted /\ Bracket
    /\ nested > 0
    /\ nested' = nested - 1
    /\ UNCHANGED <<deepest, opened, closed>>

OpenInText ==
    /\ Counted /\ Bracket
    /\ opened' = opened + 1
    /\ UNCHANGED <<nested, deepest, closed>>

CloseInText ==
    /\ Uncounted /\ Bracket
    /\ closed' = closed + 1
    /\ UNCHANGED <<nested, deepest, opened>>

Next == Open \/ Close \/ OpenInText \/ CloseInText

Spec == Init /\ [][Next]_vars

-----------------------------------------------------------------------------
(* What the scan decides is wrong at most by the brackets in text: it        *)
(* rejects no file whose nesting, with the opening ones, is within the       *)
(* limit, and lets none pass whose nesting, without as many levels as there  *)
(* are closing ones, is beyond it.  In code without such text it is exact.   *)
WrongByTextOnly ==
    IF exceeds THEN deepest + opened > MAX_NESTING_DEPTH
               ELSE deepest - closed <= MAX_NESTING_DEPTH
=============================================================================
