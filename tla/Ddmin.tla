--------------------------------- MODULE Ddmin ---------------------------------
(*****************************************************************************)
(* ddmin() of navian-dst (crates/navian-dst/src/shrink.rs), one predicate    *)
(* evaluation at a time, on an input of N distinct elements.                 *)
(*                                                                           *)
(* The caller's predicate reproduces() is deterministic but unknown: its     *)
(* answers are chosen when they are first asked for and remembered in yes    *)
(* and no, so that every predicate for which the whole input fails is        *)
(* covered.                                                                  *)
(*****************************************************************************)
EXTENDS Integers, Sequences

CONSTANT N  \* the length of the input

ASSUME InputAssumption == N \in Nat

VARIABLES
    yes,          \* the inputs that are known to reproduce the failure
    no,           \* the inputs that are known not to
    current,      \* the failing input reached so far
    granularity,
    start,        \* where the chunk to try next starts, from 0
    pc,           \* "empty", "chunk", "complement" or "done"
    evals         \* history: how often the predicate was evaluated

vars == <<yes, no, current, granularity, start, pc, evals>>

-----------------------------------------------------------------------------
Input == [k \in 1 .. N |-> k]

Least(a, b)   == IF a < b THEN a ELSE b
DivCeil(a, b) == (a + b - 1) \div b

ChunkSize == DivCeil(Len(current), granularity)
ChunkEnd  == Least(start + ChunkSize, Len(current))

(* current[s..e] and its complement, for the chunk that starts at start. *)
Chunk      == SubSeq(current, start + 1, ChunkEnd)
Complement == SubSeq(current, 1, start)
                \o SubSeq(current, ChunkEnd + 1, Len(current))

(* The history of evaluations is counted up to one more than what the        *)
(* documented O(n^2) is taken to mean.                                       *)
MaxEvals == N * N + 3 * N
CountEvaluation == evals' = IF evals > MaxEvals THEN evals ELSE evals + 1

\* Mutation: the sense of the answer is inverted.
ReproducesNot(x, b) ==
    /\ CountEvaluation
    /\ IF b THEN x \notin yes /\ no' = no \cup {x} /\ yes' = yes
            ELSE x \notin no /\ yes' = yes \cup {x} /\ no' = no

(* The predicate answers b for x, as it always has and always will. *)
Reproduces(x, b) ==
    /\ CountEvaluation
    /\ IF b THEN x \notin no /\ yes' = yes \cup {x} /\ no' = no
            ELSE x \notin yes /\ no' = no \cup {x} /\ yes' = yes

\* Mutation: while current.len() > 2.
LoopHeadLate(c) == IF Len(c) > 2 THEN "chunk" ELSE "done"

(* The condition of the while loop decides what follows. *)
LoopHead(c) == IF Len(c) >= 2 THEN "chunk" ELSE "done"

Init ==
    /\ yes = {Input}
    /\ no = {}
    /\ current = Input
    /\ granularity = 2
    /\ start = 0
    /\ pc = "empty"
    /\ evals = 0

(* A failure that needs nothing at all is its own minimal input. *)
EmptyReproduces ==
    /\ pc = "empty"
    /\ Reproduces(<<>>, TRUE)
    /\ current' = <<>>
    /\ pc' = "done"
    /\ UNCHANGED <<granularity, start>>

EmptyPasses ==
    /\ pc = "empty"
    /\ Reproduces(<<>>, FALSE)
    /\ pc' = LoopHead(current)
    /\ UNCHANGED <<current, granularity, start>>

(* 1. Does a single chunk reproduce on its own? *)
ChunkReproduces ==
    /\ pc = "chunk"
    /\ start < Len(current)
    /\ Reproduces(Chunk, TRUE)
    /\ current' = Chunk
    /\ granularity' = 2
    /\ start' = 0
    /\ pc' = LoopHead(Chunk)

ChunkPasses ==
    /\ pc = "chunk"
    /\ start < Len(current)
    /\ Reproduces(Chunk, FALSE)
    /\ start' = start + ChunkSize
    /\ UNCHANGED <<current, granularity, pc>>

ChunksExhausted ==
    /\ pc = "chunk"
    /\ start >= Len(current)
    /\ pc' = "complement"
    /\ start' = 0
    /\ UNCHANGED <<yes, no, current, granularity, evals>>

(* 2. Otherwise, does removing a single chunk?  The empty complement is not  *)
(* evaluated.  (With granularity 2 the complements are the chunks that have  *)
(* just been seen to pass, so the maximum with 2 is never what decides.)     *)
ComplementReproduces ==
    /\ pc = "complement"
    /\ start < Len(current)
    /\ Complement # <<>>
    /\ Reproduces(Complement, TRUE)
    /\ current' = Complement
    /\ granularity' = IF granularity - 1 > 2 THEN granularity - 1 ELSE 2
    /\ start' = 0
    /\ pc' = LoopHead(Complement)

ComplementPasses ==
    /\ pc = "complement"
    /\ start < Len(current)
    /\ IF Complement # <<>>
       THEN Reproduces(Complement, FALSE)
       ELSE UNCHANGED <<yes, no, evals>>
    /\ start' = start + ChunkSize
    /\ UNCHANGED <<current, granularity, pc>>

\* Mutation: the granularity does not grow.
RefineNot ==
    /\ pc = "complement"
    /\ start >= Len(current)
    /\ granularity < Len(current)
    /\ start' = 0
    /\ pc' = "chunk"
    /\ UNCHANGED <<yes, no, current, granularity, evals>>

(* 3. Neither worked: refine the granularity, or stop when it cannot grow. *)
Refine ==
    /\ pc = "complement"
    /\ start >= Len(current)
    /\ granularity < Len(current)
    /\ granularity' = Least(granularity * 2, Len(current))
    /\ start' = 0
    /\ pc' = "chunk"
    /\ UNCHANGED <<yes, no, current, evals>>

Stop ==
    /\ pc = "complement"
    /\ start >= Len(current)
    /\ granularity >= Len(current)
    /\ pc' = "done"
    /\ UNCHANGED <<yes, no, current, granularity, start, evals>>

Next ==
    \/ EmptyReproduces \/ EmptyPasses
    \/ ChunkReproduces \/ ChunkPasses \/ ChunksExhausted
    \/ ComplementReproduces \/ ComplementPasses
    \/ Refine \/ Stop

Spec     == Init /\ [][Next]_vars
(* The function runs until it returns; the predicate always returns. *)
FairSpec == Spec /\ WF_vars(Next)

-----------------------------------------------------------------------------
(* Properties: the contract of the doc comment.                              *)

TypeOK ==
    /\ yes \in SUBSET Seq(1 .. N)
    /\ no \in SUBSET Seq(1 .. N)
    /\ current \in Seq(1 .. N)
    /\ granularity \in Nat \ {0, 1}
    /\ start \in Nat
    /\ pc \in {"empty", "chunk", "complement", "done"}
    /\ evals \in Nat

(* c without its element number k + 1. *)
Without(c, k) == SubSeq(c, 1, k) \o SubSeq(c, k + 2, Len(c))

(* "Still reproduces": what is returned, and every input reached on the way, *)
(* has been seen to fail.                                                    *)
StillReproduces == current \in yes

(* "1-minimal": when ddmin returns, it has seen every removal of a single    *)
(* element pass; granularity resets, the loop's exit at length 1 and the     *)
(* empty complement that is never tried do not leave one out.                *)
OneMinimal ==
    pc = "done" => \A k \in 0 .. (Len(current) - 1) : Without(current, k) \in no

(* "Preserves input order": the result is a subsequence of the input. *)
OrderPreserved ==
    \A i, j \in DOMAIN current : i < j => current[i] < current[j]
=============================================================================
