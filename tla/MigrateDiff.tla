------------------------------- MODULE MigrateDiff ------------------------------
(*****************************************************************************)
(* unified_diff() of `navian-dst migrate`                                    *)
(* (crates/navian-dst-cli/src/migrate.rs): the diff of a rewritten file is   *)
(* split into hunks in the format patch(1) reads.                            *)
(*****************************************************************************)
EXTENDS LineDiff, Integers, FiniteSets

CONSTANTS
    Texts,     \* what a file may be before and after, as lines
    CTX,       \* 3, the lines of context
    MaxCells   \* MAX_LCS_CELLS

(* What the constants are assumed to be: a text is a sequence of lines. *)
DiffAssumption ==
    /\ CTX \in Nat \ {0} /\ MaxCells \in Nat
    /\ \A t \in Texts : t \in Seq({t[n] : n \in DOMAIN t})

VARIABLES
    old, new,    \* the file before and after
    ops,         \* their diff
    i,           \* how far the hunks go
    first, end,  \* the hunk that is being extended, from its first change
    hunks,       \* those that are closed: the first and the last of its ops
    pc           \* "diff", "seek", "extend", "done" or "omitted"

vars == <<old, new, ops, i, first, end, hunks, pc>>

IsEqual(k) == ops[k][1] = "equal"

Init ==
    /\ old \in Texts /\ new \in Texts
    /\ ops = <<>> /\ i = 1 /\ first = 0 /\ end = 0 /\ hunks = <<>>
    /\ pc = "diff"

(* diff_ops, unless the table would be too large *)
Compute ==
    /\ pc = "diff"
    /\ IF old # new /\ Len(old) * Len(new) > MaxCells
       THEN ops' = ops /\ pc' = "omitted"
       ELSE ops' = Diff(old, new) /\ pc' = "seek"
    /\ UNCHANGED <<old, new, i, first, end, hunks>>

(* The next change opens a hunk. *)
Seek ==
    /\ pc = "seek"
    /\ LET changes == {k \in DOMAIN ops : k >= i /\ ~IsEqual(k)}
       IN  IF changes = {}
           THEN pc' = "done" /\ UNCHANGED <<first, end>>
           ELSE /\ first' = Min(changes)
                /\ end' = Min(changes)
                /\ pc' = "extend"
    /\ UNCHANGED <<old, new, ops, i, hunks>>

\* Mutation: the run has to be longer than one context.
FarApartOnce(run) == run > CTX

(* An equal run this long between two changes separates their hunks. *)
FarApart(run) == run > 2 * CTX

(* start of a hunk, and of the equal run at k the first op after it *)
Leading(k) == Max({1, k - CTX})
RunEnd(k)  == Min({m \in k .. Len(ops) + 1 : m = Len(ops) + 1 \/ ~IsEqual(m)})

Close(last) ==
    /\ hunks' = Append(hunks, <<Leading(first), last - 1>>)
    /\ i' = last
    /\ pc' = "seek"
    /\ UNCHANGED end

(* A change, or an equal run, goes on with the hunk or closes it. *)
Extend ==
    /\ pc = "extend"
    /\ IF end > Len(ops) THEN Close(end)
       ELSE IF ~IsEqual(end) THEN end' = end + 1 /\ UNCHANGED <<hunks, i, pc>>
       ELSE LET run == RunEnd(end) - end
            IN  IF RunEnd(end) > Len(ops) \/ FarApart(run)
                THEN Close(end + Min({run, CTX}))
                ELSE end' = RunEnd(end) /\ UNCHANGED <<hunks, i, pc>>
    /\ UNCHANGED <<old, new, ops, first>>

Next == Compute \/ Seek \/ Extend

Spec == Init /\ [][Next]_vars

-----------------------------------------------------------------------------
(* emit_hunk: the header of hunk h, counting lines from 1, and its body.  A  *)
(* side without lines starts at 0.                                           *)
Lines(from, to, op) == Cardinality({k \in from .. to : ops[k][1] \in {"equal", op}})

Start(h, op) ==
    IF Lines(h[1], h[2], op) = 0 THEN 0 ELSE Lines(1, h[1] - 1, op) + 1

Hunk(h) ==
    [a0 |-> Start(h, "del"), a |-> Lines(h[1], h[2], "del"),
     b0 |-> Start(h, "ins"), b |-> Lines(h[1], h[2], "ins"),
     body |-> SubSeq(ops, h[1], h[2])]

Patch == [n \in DOMAIN hunks |-> Hunk(hunks[n])]

(* What patch(1) makes of it: a hunk has to come after the one before it, to *)
(* match the old text, and to end up on the line its header says.  Hunk h,   *)
(* with everything before line s.at of the old text in s.out.                *)
ApplyHunk(s, h) ==
    LET from == IF h.a = 0 THEN h.a0 + 1 ELSE h.a0
        done == s.out \o SubSeq(old, s.at, from - 1)
        fits == /\ s.fits
                /\ from >= s.at
                /\ SubSeq(old, from, from + h.a - 1) = Taken(h.body, "del")
                /\ Len(Taken(h.body, "ins")) = h.b
                /\ h.b > 0 => h.b0 = Len(done) + 1
    IN  IF fits THEN [fits |-> TRUE, at |-> from + h.a, out |-> done \o Taken(h.body, "ins")]
                ELSE [s EXCEPT !.fits = FALSE]

Apply(patch) ==
    LET after[n \in 0 .. Len(patch)] ==
            IF n = 0 THEN [fits |-> TRUE, at |-> 1, out |-> <<>>]
                     ELSE ApplyHunk(after[n - 1], patch[n])
        rest == after[Len(patch)]
    IN  [fits |-> rest.fits, text |-> rest.out \o SubSeq(old, rest.at, Len(old))]

(* "A git-style unified diff": applied to the old file it gives the new one, *)
(* and there is none only for two that are the same.                         *)
PatchGivesNew ==
    pc = "done" =>
        /\ Apply(Patch) = [fits |-> TRUE, text |-> new]
        /\ hunks = <<>> <=> old = new
=============================================================================
