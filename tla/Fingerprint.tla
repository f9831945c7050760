------------------------------- MODULE Fingerprint ------------------------------
(*****************************************************************************)
(* The identity of a finding (crates/navian-dst-cli/src/scanner.rs,          *)
(* snippet_from_span and fingerprint), which the baseline and SARIF know it  *)
(* by while developers move and reformat the code.  The digest is taken for  *)
(* the text it is computed from.                                             *)
(*                                                                           *)
(* Text is a sequence of characters.  A finding is a call, as tokens with    *)
(* gaps between them, on a line where other text is in front of it.          *)
(*****************************************************************************)
EXTENDS Naturals, SequencesExt

CONSTANTS
    Calls,    \* what is called: sequences of tokens, each a character
    Rules,    \* the rules' ids
    Fns,      \* the names of functions, and <<>> outside of any
    Fronts,   \* what may be in front of a call on its line
    CAP       \* 80, the characters of a snippet

(* What the constants are assumed to be.  No id and no name, both written in *)
(* the language's identifiers, contains the separator.                       *)
FingerprintAssumption ==
    /\ CAP \in Nat \ {0}
    /\ \A call \in Calls : call # <<>> /\ call \in Seq(Range(call))
    /\ \A name \in Rules \cup Fns : name \in Seq(Range(name)) /\ "US" \notin Range(name)

VARIABLES
    leak   \* two findings: [rule, function, call, front, gaps]

vars == <<leak>>

Gaps == {<<>>, <<" ">>, <<" ", " ">>, <<"LF">>}

-----------------------------------------------------------------------------
(* The text of the line the call begins on, and whether it ends there. *)
OnOneLine(l) == \A k \in DOMAIN l.gaps : l.gaps[k] # <<"LF">>
FirstGap(l)  == CHOOSE k \in 1 .. Len(l.call) :
                    /\ \A m \in 1 .. k - 1 : l.gaps[m] # <<"LF">>
                    /\ k = Len(l.call) \/ l.gaps[k] = <<"LF">>

FirstLine(l) ==
    <<l.call[1]>> \o
        FlattenSeq([k \in 1 .. FirstGap(l) - 1 |-> Append(l.gaps[k], l.call[k + 1])])

Capped(text) == IF Len(text) > CAP THEN Append(SubSeq(text, 1, CAP - 1), "...") ELSE text

\* Mutation: the whole line.
snippet_of_line(l) ==
    Capped(l.front \o (IF OnOneLine(l) THEN FirstLine(l) ELSE FirstLine(l) \o <<" ", "...">>))

snippet_from_span(l) ==
    Capped(IF OnOneLine(l) THEN FirstLine(l) ELSE FirstLine(l) \o <<" ", "...">>)

(* split_whitespace().join(" "), of a text that is trimmed *)
Normalized(text) ==
    FlattenSeq([k \in DOMAIN text |->
        IF k > 1 /\ text[k] = " " /\ text[k - 1] = " " THEN <<>> ELSE <<text[k]>>])

composed(l) ==
    l.rule \o <<"US">> \o l.function \o <<"US">> \o Normalized(snippet_from_span(l))

fingerprint(l) == composed(l)

-----------------------------------------------------------------------------
Findings(call) ==
    [rule : Rules, function : Fns, call : {call}, front : {<<>>},
     gaps : {[k \in 1 .. Len(call) - 1 |-> <<>>]}]

Init == leak \in [1 .. 2 -> UNION {Findings(call) : call \in Calls}]

(* The call is indented, or what is in front of it changes. *)
Move(n, front) == leak' = [leak EXCEPT ![n].front = front]

(* The space between two of its tokens changes. *)
Reformat(n, k, gap) == leak' = [leak EXCEPT ![n].gaps[k] = gap]

Next ==
    \E n \in 1 .. 2 :
        \/ \E front \in Fronts : Move(n, front)
        \/ \E k \in DOMAIN leak[n].gaps, gap \in Gaps : Reformat(n, k, gap)

Spec == Init /\ [][Next]_vars

-----------------------------------------------------------------------------
(* Two findings have one fingerprint only if rule, function and snippet are  *)
(* the same: "field boundaries can never be forged by adjacent content".     *)
FieldsApart ==
    fingerprint(leak[1]) = fingerprint(leak[2]) =>
        /\ leak[1].rule = leak[2].rule
        /\ leak[1].function = leak[2].function
        /\ Normalized(snippet_from_span(leak[1])) = Normalized(snippet_from_span(leak[2]))

(* Indentation, what is in front of the call, and how wide a space in it is  *)
(* do not change its identity, while it is short and breaks its lines where  *)
(* it did.                                                                   *)
Wide(gap) == IF gap \in {<<>>, <<"LF">>} THEN gap ELSE <<" ">>
Fits(l)   == Len(snippet_from_span(l)) < CAP

MovesKeepIdentity ==
    [][\A n \in 1 .. 2 :
        /\ leak'[n] # leak[n]
        /\ \A k \in DOMAIN leak[n].gaps : Wide(leak'[n].gaps[k]) = Wide(leak[n].gaps[k])
        /\ Fits(leak[n]) /\ Fits(leak'[n])
        => fingerprint(leak'[n]) = fingerprint(leak[n])]_vars
=============================================================================
