------------------------------- MODULE Annotations ------------------------------
(*****************************************************************************)
(* emit_github() of `navian-dst scan --format github`                        *)
(* (crates/navian-dst-cli/src/main.rs): one workflow command a finding, on a *)
(* line of its own,                                                          *)
(*   ::level file=..,line=..,col=..,title=..::message                        *)
(* where "%", CR and LF are escaped, and "," and ":" in file and title.      *)
(* A text is the sequence of its characters, "%" as "percent" and so on.     *)
(*****************************************************************************)
EXTENDS Naturals, SequencesExt

CONSTANTS
    Files,      \* the names of files
    Snippets,   \* what findings may quote
    Levels,     \* error, warning, notice
    MaxLeaks    \* bound: the findings of a report

(* What the constants are assumed to be. *)
AnnotationsAssumption ==
    /\ MaxLeaks \in Nat
    /\ Levels \cap {"colon", "LF"} = {}
    /\ \A text \in Files \cup Snippets : text \in Seq({text[n] : n \in DOMAIN text})

VARIABLES
    leaks,    \* the findings: the report in the order it is printed
    stdout    \* what has been printed, character by character

vars == <<leaks, stdout>>

-----------------------------------------------------------------------------
(* str::replace of one character *)
Replace(s, c, by) == FlattenSeq([i \in DOMAIN s |-> IF s[i] = c THEN by ELSE <<s[i]>>])

\* Mutation: % comes last.
gh_escape_percent_last(s) ==
    Replace(Replace(Replace(s, "CR", <<"percent", "0", "D">>), "LF", <<"percent", "0", "A">>),
            "percent", <<"percent", "2", "5">>)

gh_escape_data(s) ==
    Replace(Replace(Replace(s, "percent", <<"percent", "2", "5">>),
                    "CR", <<"percent", "0", "D">>), "LF", <<"percent", "0", "A">>)

gh_escape_prop(s) ==
    Replace(Replace(gh_escape_data(s), "comma", <<"percent", "2", "C">>),
            "colon", <<"percent", "3", "A">>)

(* The words of a command, each as one character: what is in front of the    *)
(* file's name, between it and the message ("line" and "title" left out).    *)
Command(l) ==
    <<"colon", "colon", l.level, "space", "file">> \o gh_escape_prop(l.file)
        \o <<"colon", "colon">> \o gh_escape_data(l.snippet) \o <<"LF">>

Init == leaks = <<>> /\ stdout = <<>>

Emit(l) ==
    /\ Len(leaks) < MaxLeaks
    /\ leaks' = Append(leaks, l)
    /\ stdout' = stdout \o Command(l)

Next == \E l \in [level : Levels, file : Files, snippet : Snippets] : Emit(l)

Spec == Init /\ [][Next]_vars

-----------------------------------------------------------------------------
(* What the runner reads: a line that starts with ::, its properties up to   *)
(* the next :: and its message up to the end of the line, with what is       *)
(* escaped put back.                                                         *)
Escaped == [chars |-> {<<"2", "5">>, <<"0", "D">>, <<"0", "A">>},
            props |-> {<<"2", "C">>, <<"3", "A">>}]
Char(code) ==
    CASE code = <<"2", "5">> -> "percent" [] code = <<"0", "D">> -> "CR"
      [] code = <<"0", "A">> -> "LF" [] code = <<"2", "C">> -> "comma" [] OTHER -> "colon"

Unescape(s, codes) ==
    LET from[k \in 1 .. Len(s) + 2] ==
            IF k > Len(s) THEN <<>>
            ELSE IF k + 2 <= Len(s) /\ s[k] = "percent" /\ SubSeq(s, k + 1, k + 2) \in codes
                 THEN <<Char(SubSeq(s, k + 1, k + 2))>> \o from[k + 3]
                 ELSE <<s[k]>> \o from[k + 1]
    IN  from[1]

Least(S) == CHOOSE k \in S : \A m \in S : k <= m
First(s, c) == Least({k \in DOMAIN s : s[k] = c} \cup {Len(s) + 1})
Ends(s)     == Least({k \in DOMAIN s : /\ k > 2 /\ k < Len(s)
                                       /\ s[k] = "colon" /\ s[k + 1] = "colon"}
                        \cup {Len(s) + 1})

ReadLine(s) ==
    LET props == SubSeq(s, 6, Ends(s) - 1)
    IN  [level   |-> s[3],
         file    |-> Unescape(SubSeq(props, 1, First(props, "comma") - 1),
                              Escaped.chars \cup Escaped.props),
         snippet |-> Unescape(SubSeq(s, Ends(s) + 2, Len(s)), Escaped.chars)]

Read(s) ==
    LET from[k \in 1 .. Len(s) + 2] ==
            IF k > Len(s) THEN <<>>
            ELSE LET rest == SubSeq(s, k, Len(s))
                     line == SubSeq(rest, 1, First(rest, "LF") - 1)
                 IN  (IF Len(line) >= 5 /\ SubSeq(line, 1, 2) = <<"colon", "colon">>
                      THEN <<ReadLine(line)>> ELSE <<>>)
                        \o from[k + First(rest, "LF")]
    IN  from[1]

(* The runner reads the very findings of the report, with the text of each:  *)
(* neither a name nor a snippet ends its field or its line, or reads as an   *)
(* escape that was not one.                                                  *)
OneAnnotationEach == Read(stdout) = leaks
=============================================================================
