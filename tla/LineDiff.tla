-------------------------------- MODULE LineDiff --------------------------------
(*****************************************************************************)
(* The line diff that `check` prints of two outputs and `migrate` of a file  *)
(* (crates/navian-dst-cli/src: check.rs unified_diff, migrate.rs diff_ops):  *)
(* both walk the same table of longest common subsequences.  A diff is a     *)
(* sequence of lines, each marked "equal", "del" or "ins".                   *)
(*****************************************************************************)
EXTENDS Naturals, Sequences, FiniteSetsExt

(* dp, lcs: dp[<<i, j>>] is the length of a longest common subsequence of    *)
(* what a is from i and b from j. *)
Cells(a, b) == (1 .. Len(a) + 1) \X (1 .. Len(b) + 1)

Lcs(a, b) ==
    LET dp[c \in Cells(a, b)] ==
            LET i == c[1]
                j == c[2]
            IN  IF i > Len(a) \/ j > Len(b) THEN 0
                ELSE IF a[i] = b[j] THEN dp[<<i + 1, j + 1>>] + 1
                ELSE Max({dp[<<i + 1, j>>], dp[<<i, j + 1>>]})
    IN  dp

Prefixed(op, ls) == [i \in DOMAIN ls |-> <<op, ls[i]>>]

(* The walk through the table. *)
Diff(a, b) ==
    LET dp == Lcs(a, b)
        walk[c \in Cells(a, b)] ==
            LET i == c[1]
                j == c[2]
            IN  IF i > Len(a) \/ j > Len(b)
                THEN Prefixed("del", SubSeq(a, i, Len(a)))
                         \o Prefixed("ins", SubSeq(b, j, Len(b)))
                ELSE IF a[i] = b[j] THEN <<<<"equal", a[i]>>>> \o walk[<<i + 1, j + 1>>]
                ELSE IF dp[<<i + 1, j>>] >= dp[<<i, j + 1>>]
                     THEN <<<<"del", a[i]>>>> \o walk[<<i + 1, j>>]
                     ELSE <<<<"ins", b[j]>>>> \o walk[<<i, j + 1>>]
    IN  walk[<<1, 1>>]

(* What the steps of a diff take of the old text ("del") or of the new one   *)
(* ("ins"), as patch(1) reads them.                                          *)
Taken(body, op) ==
    LET taken[n \in 0 .. Len(body)] ==
            IF n = 0 THEN <<>>
            ELSE IF body[n][1] \in {"equal", op} THEN Append(taken[n - 1], body[n][2])
            ELSE taken[n - 1]
    IN  taken[Len(body)]

(* The pairs of lines that a common subsequence may match. *)
Alignments(a, b) ==
    {M \in SUBSET {p \in (DOMAIN a) \X (DOMAIN b) : a[p[1]] = b[p[2]]} :
        \A p, q \in M : p # q => (p[1] < q[1] /\ p[2] < q[2]) \/ (p[1] > q[1] /\ p[2] > q[2])}
=================================================================================
