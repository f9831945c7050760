----------------------------- MODULE LineDiffProofs -----------------------------
(*****************************************************************************)
(* What the diff of `check` and of `migrate` is, for any two texts.          *)
(*****************************************************************************)
EXTENDS LineDiff, Integers, FiniteSetTheorems, SequenceTheorems, WellFoundedInduction, TLAPS

LEMMA Least ==
    ASSUME NEW S \in SUBSET Nat, S # {}
    PROVE  Min(S) \in S /\ \A n \in S : Min(S) <= n
<1>1. PICK m \in S : \A n \in S : ~(<<n, m>> \in OpToRel(<, Nat))
  BY NatLessThanWellFounded, WFMin, Zenon
<1>2. ASSUME NEW n \in Nat, NEW k \in Nat, n < k PROVE <<n, k>> \in OpToRel(<, Nat)
  <2>1. <<n, k>> \in Nat \X Nat /\ <<n, k>>[1] = n /\ <<n, k>>[2] = k
    OBVIOUS
  <2> QED
    BY <1>2, <2>1, Zenon DEF OpToRel
<1>3. ASSUME NEW n \in S PROVE ~(n < m)
  BY <1>1, <1>2, Zenon
<1>4. \A n \in S : m <= n
  BY <1>3
<1> QED
  BY <1>4 DEF Min

-----------------------------------------------------------------------------
(* A table that is filled from its last cell to its first.                   *)

Down(c)  == <<c[1] + 1, c[2]>>
Right(c) == <<c[1], c[2] + 1>>
Diag(c)  == <<c[1] + 1, c[2] + 1>>

Fills(f, cells, n, m, base, fill) ==
    \A c \in cells :
        f[c] = IF c[1] > n \/ c[2] > m THEN base[c]
               ELSE fill[<<c, <<f[Diag(c)], f[Down(c)], f[Right(c)]>>>>]

Grid(n, m) == (1 .. n + 1) \X (1 .. m + 1)

LEMMA Tabled ==
    ASSUME NEW n \in Nat, NEW m \in Nat, NEW S,
           NEW base \in [Grid(n, m) -> S],
           NEW fill \in [((1 .. n) \X (1 .. m)) \X (S \X S \X S) -> S]
    PROVE  \E f \in [Grid(n, m) -> S] : Fills(f, Grid(n, m), n, m, base, fill)
<1> DEFINE Later(k) == {c \in Grid(n, m) : c[1] + c[2] + k > n + m + 2}
           Filled(k) == \E f \in [Later(k) -> S] : Fills(f, Later(k), n, m, base, fill)
           empty    == {k \in Nat : ~Filled(k)}
<1>g. \A c \in Grid(n, m) : c[1] \in 1 .. n + 1 /\ c[2] \in 1 .. m + 1 /\ c = <<c[1], c[2]>>
  BY DEF Grid
<1>1. empty = {}
  <2> SUFFICES ASSUME empty # {} PROVE FALSE
    OBVIOUS
  <2>1. PICK k \in empty : \A h \in empty : k <= h
    <3>1. empty \in SUBSET Nat
      OBVIOUS
    <3> QED
      BY <3>1, Least
  <2>2. k \in Nat /\ ~Filled(k)
    BY <2>1
  <2>3. CASE k = 0
    <3>1. Later(0) = {}
      BY <1>g
    <3>2. [c \in Later(0) |-> base[c]] \in [Later(0) -> S]
      BY <3>1
    <3>3. Fills([c \in Later(0) |-> base[c]], Later(0), n, m, base, fill)
      BY <3>1 DEF Fills
    <3> QED
      BY <2>2, <2>3, <3>2, <3>3
  <2>4. CASE k # 0
    <3>1. Filled(k - 1)
      <4>1. k - 1 \in Nat /\ k - 1 \notin empty
        <5> HIDE DEF empty
        <5> QED BY <2>1, <2>2, <2>4
      <4> QED BY <4>1
    <3>2. PICK f \in [Later(k - 1) -> S] : Fills(f, Later(k - 1), n, m, base, fill)
      BY <3>1
    <3> DEFINE value(c) == IF c[1] > n \/ c[2] > m THEN base[c]
                           ELSE fill[<<c, <<f[Diag(c)], f[Down(c)], f[Right(c)]>>>>]
               g == [c \in Later(k) |-> IF c \in Later(k - 1) THEN f[c] ELSE value(c)]
    <3>3. \A c \in Later(k) : c \in Grid(n, m)
      OBVIOUS
    <3>4. ASSUME NEW c \in Later(k), ~(c[1] > n \/ c[2] > m)
          PROVE  /\ Diag(c) \in Later(k - 1) /\ Down(c) \in Later(k - 1)
                 /\ Right(c) \in Later(k - 1) /\ c \in (1 .. n) \X (1 .. m)
      <4>1. c[1] \in 1 .. n /\ c[2] \in 1 .. m /\ c = <<c[1], c[2]>>
        BY <1>g, <3>4
      <4>2. /\ Diag(c)[1] = c[1] + 1 /\ Diag(c)[2] = c[2] + 1
            /\ Down(c)[1] = c[1] + 1 /\ Down(c)[2] = c[2]
            /\ Right(c)[1] = c[1] /\ Right(c)[2] = c[2] + 1
        BY DEF Diag, Down, Right
      <4>3. Diag(c) \in Grid(n, m) /\ Down(c) \in Grid(n, m) /\ Right(c) \in Grid(n, m)
        BY <4>1 DEF Diag, Down, Right, Grid
      <4>4. c[1] + c[2] + k > n + m + 2
        OBVIOUS
      <4>5. c \in (1 .. n) \X (1 .. m)
        BY <4>1
      <4> QED
        BY <2>2, <4>1, <4>2, <4>3, <4>4, <4>5
    <3>5. \A c \in Later(k - 1) : c \in Later(k)
      BY <1>g, <2>2
    <3>6. \A c \in Later(k) : value(c) \in S
      <4> TAKE c \in Later(k)
      <4>1. CASE c[1] > n \/ c[2] > m
        BY <3>3, <4>1
      <4>2. CASE ~(c[1] > n \/ c[2] > m)
        <5>1. f[Diag(c)] \in S /\ f[Down(c)] \in S /\ f[Right(c)] \in S
          BY <3>2, <3>4, <4>2
        <5>2. fill[<<c, <<f[Diag(c)], f[Down(c)], f[Right(c)]>>>>] \in S
          BY <3>4, <4>2, <5>1
        <5> QED BY <4>2, <5>2
      <4> QED BY <4>1, <4>2
    <3>7. g \in [Later(k) -> S]
      <4> HIDE DEF Later, value
      <4> QED BY <3>2, <3>6
    <3>8. \A c \in Later(k - 1) : g[c] = f[c]
      <4> HIDE DEF Later, value
      <4> QED BY <3>5
    <3>9. ASSUME NEW c \in Later(k)
          PROVE  g[c] = IF c[1] > n \/ c[2] > m THEN base[c]
                        ELSE fill[<<c, <<g[Diag(c)], g[Down(c)], g[Right(c)]>>>>]
      <4>1. g[c] = value(c)
        <5>1. c \in Later(k - 1) => f[c] = value(c)
          <6> HIDE DEF Later
          <6> QED BY <3>2 DEF Fills
        <5> HIDE DEF Later, value
        <5> QED BY <5>1
      <4>2. CASE c[1] > n \/ c[2] > m
        BY <4>1, <4>2
      <4>3. CASE ~(c[1] > n \/ c[2] > m)
        <5>1. g[Diag(c)] = f[Diag(c)] /\ g[Down(c)] = f[Down(c)] /\ g[Right(c)] = f[Right(c)]
          BY <3>4, <3>8, <4>3, Zenon
        <5> HIDE DEF g
        <5> QED BY <4>1, <4>3, <5>1
      <4> QED BY <4>2, <4>3
    <3>10. Filled(k)
      <4> HIDE DEF g, Later, value
      <4> QED BY <3>7, <3>9 DEF Fills
    <3> QED
      BY <2>2, <3>10
  <2> QED
    BY <2>3, <2>4
<1>2. Filled(n + m + 2)
  <2> HIDE DEF Filled
  <2> QED BY <1>1
<1>3. Later(n + m + 2) = Grid(n, m)
  BY <1>g
<1> QED
  BY <1>2, <1>3
-----------------------------------------------------------------------------
(* The walk through the table of a diff.                                     *)

Put(op, line, w) == <<<<op, line>>>> \o w
Ends(a, b, u, v) == Prefixed("del", SubSeq(a, u, Len(a))) \o Prefixed("ins", SubSeq(b, v, Len(b)))
Steps(L)     == {"equal", "del", "ins"} \X L

WalkAt(a, b, dp, f, c) ==
    IF c[1] > Len(a) \/ c[2] > Len(b) THEN Ends(a, b, c[1], c[2])
    ELSE IF a[c[1]] = b[c[2]] THEN Put("equal", a[c[1]], f[Diag(c)])
    ELSE IF dp[Down(c)] >= dp[Right(c)] THEN Put("del", a[c[1]], f[Down(c)])
    ELSE Put("ins", b[c[2]], f[Right(c)])

Walks(a, b, dp, f) == \A c \in Cells(a, b) : f[c] = WalkAt(a, b, dp, f, c)

LEMMA ArrayIsSeq ==
    ASSUME NEW T, NEW n \in Nat, NEW g \in [1 .. n -> T]
    PROVE  g \in Seq(T) /\ Len(g) = n
<1>1. g = [k \in 1 .. n |-> g[k]] /\ \A k \in 1 .. n : g[k] \in T
  OBVIOUS
<1>2. [k \in 1 .. n |-> g[k]] \in Seq(T) /\ Len([k \in 1 .. n |-> g[k]]) = n
  BY <1>1
<1> QED
  BY <1>1, <1>2

LEMMA PutIs ==
    ASSUME NEW T, NEW op, NEW line, <<op, line>> \in T, NEW w \in Seq(T)
    PROVE  /\ Put(op, line, w) \in Seq(T)
           /\ Len(Put(op, line, w)) = Len(w) + 1
           /\ Put(op, line, w)[1] = <<op, line>>
           /\ \A k \in 1 .. Len(w) : Put(op, line, w)[k + 1] = w[k]
<1>1. <<<<op, line>>>> \in Seq(T) /\ Len(<<<<op, line>>>>) = 1
  OBVIOUS
<1>2. Put(op, line, w) \in Seq(T) /\ Len(Put(op, line, w)) = Len(w) + 1
  BY <1>1 DEF Put
<1>3. Put(op, line, w)[1] = <<op, line>>
  BY <1>1 DEF Put
<1>4. \A k \in 1 .. Len(w) : Put(op, line, w)[k + 1] = w[k]
  BY <1>1 DEF Put
<1> QED
  BY <1>2, <1>3, <1>4

LEMMA PrefixedIs ==
    ASSUME NEW L, NEW s \in Seq(L), NEW op \in {"equal", "del", "ins"}
    PROVE  /\ Prefixed(op, s) \in Seq(Steps(L))
           /\ Len(Prefixed(op, s)) = Len(s)
           /\ \A k \in 1 .. Len(s) : Prefixed(op, s)[k] = <<op, s[k]>>
<1>1. Len(s) \in Nat /\ DOMAIN s = 1 .. Len(s) /\ \A k \in 1 .. Len(s) : s[k] \in L
  BY LenProperties, ElementOfSeq
<1>2. Prefixed(op, s) = [k \in 1 .. Len(s) |-> <<op, s[k]>>]
  BY <1>1 DEF Prefixed
<1>3. \A k \in 1 .. Len(s) : <<op, s[k]>> \in Steps(L)
  BY <1>1 DEF Steps
<1>4. Prefixed(op, s) \in [1 .. Len(s) -> Steps(L)]
  BY <1>2, <1>3
<1>5. Prefixed(op, s) \in Seq(Steps(L)) /\ Len(Prefixed(op, s)) = Len(s)
  BY <1>1, <1>4, ArrayIsSeq
<1> QED
  BY <1>2, <1>5

(* What is left when one side is used up. *)
LEMMA EndsAre ==
    ASSUME NEW L, NEW a \in Seq(L), NEW b \in Seq(L),
           NEW u \in 1 .. Len(a) + 1, NEW v \in 1 .. Len(b) + 1
    PROVE  /\ Ends(a, b, u, v) \in Seq(Steps(L))
           /\ u > Len(a) => Ends(a, b, u, v) = Prefixed("ins", SubSeq(b, v, Len(b)))
           /\ v > Len(b) => Ends(a, b, u, v) = Prefixed("del", SubSeq(a, u, Len(a)))
<1> DEFINE s == SubSeq(a, u, Len(a))
           t == SubSeq(b, v, Len(b))
<1>1. Len(a) \in Nat /\ Len(b) \in Nat
  OBVIOUS
<1>2. s \in Seq(L) /\ t \in Seq(L)
  BY <1>1
<1>3. (u > Len(a) => Len(s) = 0) /\ (v > Len(b) => Len(t) = 0)
  BY <1>1
<1> HIDE DEF s, t
<1>4. /\ Prefixed("del", s) \in Seq(Steps(L)) /\ Len(Prefixed("del", s)) = Len(s)
      /\ Prefixed("ins", t) \in Seq(Steps(L)) /\ Len(Prefixed("ins", t)) = Len(t)
  BY <1>2, PrefixedIs
<1> DEFINE p == Prefixed("del", s)
           q == Prefixed("ins", t)
<1>5. Ends(a, b, u, v) = p \o q
  BY Zenon DEF Ends, s, t
<1> HIDE DEF p, q
<1>6. p \in Seq(Steps(L)) /\ q \in Seq(Steps(L)) /\ Len(p) = Len(s) /\ Len(q) = Len(t)
  BY <1>4 DEF p, q
<1>7. p \o q \in Seq(Steps(L))
  BY <1>6
<1>8. (Len(p) = 0 => p \o q = q) /\ (Len(q) = 0 => p \o q = p)
  BY <1>6, SMTT(20)
<1> QED
  BY <1>3, <1>5, <1>6, <1>7, <1>8 DEF p, q, s, t

LEMMA DiffWalks ==
    ASSUME NEW L, NEW a \in Seq(L), NEW b \in Seq(L)
    PROVE  \E f : Walks(a, b, Lcs(a, b), f) /\ Diff(a, b) = f[<<1, 1>>]
<1> DEFINE dp == Lcs(a, b)
           n == Len(a)
           m == Len(b)
           T == Seq(Steps(L))
           base == [c \in Grid(n, m) |-> Ends(a, b, c[1], c[2])]
           next1(x) == IF a[x[1][1]] = b[x[1][2]] THEN Put("equal", a[x[1][1]], x[2][1])
                       ELSE IF dp[Down(x[1])] >= dp[Right(x[1])]
                            THEN Put("del", a[x[1][1]], x[2][2])
                            ELSE Put("ins", b[x[1][2]], x[2][3])
           fill == [x \in ((1 .. n) \X (1 .. m)) \X (T \X T \X T) |-> next1(x)]
           Is(g) == g = [c \in Cells(a, b) |-> WalkAt(a, b, dp, g, c)]
<1>1. n \in Nat /\ m \in Nat
  OBVIOUS
<1>2. Cells(a, b) = Grid(n, m)
  BY Zenon DEF Cells, Grid
<1>3. Diff(a, b) = (CHOOSE g : Is(g))[<<1, 1>>]
  BY Zenon DEF Diff, WalkAt, Put, Ends, Diag, Down, Right
<1> HIDE DEF dp
<1>4. base \in [Grid(n, m) -> T]
  <2>1. \A c \in Grid(n, m) : c[1] \in 1 .. n + 1 /\ c[2] \in 1 .. m + 1
    BY DEF Grid
  <2> QED BY <2>1, EndsAre
<1>5. ASSUME NEW x \in ((1 .. n) \X (1 .. m)) \X (T \X T \X T) PROVE next1(x) \in T
  <2>1. x[1][1] \in 1 .. n /\ x[1][2] \in 1 .. m /\ x[2][1] \in T /\ x[2][2] \in T /\ x[2][3] \in T
    OBVIOUS
  <2>2. a[x[1][1]] \in L /\ b[x[1][2]] \in L
    BY <2>1
  <2>3. \A op \in {"equal", "del", "ins"}, l \in L, w \in T : Put(op, l, w) \in T
    BY PutIs DEF Steps
  <2> QED BY <2>1, <2>2, <2>3
<1>6. fill \in [((1 .. n) \X (1 .. m)) \X (T \X T \X T) -> T]
  BY <1>5
<1>7. PICK f \in [Grid(n, m) -> T] : Fills(f, Grid(n, m), n, m, base, fill)
  <2> HIDE DEF base, fill, T, n, m
  <2> QED BY <1>1, <1>4, <1>6, Tabled
<1>8. ASSUME NEW c \in Grid(n, m) PROVE f[c] = WalkAt(a, b, dp, f, c)
  <2>1. f[c] = IF c[1] > n \/ c[2] > m THEN base[c]
               ELSE fill[<<c, <<f[Diag(c)], f[Down(c)], f[Right(c)]>>>>]
    BY <1>7, Zenon DEF Fills
  <2>2. CASE c[1] > n \/ c[2] > m
    <3>1. base[c] = Ends(a, b, c[1], c[2])
      OBVIOUS
    <3> QED BY <2>1, <2>2, <3>1 DEF WalkAt
  <2>3. CASE ~(c[1] > n \/ c[2] > m)
    <3>1. c[1] \in 1 .. n /\ c[2] \in 1 .. m /\ c = <<c[1], c[2]>>
      BY <1>1, <2>3 DEF Grid
    <3>2. Diag(c) \in Grid(n, m) /\ Down(c) \in Grid(n, m) /\ Right(c) \in Grid(n, m)
      BY <1>1, <3>1 DEF Diag, Down, Right, Grid
    <3> DEFINE x == <<c, <<f[Diag(c)], f[Down(c)], f[Right(c)]>>>>
    <3>3. f[Diag(c)] \in T /\ f[Down(c)] \in T /\ f[Right(c)] \in T
      <4> HIDE DEF T, n, m
      <4> QED BY <1>7, <3>2
    <3>4. c \in (1 .. n) \X (1 .. m)
      BY <3>1
    <3>5. x \in ((1 .. n) \X (1 .. m)) \X (T \X T \X T)
      <4> HIDE DEF T, n, m
      <4> QED BY <3>3, <3>4
    <3>6. fill[x] = next1(x)
      <4> HIDE DEF T, n, m, x, next1
      <4> QED BY <3>5
    <3>7. x[1] = c /\ x[2][1] = f[Diag(c)] /\ x[2][2] = f[Down(c)] /\ x[2][3] = f[Right(c)]
      OBVIOUS
    <3> HIDE DEF x
    <3>8. next1(x) = WalkAt(a, b, dp, f, c)
      BY <2>3, <3>7, Zenon DEF WalkAt
    <3> QED BY <2>1, <2>3, <3>6, <3>8 DEF x
  <2> QED BY <2>2, <2>3
<1>9. Is(f)
  <2> HIDE DEF T, n, m
  <2>1. f = [c \in Grid(n, m) |-> WalkAt(a, b, dp, f, c)]
    BY <1>7, <1>8
  <2> QED BY <1>2, <2>1
<1>10. PICK g : g = (CHOOSE h : Is(h)) /\ Is(g)
  <2> HIDE DEF Is
  <2> QED BY <1>9
<1>11. Walks(a, b, dp, g)
  BY <1>10 DEF Walks
<1> QED
  BY <1>3, <1>10, <1>11 DEF dp
-----------------------------------------------------------------------------
(* What a diff of two texts is.                                              *)

(* A step of a diff takes the line of t it is at, unless it is one of the    *)
(* other side.                                                               *)
Takes(e, op, t, here, after) ==
    IF e[1] \in {"equal", op}
    THEN here \in 1 .. Len(t) /\ e[2] = t[here] /\ after = here + 1
    ELSE after = here

(* Step k of w is at line p[k] of t. *)
Traces(p, w, op, t, from) ==
    /\ p \in [1 .. Len(w) + 1 -> Nat]
    /\ p[1] = from /\ p[Len(w) + 1] = Len(t) + 1
    /\ \A k \in 1 .. Len(w) : Takes(w[k], op, t, p[k], p[k + 1])

Traced(w, op, t, from) == \E p : Traces(p, w, op, t, from)

(* Of the steps of w from k on, r[k] keep their line. *)
Ticks(r, w, n) ==
    /\ r \in [1 .. Len(w) + 1 -> Nat]
    /\ r[1] = n /\ r[Len(w) + 1] = 0
    /\ \A k \in 1 .. Len(w) : r[k] = IF w[k][1] = "equal" THEN r[k + 1] + 1 ELSE r[k + 1]

Ticked(w, n) == \E r : Ticks(r, w, n)

AllKept(w) == \A k \in 1 .. Len(w) : w[k][1] = "equal"

(* A script from line u of a and line v of b that keeps n lines, and all if  *)
(* there is nothing to change.                                               *)
Script(w, L, a, u, b, v, n) ==
    /\ w \in Seq(Steps(L))
    /\ Traced(w, "del", a, u) /\ Traced(w, "ins", b, v)
    /\ Ticked(w, n)
    /\ a = b /\ u = v => AllKept(w)

LEMMA PutTicked ==
    ASSUME NEW L, NEW w \in Seq(Steps(L)), NEW o \in {"equal", "del", "ins"}, NEW line \in L,
           NEW n \in Nat, Ticked(w, n)
    PROVE  Ticked(Put(o, line, w), IF o = "equal" THEN n + 1 ELSE n)
<1> DEFINE v == Put(o, line, w)
           total == IF o = "equal" THEN n + 1 ELSE n
<1>1. PICK p : Ticks(p, w, n)
  BY DEF Ticked
<1>0. <<o, line>> \in Steps(L)
  BY DEF Steps
<1>2. /\ v \in Seq(Steps(L)) /\ Len(v) = Len(w) + 1 /\ v[1] = <<o, line>>
      /\ \A k \in 1 .. Len(w) : v[k + 1] = w[k]
      /\ Len(w) \in Nat
  BY <1>0, PutIs, LenProperties
<1> HIDE DEF v
<1> DEFINE r == [k \in 1 .. Len(w) + 2 |-> IF k = 1 THEN total ELSE p[k - 1]]
<1>3. r[1] = total /\ \A k \in 1 .. Len(w) + 1 : r[k + 1] = p[k]
  BY <1>2
<1>4. r \in [1 .. Len(v) + 1 -> Nat]
  <2>1. \A k \in 1 .. Len(w) + 1 : p[k] \in Nat
    BY <1>1 DEF Ticks
  <2>2. \A k \in 2 .. Len(w) + 2 : k - 1 \in 1 .. Len(w) + 1
    BY <1>2
  <2> QED BY <1>2, <2>1, <2>2
<1> HIDE DEF r
<1>5. r[Len(v) + 1] = 0
  BY <1>1, <1>2, <1>3 DEF Ticks
<1>6. ASSUME NEW k \in 1 .. Len(v)
      PROVE  r[k] = IF v[k][1] = "equal" THEN r[k + 1] + 1 ELSE r[k + 1]
  <2>1. CASE k = 1
    <3>1. r[1 + 1] = n
      BY <1>1, <1>2, <1>3 DEF Ticks
    <3>2. r[1] = IF v[1][1] = "equal" THEN r[1 + 1] + 1 ELSE r[1 + 1]
      BY <1>2, <1>3, <3>1
    <3> QED BY <2>1, <3>2
  <2>2. CASE k # 1
    <3> DEFINE h == k - 1
    <3>1. h \in 1 .. Len(w) /\ h + 1 = k
      BY <1>2, <2>2
    <3> HIDE DEF h
    <3>2. h \in 1 .. Len(w) + 1 /\ h + 1 \in 1 .. Len(w) + 1
      BY <1>2, <3>1
    <3>3. r[h + 1] = p[h] /\ r[h + 1 + 1] = p[h + 1] /\ v[h + 1] = w[h]
      BY <1>2, <1>3, <3>1, <3>2
    <3>4. p[h] = IF w[h][1] = "equal" THEN p[h + 1] + 1 ELSE p[h + 1]
      BY <1>1, <3>1 DEF Ticks
    <3>5. r[h + 1] = IF v[h + 1][1] = "equal" THEN r[h + 1 + 1] + 1 ELSE r[h + 1 + 1]
      BY <3>3, <3>4
    <3> QED BY <3>1, <3>5
  <2> QED BY <2>1, <2>2
<1>7. Ticks(r, v, total)
  BY <1>3, <1>4, <1>5, <1>6 DEF Ticks
<1> QED
  BY <1>7 DEF Ticked, v

LEMMA PutTraced ==
    ASSUME NEW L, NEW w \in Seq(Steps(L)), NEW t, Len(t) \in Nat,
           NEW o \in {"equal", "del", "ins"}, NEW line \in L, NEW op, NEW from \in Nat,
           NEW later \in Nat,
           Traced(w, op, t, later), Takes(<<o, line>>, op, t, from, later)
    PROVE  Traced(Put(o, line, w), op, t, from)
<1> DEFINE v == Put(o, line, w)
<1>1. PICK p : Traces(p, w, op, t, later)
  BY DEF Traced
<1>0. <<o, line>> \in Steps(L)
  BY DEF Steps
<1>2. /\ v \in Seq(Steps(L)) /\ Len(v) = Len(w) + 1 /\ v[1] = <<o, line>>
      /\ \A k \in 1 .. Len(w) : v[k + 1] = w[k]
      /\ Len(w) \in Nat
  BY <1>0, PutIs, LenProperties
<1> HIDE DEF v
<1> DEFINE r == [k \in 1 .. Len(w) + 2 |-> IF k = 1 THEN from ELSE p[k - 1]]
<1>3. r[1] = from /\ \A k \in 1 .. Len(w) + 1 : r[k + 1] = p[k]
  BY <1>2
<1>4. r \in [1 .. Len(v) + 1 -> Nat]
  <2>1. \A k \in 1 .. Len(w) + 1 : p[k] \in Nat
    BY <1>1 DEF Traces
  <2>2. \A k \in 2 .. Len(w) + 2 : k - 1 \in 1 .. Len(w) + 1
    BY <1>2
  <2> QED BY <1>2, <2>1, <2>2
<1> HIDE DEF r
<1>5. r[Len(v) + 1] = Len(t) + 1
  BY <1>1, <1>2, <1>3 DEF Traces
<1>6. ASSUME NEW k \in 1 .. Len(v)
      PROVE  Takes(v[k], op, t, r[k], r[k + 1])
  <2>1. CASE k = 1
    <3>1. r[1 + 1] = later
      BY <1>1, <1>2, <1>3 DEF Traces
    <3>2. Takes(v[1], op, t, r[1], r[1 + 1])
      BY <1>2, <1>3, <3>1
    <3> QED BY <2>1, <3>2
  <2>2. CASE k # 1
    <3> DEFINE h == k - 1
    <3>1. h \in 1 .. Len(w) /\ h + 1 = k
      BY <1>2, <2>2
    <3> HIDE DEF h
    <3>2. h \in 1 .. Len(w) + 1 /\ h + 1 \in 1 .. Len(w) + 1
      BY <1>2, <3>1
    <3>3. r[h + 1] = p[h] /\ r[h + 1 + 1] = p[h + 1] /\ v[h + 1] = w[h]
      BY <1>2, <1>3, <3>1, <3>2
    <3>4. Takes(w[h], op, t, p[h], p[h + 1])
      BY <1>1, <3>1 DEF Traces
    <3>5. Takes(v[h + 1], op, t, r[h + 1], r[h + 1 + 1])
      BY <3>3, <3>4
    <3> QED BY <3>1, <3>5
  <2> QED BY <2>1, <2>2
<1>7. Traces(r, v, op, t, from)
  BY <1>3, <1>4, <1>5, <1>6 DEF Traces
<1> QED
  BY <1>7 DEF Traced, v

(* The rest of one side, of which nothing is kept. *)
LEMMA RestTraced ==
    ASSUME NEW L, NEW t \in Seq(L), NEW s \in Seq(L), NEW op, NEW o,
           op \in {"del", "ins"}, o \in {"del", "ins"}, op # o,
           NEW from \in 1 .. Len(t) + 1
    PROVE  /\ Traced(Prefixed(op, SubSeq(t, from, Len(t))), op, t, from)
           /\ Traced(Prefixed(op, SubSeq(t, from, Len(t))), o, s, Len(s) + 1)
           /\ Ticked(Prefixed(op, SubSeq(t, from, Len(t))), 0)
<1> DEFINE rest == SubSeq(t, from, Len(t))
           w == Prefixed(op, rest)
<1>1. Len(t) \in Nat /\ Len(s) \in Nat
  OBVIOUS
<1>2. rest \in Seq(L) /\ Len(rest) = Len(t) - from + 1
         /\ \A k \in 1 .. Len(rest) : rest[k] = t[from + k - 1]
  BY <1>1, SubSeqProperties, ElementOfSeq
<1> HIDE DEF rest
<1>3. Len(w) = Len(rest) /\ \A k \in 1 .. Len(rest) : w[k] = <<op, rest[k]>>
  BY <1>2, PrefixedIs
<1> HIDE DEF w
<1> DEFINE p == [k \in 1 .. Len(w) + 1 |-> from + k - 1]
           q == [k \in 1 .. Len(w) + 1 |-> Len(s) + 1]
<1>4. Traces(p, w, op, t, from)
  <2>1. p \in [1 .. Len(w) + 1 -> Nat] /\ p[1] = from /\ p[Len(w) + 1] = Len(t) + 1
    BY <1>1, <1>2, <1>3
  <2>2. ASSUME NEW k \in 1 .. Len(w)
        PROVE  p[k] \in 1 .. Len(t) /\ w[k][2] = t[p[k]] /\ p[k + 1] = p[k] + 1
    BY <1>1, <1>2, <1>3
  <2>3. \A k \in 1 .. Len(w) : w[k][1] = op
    BY <1>3
  <2> QED BY <2>1, <2>2, <2>3 DEF Traces, Takes
<1>5. Traces(q, w, o, s, Len(s) + 1)
  <2>1. q \in [1 .. Len(w) + 1 -> Nat] /\ q[1] = Len(s) + 1 /\ q[Len(w) + 1] = Len(s) + 1
    BY <1>1, <1>2, <1>3
  <2>2. \A k \in 1 .. Len(w) : w[k][1] = op /\ q[k + 1] = q[k]
    BY <1>1, <1>2, <1>3
  <2> QED BY <2>1, <2>2 DEF Traces, Takes
<1>6. Ticks([k \in 1 .. Len(w) + 1 |-> 0], w, 0)
  <2>1. \A k \in 1 .. Len(w) : w[k][1] = op
    BY <1>3
  <2> QED BY <1>1, <1>2, <1>3, <2>1, SMTT(20) DEF Ticks
<1> QED
  BY <1>4, <1>5, <1>6 DEF Traced, Ticked, w, rest

(* The table. *)
Tables(a, b, dp) ==
    /\ dp \in [Cells(a, b) -> Nat]
    /\ \A c \in Cells(a, b) :
          dp[c] = IF c[1] > Len(a) \/ c[2] > Len(b) THEN 0
                  ELSE IF a[c[1]] = b[c[2]] THEN dp[Diag(c)] + 1
                  ELSE IF dp[Down(c)] >= dp[Right(c)] THEN dp[Down(c)] ELSE dp[Right(c)]

LEMMA LargerIs ==
    ASSUME NEW j \in Nat, NEW k \in Nat
    PROVE  Max({j, k}) = IF j >= k THEN j ELSE k
<1> DEFINE S == {j, k}
           most == IF j >= k THEN j ELSE k
<1>1. Max(S) = CHOOSE z \in S : \A y \in S : z >= y
  BY Zenon DEF Max
<1>2. most \in S /\ (\A y \in S : most >= y)
  OBVIOUS
<1>3. \A z \in S : (\A y \in S : z >= y) => z = most
  BY <1>2
<1> HIDE DEF S, most
<1>4. Max(S) = most
  BY <1>1, <1>2, <1>3
<1> QED
  BY <1>4 DEF S, most

LEMMA LcsTables ==
    ASSUME NEW L, NEW a \in Seq(L), NEW b \in Seq(L)
    PROVE  Tables(a, b, Lcs(a, b))
<1> DEFINE n == Len(a)
           m == Len(b)
           base == [c \in Grid(n, m) |-> 0]
           cell(x) == IF a[x[1][1]] = b[x[1][2]] THEN x[2][1] + 1
                      ELSE IF x[2][2] >= x[2][3] THEN x[2][2] ELSE x[2][3]
           fill == [x \in ((1 .. n) \X (1 .. m)) \X (Nat \X Nat \X Nat) |-> cell(x)]
           at1(g, c) == IF c[1] > Len(a) \/ c[2] > Len(b) THEN 0
                        ELSE IF a[c[1]] = b[c[2]] THEN g[Diag(c)] + 1
                        ELSE Max({g[Down(c)], g[Right(c)]})
           Is(g) == g = [c \in Cells(a, b) |-> at1(g, c)]
<1>1. n \in Nat /\ m \in Nat
  OBVIOUS
<1>2. Cells(a, b) = Grid(n, m)
  BY Zenon DEF Cells, Grid
<1>3. Lcs(a, b) = CHOOSE g : Is(g)
  BY Zenon DEF Lcs, Diag, Down, Right
<1>4. base \in [Grid(n, m) -> Nat]
  OBVIOUS
<1>5. fill \in [((1 .. n) \X (1 .. m)) \X (Nat \X Nat \X Nat) -> Nat]
  <2>1. ASSUME NEW x \in ((1 .. n) \X (1 .. m)) \X (Nat \X Nat \X Nat) PROVE cell(x) \in Nat
    <3>1. x[2][1] \in Nat /\ x[2][2] \in Nat /\ x[2][3] \in Nat
      OBVIOUS
    <3> QED BY <3>1
  <2> HIDE DEF cell
  <2> QED BY <2>1
<1>6. PICK f \in [Grid(n, m) -> Nat] : Fills(f, Grid(n, m), n, m, base, fill)
  <2> HIDE DEF base, fill, n, m
  <2> QED BY <1>1, <1>4, <1>5, Tabled
<1>7. ASSUME NEW g, NEW c \in Grid(n, m), ~(c[1] > n \/ c[2] > m)
      PROVE  Diag(c) \in Grid(n, m) /\ Down(c) \in Grid(n, m) /\ Right(c) \in Grid(n, m)
  <2>1. c[1] \in 1 .. n /\ c[2] \in 1 .. m /\ c = <<c[1], c[2]>>
    BY <1>1, <1>7 DEF Grid
  <2> QED BY <1>1, <2>1 DEF Diag, Down, Right, Grid
<1>8. ASSUME NEW c \in Grid(n, m) PROVE f[c] = at1(f, c)
  <2>1. f[c] = IF c[1] > n \/ c[2] > m THEN base[c]
               ELSE fill[<<c, <<f[Diag(c)], f[Down(c)], f[Right(c)]>>>>]
    BY <1>6, Zenon DEF Fills
  <2>2. CASE c[1] > n \/ c[2] > m
    BY <2>1, <2>2
  <2>3. CASE ~(c[1] > n \/ c[2] > m)
    <3>1. f[Diag(c)] \in Nat /\ f[Down(c)] \in Nat /\ f[Right(c)] \in Nat
      <4> HIDE DEF n, m
      <4> QED BY <1>6, <1>7, <2>3
    <3> DEFINE x == <<c, <<f[Diag(c)], f[Down(c)], f[Right(c)]>>>>
    <3>2. c \in (1 .. n) \X (1 .. m)
      BY <1>1, <2>3 DEF Grid
    <3>3. x \in ((1 .. n) \X (1 .. m)) \X (Nat \X Nat \X Nat)
      <4> HIDE DEF n, m
      <4> QED BY <3>1, <3>2
    <3>4. fill[x] = cell(x)
      <4> HIDE DEF n, m, x, cell
      <4> QED BY <3>3
    <3>5. x[1] = c /\ x[2][1] = f[Diag(c)] /\ x[2][2] = f[Down(c)] /\ x[2][3] = f[Right(c)]
      OBVIOUS
    <3>6. Max({f[Down(c)], f[Right(c)]}) = IF f[Down(c)] >= f[Right(c)] THEN f[Down(c)] ELSE f[Right(c)]
      BY <3>1, LargerIs
    <3> HIDE DEF x
    <3>7. cell(x) = at1(f, c)
      BY <2>3, <3>5, <3>6
    <3> QED BY <2>1, <2>3, <3>4, <3>7 DEF x
  <2> QED BY <2>2, <2>3
<1>9. Is(f)
  <2> HIDE DEF n, m, at1
  <2>1. f = [c \in Grid(n, m) |-> at1(f, c)]
    BY <1>6, <1>8
  <2> QED BY <1>2, <2>1
<1>10. PICK dp : dp = Lcs(a, b) /\ Is(dp)
  <2> HIDE DEF Is
  <2> QED BY <1>3, <1>9
<1> HIDE DEF n, m
<1>11. \A c \in Grid(n, m) : dp[c] = at1(dp, c)
  <2> HIDE DEF at1
  <2> QED BY <1>2, <1>10
(* There is but one such table. *)
<1>12. \A c \in Grid(n, m) : dp[c] = f[c]
  <2>0. \A c \in Grid(n, m) : c[1] \in 1 .. n + 1 /\ c[2] \in 1 .. m + 1
    BY DEF Grid
  <2> DEFINE bad == {h \in Nat : \E c \in Grid(n, m) : h = n + m + 2 - (c[1] + c[2]) /\ dp[c] # f[c]}
  <2>1. ASSUME bad # {} PROVE FALSE
    <3>1. PICK h \in bad : \A k \in bad : h <= k
      <4>1. bad \in SUBSET Nat
        OBVIOUS
      <4> QED BY <2>1, <4>1, Least
    <3>2. PICK c \in Grid(n, m) : h = n + m + 2 - (c[1] + c[2]) /\ dp[c] # f[c]
      BY <3>1
    <3>3. ASSUME NEW d \in Grid(n, m), d[1] + d[2] > c[1] + c[2] PROVE dp[d] = f[d]
      <4>1. n + m + 2 - (d[1] + d[2]) \in Nat /\ n + m + 2 - (d[1] + d[2]) < h
        <5>1. \A x, y \in Nat : \A s1 \in 1 .. x + 1, s2 \in 1 .. y + 1, t1 \in 1 .. x + 1, t2 \in 1 .. y + 1 :
                 s1 + s2 > t1 + t2 =>
                    /\ x + y + 2 - (s1 + s2) \in Nat
                    /\ x + y + 2 - (s1 + s2) < x + y + 2 - (t1 + t2)
          OBVIOUS
        <5>2. d[1] \in 1 .. n + 1 /\ d[2] \in 1 .. m + 1 /\ c[1] \in 1 .. n + 1 /\ c[2] \in 1 .. m + 1
          BY <2>0
        <5> QED BY <1>1, <3>2, <3>3, <5>1, <5>2
      <4>2. dp[d] # f[d] => n + m + 2 - (d[1] + d[2]) \in bad
        BY <4>1
      <4>3. h \in Nat
        BY <3>1
      <4> HIDE DEF bad
      <4> QED BY <3>1, <4>1, <4>2, <4>3
    <3>4. dp[c] = at1(dp, c) /\ f[c] = at1(f, c)
      BY <1>8, <1>11
    <3>5. c[1] \in 1 .. n + 1 /\ c[2] \in 1 .. m + 1
      BY <2>0
    <3>6. CASE c[1] > n \/ c[2] > m
      BY <3>2, <3>4, <3>6 DEF n, m
    <3>7. CASE ~(c[1] > n \/ c[2] > m)
      <4>1. Diag(c) \in Grid(n, m) /\ Down(c) \in Grid(n, m) /\ Right(c) \in Grid(n, m)
        BY <1>7, <3>7
      <4>2. /\ Diag(c)[1] + Diag(c)[2] > c[1] + c[2] /\ Down(c)[1] + Down(c)[2] > c[1] + c[2]
            /\ Right(c)[1] + Right(c)[2] > c[1] + c[2]
        <5>1. /\ Diag(c)[1] = c[1] + 1 /\ Diag(c)[2] = c[2] + 1
              /\ Down(c)[1] = c[1] + 1 /\ Down(c)[2] = c[2]
              /\ Right(c)[1] = c[1] /\ Right(c)[2] = c[2] + 1
          BY DEF Diag, Down, Right
        <5> DEFINE u == c[1]
                   v == c[2]
        <5>2. u \in Nat /\ v \in Nat
          BY <1>1, <3>5
        <5> HIDE DEF u, v
        <5>3. u + 1 + (v + 1) > u + v /\ u + 1 + v > u + v /\ u + (v + 1) > u + v
          BY <5>2
        <5> QED BY <5>1, <5>3 DEF u, v
      <4>3. dp[Diag(c)] = f[Diag(c)] /\ dp[Down(c)] = f[Down(c)] /\ dp[Right(c)] = f[Right(c)]
        BY <3>3, <4>1, <4>2
      <4> QED BY <3>2, <3>4, <4>3
    <3> QED BY <3>6, <3>7
  <2>2. \A c \in Grid(n, m) : n + m + 2 - (c[1] + c[2]) \in Nat
    BY <1>1, <2>0
  <2>3. ASSUME NEW c \in Grid(n, m) PROVE dp[c] = f[c]
    <3>1. dp[c] # f[c] => n + m + 2 - (c[1] + c[2]) \in bad
      BY <2>2
    <3> HIDE DEF bad
    <3> QED BY <2>1, <3>1
  <2> QED BY <2>3
<1>13. dp = f
  <2>1. dp = [c \in Grid(n, m) |-> dp[c]]
    <3> HIDE DEF at1
    <3> QED BY <1>2, <1>10
  <2>2. f = [c \in Grid(n, m) |-> f[c]]
    BY <1>6
  <2> QED BY <1>12, <2>1, <2>2
<1>14. ASSUME NEW c \in Grid(n, m)
       PROVE  f[c] = IF c[1] > Len(a) \/ c[2] > Len(b) THEN 0
                     ELSE IF a[c[1]] = b[c[2]] THEN f[Diag(c)] + 1
                     ELSE IF f[Down(c)] >= f[Right(c)] THEN f[Down(c)] ELSE f[Right(c)]
  <2>1. f[c] = at1(f, c)
    BY <1>8
  <2>2. CASE c[1] > Len(a) \/ c[2] > Len(b)
    BY <2>1, <2>2
  <2>3. CASE ~(c[1] > Len(a) \/ c[2] > Len(b))
    <3>1. f[Down(c)] \in Nat /\ f[Right(c)] \in Nat
      BY <1>6, <1>7, <2>3 DEF n, m
    <3>2. Max({f[Down(c)], f[Right(c)]}) = IF f[Down(c)] >= f[Right(c)] THEN f[Down(c)] ELSE f[Right(c)]
      BY <3>1, LargerIs
    <3> QED BY <2>1, <2>3, <3>2
  <2> QED BY <2>2, <2>3
<1>15. f = Lcs(a, b)
  BY <1>10, <1>13
<1>16. f \in [Cells(a, b) -> Nat]
  <2> HIDE DEF at1
  <2> QED BY <1>2, <1>6
<1>17. Tables(a, b, f)
  <2> HIDE DEF base, fill, cell, at1, Is
  <2> QED BY <1>2, <1>14, <1>16, Zenon DEF Tables
<1> QED
  <2> HIDE DEF base, fill, cell, at1, Is
  <2> QED BY <1>15, <1>17

LEMMA DiffIsScript ==
    ASSUME NEW L, NEW a \in Seq(L), NEW b \in Seq(L)
    PROVE  Script(Diff(a, b), L, a, 1, b, 1, Lcs(a, b)[<<1, 1>>])
<1> DEFINE n == Len(a)
           m == Len(b)
           dp == Lcs(a, b)
<1>1. PICK f : Walks(a, b, Lcs(a, b), f) /\ Diff(a, b) = f[<<1, 1>>]
  BY DiffWalks
<1>t. Tables(a, b, dp)
  BY LcsTables
<1>2. n \in Nat /\ m \in Nat
  OBVIOUS
<1>3. \A c \in Cells(a, b) :
         c[1] \in 1 .. n + 1 /\ c[2] \in 1 .. m + 1 /\ c = <<c[1], c[2]>>
  BY DEF Cells
<1> DEFINE Good(c) == Script(f[c], L, a, c[1], b, c[2], dp[c])
           bad == {h \in Nat : \E c \in Cells(a, b) : h = n + m + 2 - (c[1] + c[2]) /\ ~Good(c)}
<1>4. ASSUME bad # {} PROVE FALSE
  <2>1. PICK h \in bad : \A k \in bad : h <= k
    <3>1. bad \in SUBSET Nat
      OBVIOUS
    <3> QED
      BY <1>4, <3>1, Least
  <2>2. PICK c \in Cells(a, b) : h = n + m + 2 - (c[1] + c[2]) /\ ~Good(c)
    BY <2>1
  <2> DEFINE u == c[1]
             v == c[2]
  <2>3. u \in 1 .. n + 1 /\ v \in 1 .. m + 1 /\ c = <<u, v>>
    BY <1>3
  <2>4. f[c] = WalkAt(a, b, Lcs(a, b), f, c)
    BY <1>1 DEF Walks
  <2>5. ASSUME NEW d \in Cells(a, b), d[1] + d[2] > u + v PROVE Good(d)
    <3>1. d[1] \in 1 .. n + 1 /\ d[2] \in 1 .. m + 1
      BY <1>3
    <3>0. h = n + m + 2 - (u + v)
      BY <2>2
    <3>2. n + m + 2 - (d[1] + d[2]) \in Nat /\ n + m + 2 - (d[1] + d[2]) < h
      <4>1. \A x, y \in Nat : \A s1 \in 1 .. x + 1, s2 \in 1 .. y + 1, t1 \in 1 .. x + 1, t2 \in 1 .. y + 1 :
               s1 + s2 > t1 + t2 =>
                  /\ x + y + 2 - (s1 + s2) \in Nat
                  /\ x + y + 2 - (s1 + s2) < x + y + 2 - (t1 + t2)
        OBVIOUS
      <4> HIDE DEF n, m, u, v
      <4> QED BY <1>2, <2>3, <2>5, <3>0, <3>1, <4>1
    <3>3. ~Good(d) => n + m + 2 - (d[1] + d[2]) \in bad
      BY <3>2
    <3> HIDE DEF bad, Good
    <3> QED BY <1>2, <2>1, <2>2, <3>1, <3>2, <3>3
  <2>6. CASE u > n \/ v > m
    <3>0. dp[c] = 0
      BY <1>t, <2>6 DEF Tables
    <3>1. f[c] = Ends(a, b, u, v)
      BY <2>4, <2>6 DEF WalkAt
    <3>2. Ends(a, b, u, v) \in Seq(Steps(L))
      BY <2>3, EndsAre
    <3>3. CASE u > n
      <4>0. Ends(a, b, u, v) = Prefixed("ins", SubSeq(b, v, Len(b)))
        BY <2>3, <3>3, EndsAre
      <4>1. u = Len(a) + 1 /\ f[c] = Prefixed("ins", SubSeq(b, v, Len(b)))
        BY <1>2, <2>3, <3>1, <3>3, <4>0
      <4>2. Traced(f[c], "ins", b, v) /\ Traced(f[c], "del", a, Len(a) + 1)
        BY <2>3, <4>1, RestTraced
      <4>3. Ticked(f[c], dp[c])
        BY <2>3, <3>0, <4>1, RestTraced
      <4>4. a = b /\ u = v => AllKept(f[c])
        <5>1. v = Len(b) + 1 => Len(SubSeq(b, v, Len(b))) = 0 /\ SubSeq(b, v, Len(b)) \in Seq(L)
          BY <1>2
        <5>2. v = Len(b) + 1 => Len(f[c]) = 0
          BY <4>1, <5>1, PrefixedIs
        <5> QED BY <4>1, <5>2 DEF AllKept
      <4> QED BY <2>2, <3>1, <3>2, <4>1, <4>2, <4>3, <4>4 DEF Script
    <3>4. CASE v > m
      <4>0. Ends(a, b, u, v) = Prefixed("del", SubSeq(a, u, Len(a)))
        BY <2>3, <3>4, EndsAre
      <4>1. v = Len(b) + 1 /\ f[c] = Prefixed("del", SubSeq(a, u, Len(a)))
        BY <1>2, <2>3, <3>1, <3>4, <4>0
      <4>2. Traced(f[c], "del", a, u) /\ Traced(f[c], "ins", b, Len(b) + 1)
        BY <2>3, <4>1, RestTraced
      <4>3. Ticked(f[c], dp[c])
        BY <2>3, <3>0, <4>1, RestTraced
      <4>4. a = b /\ u = v => AllKept(f[c])
        <5>1. u = Len(a) + 1 => Len(SubSeq(a, u, Len(a))) = 0 /\ SubSeq(a, u, Len(a)) \in Seq(L)
          BY <1>2
        <5>2. u = Len(a) + 1 => Len(f[c]) = 0
          BY <4>1, <5>1, PrefixedIs
        <5> QED BY <4>1, <5>2 DEF AllKept
      <4> QED BY <2>2, <3>1, <3>2, <4>1, <4>2, <4>3, <4>4 DEF Script
    <3> QED BY <2>6, <3>3, <3>4
  <2>7. CASE ~(u > n \/ v > m)
    <3>1. u \in 1 .. n /\ v \in 1 .. m /\ a[u] \in L /\ b[v] \in L
      BY <1>2, <2>3, <2>7
    <3>2. /\ Diag(c) \in Cells(a, b) /\ Diag(c)[1] = u + 1 /\ Diag(c)[2] = v + 1
          /\ Down(c) \in Cells(a, b) /\ Down(c)[1] = u + 1 /\ Down(c)[2] = v
          /\ Right(c) \in Cells(a, b) /\ Right(c)[1] = u /\ Right(c)[2] = v + 1
      <4>1. \A j \in 1 .. n : j \in 1 .. n + 1 /\ j + 1 \in 1 .. n + 1
        BY <1>2
      <4>2. \A j \in 1 .. m : j \in 1 .. m + 1 /\ j + 1 \in 1 .. m + 1
        BY <1>2
      <4>3. u \in 1 .. n + 1 /\ u + 1 \in 1 .. n + 1 /\ v \in 1 .. m + 1 /\ v + 1 \in 1 .. m + 1
        BY <3>1, <4>1, <4>2
      <4> QED BY <4>3 DEF Diag, Down, Right, Cells
    <3>3. Good(Diag(c)) /\ Good(Down(c)) /\ Good(Right(c))
      <4> HIDE DEF Good
      <4> QED BY <2>5, <3>1, <3>2
    <3>4. /\ Script(f[Diag(c)], L, a, u + 1, b, v + 1, dp[Diag(c)])
          /\ Script(f[Down(c)], L, a, u + 1, b, v, dp[Down(c)])
          /\ Script(f[Right(c)], L, a, u, b, v + 1, dp[Right(c)])
      BY <3>2, <3>3
    <3>8. /\ dp[Diag(c)] \in Nat /\ dp[Down(c)] \in Nat /\ dp[Right(c)] \in Nat
          /\ dp[c] = IF a[u] = b[v] THEN dp[Diag(c)] + 1
                     ELSE IF dp[Down(c)] >= dp[Right(c)] THEN dp[Down(c)] ELSE dp[Right(c)]
      BY <1>t, <2>7, <3>2 DEF Tables
    <3>5. CASE a[u] = b[v]
      <4>1. f[c] = Put("equal", a[u], f[Diag(c)])
        BY <2>4, <2>7, <3>5 DEF WalkAt
      <4> DEFINE w == f[Diag(c)]
      <4>2. w \in Seq(Steps(L)) /\ Traced(w, "del", a, u + 1) /\ Traced(w, "ins", b, v + 1)
        BY <3>4 DEF Script
      <4> HIDE DEF w
      <4>t. /\ u \in Nat /\ u + 1 \in Nat /\ v \in Nat /\ v + 1 \in Nat
            /\ Takes(<<"equal", a[u]>>, "del", a, u, u + 1)
            /\ Takes(<<"equal", a[u]>>, "ins", b, v, v + 1)
        BY <3>1, <3>5 DEF Takes
      <4>3. Traced(Put("equal", a[u], w), "del", a, u)
        BY <1>2, <3>1, <4>2, <4>t, PutTraced
      <4>4. Traced(Put("equal", a[u], w), "ins", b, v)
        BY <1>2, <3>1, <4>2, <4>t, PutTraced
      <4>5. Put("equal", a[u], w) \in Seq(Steps(L))
        BY <3>1, <4>2, PutIs DEF Steps
      <4>6. Ticked(w, dp[Diag(c)])
        BY <3>4 DEF Script, w
      <4>7. Ticked(Put("equal", a[u], w), dp[Diag(c)] + 1)
        BY <3>1, <3>8, <4>2, <4>6, PutTicked
      <4>8. dp[c] = dp[Diag(c)] + 1
        BY <3>5, <3>8
      <4>9. AllKept(w) => AllKept(Put("equal", a[u], w))
        <5> DEFINE x == Put("equal", a[u], w)
        <5>0. <<"equal", a[u]>> \in Steps(L)
          BY <3>1 DEF Steps
        <5>1. /\ Len(w) \in Nat /\ Len(x) = Len(w) + 1 /\ x[1] = <<"equal", a[u]>>
              /\ \A k \in 1 .. Len(w) : x[k + 1] = w[k]
          BY <4>2, <5>0, PutIs, LenProperties, SMTT(20)
        <5> HIDE DEF x
        <5>2. \A k \in 1 .. Len(x) : k = 1 \/ (k - 1 \in 1 .. Len(w) /\ x[k] = w[k - 1])
          <6> TAKE k \in 1 .. Len(x)
          <6>1. k = 1 \/ (k - 1 \in 1 .. Len(w) /\ (k - 1) + 1 = k)
            BY <5>1
          <6> QED BY <5>1, <6>1
        <5>3. x[1][1] = "equal"
          BY <5>1
        <5>4. ASSUME AllKept(w), NEW k \in 1 .. Len(x) PROVE x[k][1] = "equal"
          BY <5>2, <5>3, <5>4 DEF AllKept
        <5> QED BY <5>4 DEF AllKept, x
      <4>10. a = b /\ u = v => AllKept(w)
        BY <3>4 DEF Script, w
      <4> QED BY <2>2, <4>1, <4>3, <4>4, <4>5, <4>7, <4>8, <4>9, <4>10 DEF Script, w
    <3>6. CASE a[u] # b[v] /\ dp[Down(c)] >= dp[Right(c)]
      <4>1. f[c] = Put("del", a[u], f[Down(c)])
        BY <2>4, <2>7, <3>6 DEF WalkAt
      <4> DEFINE w == f[Down(c)]
      <4>2. w \in Seq(Steps(L)) /\ Traced(w, "del", a, u + 1) /\ Traced(w, "ins", b, v)
        BY <3>4 DEF Script
      <4> HIDE DEF w
      <4>t. /\ u \in Nat /\ u + 1 \in Nat /\ v \in Nat
            /\ Takes(<<"del", a[u]>>, "del", a, u, u + 1)
            /\ Takes(<<"del", a[u]>>, "ins", b, v, v)
        BY <3>1 DEF Takes
      <4>3. Traced(Put("del", a[u], w), "del", a, u)
        BY <1>2, <3>1, <4>2, <4>t, PutTraced
      <4>4. Traced(Put("del", a[u], w), "ins", b, v)
        BY <1>2, <3>1, <4>2, <4>t, PutTraced
      <4>5. Put("del", a[u], w) \in Seq(Steps(L))
        BY <3>1, <4>2, PutIs DEF Steps
      <4>6. Ticked(w, dp[Down(c)])
        BY <3>4 DEF Script, w
      <4>7. Ticked(Put("del", a[u], w), dp[Down(c)])
        BY <3>1, <3>8, <4>2, <4>6, PutTicked
      <4>8. dp[c] = dp[Down(c)]
        BY <3>6, <3>8
      <4>9. ~(a = b /\ u = v)
        BY <3>6
      <4> QED BY <2>2, <4>1, <4>3, <4>4, <4>5, <4>7, <4>8, <4>9 DEF Script, w
    <3>7. CASE a[u] # b[v] /\ ~(dp[Down(c)] >= dp[Right(c)])
      <4>1. f[c] = Put("ins", b[v], f[Right(c)])
        BY <2>4, <2>7, <3>7 DEF WalkAt
      <4> DEFINE w == f[Right(c)]
      <4>2. w \in Seq(Steps(L)) /\ Traced(w, "del", a, u) /\ Traced(w, "ins", b, v + 1)
        BY <3>4 DEF Script
      <4> HIDE DEF w
      <4>t. /\ v \in Nat /\ v + 1 \in Nat /\ u \in Nat
            /\ Takes(<<"ins", b[v]>>, "del", a, u, u)
            /\ Takes(<<"ins", b[v]>>, "ins", b, v, v + 1)
        BY <3>1 DEF Takes
      <4>3. Traced(Put("ins", b[v], w), "del", a, u)
        BY <1>2, <3>1, <4>2, <4>t, PutTraced
      <4>4. Traced(Put("ins", b[v], w), "ins", b, v)
        BY <1>2, <3>1, <4>2, <4>t, PutTraced
      <4>5. Put("ins", b[v], w) \in Seq(Steps(L))
        BY <3>1, <4>2, PutIs DEF Steps
      <4>6. Ticked(w, dp[Right(c)])
        BY <3>4 DEF Script, w
      <4>7. Ticked(Put("ins", b[v], w), dp[Right(c)])
        BY <3>1, <3>8, <4>2, <4>6, PutTicked, SMTT(20)
      <4>8. dp[c] = dp[Right(c)]
        BY <3>7, <3>8
      <4>9. ~(a = b /\ u = v)
        BY <3>7
      <4> QED BY <2>2, <4>1, <4>3, <4>4, <4>5, <4>7, <4>8, <4>9 DEF Script, w
    <3> QED BY <3>5, <3>6, <3>7
  <2> QED
    BY <2>6, <2>7
<1>5. <<1, 1>> \in Cells(a, b) /\ n + m + 2 - (1 + 1) \in Nat
  BY <1>2 DEF Cells
<1>6. Good(<<1, 1>>)
  <2>1. <<1, 1>>[1] = 1 /\ <<1, 1>>[2] = 1
    OBVIOUS
  <2>2. ~Good(<<1, 1>>) => n + m + 2 - (1 + 1) \in bad
    <3> HIDE DEF Good
    <3> QED BY <1>5, <2>1
  <2> HIDE DEF bad
  <2> QED BY <1>4, <2>2
<1> QED
  BY <1>1, <1>6
-----------------------------------------------------------------------------
(* Where the steps of a script are in a text, and what a part of it takes.   *)

(* The lines of t from u to just before v. *)
Piece(t, u, v) == SubSeq(t, u, v - 1)

LEMMA PieceIs ==
    ASSUME NEW L, NEW t \in Seq(L), NEW u \in 1 .. Len(t) + 1, NEW v \in u .. Len(t) + 1
    PROVE  /\ Piece(t, u, v) \in Seq(L)
           /\ Len(Piece(t, u, v)) = v - u
           /\ \A k \in 1 .. v - u : Piece(t, u, v)[k] = t[u + k - 1]
<1>1. Len(t) \in Nat /\ \A k \in 1 .. Len(t) : t[k] \in L
  BY LenProperties, ElementOfSeq
<1>2. u \in Int /\ v - 1 \in Int /\ (\A k \in u .. v - 1 : t[k] \in L) /\ v - 1 - u + 1 = v - u
  BY <1>1
<1>3. IF u <= v - 1 THEN v - 1 - u + 1 = v - u ELSE v - u = 0
  BY <1>1
<1> QED
  BY <1>2, <1>3, SubSeqProperties DEF Piece

LEMMA PieceGrows ==
    ASSUME NEW L, NEW t \in Seq(L), NEW u \in 1 .. Len(t), NEW v \in u .. Len(t)
    PROVE  Append(Piece(t, u, v), t[v]) = Piece(t, u, v + 1)
<1> DEFINE s == Piece(t, u, v)
           r == Append(s, t[v])
           z == Piece(t, u, v + 1)
<1>1. Len(t) \in Nat /\ t[v] \in L
  BY LenProperties, ElementOfSeq
<1>0. u \in 1 .. Len(t) + 1 /\ v \in u .. Len(t) + 1 /\ v + 1 \in u .. Len(t) + 1
  BY <1>1
<1>2. s \in Seq(L) /\ Len(s) = v - u /\ \A k \in 1 .. v - u : s[k] = t[u + k - 1]
  BY <1>0, PieceIs
<1>3. z \in Seq(L) /\ Len(z) = v + 1 - u /\ \A k \in 1 .. v + 1 - u : z[k] = t[u + k - 1]
  <2> DEFINE e == v + 1
  <2>1. e \in u .. Len(t) + 1
    BY <1>0
  <2> HIDE DEF e
  <2>2. /\ Piece(t, u, e) \in Seq(L) /\ Len(Piece(t, u, e)) = e - u
        /\ \A k \in 1 .. e - u : Piece(t, u, e)[k] = t[u + k - 1]
    BY <1>0, <2>1, PieceIs
  <2> QED BY <2>2 DEF e
<1> HIDE DEF s, z
<1>4. /\ r \in Seq(L) /\ Len(r) = v - u + 1 /\ r[v - u + 1] = t[v]
      /\ \A k \in 1 .. v - u : r[k] = s[k]
  BY <1>1, <1>2, AppendProperties
<1> HIDE DEF r
<1>5. \A k \in 1 .. v - u + 1 : k \in 1 .. v - u \/ (k = v - u + 1 /\ u + k - 1 = v)
  BY <1>1
<1>6. \A k \in 1 .. Len(r) : r[k] = z[k]
  BY <1>1, <1>2, <1>3, <1>4, <1>5, SMTT(20)
<1>7. Len(r) = Len(z)
  BY <1>1, <1>3, <1>4
<1>8. r = z
  BY <1>3, <1>4, <1>6, <1>7, SeqEqual
<1> QED
  BY <1>8 DEF r, s, z

LEMMA PiecesJoin ==
    ASSUME NEW L, NEW t \in Seq(L), NEW u \in 1 .. Len(t) + 1,
           NEW v \in u .. Len(t) + 1, NEW x \in v .. Len(t) + 1
    PROVE  Piece(t, u, v) \o Piece(t, v, x) = Piece(t, u, x)
<1> DEFINE s == Piece(t, u, v)
           r == Piece(t, v, x)
           z == Piece(t, u, x)
           c == s \o r
<1>1. Len(t) \in Nat /\ v \in 1 .. Len(t) + 1 /\ x \in u .. Len(t) + 1
  OBVIOUS
<1>2. s \in Seq(L) /\ Len(s) = v - u /\ \A k \in 1 .. v - u : s[k] = t[u + k - 1]
  BY PieceIs
<1> HIDE DEF s
<1>3. r \in Seq(L) /\ Len(r) = x - v /\ \A k \in 1 .. x - v : r[k] = t[v + k - 1]
  <2> HIDE DEF z, c
  <2> QED BY <1>1, PieceIs
<1>4. z \in Seq(L) /\ Len(z) = x - u /\ \A k \in 1 .. x - u : z[k] = t[u + k - 1]
  <2> HIDE DEF r, c
  <2> QED BY <1>1, PieceIs
<1> HIDE DEF r, z
<1>5. /\ c \in Seq(L) /\ Len(c) = Len(s) + Len(r)
      /\ \A k \in 1 .. Len(s) + Len(r) : c[k] = IF k <= Len(s) THEN s[k] ELSE r[k - Len(s)]
  BY <1>2, <1>3, ConcatProperties
<1> HIDE DEF c
<1>6. ASSUME NEW k \in 1 .. Len(c) PROVE c[k] = z[k]
  <2>1. k \in 1 .. x - u /\ Len(s) + Len(r) = x - u
    BY <1>1, <1>2, <1>3, <1>5
  <2>2. CASE k <= v - u
    <3>1. k \in 1 .. v - u
      BY <1>1, <2>1, <2>2
    <3> QED BY <1>2, <1>4, <1>5, <2>1, <2>2, <3>1
  <2>3. CASE ~(k <= v - u)
    <3>1. k - (v - u) \in 1 .. x - v /\ v + (k - (v - u)) - 1 = u + k - 1
      BY <1>1, <2>1, <2>3
    <3> QED BY <1>2, <1>3, <1>4, <1>5, <2>1, <2>3, <3>1
  <2> QED BY <2>2, <2>3
<1>7. Len(c) = Len(z)
  BY <1>1, <1>2, <1>3, <1>4, <1>5, SMTT(20)
<1>8. c = z
  BY <1>4, <1>5, <1>6, <1>7, SeqEqual
<1> QED
  BY <1>8 DEF c, s, r, z

(* The steps go through the text in order, a line at a time. *)
LEMMA OneAtATime ==
    ASSUME NEW w, Len(w) \in Nat, NEW t, Len(t) \in Nat, NEW op, NEW from, NEW p,
           Traces(p, w, op, t, from), NEW k \in 1 .. Len(w)
    PROVE  /\ p[k] \in Nat /\ k + 1 \in 1 .. Len(w) + 1
           /\ IF w[k][1] \in {"equal", op}
              THEN p[k] \in 1 .. Len(t) /\ w[k][2] = t[p[k]] /\ p[k + 1] = p[k] + 1
              ELSE p[k + 1] = p[k]
<1>1. k \in 1 .. Len(w) + 1 /\ k + 1 \in 1 .. Len(w) + 1
  OBVIOUS
<1> QED
  BY <1>1 DEF Traces, Takes

LEMMA InOrder ==
    ASSUME NEW w, Len(w) \in Nat, NEW t, Len(t) \in Nat, NEW op, NEW from \in Nat, NEW p,
           Traces(p, w, op, t, from),
           NEW x \in 1 .. Len(w) + 1, NEW y \in x .. Len(w) + 1
    PROVE  p[x] \in Nat /\ p[y] \in Nat /\ p[x] <= p[y]
<1>1. \A k \in 1 .. Len(w) + 1 : p[k] \in Nat
  BY DEF Traces
<1> DEFINE bad == {k \in Nat : k \in x .. Len(w) + 1 /\ ~(p[x] <= p[k])}
<1>2. ASSUME bad # {} PROVE FALSE
  <2>1. PICK k \in bad : \A j \in bad : k <= j
    <3>1. bad \in SUBSET Nat
      OBVIOUS
    <3> QED BY <1>2, <3>1, Least
  <2>2. k # x /\ k \in x .. Len(w) + 1 /\ ~(p[x] <= p[k])
    BY <1>1, <2>1
  <2> DEFINE h == k - 1
  <2>3. h \in Nat /\ h \in 1 .. Len(w) /\ h \in x .. Len(w) + 1 /\ h + 1 = k /\ h < k
    BY <2>2
  <2> HIDE DEF h
  <2>4. p[x] <= p[h]
    BY <2>1, <2>3
  <2>5. p[h + 1] = p[h] + 1 \/ p[h + 1] = p[h]
    BY <2>3, OneAtATime
  <2>6. p[x] \in Nat /\ p[h] \in Nat
    BY <1>1, <2>3
  <2> QED BY <2>2, <2>3, <2>4, <2>5, <2>6, SMTT(20)
<1>3. y \in Nat /\ y \in 1 .. Len(w) + 1
  OBVIOUS
<1> QED
  BY <1>1, <1>2, <1>3

LEMMA Within ==
    ASSUME NEW w, Len(w) \in Nat, NEW t, Len(t) \in Nat, NEW op, NEW p,
           Traces(p, w, op, t, 1), NEW x \in 1 .. Len(w) + 1
    PROVE  p[x] \in 1 .. Len(t) + 1
<1>1. 1 \in 1 .. Len(w) + 1 /\ x \in 1 .. Len(w) + 1 /\ Len(w) + 1 \in x .. Len(w) + 1
  OBVIOUS
<1>2. p[1] <= p[x]
  BY <1>1, InOrder
<1>3. p[x] \in Nat /\ p[x] <= p[Len(w) + 1]
  BY <1>1, InOrder
<1>4. p[1] = 1 /\ p[Len(w) + 1] = Len(t) + 1
  BY DEF Traces
<1> QED
  BY <1>2, <1>3, <1>4

Counted(w, x, y, op) == {k \in x .. y : w[k][1] \in {"equal", op}}

(* The steps that take a line are as many as the lines. *)
LEMMA CountedAre ==
    ASSUME NEW w, Len(w) \in Nat, NEW t, Len(t) \in Nat, NEW op, NEW from \in Nat, NEW p,
           Traces(p, w, op, t, from), NEW x \in 1 .. Len(w) + 1, NEW y \in x - 1 .. Len(w)
    PROVE  /\ IsFiniteSet(Counted(w, x, y, op))
           /\ Cardinality(Counted(w, x, y, op)) = p[y + 1] - p[x]
<1>1. \A k \in 1 .. Len(w) + 1 : p[k] \in Nat
  BY DEF Traces
<1> DEFINE Good(k) == /\ IsFiniteSet(Counted(w, x, k, op))
                      /\ Cardinality(Counted(w, x, k, op)) = p[k + 1] - p[x]
           bad == {k \in Nat : k \in x - 1 .. Len(w) /\ ~Good(k)}
<1>2. ASSUME bad # {} PROVE FALSE
  <2>1. PICK k \in bad : \A j \in bad : k <= j
    <3>1. bad \in SUBSET Nat
      OBVIOUS
    <3> QED BY <1>2, <3>1, Least
  <2>2. k \in Nat /\ k \in x - 1 .. Len(w) /\ ~Good(k)
    BY <2>1
  <2>3. CASE k = x - 1
    <3>1. Counted(w, x, k, op) = {}
      BY <2>3 DEF Counted
    <3>2. p[k + 1] - p[x] = 0
      BY <1>1, <2>3
    <3> QED BY <2>2, <3>1, <3>2, FS_EmptySet
  <2>4. CASE k # x - 1
    <3> DEFINE h == k - 1
    <3>1. h \in Nat /\ h \in x - 1 .. Len(w) /\ h + 1 = k /\ h < k /\ k \in 1 .. Len(w) /\ k \in x .. k
      BY <2>2, <2>4
    <3>2. Good(h)
      <4> HIDE DEF Good, h
      <4> QED BY <2>1, <3>1
    <3>3. \A j : j \in x .. k <=> j \in x .. h \/ j = k
      BY <3>1
    <3>4. ~(k \in x .. h)
      BY <3>1
    <3> HIDE DEF h
    <3>5. CASE w[k][1] \in {"equal", op}
      <4>1. Counted(w, x, k, op) = Counted(w, x, h, op) \cup {k}
        BY <3>3, <3>5 DEF Counted
      <4>2. k \notin Counted(w, x, h, op)
        BY <3>4 DEF Counted
      <4>3. p[k + 1] = p[k] + 1
        BY <3>1, <3>5, OneAtATime
      <4>4. IsFiniteSet(Counted(w, x, k, op))
            /\ Cardinality(Counted(w, x, k, op)) = Cardinality(Counted(w, x, h, op)) + 1
        BY <3>2, <4>1, <4>2, FS_AddElement
      <4>5. p[k] \in Nat /\ p[x] \in Nat
        BY <1>1, <3>1
      <4>6. Cardinality(Counted(w, x, h, op)) = p[k] - p[x]
        BY <3>1, <3>2
      <4>7. Cardinality(Counted(w, x, k, op)) = p[k + 1] - p[x]
        <5> HIDE DEF Counted
        <5> QED BY <4>3, <4>4, <4>5, <4>6
      <4> QED BY <2>2, <4>4, <4>7
    <3>6. CASE ~(w[k][1] \in {"equal", op})
      <4>1. Counted(w, x, k, op) = Counted(w, x, h, op)
        BY <3>3, <3>6 DEF Counted
      <4>2. p[k + 1] = p[k]
        BY <3>1, <3>6, OneAtATime
      <4> QED BY <2>2, <3>1, <3>2, <4>1, <4>2
    <3> QED BY <3>5, <3>6
  <2> QED BY <2>3, <2>4
<1>3. y \in Nat /\ y \in x - 1 .. Len(w)
  OBVIOUS
<1> QED
  <2> HIDE DEF Good
  <2>1. Good(y)
    BY <1>2, <1>3
  <2> QED BY <2>1 DEF Good

(* What patch(1) takes from the steps x to y. *)
LEMMA TakenIs ==
    ASSUME NEW L, NEW w \in Seq(Steps(L)), NEW t \in Seq(L), NEW op, NEW p,
           Traces(p, w, op, t, 1), NEW x \in 1 .. Len(w), NEW y \in x .. Len(w)
    PROVE  Taken(SubSeq(w, x, y), op) = Piece(t, p[x], p[y + 1])
<1> DEFINE body == SubSeq(w, x, y)
           n == y + 1 - x
           at1(k, f) == IF k = 0 THEN <<>>
                        ELSE IF body[k][1] \in {"equal", op} THEN Append(f[k - 1], body[k][2])
                        ELSE f[k - 1]
           Is(f) == f = [k \in 0 .. Len(body) |->
                             IF k = 0 THEN <<>>
                             ELSE IF body[k][1] \in {"equal", op} THEN Append(f[k - 1], body[k][2])
                             ELSE f[k - 1]]
           g == [k \in 0 .. n |-> Piece(t, p[x], p[x + k])]
<1>1. Len(w) \in Nat /\ Len(t) \in Nat /\ (\A k \in 1 .. Len(w) : w[k] \in Steps(L))
  BY LenProperties, ElementOfSeq
<1>2. n \in Nat /\ Len(body) = n /\ \A k \in 1 .. n : body[k] = w[x + k - 1]
  <2>1. x \in Int /\ y \in Int /\ (\A k \in x .. y : w[k] \in Steps(L)) /\ y - x + 1 = n /\ x <= y
    BY <1>1
  <2> QED BY <2>1, SubSeqProperties
<1>3. Taken(body, op) = (CHOOSE f : Is(f))[Len(body)]
  BY Zenon DEF Taken
<1> HIDE DEF body
<1>4. ASSUME NEW k \in 0 .. n
      PROVE  x + k \in 1 .. Len(w) + 1 /\ p[x + k] \in p[x] .. Len(t) + 1 /\ p[x] \in 1 .. Len(t) + 1
  <2>1. x + k \in 1 .. Len(w) + 1 /\ x + k \in x .. Len(w) + 1 /\ x \in 1 .. Len(w) + 1
    BY <1>1
  <2>2. p[x + k] \in 1 .. Len(t) + 1 /\ p[x] \in 1 .. Len(t) + 1
    BY <1>1, <2>1, Within
  <2>3. p[x] <= p[x + k]
    BY <1>1, <2>1, InOrder
  <2> QED BY <1>1, <2>1, <2>2, <2>3
<1> HIDE DEF n
<1>5. ASSUME NEW k \in 0 .. n PROVE g[k] = at1(k, g)
  <2>1. CASE k = 0
    <3>1. p[x] \in 1 .. Len(t) + 1 /\ x + 0 = x
      BY <1>1, <1>4, <2>1
    <3>2. Piece(t, p[x], p[x]) = <<>>
      <4>1. p[x] \in Int /\ p[x] - 1 \in Int /\ p[x] - 1 < p[x]
        BY <1>1, <3>1
      <4> QED BY <4>1, SubSeqEmpty DEF Piece
    <3> QED BY <2>1, <3>1, <3>2
  <2>2. CASE k # 0
    <3> DEFINE h == k - 1
               j == x + h
    <3>1. h \in 0 .. n /\ k \in 1 .. n /\ x + k = j + 1 /\ x + k - 1 = j
      BY <1>2, <2>2
    <3>2. g[h] = Piece(t, p[x], p[j]) /\ g[k] = Piece(t, p[x], p[j + 1])
      BY <3>1
    <3>3. j \in 1 .. Len(w) + 1 /\ j + 1 \in 1 .. Len(w) + 1
      BY <1>4, <3>1
    <3>4. body[k] = w[j]
      BY <1>2, <3>1
    <3>5. p[x] \in 1 .. Len(t) + 1 /\ p[j] \in p[x] .. Len(t) + 1
      BY <1>4, <3>1
    <3> HIDE DEF j, g
    <3>6. j \in 1 .. Len(w)
      BY <1>1, <3>3
    <3>7. CASE w[j][1] \in {"equal", op}
      <4>1. p[j] \in 1 .. Len(t) /\ w[j][2] = t[p[j]] /\ p[j + 1] = p[j] + 1
        BY <1>1, <3>6, <3>7, OneAtATime
      <4>2. p[x] \in 1 .. Len(t) /\ p[j] \in p[x] .. Len(t)
        BY <1>1, <3>5, <4>1
      <4>3. Append(Piece(t, p[x], p[j]), t[p[j]]) = Piece(t, p[x], p[j + 1])
        BY <4>1, <4>2, PieceGrows
      <4> QED BY <2>2, <3>2, <3>4, <3>7, <4>1, <4>3
    <3>8. CASE ~(w[j][1] \in {"equal", op})
      <4>1. p[j + 1] = p[j]
        BY <1>1, <3>6, <3>8, OneAtATime
      <4> QED BY <2>2, <3>2, <3>4, <3>8, <4>1
    <3> QED BY <3>7, <3>8
  <2> QED BY <2>1, <2>2
<1>6. Is(g)
  <2>1. g = [k \in 0 .. n |-> g[k]]
    OBVIOUS
  <2> HIDE DEF g
  <2>2. g = [k \in 0 .. n |-> at1(k, g)]
    BY <1>5, <2>1
  <2> QED BY <1>2, <2>2
<1>7. PICK f : f = (CHOOSE h : Is(h)) /\ Is(f)
  <2> HIDE DEF Is
  <2> QED BY <1>6
<1>8. \A k \in 0 .. n : f[k] = at1(k, f)
  <2>1. f = [k \in 0 .. n |-> at1(k, f)]
    BY <1>2, <1>7
  <2> HIDE DEF at1
  <2> QED BY <2>1
<1>9. \A k \in 0 .. n : f[k] = g[k]
  <2> DEFINE bad == {k \in Nat : k \in 0 .. n /\ f[k] # g[k]}
  <2> HIDE DEF g
  <2> SUFFICES ASSUME bad # {} PROVE FALSE
    BY <1>2
  <2>1. PICK k \in bad : \A j \in bad : k <= j
    <3>1. bad \in SUBSET Nat
      OBVIOUS
    <3> QED BY <3>1, Least
  <2>2. k \in 0 .. n /\ f[k] # g[k] /\ k \in Nat
    BY <2>1
  <2>3. f[k] = at1(k, f) /\ g[k] = at1(k, g)
    BY <1>5, <1>8, <2>2
  <2>4. k # 0
    BY <2>2, <2>3
  <2> DEFINE h == k - 1
  <2>5. h \in Nat /\ h \in 0 .. n /\ h < k
    BY <1>2, <2>2, <2>4
  <2>6. f[h] = g[h]
    <3> HIDE DEF h
    <3> QED BY <2>1, <2>2, <2>5
  <2> QED BY <2>2, <2>3, <2>4, <2>6
<1>10. g[n] = Piece(t, p[x], p[y + 1])
  <2>1. n \in 0 .. n
    BY <1>2
  <2>2. x + n = y + 1
    BY <1>1 DEF n
  <2>3. g[n] = Piece(t, p[x], p[x + n])
    BY <2>1
  <2> QED BY <2>2, <2>3
<1>11. n \in 0 .. n
  BY <1>2
<1> HIDE DEF g
<1> QED
  BY <1>2, <1>3, <1>7, <1>9, <1>10, <1>11 DEF body
-----------------------------------------------------------------------------
(* What a diff takes of the two texts, and that it keeps what can be kept.   *)

(* The steps of a diff are all lines of the one text and all of the other.   *)
LEMMA DiffTakes ==
    ASSUME NEW L, NEW a \in Seq(L), NEW b \in Seq(L)
    PROVE  Taken(Diff(a, b), "del") = a /\ Taken(Diff(a, b), "ins") = b
<1> DEFINE w == Diff(a, b)
<1>1. w \in Seq(Steps(L)) /\ Traced(w, "del", a, 1) /\ Traced(w, "ins", b, 1)
  BY DiffIsScript DEF Script
<1> HIDE DEF w
<1>2. ASSUME NEW t \in Seq(L), NEW op, Traced(w, op, t, 1)
      PROVE  Taken(w, op) = t
  <2>1. PICK p : Traces(p, w, op, t, 1)
    BY <1>2 DEF Traced
  <2>2. Len(w) \in Nat /\ Len(t) \in Nat /\ w = SubSeq(w, 1, Len(w))
    BY <1>1
  <2>3. p[1] = 1 /\ p[Len(w) + 1] = Len(t) + 1
    BY <2>1 DEF Traces
  <2>4. CASE Len(w) = 0
    <3>1. t = <<>>
      BY <2>2, <2>3, <2>4
    <3>2. Taken(w, op) = <<>>
      <4> DEFINE Is(f) == f = [k \in 0 .. Len(w) |->
                                  IF k = 0 THEN <<>>
                                  ELSE IF w[k][1] \in {"equal", op} THEN Append(f[k - 1], w[k][2])
                                  ELSE f[k - 1]]
      <4>1. Taken(w, op) = (CHOOSE f : Is(f))[Len(w)]
        BY Zenon DEF Taken
      <4>2. Is([k \in 0 .. 0 |-> <<>>])
        BY <2>4
      <4>3. Is(CHOOSE f : Is(f))
        <5> HIDE DEF Is
        <5> QED BY <4>2
      <4> DEFINE g == CHOOSE f : Is(f)
      <4>4. g[0] = <<>>
        <5>1. Is(g)
          BY <4>3
        <5> HIDE DEF g
        <5> QED BY <2>4, <5>1
      <4> HIDE DEF g
      <4> QED BY <2>4, <4>1, <4>4 DEF g
    <3> QED BY <3>1, <3>2
  <2>5. CASE Len(w) # 0
    <3>1. 1 \in 1 .. Len(w) /\ Len(w) \in 1 .. Len(w)
      BY <2>2, <2>5
    <3>2. Taken(SubSeq(w, 1, Len(w)), op) = Piece(t, p[1], p[Len(w) + 1])
      BY <1>1, <2>1, <3>1, TakenIs
    <3>3. Piece(t, 1, Len(t) + 1) = t
      BY <2>2 DEF Piece
    <3> QED BY <2>2, <2>3, <3>2, <3>3
  <2> QED BY <2>4, <2>5
<1>3. Taken(w, "del") = a /\ Taken(w, "ins") = b
  BY <1>1, <1>2
<1> QED
  BY <1>3 DEF w

(* A countdown of the steps that keep their line counts them. *)
LEMMA KeptAre ==
    ASSUME NEW w, Len(w) \in Nat, NEW n, Ticked(w, n)
    PROVE  Cardinality({k \in 1 .. Len(w) : w[k][1] = "equal"}) = n
<1>1. PICK r : Ticks(r, w, n)
  BY DEF Ticked
<1>2. /\ \A k \in 1 .. Len(w) + 1 : r[k] \in Nat
      /\ \A k \in 1 .. Len(w) : r[k] = IF w[k][1] = "equal" THEN r[k + 1] + 1 ELSE r[k + 1]
      /\ r[1] = n /\ r[Len(w) + 1] = 0
  BY <1>1 DEF Ticks
<1> DEFINE Ticking(k) == {j \in 1 .. k : w[j][1] = "equal"}
           Good(k) == IsFiniteSet(Ticking(k)) /\ Cardinality(Ticking(k)) = n - r[k + 1]
           bad == {k \in Nat : k \in 0 .. Len(w) /\ ~Good(k)}
<1>3. ASSUME bad # {} PROVE FALSE
  <2>1. PICK k \in bad : \A j \in bad : k <= j
    <3>1. bad \in SUBSET Nat
      OBVIOUS
    <3> QED BY <1>3, <3>1, Least
  <2>2. k \in Nat /\ k \in 0 .. Len(w) /\ ~Good(k)
    BY <2>1
  <2>3. n \in Nat
    BY <1>2
  <2>4. CASE k = 0
    <3>1. Ticking(k) = {}
      BY <2>4
    <3>2. n - r[k + 1] = 0
      BY <1>2, <2>3, <2>4
    <3>3. IsFiniteSet(Ticking(k)) /\ Cardinality(Ticking(k)) = 0
      BY <3>1, FS_EmptySet
    <3> QED BY <2>2, <3>2, <3>3
  <2>5. CASE k # 0
    <3> DEFINE h == k - 1
    <3>1. h \in Nat /\ h \in 0 .. Len(w) /\ h + 1 = k /\ h < k /\ k \in 1 .. Len(w) /\ k + 1 \in 1 .. Len(w) + 1
      BY <2>2, <2>5
    <3>2. Good(h)
      <4> HIDE DEF Good, h
      <4> QED BY <2>1, <3>1
    <3>3. \A j : j \in 1 .. k <=> j \in 1 .. h \/ j = k
      BY <3>1
    <3>4. k \notin 1 .. h
      BY <3>1
    <3> HIDE DEF h
    <3>5. r[k] \in Nat /\ r[k + 1] \in Nat
      BY <1>2, <3>1
    <3>6. CASE w[k][1] = "equal"
      <4>1. Ticking(k) = Ticking(h) \cup {k} /\ k \notin Ticking(h)
        BY <3>3, <3>4, <3>6
      <4>2. IsFiniteSet(Ticking(k)) /\ Cardinality(Ticking(k)) = Cardinality(Ticking(h)) + 1
        <5> HIDE DEF Ticking
        <5> QED BY <3>2, <4>1, FS_AddElement
      <4>3. r[k] = r[k + 1] + 1 /\ Cardinality(Ticking(h)) = n - r[k]
        BY <1>2, <3>1, <3>2, <3>6
      <4> HIDE DEF Ticking
      <4> QED BY <2>2, <2>3, <3>5, <4>2, <4>3
    <3>7. CASE w[k][1] # "equal"
      <4>1. Ticking(k) = Ticking(h)
        BY <3>3, <3>7
      <4>2. r[k] = r[k + 1]
        BY <1>2, <3>1, <3>7
      <4> HIDE DEF Ticking
      <4> QED BY <2>2, <3>1, <3>2, <4>1, <4>2
    <3> QED BY <3>6, <3>7
  <2> QED BY <2>4, <2>5
<1>4. Good(Len(w))
  <2>1. Len(w) \in 0 .. Len(w)
    OBVIOUS
  <2> HIDE DEF Good
  <2> QED BY <1>3, <2>1
<1> QED
  BY <1>2, <1>4

(* Without a pair, an alignment is one. *)
LEMMA AlignmentsAre ==
    ASSUME NEW L, NEW a \in Seq(L), NEW b \in Seq(L), NEW M \in Alignments(a, b)
    PROVE  /\ IsFiniteSet(M) /\ Cardinality(M) \in Nat
           /\ \A p \in M : /\ p[1] \in 1 .. Len(a) /\ p[2] \in 1 .. Len(b) /\ a[p[1]] = b[p[2]]
                           /\ p = <<p[1], p[2]>>
           /\ \A p, q \in M : p # q => (p[1] < q[1] /\ p[2] < q[2]) \/ (p[1] > q[1] /\ p[2] > q[2])
           /\ \A e : M \ {e} \in Alignments(a, b)
<1>1. DOMAIN a = 1 .. Len(a) /\ DOMAIN b = 1 .. Len(b) /\ Len(a) \in Nat /\ Len(b) \in Nat
  BY LenProperties
<1>2. /\ M \in SUBSET {p \in (DOMAIN a) \X (DOMAIN b) : a[p[1]] = b[p[2]]}
      /\ \A p, q \in M : p # q => (p[1] < q[1] /\ p[2] < q[2]) \/ (p[1] > q[1] /\ p[2] > q[2])
  BY DEF Alignments
<1>3. M \in SUBSET ((1 .. Len(a)) \X (1 .. Len(b)))
  BY <1>1, <1>2
<1>4. IsFiniteSet((1 .. Len(a)) \X (1 .. Len(b)))
  <2>1. IsFiniteSet(1 .. Len(a)) /\ IsFiniteSet(1 .. Len(b))
    BY <1>1, FS_Interval
  <2> QED BY <2>1, FS_Product
<1>5. IsFiniteSet(M)
  BY <1>3, <1>4, FS_Subset
<1>6. ASSUME NEW p \in M
      PROVE  p[1] \in 1 .. Len(a) /\ p[2] \in 1 .. Len(b) /\ p = <<p[1], p[2]>>
  BY <1>3
<1>7. ASSUME NEW e PROVE M \ {e} \in Alignments(a, b)
  BY <1>2 DEF Alignments
<1> QED
  BY <1>2, <1>5, <1>6, <1>7, FS_CardinalityType

(* The table holds the size of the largest alignment of what is left. *)
LEMMA NoMoreThanLcs ==
    ASSUME NEW L, NEW a \in Seq(L), NEW b \in Seq(L), NEW M \in Alignments(a, b)
    PROVE  Cardinality(M) <= Lcs(a, b)[<<1, 1>>]
<1> DEFINE n == Len(a)
           m == Len(b)
           dp == Lcs(a, b)
           LeftOf(c) == {K \in Alignments(a, b) : \A p \in K : p[1] >= c[1] /\ p[2] >= c[2]}
           Good(c) == \A K \in LeftOf(c) : Cardinality(K) <= dp[c]
           bad == {h \in Nat : \E c \in Cells(a, b) : h = n + m + 2 - (c[1] + c[2]) /\ ~Good(c)}
<1>1. Tables(a, b, dp)
  BY LcsTables
<1>2. n \in Nat /\ m \in Nat
  OBVIOUS
<1>3. \A c \in Cells(a, b) :
         c[1] \in 1 .. n + 1 /\ c[2] \in 1 .. m + 1 /\ c = <<c[1], c[2]>>
  BY DEF Cells
<1>d. \A c \in Cells(a, b) : dp[c] \in Nat
  BY <1>1 DEF Tables
<1> HIDE DEF dp
<1>4. ASSUME bad # {} PROVE FALSE
  <2>1. PICK h \in bad : \A k \in bad : h <= k
    <3>1. bad \in SUBSET Nat
      OBVIOUS
    <3> QED
      BY <1>4, <3>1, Least
  <2>2. PICK c \in Cells(a, b) : h = n + m + 2 - (c[1] + c[2]) /\ ~Good(c)
    BY <2>1
  <2> DEFINE u == c[1]
             v == c[2]
  <2>3. u \in 1 .. n + 1 /\ v \in 1 .. m + 1 /\ c = <<u, v>>
    BY <1>3
  <2>5. ASSUME NEW d \in Cells(a, b), d[1] + d[2] > u + v PROVE Good(d)
    <3>1. d[1] \in 1 .. n + 1 /\ d[2] \in 1 .. m + 1
      BY <1>3
    <3>0. h = n + m + 2 - (u + v)
      BY <2>2
    <3>2. n + m + 2 - (d[1] + d[2]) \in Nat /\ n + m + 2 - (d[1] + d[2]) < h
      <4>1. \A x, y \in Nat : \A s1 \in 1 .. x + 1, s2 \in 1 .. y + 1, t1 \in 1 .. x + 1, t2 \in 1 .. y + 1 :
               s1 + s2 > t1 + t2 =>
                  /\ x + y + 2 - (s1 + s2) \in Nat
                  /\ x + y + 2 - (s1 + s2) < x + y + 2 - (t1 + t2)
        OBVIOUS
      <4> HIDE DEF n, m, u, v
      <4> QED BY <1>2, <2>3, <2>5, <3>0, <3>1, <4>1
    <3>3. ~Good(d) => n + m + 2 - (d[1] + d[2]) \in bad
      BY <3>2
    <3> HIDE DEF bad, Good
    <3> QED BY <1>2, <2>1, <2>2, <3>1, <3>2, <3>3
  <2>6. PICK K \in LeftOf(c) : ~(Cardinality(K) <= dp[c])
    BY <2>2
  <2>7. K \in Alignments(a, b) /\ \A p \in K : p[1] >= u /\ p[2] >= v
    BY <2>6
  <2> DEFINE size == Cardinality(K)
  <2>8. /\ IsFiniteSet(K) /\ size \in Nat
        /\ \A p \in K : /\ p[1] \in 1 .. n /\ p[2] \in 1 .. m /\ a[p[1]] = b[p[2]]
                        /\ p = <<p[1], p[2]>>
        /\ \A p, q \in K : p # q => (p[1] < q[1] /\ p[2] < q[2]) \/ (p[1] > q[1] /\ p[2] > q[2])
        /\ \A e : K \ {e} \in Alignments(a, b)
    BY <2>7, AlignmentsAre
  <2>9. CASE u > n \/ v > m
    <3>1. K = {}
      <4> HIDE DEF n, m, u, v
      <4> QED BY <1>2, <2>3, <2>7, <2>8, <2>9
    <3>2. dp[c] = 0
      BY <1>1, <2>9 DEF Tables, dp
    <3> QED BY <2>6, <3>1, <3>2, FS_EmptySet
  <2>10. CASE ~(u > n \/ v > m)
    <3>1. u \in 1 .. n /\ v \in 1 .. m
      BY <1>2, <2>3, <2>10
    <3>2. /\ Diag(c) \in Cells(a, b) /\ Diag(c)[1] = u + 1 /\ Diag(c)[2] = v + 1
          /\ Down(c) \in Cells(a, b) /\ Down(c)[1] = u + 1 /\ Down(c)[2] = v
          /\ Right(c) \in Cells(a, b) /\ Right(c)[1] = u /\ Right(c)[2] = v + 1
      <4>1. \A j \in 1 .. n : j \in 1 .. n + 1 /\ j + 1 \in 1 .. n + 1
        BY <1>2
      <4>2. \A j \in 1 .. m : j \in 1 .. m + 1 /\ j + 1 \in 1 .. m + 1
        BY <1>2
      <4>3. u \in 1 .. n + 1 /\ u + 1 \in 1 .. n + 1 /\ v \in 1 .. m + 1 /\ v + 1 \in 1 .. m + 1
        BY <3>1, <4>1, <4>2
      <4> QED BY <4>3 DEF Diag, Down, Right, Cells
    <3>3. Good(Diag(c)) /\ Good(Down(c)) /\ Good(Right(c))
      <4>1. u \in Nat /\ v \in Nat
        BY <3>1
      <4> HIDE DEF Good, u, v
      <4>2. Diag(c)[1] + Diag(c)[2] > u + v /\ Down(c)[1] + Down(c)[2] > u + v /\ Right(c)[1] + Right(c)[2] > u + v
        BY <3>2, <4>1
      <4> QED BY <2>5, <3>2, <4>2 DEF u, v
    <3>4. /\ dp[Diag(c)] \in Nat /\ dp[Down(c)] \in Nat /\ dp[Right(c)] \in Nat /\ dp[c] \in Nat
      BY <1>d, <3>2
    <3>5. dp[c] = IF a[u] = b[v] THEN dp[Diag(c)] + 1
                  ELSE IF dp[Down(c)] >= dp[Right(c)] THEN dp[Down(c)] ELSE dp[Right(c)]
      BY <1>1, <2>10 DEF Tables, dp
    <3>6. ASSUME NEW p \in K PROVE p[1] \in Nat /\ p[2] \in Nat /\ p[1] >= u /\ p[2] >= v
      BY <2>7, <2>8
    <3>7. CASE a[u] = b[v]
      <4>1. dp[c] = dp[Diag(c)] + 1
        BY <3>5, <3>7
      <4>2. CASE \A p \in K : p[1] # u /\ p[2] # v
        <5>1. \A p \in K : p[1] >= u + 1 /\ p[2] >= v + 1
          <6> HIDE DEF u, v
          <6> QED BY <2>3, <3>1, <3>6, <4>2
        <5>2. K \in LeftOf(Diag(c))
          BY <2>7, <3>2, <5>1
        <5>3. size <= dp[Diag(c)]
          <6> HIDE DEF LeftOf
          <6> QED BY <3>3, <5>2
        <5> HIDE DEF size
        <5> QED BY <2>6, <2>8, <3>4, <4>1, <5>3 DEF size
      <4>3. ASSUME NEW e \in K, e[1] = u \/ e[2] = v PROVE FALSE
        <5> DEFINE Rest == K \ {e}
        <5>1. ASSUME NEW p \in Rest PROVE p[1] >= u + 1 /\ p[2] >= v + 1
          <6>1. p \in K /\ p # e
            OBVIOUS
          <6>2. (p[1] < e[1] /\ p[2] < e[2]) \/ (p[1] > e[1] /\ p[2] > e[2])
            BY <2>8, <6>1
          <6>3. /\ p[1] \in Nat /\ p[2] \in Nat /\ p[1] >= u /\ p[2] >= v
                /\ e[1] \in Nat /\ e[2] \in Nat /\ e[1] >= u /\ e[2] >= v
            BY <3>6, <6>1
          <6> HIDE DEF u, v
          <6> QED BY <3>1, <4>3, <6>2, <6>3, SMTT(20)
        <5>2. Rest \in LeftOf(Diag(c))
          <6>1. Rest \in Alignments(a, b)
            BY <2>8
          <6> HIDE DEF Rest
          <6> QED BY <3>2, <5>1, <6>1
        <5>3. Cardinality(Rest) <= dp[Diag(c)]
          <6> HIDE DEF LeftOf, Rest
          <6> QED BY <3>3, <5>2
        <5>4. Cardinality(Rest) = size - 1
          BY <2>8, <4>3, FS_RemoveElement
        <5> HIDE DEF size, Rest
        <5> QED BY <2>6, <2>8, <3>4, <4>1, <5>3, <5>4 DEF size
      <4> QED BY <4>2, <4>3
    <3>8. CASE a[u] # b[v]
      <4>1. dp[Down(c)] <= dp[c] /\ dp[Right(c)] <= dp[c]
        BY <3>4, <3>5, <3>8
      <4>2. CASE \A p \in K : p[1] # u
        <5>1. \A p \in K : p[1] >= u + 1 /\ p[2] >= v
          <6> HIDE DEF u, v
          <6> QED BY <2>3, <3>1, <3>6, <4>2
        <5>2. K \in LeftOf(Down(c))
          BY <2>7, <3>2, <5>1
        <5>3. size <= dp[Down(c)]
          <6> HIDE DEF LeftOf
          <6> QED BY <3>3, <5>2
        <5> HIDE DEF size
        <5> QED BY <2>6, <2>8, <3>4, <4>1, <5>3 DEF size
      <4>3. CASE \A p \in K : p[2] # v
        <5>1. \A p \in K : p[1] >= u /\ p[2] >= v + 1
          <6> HIDE DEF u, v
          <6> QED BY <2>3, <3>1, <3>6, <4>3
        <5>2. K \in LeftOf(Right(c))
          BY <2>7, <3>2, <5>1
        <5>3. size <= dp[Right(c)]
          <6> HIDE DEF LeftOf
          <6> QED BY <3>3, <5>2
        <5> HIDE DEF size
        <5> QED BY <2>6, <2>8, <3>4, <4>1, <5>3 DEF size
      <4>4. ASSUME NEW p \in K, NEW q \in K, p[1] = u, q[2] = v PROVE FALSE
        <5>1. p # q
          BY <2>8, <3>8, <4>4
        <5>2. (p[1] < q[1] /\ p[2] < q[2]) \/ (p[1] > q[1] /\ p[2] > q[2])
          BY <2>8, <5>1
        <5>3. /\ p[1] \in Nat /\ p[2] \in Nat /\ p[1] >= u /\ p[2] >= v
              /\ q[1] \in Nat /\ q[2] \in Nat /\ q[1] >= u /\ q[2] >= v
          BY <3>6
        <5> HIDE DEF u, v
        <5> QED BY <3>1, <4>4, <5>2, <5>3
      <4> QED BY <4>2, <4>3, <4>4
    <3> QED BY <3>7, <3>8
  <2> QED BY <2>9, <2>10
<1>5. <<1, 1>> \in Cells(a, b) /\ n + m + 2 - (1 + 1) \in Nat
  BY <1>2 DEF Cells
<1>6. Good(<<1, 1>>)
  <2>1. <<1, 1>>[1] = 1 /\ <<1, 1>>[2] = 1
    OBVIOUS
  <2>2. ~Good(<<1, 1>>) => n + m + 2 - (1 + 1) \in bad
    <3> HIDE DEF Good
    <3> QED BY <1>5, <2>1
  <2> HIDE DEF bad
  <2> QED BY <1>4, <2>2
<1>7. M \in LeftOf(<<1, 1>>)
  <2>1. \A p \in M : p[1] \in 1 .. Len(a) /\ p[2] \in 1 .. Len(b)
    BY AlignmentsAre
  <2> QED BY <1>2, <2>1
<1>8. Cardinality(M) <= dp[<<1, 1>>]
  <2> HIDE DEF LeftOf
  <2> QED BY <1>6, <1>7
<1> QED
  BY <1>8 DEF dp

(* A diff keeps as many lines as can be kept in order. *)
LEMMA DiffKeepsMost ==
    ASSUME NEW L, NEW a \in Seq(L), NEW b \in Seq(L), NEW M \in Alignments(a, b)
    PROVE  Cardinality(M) <= Cardinality({k \in DOMAIN Diff(a, b) : Diff(a, b)[k][1] = "equal"})
<1> DEFINE w == Diff(a, b)
           n == Lcs(a, b)[<<1, 1>>]
<1>1. w \in Seq(Steps(L)) /\ Ticked(w, n)
  BY DiffIsScript DEF Script
<1>2. Cardinality(M) <= n
  BY NoMoreThanLcs
<1> HIDE DEF w, n
<1>3. Len(w) \in Nat /\ DOMAIN w = 1 .. Len(w)
  BY <1>1, LenProperties
<1>4. Cardinality({k \in 1 .. Len(w) : w[k][1] = "equal"}) = n
  BY <1>1, <1>3, KeptAre
<1> QED
  BY <1>2, <1>3, <1>4 DEF w
=================================================================================
