------------------------------- MODULE ScanProofs -------------------------------
(*****************************************************************************)
(* For every file, tree, baseline and limit: what `scan`, its gate and that  *)
(* of `invariants` report, how far the scan of brackets can be off, what     *)
(* stays the identity of a finding, and that the annotations a runner reads  *)
(* are the findings.                                                         *)
(*****************************************************************************)
EXTENDS MCScan, FiniteSetTheorems, FunctionTheorems, SequenceTheorems, WellFoundedInduction, TLAPS

-----------------------------------------------------------------------------
(* Recursion and counting.                                                   *)

LEMMA Lowest ==
    ASSUME NEW S \in SUBSET Nat, S # {}
    PROVE  \E m \in S : \A n \in S : m <= n
<1>1. PICK m \in S : \A n \in S : ~(<<n, m>> \in OpToRel(<, Nat))
  BY NatLessThanWellFounded, WFMin, Zenon
<1>2. ASSUME NEW n \in Nat, NEW k \in Nat, n < k PROVE <<n, k>> \in OpToRel(<, Nat)
  <2>1. <<n, k>> \in Nat \X Nat /\ <<n, k>>[1] = n /\ <<n, k>>[2] = k
    OBVIOUS
  <2> QED
    BY <1>2, <2>1, Zenon DEF OpToRel
<1>3. ASSUME NEW n \in S PROVE ~(n < m)
  BY <1>1, <1>2, Zenon
<1> QED
  BY <1>3

Carries(f, k, base, step) ==
    f[0] = base /\ \A n \in 1 .. k : f[n] = step[<<n, f[n - 1]>>]

(* A value is carried from step to step: there is a function that does so,   *)
(* by the first length for which there were none.                            *)
LEMMA Carried ==
    ASSUME NEW length \in Nat, NEW S, NEW base \in S, NEW step \in [(1 .. length) \X S -> S]
    PROVE  \E f \in [0 .. length -> S] : Carries(f, length, base, step)
<1> USE DEF Carries
<1> DEFINE short == {k \in 0 .. length : ~\E f \in [0 .. k -> S] : Carries(f, k, base, step)}
<1>1. short = {}
  <2> SUFFICES ASSUME short # {} PROVE FALSE
    OBVIOUS
  <2>1. PICK k \in short : \A m \in short : k <= m
    <3>1. short \in SUBSET Nat
      OBVIOUS
    <3> QED
      BY <3>1, Lowest
  <2>2. CASE k = 0
    <3>1. [n \in 0 .. 0 |-> base] \in [0 .. 0 -> S] /\ Carries([n \in 0 .. 0 |-> base], 0, base, step)
      OBVIOUS
    <3> QED
      BY <2>1, <2>2, <3>1
  <2>3. CASE k # 0
    <3>1. k \in 1 .. length /\ k - 1 \in 0 .. length /\ k - 1 \notin short
      <4>1. short \subseteq 0 .. length
        OBVIOUS
      <4> HIDE DEF short
      <4> QED
        BY <2>1, <2>3, <4>1
    <3>2. PICK f \in [0 .. k - 1 -> S] : Carries(f, k - 1, base, step)
      BY <3>1
    <3>3. <<k, f[k - 1]>> \in (1 .. length) \X S
      BY <3>1
    <3>4. step[<<k, f[k - 1]>>] \in S
      BY <3>3
    <3> DEFINE g == [n \in 0 .. k |-> IF n = k THEN step[<<k, f[k - 1]>>] ELSE f[n]]
    <3>5. g \in [0 .. k -> S]
      BY <3>1, <3>4
    <3>6. g[0] = base
      BY <3>1, <3>2
    <3>7. ASSUME NEW n \in 1 .. k PROVE g[n] = step[<<n, g[n - 1]>>]
      <4>1. CASE n = k
        <5>1. g[k] = step[<<k, f[k - 1]>>] /\ g[k - 1] = f[k - 1]
          BY <3>1
        <5> QED
          BY <4>1, <5>1, Zenon
      <4>2. CASE n # k
        BY <3>1, <3>2, <4>2
      <4> QED
        BY <4>1, <4>2
    <3>8. Carries(g, k, base, step)
      BY <3>6, <3>7
    <3> QED
      BY <2>1, <3>5, <3>8
  <2> QED
    BY <2>2, <2>3
<1>2. length \notin short
  BY <1>1
<1> QED
  BY <1>2

(* FlattenSeq, one sequence after the other.                                 *)
Flattens(f, seqs, length) ==
    \A k \in 1 .. length : f[k] = IF k = 1 THEN seqs[1] ELSE f[k - 1] \o seqs[k]

Agree(f, g, length) == \A k \in 1 .. length : f[k] = g[k]

LEMMA FlattenAgrees ==
    ASSUME NEW seqs, NEW length \in Nat, NEW f, NEW g,
           Flattens(f, seqs, length), Flattens(g, seqs, length)
    PROVE  Agree(f, g, length)
<1> USE DEF Flattens, Agree
<1> DEFINE apart == {k \in 1 .. length : f[k] # g[k]}
<1> SUFFICES ASSUME apart # {} PROVE FALSE
  OBVIOUS
<1>1. PICK k \in apart : \A m \in apart : k <= m
  <2>1. apart \in SUBSET Nat
    OBVIOUS
  <2> QED
    BY <2>1, Lowest
<1>2. k # 1 => k - 1 \in 1 .. length /\ k - 1 \notin apart
  <2> apart \subseteq 1 .. length
    OBVIOUS
  <2> HIDE DEF apart
  <2> QED
    BY <1>1
<1> QED
  BY <1>1, <1>2

LEMMA FlattenExists ==
    ASSUME NEW S, NEW seqs \in Seq(Seq(S)), seqs # <<>>
    PROVE  \E g \in [1 .. Len(seqs) -> Seq(S)] :
               /\ Flattens(g, seqs, Len(seqs))
               /\ FlattenSeq(seqs) = g[Len(seqs)]
<1> DEFINE length == Len(seqs)
           Is(g) == g = [i \in 1 .. Len(seqs) |-> IF i = 1 THEN seqs[i] ELSE g[i - 1] \o seqs[i]]
           step == [p \in (1 .. length) \X Seq(S) |-> p[2] \o seqs[p[1]]]
<1>1. length \in Nat /\ length # 0 /\ \A k \in 1 .. length : seqs[k] \in Seq(S)
  BY LenProperties, ElementOfSeq, EmptySeq
<1>2. step \in [(1 .. length) \X Seq(S) -> Seq(S)] /\ <<>> \in Seq(S)
  BY <1>1, ConcatProperties, EmptySeq
<1>3. PICK f \in [0 .. length -> Seq(S)] : Carries(f, length, <<>>, step)
  BY <1>1, <1>2, Carried
<1>4. \A k \in 1 .. length : f[k] = f[k - 1] \o seqs[k]
  <2> TAKE k \in 1 .. length
  <2>1. k - 1 \in 0 .. length
    BY <1>1
  <2>3. f[k - 1] \in Seq(S) /\ <<k, f[k - 1]>> \in (1 .. length) \X Seq(S)
    BY <1>3, <2>1, Zenon
  <2>2. step[<<k, f[k - 1]>>] = f[k - 1] \o seqs[k]
    BY <2>3
  <2> QED
    BY <1>3, <2>2 DEF Carries
<1>5. f[1] = seqs[1]
  <2>1. 1 \in 1 .. length /\ f[0] = <<>>
    BY <1>1, <1>3 DEF Carries
  <2>2. <<>> \o seqs[1] = seqs[1]
    BY <1>1, <2>1, ConcatEmptySeq
  <2>3. f[1] = f[0] \o seqs[1]
    BY <1>4, <2>1, SMTT(20)
  <2> QED
    BY <2>1, <2>2, <2>3
<1> DEFINE g == [k \in 1 .. length |-> f[k]]
<1>6. g \in [1 .. length -> Seq(S)]
  BY <1>1
<1>7. Flattens(g, seqs, length)
  <2> SUFFICES ASSUME NEW k \in 1 .. length
               PROVE  g[k] = IF k = 1 THEN seqs[1] ELSE g[k - 1] \o seqs[k]
    BY DEF Flattens
  <2>1. g[k] = f[k] /\ (k # 1 => g[k - 1] = f[k - 1])
    BY <1>1
  <2> QED
    BY <1>4, <1>5, <2>1, Zenon
<1>8. Is(g)
  BY <1>7 DEF Flattens
<1>9. PICK h : Is(h) /\ FlattenSeq(seqs) = h[length]
  BY <1>1, <1>8, Zenon DEF FlattenSeq
<1> HIDE DEF g
<1>11. Flattens(h, seqs, length)
  BY <1>9 DEF Flattens
<1>12. \A k \in 1 .. length : g[k] = h[k]
  <2>1. length \in Nat
    BY <1>1
  <2> HIDE DEF length
  <2>2. Agree(g, h, length)
    BY <1>7, <1>11, <2>1, FlattenAgrees, Zenon
  <2> QED
    BY <2>2, Zenon DEF Agree
<1>13. FlattenSeq(seqs) = g[length]
  <2>1. length \in 1 .. length
    BY <1>1
  <2> QED
    BY <1>9, <1>12, <2>1, Zenon
<1> QED
  BY <1>6, <1>7, <1>13, Zenon

LEMMA FlattenEmpty == FlattenSeq(<<>>) = <<>>
BY DEF FlattenSeq

LEMMA FlattenIsSeq ==
    ASSUME NEW S, NEW seqs \in Seq(Seq(S))
    PROVE  FlattenSeq(seqs) \in Seq(S)
<1>1. CASE seqs = <<>>
  BY <1>1, FlattenEmpty, EmptySeq
<1>2. CASE seqs # <<>>
  <2>1. Len(seqs) \in 1 .. Len(seqs)
    BY <1>2, LenProperties, EmptySeq
  <2>2. PICK g \in [1 .. Len(seqs) -> Seq(S)] : FlattenSeq(seqs) = g[Len(seqs)]
    BY <1>2, FlattenExists, Zenon
  <2> QED
    BY <2>1, <2>2, Zenon
<1> QED
  BY <1>1, <1>2

LEMMA FlattenAppend ==
    ASSUME NEW S, NEW seqs \in Seq(Seq(S)), NEW s \in Seq(S)
    PROVE  FlattenSeq(Append(seqs, s)) = FlattenSeq(seqs) \o s
<1> DEFINE more == Append(seqs, s)
           length == Len(seqs)
<1>1. /\ more \in Seq(Seq(S)) /\ more # <<>> /\ Len(more) = length + 1 /\ length \in Nat
      /\ more[length + 1] = s /\ \A k \in 1 .. length : more[k] = seqs[k]
  BY AppendProperties, LenProperties
<1>2. PICK g \in [1 .. Len(more) -> Seq(S)] :
         /\ Flattens(g, more, Len(more))
         /\ FlattenSeq(more) = g[Len(more)]
  BY <1>1, FlattenExists
<1> HIDE DEF more
<1>3. CASE seqs = <<>>
  <2>1. FlattenSeq(more) = s
    <3>1. length = 0 /\ 1 \in 1 .. Len(more)
      BY <1>1, <1>3
    <3> QED
      BY <1>1, <1>2, <3>1 DEF Flattens
  <2>2. <<>> \o s = s
    BY ConcatEmptySeq
  <2> QED
    BY <1>3, <2>1, <2>2, FlattenEmpty DEF more
<1>4. CASE seqs # <<>>
  <2>1. length # 0
    BY <1>4, EmptySeq, LenProperties
  <2>2. PICK h \in [1 .. length -> Seq(S)] :
           /\ Flattens(h, seqs, length)
           /\ FlattenSeq(seqs) = h[length]
    BY <1>4, FlattenExists
  <2>3. Flattens(g, seqs, length)
    <3> SUFFICES ASSUME NEW k \in 1 .. length
                 PROVE  g[k] = IF k = 1 THEN seqs[1] ELSE g[k - 1] \o seqs[k]
      BY DEF Flattens
    <3>1. k \in 1 .. Len(more) /\ more[k] = seqs[k] /\ more[1] = seqs[1]
      BY <1>1, <2>1
    <3> QED
      BY <1>2, <3>1 DEF Flattens
  <2>4. g[length] = h[length]
    <3>1. \A k \in 1 .. length : g[k] = h[k]
      <4>1. length \in Nat
        BY <1>1
      <4> HIDE DEF length
      <4>2. Agree(g, h, length)
        BY <2>2, <2>3, <4>1, FlattenAgrees, Zenon
      <4> QED
        BY <4>2, Zenon DEF Agree
    <3> QED
      BY <1>1, <2>1, <3>1
  <2>5. g[length + 1] = g[length] \o s
    <3>1. \A k \in 1 .. Len(more) : k # 1 => g[k] = g[k - 1] \o more[k]
      BY <1>2 DEF Flattens
    <3>2. length + 1 \in 1 .. Len(more) /\ length + 1 # 1 /\ length + 1 - 1 = length
      BY <1>1, <2>1
    <3>3. PICK k \in 1 .. Len(more) : k = length + 1 /\ k # 1 /\ k - 1 = length
      BY <1>1, <3>2
    <3>4. g[k] = g[k - 1] \o more[k]
      BY <3>1, <3>3, Zenon
    <3> QED
      BY <1>1, <3>3, <3>4, Zenon
  <2> QED
    BY <1>1, <1>2, <2>2, <2>4, <2>5 DEF more
<1> QED
  BY <1>3, <1>4

-----------------------------------------------------------------------------
(* NestingDepth: the scan's count and the real nesting differ by the         *)
(* brackets in text at most, in either direction.                            *)
BracketsOK ==
    /\ depth \in Nat /\ exceeds \in BOOLEAN
    /\ nested \in Nat /\ deepest \in Nat
    /\ opened \in Nat /\ closed \in Nat /\ brackets \in Nat

CountInBounds ==
    /\ depth <= nested + opened
    /\ nested <= depth + closed
    /\ nested <= deepest

BracketInv == BracketsOK /\ CountInBounds /\ WrongByTextOnly

LEMMA BracketInitial == N!Init => BracketInv
<1> SUFFICES ASSUME N!Init PROVE BracketInv
  OBVIOUS
<1>1. exceeds \in BOOLEAN /\ ~exceeds
  BY Zenon DEF N!Init
<1>2. BracketsOK /\ CountInBounds
  BY <1>1 DEF N!Init, BracketsOK, CountInBounds
<1>3. WrongByTextOnly
  BY <1>1, StagesAssumption DEF N!NestingAssumption, N!Init, WrongByTextOnly, N!WrongByTextOnly
<1> QED
  BY <1>2, <1>3 DEF BracketInv

(* A bracket that is counted: the scan goes over the limit only if code and  *)
(* text together do, and misses what closing brackets in text have hidden.   *)
LEMMA OpeningKept == BracketInv /\ (N!Open \/ N!OpenInText) => BracketInv'
<1> SUFFICES ASSUME BracketInv, N!Open \/ N!OpenInText PROVE BracketInv'
  OBVIOUS
<1>0. MAX_NESTING_DEPTH \in Nat /\ MaxBrackets \in Nat
  BY StagesAssumption DEF N!NestingAssumption
<1> USE DEF BracketInv, BracketsOK, CountInBounds, N!Counted, N!Bracket, N!TooDeep
<1>1. CASE N!Open
  <2>1. BracketsOK' /\ CountInBounds'
    BY <1>0, <1>1 DEF N!Open
  <2>2. ~exceeds /\ (exceeds' <=> depth + 1 > MAX_NESTING_DEPTH)
    BY <1>1, Zenon DEF N!Open
  <2>3. WrongByTextOnly'
    BY <1>0, <1>1, <2>2 DEF N!Open, WrongByTextOnly, N!WrongByTextOnly
  <2> QED
    BY <2>1, <2>3
<1>2. CASE N!OpenInText
  <2>1. BracketsOK' /\ CountInBounds'
    BY <1>0, <1>2 DEF N!OpenInText
  <2>2. ~exceeds /\ (exceeds' <=> depth + 1 > MAX_NESTING_DEPTH)
    BY <1>2, Zenon DEF N!OpenInText
  <2>3. WrongByTextOnly'
    BY <1>0, <1>2, <2>2 DEF N!OpenInText, WrongByTextOnly, N!WrongByTextOnly
  <2> QED
    BY <2>1, <2>3
<1> QED
  BY <1>1, <1>2

(* A bracket that is taken off, down to 0. *)
LEMMA ClosingKept == BracketInv /\ (N!Close \/ N!CloseInText) => BracketInv'
<1> SUFFICES ASSUME BracketInv, N!Close \/ N!CloseInText PROVE BracketInv'
  OBVIOUS
<1>0. MAX_NESTING_DEPTH \in Nat /\ MaxBrackets \in Nat
  BY StagesAssumption DEF N!NestingAssumption
<1> USE DEF BracketInv, BracketsOK, CountInBounds, N!Uncounted, N!Bracket
<1>1. CASE N!Close
  <2>1. BracketsOK' /\ CountInBounds'
    BY <1>0, <1>1 DEF N!Close
  <2>2. WrongByTextOnly'
    BY <1>0, <1>1 DEF N!Close, WrongByTextOnly, N!WrongByTextOnly
  <2> QED
    BY <2>1, <2>2
<1>2. CASE N!CloseInText
  <2>1. BracketsOK' /\ CountInBounds'
    BY <1>0, <1>2 DEF N!CloseInText
  <2>2. WrongByTextOnly'
    BY <1>0, <1>2 DEF N!CloseInText, WrongByTextOnly, N!WrongByTextOnly
  <2> QED
    BY <2>1, <2>2
<1> QED
  BY <1>1, <1>2

(* Whatever the limit and the file, the decision is wrong by the brackets in *)
(* strings and comments only: exact where there are none.                    *)
THEOREM DecidesWithinText == MCSpec => []WrongByTextOnly
<1>1. MCInit => BracketInv
  BY BracketInitial DEF MCInit
<1>2. BracketInv /\ UNCHANGED nvars => BracketInv'
  BY DEF BracketInv, BracketsOK, CountInBounds, WrongByTextOnly, N!WrongByTextOnly, nvars
<1>3. BracketInv /\ N!Next => BracketInv'
  BY OpeningKept, ClosingKept DEF N!Next
<1>4. BracketInv /\ [MCNext]_<<part, vars, fvars, avars, nvars, gvars>> => BracketInv'
  BY <1>2, <1>3 DEF MCNext
<1>5. BracketInv => WrongByTextOnly
  BY DEF BracketInv
<1> QED
  BY <1>1, <1>4, <1>5, PTL DEF MCSpec

-----------------------------------------------------------------------------
(* Gates: how often a fingerprint occurs.                                    *)

LEMMA SameCardinality == \A S : G!Cardinality(S) = Cardinality(S)
BY Zenon DEF G!Cardinality, Cardinality

LEMMA OneToOne ==
    ASSUME NEW S, NEW T, IsFiniteSet(S), NEW f \in [S -> T],
           \A a, b \in S : f[a] = f[b] => a = b,
           \A t \in T : \E a \in S : f[a] = t
    PROVE  IsFiniteSet(T) /\ Cardinality(T) = Cardinality(S)
<1>1. f \in Surjection(S, T)
  BY Zenon DEF Surjection
<1>2. f \in Bijection(S, T)
  BY <1>1, Fun_IsBij
<1>3. ExistsBijection(S, T)
  BY <1>2, Fun_ExistsBij, Zenon
<1> QED
  BY <1>3, FS_Bijection

LEMMA Disjoint ==
    ASSUME NEW S, NEW T, IsFiniteSet(S), IsFiniteSet(T), S \cap T = {}
    PROVE  /\ IsFiniteSet(S \cup T)
           /\ Cardinality(S \cup T) = Cardinality(S) + Cardinality(T)
<1>1. Cardinality(S) \in Nat /\ Cardinality(T) \in Nat /\ Cardinality({}) = 0
  BY FS_CardinalityType, FS_EmptySet
<1>2. /\ IsFiniteSet(S \cup T)
      /\ Cardinality(S \cup T) = Cardinality(S) + Cardinality(T) - Cardinality(S \cap T)
  BY FS_Union
<1>3. Cardinality(S \cap T) = 0
  BY <1>1, Zenon
<1> QED
  BY <1>1, <1>2, <1>3

(* The places of p in s. *)
Places(s, p) == {i \in DOMAIN s : s[i] = p}

LEMMA Countable ==
    ASSUME NEW S, NEW s \in Seq(S), NEW p
    PROVE  IsFiniteSet(Places(s, p)) /\ Cardinality(Places(s, p)) \in Nat
<1>1. DOMAIN s = 1 .. Len(s) /\ Len(s) \in Nat
  BY LenProperties
<1>2. IsFiniteSet(1 .. Len(s))
  BY <1>1, FS_Interval
<1>3. IsFiniteSet(Places(s, p))
  BY <1>1, <1>2, FS_Subset DEF Places
<1> QED
  BY <1>3, FS_CardinalityType

LEMMA Bagged ==
    ASSUME NEW s, NEW p \in Prints
    PROVE  G!Bag(s)[p] = Cardinality(Places(s, p))
BY SameCardinality, Zenon DEF G!Bag, Places

LEMMA ConcatCounts ==
    ASSUME NEW S, NEW s \in Seq(S), NEW t \in Seq(S), NEW p
    PROVE  Cardinality(Places(s \o t, p)) = Cardinality(Places(s, p)) + Cardinality(Places(t, p))
<1>1. /\ Len(s) \in Nat /\ Len(t) \in Nat
      /\ DOMAIN s = 1 .. Len(s) /\ DOMAIN t = 1 .. Len(t)
      /\ DOMAIN (s \o t) = 1 .. Len(s) + Len(t)
      /\ \A i \in 1 .. Len(s) + Len(t) :
            (s \o t)[i] = IF i <= Len(s) THEN s[i] ELSE t[i - Len(s)]
  BY ConcatProperties, LenProperties
<1> DEFINE later == {i \in Places(s \o t, p) : i > Len(s)}
           f == [i \in Places(t, p) |-> i + Len(s)]
<1>2. Places(s \o t, p) = Places(s, p) \cup later /\ Places(s, p) \cap later = {}
  BY <1>1 DEF Places
<1>3. f \in [Places(t, p) -> later]
  BY <1>1 DEF Places
<1>4. \A a, b \in Places(t, p) : f[a] = f[b] => a = b
  BY <1>1 DEF Places
<1>5. \A j \in later : \E a \in Places(t, p) : f[a] = j
  <2> SUFFICES ASSUME NEW j \in later PROVE \E a \in Places(t, p) : f[a] = j
    OBVIOUS
  <2>1. j \in 1 .. Len(s) + Len(t) /\ j > Len(s) /\ (s \o t)[j] = p
    BY <1>1 DEF Places
  <2>2. j - Len(s) \in Places(t, p)
    BY <1>1, <2>1 DEF Places
  <2>3. f[j - Len(s)] = j
    BY <1>1, <2>1, <2>2
  <2> QED
    BY <2>2, <2>3
<1> HIDE DEF f, later
<1>6. IsFiniteSet(later) /\ Cardinality(later) = Cardinality(Places(t, p))
  BY <1>3, <1>4, <1>5, Countable, OneToOne
<1> QED
  BY <1>2, <1>6, Countable, Disjoint

LEMMA AppendCounts ==
    ASSUME NEW S, NEW s \in Seq(S), NEW e \in S, NEW p
    PROVE  Cardinality(Places(Append(s, e), p)) =
               IF e = p THEN Cardinality(Places(s, p)) + 1 ELSE Cardinality(Places(s, p))
<1>1. /\ Len(s) \in Nat /\ DOMAIN s = 1 .. Len(s) /\ DOMAIN Append(s, e) = 1 .. Len(s) + 1
      /\ Append(s, e)[Len(s) + 1] = e
      /\ \A i \in 1 .. Len(s) : Append(s, e)[i] = s[i]
  BY AppendProperties, LenProperties
<1>2. Len(s) + 1 \notin Places(s, p)
  BY <1>1 DEF Places
<1>3. IsFiniteSet(Places(s, p))
  BY Countable
<1>4. CASE e = p
  <2>1. Places(Append(s, e), p) = Places(s, p) \cup {Len(s) + 1}
    BY <1>1, <1>4 DEF Places
  <2> QED
    BY <1>2, <1>3, <1>4, <2>1, FS_AddElement
<1>5. CASE e # p
  <2>1. Places(Append(s, e), p) = Places(s, p)
    BY <1>1, <1>5 DEF Places
  <2> QED
    BY <1>5, <2>1
<1> QED
  BY <1>4, <1>5

(* Retain: what is left of a budget for each fingerprint, and what was kept  *)
(* without one, after each of the leaks.                                     *)
Budgets == [kept : Seq(Prints), remaining : [Prints -> Nat]]

Spend(acc, p) ==
    IF acc.remaining[p] > 0
    THEN [acc EXCEPT !.remaining[p] = @ - 1]
    ELSE [acc EXCEPT !.kept = Append(@, p)]

Spends(f, s, e, n) ==
    IF n = 0 THEN [kept |-> <<>>, remaining |-> G!Bag(e)] ELSE Spend(f[n - 1], s[n])

LEMMA BagIsBudget ==
    ASSUME NEW e \in Seq(Prints)
    PROVE  G!Bag(e) \in [Prints -> Nat]
<1>1. G!Bag(e) = [p \in Prints |-> Cardinality(Places(e, p))]
  BY SameCardinality, Zenon DEF G!Bag, Places
<1>2. \A p \in Prints : Cardinality(Places(e, p)) \in Nat
  BY Countable
<1> QED
  BY <1>1, <1>2

LEMMA SpendIsBudget ==
    ASSUME NEW acc \in Budgets, NEW p \in Prints
    PROVE  /\ Spend(acc, p) \in Budgets
           /\ \A q \in Prints : Spend(acc, p).remaining[q] =
                  IF q = p /\ acc.remaining[p] > 0 THEN acc.remaining[q] - 1 ELSE acc.remaining[q]
           /\ Spend(acc, p).kept = IF acc.remaining[p] > 0 THEN acc.kept ELSE Append(acc.kept, p)
<1>1. /\ acc.kept \in Seq(Prints) /\ acc.remaining \in [Prints -> Nat]
      /\ acc.remaining[p] \in Nat
      /\ acc = [kept |-> acc.kept, remaining |-> acc.remaining]
  BY DEF Budgets
<1>2. Append(acc.kept, p) \in Seq(Prints)
  BY <1>1, AppendProperties
<1>3. CASE acc.remaining[p] > 0
  <2>1. Spend(acc, p) = [kept |-> acc.kept, remaining |-> [acc.remaining EXCEPT ![p] = @ - 1]]
    BY <1>1, <1>3 DEF Spend, Budgets
  <2>2. [acc.remaining EXCEPT ![p] = @ - 1] \in [Prints -> Nat]
    BY <1>1, <1>3
  <2>3. \A q \in Prints : [acc.remaining EXCEPT ![p] = @ - 1][q] =
            IF q = p THEN acc.remaining[q] - 1 ELSE acc.remaining[q]
    BY <1>1, <1>3
  <2> QED
    BY <1>1, <1>3, <2>1, <2>2, <2>3 DEF Budgets
<1>4. CASE ~(acc.remaining[p] > 0)
  <2>1. Spend(acc, p) = [kept |-> Append(acc.kept, p), remaining |-> acc.remaining]
    BY <1>1, <1>4 DEF Spend, Budgets
  <2> QED
    BY <1>1, <1>2, <1>4, <2>1 DEF Budgets
<1> QED
  BY <1>3, <1>4

LEMMA Retained ==
    ASSUME NEW s \in Seq(Prints), NEW e \in Seq(Prints)
    PROVE  \E f \in [0 .. Len(s) -> Budgets] :
               /\ G!Retain(s, e) = f[Len(s)].kept
               /\ \A n \in 0 .. Len(s) : f[n] = Spends(f, s, e, n)
<1> DEFINE base == [kept |-> <<>>, remaining |-> G!Bag(e)]
           step == [x \in (1 .. Len(s)) \X Budgets |-> Spend(x[2], s[x[1]])]
<1>1. Len(s) \in Nat /\ \A n \in 1 .. Len(s) : s[n] \in Prints
  BY LenProperties, ElementOfSeq
<1>2. base \in Budgets
  BY BagIsBudget, EmptySeq DEF Budgets
<1>3. step \in [(1 .. Len(s)) \X Budgets -> Budgets]
  <2>1. ASSUME NEW x \in (1 .. Len(s)) \X Budgets PROVE Spend(x[2], s[x[1]]) \in Budgets
    BY <1>1, SpendIsBudget
  <2> QED
    BY <2>1
<1>4. \A n \in 1 .. Len(s), acc \in Budgets : step[<<n, acc>>] = Spend(acc, s[n])
  OBVIOUS
<1> HIDE DEF base, step
<1>5. PICK f \in [0 .. Len(s) -> Budgets] : Carries(f, Len(s), base, step)
  BY <1>1, <1>2, <1>3, Carried, Zenon
<1>6. ASSUME NEW n \in 0 .. Len(s) PROVE f[n] = Spends(f, s, e, n)
  <2>1. CASE n = 0
    BY <1>5, <2>1 DEF Carries, Spends, base
  <2>2. CASE n # 0
    <3>1. n \in 1 .. Len(s) /\ n - 1 \in 0 .. Len(s)
      BY <1>1, <2>2
    <3>2. f[n] = Spend(f[n - 1], s[n])
      BY <1>4, <1>5, <3>1 DEF Carries
    <3> QED
      BY <2>2, <3>2 DEF Spends
  <2> QED
    BY <2>1, <2>2
<1>7. f = [n \in 0 .. Len(s) |-> Spends(f, s, e, n)]
  BY <1>6
<1> DEFINE g == CHOOSE h : h = [n \in 0 .. Len(s) |-> Spends(h, s, e, n)]
<1>8. G!Retain(s, e) = g[Len(s)].kept
  BY Zenon DEF G!Retain, Spends, Spend
<1>9. g = [n \in 0 .. Len(s) |-> Spends(g, s, e, n)]
  BY <1>7, Zenon
<1> HIDE DEF g
<1>10. ASSUME NEW h, h = [n \in 0 .. Len(s) |-> Spends(h, s, e, n)] PROVE h = f
  <2> DEFINE apart == {n \in 0 .. Len(s) : h[n] # f[n]}
  <2>1. apart = {}
    <3> SUFFICES ASSUME apart # {} PROVE FALSE
      OBVIOUS
    <3>1. PICK n \in apart : \A m \in apart : n <= m
      <4>1. apart \in SUBSET Nat
        BY <1>1
      <4> QED
        BY <4>1, Lowest
    <3>2. n \in 0 .. Len(s) /\ h[n] # f[n]
      BY <3>1
    <3>3. h[n] = Spends(h, s, e, n)
      BY <1>10, <3>2
    <3>4. CASE n = 0
      BY <1>6, <3>2, <3>3, <3>4 DEF Spends
    <3>5. CASE n # 0
      <4>1. n - 1 \in 0 .. Len(s) /\ ~(n <= n - 1)
        BY <1>1, <3>2, <3>5
      <4>2. h[n - 1] = f[n - 1]
        BY <3>1, <4>1
      <4>3. Spends(h, s, e, n) = Spends(f, s, e, n)
        BY <4>2, Zenon DEF Spends
      <4> QED
        BY <1>6, <3>2, <3>3, <4>3
    <3> QED
      BY <3>4, <3>5
  <2>2. \A n \in 0 .. Len(s) : h[n] = f[n]
    BY <2>1
  <2>3. h = [n \in 0 .. Len(s) |-> h[n]]
    BY <1>10
  <2> QED
    BY <1>5, <2>2, <2>3
<1> QED
  BY <1>6, <1>8, <1>9, <1>10

Occurs(p, s) == \E i \in DOMAIN s : s[i] = p

Upto(s, n, p) == Cardinality({i \in 1 .. n : s[i] = p})

LEMMA UptoNone ==
    ASSUME NEW s, NEW p
    PROVE  Upto(s, 0, p) = 0
<1>1. {i \in 1 .. 0 : s[i] = p} = {}
  OBVIOUS
<1> QED
  BY <1>1, FS_EmptySet DEF Upto

LEMMA UptoCounts ==
    ASSUME NEW s, NEW p, NEW n \in Nat \ {0}
    PROVE  /\ Upto(s, n - 1, p) \in Nat
           /\ Upto(s, n, p) = IF s[n] = p THEN Upto(s, n - 1, p) + 1 ELSE Upto(s, n - 1, p)
<1> DEFINE before == {i \in 1 .. n - 1 : s[i] = p}
<1>1. IsFiniteSet(1 .. n - 1)
  BY FS_Interval
<1>2. before \in SUBSET (1 .. n - 1)
  OBVIOUS
<1>3. IsFiniteSet(before) /\ Cardinality(before) \in Nat
  BY <1>1, <1>2, FS_Subset, FS_CardinalityType
<1>4. n \notin before
  OBVIOUS
<1>5. {i \in 1 .. n : s[i] = p} = IF s[n] = p THEN before \cup {n} ELSE before
  OBVIOUS
<1> HIDE DEF before
<1>6. Cardinality(before \cup {n}) = Cardinality(before) + 1
  BY <1>3, <1>4, FS_AddElement
<1>7. Upto(s, n - 1, p) = Cardinality(before)
  BY DEF Upto, before
<1> QED
  BY <1>3, <1>5, <1>6, <1>7 DEF Upto

(* The budget of a fingerprint goes down to nothing as it occurs; what it    *)
(* cannot pay for any more is kept.                                          *)
Spent(acc, s, e, n) ==
    \A p \in Prints :
        LET budget == Cardinality(Places(e, p))
            count  == Upto(s, n, p)
        IN  /\ acc.remaining[p] = IF count <= budget THEN budget - count ELSE 0
            /\ Occurs(p, acc.kept) <=> count > budget

LEMMA SpendSpends ==
    ASSUME NEW s \in Seq(Prints), NEW e \in Seq(Prints), NEW n \in 1 .. Len(s),
           NEW acc \in Budgets, Spent(acc, s, e, n - 1)
    PROVE  Spent(Spend(acc, s[n]), s, e, n)
<1> DEFINE after == Spend(acc, s[n])
<1>1. Len(s) \in Nat /\ s[n] \in Prints /\ n \in Nat \ {0}
  BY LenProperties, ElementOfSeq
<1>2. /\ \A q \in Prints : after.remaining[q] =
            IF q = s[n] /\ acc.remaining[s[n]] > 0 THEN acc.remaining[q] - 1 ELSE acc.remaining[q]
      /\ after.kept = IF acc.remaining[s[n]] > 0 THEN acc.kept ELSE Append(acc.kept, s[n])
  BY <1>1, SpendIsBudget
<1> HIDE DEF after
<1> SUFFICES ASSUME NEW p \in Prints
             PROVE  LET budget == Cardinality(Places(e, p))
                        count  == Upto(s, n, p)
                    IN  /\ after.remaining[p] = IF count <= budget THEN budget - count ELSE 0
                        /\ Occurs(p, after.kept) <=> count > budget
  BY DEF Spent, after
<1> DEFINE budget == Cardinality(Places(e, p))
           before == Upto(s, n - 1, p)
           count  == Upto(s, n, p)
<1>3. budget \in Nat
  BY Countable
<1>4. before \in Nat /\ count = IF s[n] = p THEN before + 1 ELSE before
  <2>1. n \in Nat \ {0}
    BY <1>1
  <2> QED
    BY <2>1, UptoCounts
<1>5. /\ acc.remaining[p] = IF before <= budget THEN budget - before ELSE 0
      /\ Occurs(p, acc.kept) <=> before > budget
  BY DEF Spent
<1>6. ASSUME ~(acc.remaining[s[n]] > 0)
      PROVE  Occurs(p, after.kept) <=> Occurs(p, acc.kept) \/ p = s[n]
  <2>1. acc.kept \in Seq(Prints) /\ after.kept = Append(acc.kept, s[n])
    BY <1>2, <1>6 DEF Budgets
  <2>2. /\ Len(acc.kept) \in Nat /\ DOMAIN acc.kept = 1 .. Len(acc.kept)
        /\ DOMAIN after.kept = 1 .. Len(acc.kept) + 1
        /\ after.kept[Len(acc.kept) + 1] = s[n]
        /\ \A i \in 1 .. Len(acc.kept) : after.kept[i] = acc.kept[i]
    BY <1>1, <2>1, AppendProperties, LenProperties
  <2>3. Len(acc.kept) + 1 \in DOMAIN after.kept
    BY <2>2
  <2>4. Occurs(p, acc.kept) \/ p = s[n] => Occurs(p, after.kept)
    <3>1. p = s[n] => Occurs(p, after.kept)
      BY <2>2, <2>3, Zenon DEF Occurs
    <3>2. ASSUME NEW i \in DOMAIN acc.kept, acc.kept[i] = p
          PROVE  i \in DOMAIN after.kept /\ after.kept[i] = p
      BY <2>2, <3>2
    <3> QED
      BY <3>1, <3>2, Zenon DEF Occurs
  <2>5. ASSUME NEW i \in DOMAIN after.kept, after.kept[i] = p, p # s[n]
        PROVE  i \in DOMAIN acc.kept /\ acc.kept[i] = p
    <3>1. i # Len(acc.kept) + 1
      BY <2>2, <2>5
    <3>2. i \in 1 .. Len(acc.kept)
      BY <2>2, <3>1
    <3> QED
      BY <2>2, <2>5, <3>2
  <2> QED
    BY <2>4, <2>5, Zenon DEF Occurs
<1> HIDE DEF budget, before, count
<1>7. CASE s[n] = p
  <2>1. CASE acc.remaining[p] > 0
    <3>1. after.remaining[p] = acc.remaining[p] - 1 /\ after.kept = acc.kept
      BY <1>2, <1>7, <2>1
    <3>2. before < budget
      BY <1>3, <1>4, <1>5, <2>1
    <3> QED
      BY <1>3, <1>4, <1>5, <1>7, <3>1, <3>2 DEF budget, before, count
  <2>2. CASE ~(acc.remaining[p] > 0)
    <3>1. after.remaining[p] = acc.remaining[p] /\ Occurs(p, after.kept)
      BY <1>2, <1>6, <1>7, <2>2
    <3>2. before >= budget
      BY <1>3, <1>4, <1>5, <2>2
    <3> QED
      BY <1>3, <1>4, <1>5, <1>7, <2>2, <3>1, <3>2 DEF budget, before, count
  <2> QED
    BY <2>1, <2>2
<1>8. CASE s[n] # p
  <2>1. after.remaining[p] = acc.remaining[p] /\ count = before
    BY <1>2, <1>4, <1>8
  <2>2. Occurs(p, after.kept) <=> Occurs(p, acc.kept)
    BY <1>2, <1>6, <1>8
  <2> QED
    BY <1>5, <2>1, <2>2 DEF budget, before, count
<1> QED
  BY <1>7, <1>8

(* `retain`: what is left of the leaks is what occurs more often than it did *)
(* when the baseline was written, and nothing else.                          *)
LEMMA RetainsTheExcess ==
    ASSUME NEW s \in Seq(Prints), NEW e \in Seq(Prints)
    PROVE  /\ G!Retain(s, e) \in Seq(Prints)
           /\ \A p \in Prints : Occurs(p, G!Retain(s, e)) <=> G!Bag(s)[p] > G!Bag(e)[p]
<1>1. PICK f \in [0 .. Len(s) -> Budgets] :
          /\ G!Retain(s, e) = f[Len(s)].kept
          /\ \A n \in 0 .. Len(s) : f[n] = Spends(f, s, e, n)
  BY Retained, Zenon
<1>2. Len(s) \in Nat /\ DOMAIN s = 1 .. Len(s) /\ \A n \in 1 .. Len(s) : s[n] \in Prints
  BY LenProperties, ElementOfSeq
<1>3. Spent(f[0], s, e, 0)
  <2>1. f[0] = [kept |-> <<>>, remaining |-> G!Bag(e)]
    BY <1>1, <1>2 DEF Spends
  <2>2. \A p \in Prints : ~Occurs(p, f[0].kept)
    BY <2>1 DEF Occurs
  <2>3. \A p \in Prints : f[0].remaining[p] = Cardinality(Places(e, p))
    BY <2>1, Bagged
  <2>4. \A p \in Prints : Upto(s, 0, p) = 0 /\ Cardinality(Places(e, p)) \in Nat
    BY UptoNone, Countable
  <2> QED
    BY <2>2, <2>3, <2>4 DEF Spent
<1> DEFINE wrong == {n \in 0 .. Len(s) : ~Spent(f[n], s, e, n)}
<1>4. wrong = {}
  <2> SUFFICES ASSUME wrong # {} PROVE FALSE
    OBVIOUS
  <2>1. PICK n \in wrong : \A m \in wrong : n <= m
    <3>1. wrong \in SUBSET Nat
      BY <1>2
    <3> QED
      BY <3>1, Lowest
  <2>2. n \in 0 .. Len(s) /\ ~Spent(f[n], s, e, n)
    BY <2>1
  <2>3. n \in 1 .. Len(s) /\ n - 1 \in 0 .. Len(s) /\ ~(n <= n - 1)
    BY <1>2, <1>3, <2>2
  <2>4. Spent(f[n - 1], s, e, n - 1)
    BY <2>1, <2>3
  <2>5. f[n] = Spend(f[n - 1], s[n]) /\ f[n - 1] \in Budgets
    <3>1. f[n] = Spends(f, s, e, n) /\ n # 0 /\ f[n - 1] \in Budgets
      BY <1>1, <2>3
    <3> QED
      BY <3>1, Zenon DEF Spends
  <2> QED
    BY <2>2, <2>3, <2>4, <2>5, SpendSpends
<1>5. Spent(f[Len(s)], s, e, Len(s)) /\ f[Len(s)] \in Budgets
  BY <1>2, <1>4
<1>6. \A p \in Prints : Upto(s, Len(s), p) = Cardinality(Places(s, p))
  BY <1>2 DEF Upto, Places
<1>7. \A p \in Prints : G!Bag(s)[p] = Cardinality(Places(s, p)) /\ G!Bag(e)[p] = Cardinality(Places(e, p))
  BY Bagged
<1> QED
  BY <1>1, <1>5, <1>6, <1>7 DEF Spent, Budgets

(* FlattenSeq: the concatenations of longer and longer prefixes.             *)
Joins(g, q, i) == IF i = 1 THEN q[i] ELSE g[i - 1] \o q[i]

Concatenates(f, n, q) ==
    /\ f[0] = <<>>
    /\ \A i \in 1 .. n : f[i] = f[i - 1] \o q[i]
    /\ G!FlattenSeq(q) = f[n]

LEMMA Flattened ==
    ASSUME NEW S, NEW n \in Nat, NEW q \in [1 .. n -> Seq(S)]
    PROVE  \E f \in [0 .. n -> Seq(S)] : Concatenates(f, n, q)
<1> DEFINE step == [x \in (1 .. n) \X Seq(S) |-> x[2] \o q[x[1]]]
<1>1. <<>> \in Seq(S)
  BY EmptySeq
<1>2. step \in [(1 .. n) \X Seq(S) -> Seq(S)]
  BY ConcatProperties
<1>3. \A i \in 1 .. n, t \in Seq(S) : step[<<i, t>>] = t \o q[i]
  OBVIOUS
<1> HIDE DEF step
<1>4. PICK f \in [0 .. n -> Seq(S)] : Carries(f, n, <<>>, step)
  BY <1>1, <1>2, Carried, Zenon
<1>5. f[0] = <<>> /\ \A i \in 1 .. n : f[i - 1] \in Seq(S) /\ f[i] = f[i - 1] \o q[i]
  <2>1. \A i \in 1 .. n : i - 1 \in 0 .. n
    OBVIOUS
  <2> QED
    BY <1>3, <1>4, <2>1 DEF Carries
<1>6. q \in Seq(Seq(S)) /\ Len(q) = n
  OBVIOUS
<1>7. CASE n = 0
  <2>1. q = <<>>
    BY <1>6, <1>7, EmptySeq
  <2>2. G!FlattenSeq(q) = q
    BY <1>6, <1>7, Zenon DEF G!FlattenSeq
  <2> QED
    BY <1>5, <1>7, <2>1, <2>2 DEF Concatenates
<1>8. CASE n # 0
  <2> DEFINE flatten == CHOOSE g : g = [i \in 1 .. n |-> Joins(g, q, i)]
  <2>1. G!FlattenSeq(q) = flatten[n]
    BY <1>6, <1>8, Zenon DEF G!FlattenSeq, Joins
  <2>2. ASSUME NEW i \in 1 .. n PROVE f[i] = Joins(f, q, i)
    <3>1. CASE i = 1
      <4>1. f[i] = <<>> \o q[i] /\ q[i] \in Seq(S)
        <5>1. 1 \in 1 .. n /\ 1 - 1 = 0
          BY <3>1
        <5>2. f[1] = f[1 - 1] \o q[1]
          BY <1>5, <5>1
        <5> QED
          BY <1>5, <3>1, <5>1, <5>2
      <4>2. f[i] = q[i]
        BY <4>1, ConcatEmptySeq
      <4> QED
        BY <3>1, <4>2 DEF Joins
    <3>2. CASE i # 1
      BY <1>5, <3>2 DEF Joins
    <3> QED
      BY <3>1, <3>2
  <2> DEFINE h == [i \in 1 .. n |-> f[i]]
  <2>3. h = [i \in 1 .. n |-> Joins(h, q, i)]
    <3>1. ASSUME NEW i \in 1 .. n PROVE Joins(h, q, i) = Joins(f, q, i)
      <4>1. CASE i = 1
        BY <4>1 DEF Joins
      <4>2. CASE i # 1
        <5>1. i - 1 \in 1 .. n
          BY <4>2
        <5> QED
          BY <5>1 DEF Joins
      <4> QED
        BY <4>1, <4>2
    <3> QED
      BY <2>2, <3>1
  <2> HIDE DEF h
  <2>4. flatten = [i \in 1 .. n |-> Joins(flatten, q, i)]
    BY <2>3, Zenon
  <2> HIDE DEF flatten
  <2> DEFINE apart == {i \in 1 .. n : flatten[i] # f[i]}
  <2>5. apart = {}
    <3> SUFFICES ASSUME apart # {} PROVE FALSE
      OBVIOUS
    <3>1. PICK i \in apart : \A m \in apart : i <= m
      <4>1. apart \in SUBSET Nat
        OBVIOUS
      <4> QED
        BY <4>1, Lowest
    <3>2. i \in 1 .. n /\ flatten[i] # f[i]
      BY <3>1
    <3>3. flatten[i] = Joins(flatten, q, i) /\ f[i] = Joins(f, q, i)
      BY <2>2, <2>4, <3>2
    <3>4. i # 1
      BY <3>2, <3>3 DEF Joins
    <3>5. i - 1 \in 1 .. n /\ ~(i <= i - 1)
      BY <3>2, <3>4
    <3>6. flatten[i - 1] = f[i - 1]
      BY <3>1, <3>5
    <3> QED
      BY <3>2, <3>3, <3>4, <3>6, Zenon DEF Joins
  <2>6. flatten[n] = f[n]
    <3>1. n \in 1 .. n
      BY <1>8
    <3>2. \A i \in 1 .. n : flatten[i] = f[i]
      BY <2>5
    <3> QED
      BY <3>1, <3>2
  <2> QED
    BY <1>5, <2>1, <2>6 DEF Concatenates
<1> QED
  BY <1>7, <1>8

-----------------------------------------------------------------------------
(* Gates: the leaks that a scan finds.                                       *)

LEMMA Assumed ==
    /\ NFiles \in Nat /\ G!Files = 1 .. NFiles /\ MaxLeaks \in Nat /\ MaxMacroDepth \in Nat
    /\ dir \in [1 .. NFiles -> Dirs]
    /\ Confidence \in [Prints -> 1 .. 3]
    /\ \A f \in 1 .. NFiles : \A c \in Contents[f] :
        /\ c.leaks \in Seq(Prints) /\ DOMAIN c.leaks \subseteq 1 .. MaxLeaks
        /\ c.signals \subseteq G!Signals \X Nat
<1>1. G!GatesAssumption
  BY StagesAssumption
<1>2. G!Files = 1 .. NFiles /\ NFiles \in Nat /\ MaxLeaks \in Nat
  BY <1>1 DEF G!GatesAssumption, G!Files
<1>3. ASSUME NEW s \in G!BoundedSeq(Prints, MaxLeaks)
      PROVE  s \in Seq(Prints) /\ DOMAIN s \subseteq 1 .. MaxLeaks
  <2>1. PICK m \in 0 .. MaxLeaks : s \in [1 .. m -> Prints]
    BY <1>3 DEF G!BoundedSeq, G!SeqOf
  <2> QED
    BY <1>2, <2>1
<1>4. \A f \in 1 .. NFiles : \A c \in Contents[f] :
          c.leaks \in Seq(Prints) /\ DOMAIN c.leaks \subseteq 1 .. MaxLeaks
  BY <1>1, <1>2, <1>3 DEF G!GatesAssumption
<1> QED
  BY <1>1, <1>2, <1>4 DEF G!GatesAssumption, G!Thresholds

(* The places of p in the first k files that a walk can read. *)
Among(k, p) ==
    {o \in (1 .. k) \X (1 .. MaxLeaks) :
        /\ o[1] \in G!Parsed
        /\ o[2] \in DOMAIN tree[o[1]].leaks
        /\ tree[o[1]].leaks[o[2]] = p}

LEMMA OneMoreFile ==
    ASSUME G!TypeOK, NEW k \in 1 .. NFiles, NEW p
    PROVE  /\ IsFiniteSet(Among(k, p)) /\ IsFiniteSet(Among(k - 1, p))
           /\ Cardinality(Among(k, p)) = Cardinality(Among(k - 1, p)) +
                  Cardinality(Places(IF k \in G!Parsed THEN tree[k].leaks ELSE <<>>, p))
<1>1. NFiles \in Nat /\ MaxLeaks \in Nat
  BY Assumed
<1>2. /\ tree[k].leaks \in Seq(Prints)
      /\ DOMAIN tree[k].leaks \subseteq 1 .. MaxLeaks
  BY Assumed DEF G!TypeOK
<1> DEFINE here == {o \in {k} \X (1 .. MaxLeaks) :
                       /\ o[1] \in G!Parsed
                       /\ o[2] \in DOMAIN tree[o[1]].leaks
                       /\ tree[o[1]].leaks[o[2]] = p}
           found == IF k \in G!Parsed THEN tree[k].leaks ELSE <<>>
           f == [i \in Places(found, p) |-> <<k, i>>]
<1>3. Among(k, p) = Among(k - 1, p) \cup here /\ Among(k - 1, p) \cap here = {}
  BY <1>1 DEF Among
<1>4. found \in Seq(Prints)
  BY <1>2, EmptySeq
<1>5. f \in [Places(found, p) -> here]
  BY <1>2 DEF Places
<1>6. \A a, b \in Places(found, p) : f[a] = f[b] => a = b
  BY DEF Places
<1>7. \A o \in here : \E a \in Places(found, p) : f[a] = o
  <2> SUFFICES ASSUME NEW o \in here PROVE \E a \in Places(found, p) : f[a] = o
    OBVIOUS
  <2>1. o = <<k, o[2]>> /\ o[2] \in Places(found, p)
    BY DEF Places
  <2>2. f[o[2]] = o
    BY <2>1
  <2> QED
    BY <2>1, <2>2
<1>0. IsFiniteSet(Places(found, p))
  BY <1>4, Countable
<1> HIDE DEF f, here
<1>8. IsFiniteSet(here) /\ Cardinality(here) = Cardinality(Places(found, p))
  BY <1>0, <1>5, <1>6, <1>7, OneToOne
<1>9. \A m \in 0 .. NFiles : IsFiniteSet(Among(m, p))
  <2> SUFFICES ASSUME NEW m \in 0 .. NFiles PROVE IsFiniteSet(Among(m, p))
    OBVIOUS
  <2>1. IsFiniteSet(1 .. m) /\ IsFiniteSet(1 .. MaxLeaks)
    BY <1>1, FS_Interval
  <2>2. IsFiniteSet((1 .. m) \X (1 .. MaxLeaks))
    BY <2>1, FS_Product
  <2> QED
    BY <2>2, FS_Subset DEF Among
<1>10. k \in 0 .. NFiles /\ k - 1 \in 0 .. NFiles
  BY <1>1
<1>11. IsFiniteSet(Among(k, p)) /\ IsFiniteSet(Among(k - 1, p))
  BY <1>9, <1>10
<1>12. Cardinality(Among(k, p)) = Cardinality(Among(k - 1, p)) + Cardinality(here)
  BY <1>3, <1>8, <1>11, Disjoint
<1> QED
  BY <1>8, <1>11, <1>12

(* The report has each leak of the files that could be read, once. *)
LEMMA FindsThemAll ==
    ASSUME G!TypeOK
    PROVE  /\ G!FoundLeaks \in Seq(Prints)
           /\ \A p \in Prints : G!Bag(G!FoundLeaks)[p] = G!Occurring(p)
<1> DEFINE q == [k \in 1 .. NFiles |-> IF k \in G!Parsed THEN tree[k].leaks ELSE <<>>]
<1>1. NFiles \in Nat /\ G!Files = 1 .. NFiles
  BY Assumed
<1>2. q \in [1 .. NFiles -> Seq(Prints)]
  BY Assumed, EmptySeq DEF G!TypeOK
<1>3. G!FoundLeaks = G!FlattenSeq(q)
  BY <1>1, Zenon DEF G!FoundLeaks
<1>4. \A k \in 1 .. NFiles : q[k] = IF k \in G!Parsed THEN tree[k].leaks ELSE <<>>
  OBVIOUS
<1> HIDE DEF q
<1>5. PICK f \in [0 .. NFiles -> Seq(Prints)] : Concatenates(f, NFiles, q)
  BY <1>1, <1>2, Flattened
<1>6. \A k \in 0 .. NFiles : f[k] \in Seq(Prints)
  OBVIOUS
<1>7. ASSUME NEW p \in Prints
      PROVE  Cardinality(Places(f[NFiles], p)) = Cardinality(Among(NFiles, p))
  <2> DEFINE wrong == {k \in 0 .. NFiles :
                          Cardinality(Places(f[k], p)) # Cardinality(Among(k, p))}
  <2>1. wrong = {}
    <3> SUFFICES ASSUME wrong # {} PROVE FALSE
      OBVIOUS
    <3>1. PICK k \in wrong : \A m \in wrong : k <= m
      <4>1. wrong \in SUBSET Nat
        BY <1>1
      <4> QED
        BY <4>1, Lowest
    <3>2. k \in 0 .. NFiles /\ Cardinality(Places(f[k], p)) # Cardinality(Among(k, p))
      BY <3>1
    <3>3. k # 0
      <4>1. Places(f[0], p) = {} /\ Among(0, p) = {}
        BY <1>5 DEF Places, Among, Concatenates
      <4> QED
        BY <3>2, <4>1
    <3>4. k \in 1 .. NFiles /\ k - 1 \in 0 .. NFiles /\ ~(k <= k - 1)
      BY <1>1, <3>2, <3>3
    <3>5. Cardinality(Places(f[k - 1], p)) = Cardinality(Among(k - 1, p))
      BY <3>1, <3>4
    <3>6. f[k] = f[k - 1] \o q[k] /\ f[k - 1] \in Seq(Prints) /\ q[k] \in Seq(Prints)
      BY <1>2, <1>5, <1>6, <3>4 DEF Concatenates
    <3>7. Cardinality(Places(f[k], p)) =
             Cardinality(Places(f[k - 1], p)) + Cardinality(Places(q[k], p))
      BY <3>6, ConcatCounts
    <3>8. Cardinality(Among(k, p)) = Cardinality(Among(k - 1, p)) + Cardinality(Places(q[k], p))
      BY <1>4, <3>4, OneMoreFile
    <3> QED
      BY <3>2, <3>5, <3>7, <3>8
  <2>2. NFiles \in 0 .. NFiles
    BY <1>1
  <2> QED
    BY <2>1, <2>2
<1>8. ASSUME NEW p \in Prints PROVE G!Occurring(p) = Cardinality(Among(NFiles, p))
  <2>1. G!Answerable \ G!Unseen = {k \in 1 .. NFiles : k \in G!Parsed}
    BY <1>1 DEF G!Answerable, G!Unseen, G!Parsed, G!Reached
  <2>2. {o \in (G!Answerable \ G!Unseen) \X (1 .. MaxLeaks) :
            /\ o[2] \in DOMAIN tree[o[1]].leaks
            /\ tree[o[1]].leaks[o[2]] = p} = Among(NFiles, p)
    BY <2>1 DEF Among
  <2> QED
    BY <2>2, SameCardinality, Zenon DEF G!Occurring
<1>9. G!FoundLeaks = f[NFiles] /\ f[NFiles] \in Seq(Prints)
  BY <1>1, <1>3, <1>5, <1>6 DEF Concatenates
<1> QED
  BY <1>7, <1>8, <1>9, Bagged

-----------------------------------------------------------------------------
(* Gates: the inductive invariant.  What is accepted is what the baseline    *)
(* file holds, whenever it loads; the rest is said of the latest command, on *)
(* the tree it ran on.                                                       *)
StoreIsAccepted ==
    store.loads \in BOOLEAN /\ (store.loads => accepted = G!Bag(store.findings))

GateInv ==
    /\ G!TypeOK /\ StoreIsAccepted
    /\ G!DeniesExactlyNew /\ G!GreenInvariantsAssert /\ G!GateLineIsTheExitCode

LEMMA GateInitial == G!Init => GateInv
<1> SUFFICES ASSUME G!Init PROVE GateInv
  OBVIOUS
<1>1. store.loads = FALSE /\ last.command.cmd = "none" /\ last = G!Nothing
  BY Zenon DEF G!Init, G!Missing, G!Nothing
<1>2. G!TypeOK
  <2>1. accepted \in [Prints -> Nat]
    BY EmptySeq, BagIsBudget DEF G!Init
  <2> QED
    BY <1>1, <2>1 DEF G!Init, G!TypeOK
<1>3. StoreIsAccepted
  BY <1>1 DEF StoreIsAccepted
<1>4. G!DeniesExactlyNew /\ G!GreenInvariantsAssert /\ G!GateLineIsTheExitCode
  BY <1>1 DEF G!DeniesExactlyNew, G!GreenInvariantsAssert, G!GateLineIsTheExitCode, G!Gated
<1> QED
  BY <1>2, <1>3, <1>4 DEF GateInv

(* After an edit there is no latest command. *)
LEMMA NothingRan ==
    ASSUME last' = G!Nothing
    PROVE  G!DeniesExactlyNew' /\ G!GreenInvariantsAssert' /\ G!GateLineIsTheExitCode'
<1>1. last'.command.cmd = "none"
  BY DEF G!Nothing
<1> QED
  BY <1>1 DEF G!DeniesExactlyNew, G!GreenInvariantsAssert, G!GateLineIsTheExitCode, G!Gated, G!Nothing

LEMMA EditKept ==
    ASSUME GateInv, (\E f \in G!Files : G!Save(f)) \/ (\E d \in Dirs : G!Chmod(d)) \/ G!LoseBaseline
    PROVE  GateInv'
<1>1. last' = G!Nothing /\ accepted' = accepted
  BY DEF G!Save, G!Chmod, G!LoseBaseline, G!Edited
<1>2. store' = store \/ store' = G!Corrupt
  BY DEF G!Save, G!Chmod, G!LoseBaseline
<1>3. StoreIsAccepted' /\ (store'.loads => store'.findings \in Seq(Prints))
  <2>1. CASE store' = store
    BY <1>1, <2>1 DEF GateInv, StoreIsAccepted, G!TypeOK
  <2>2. CASE store' = G!Corrupt
    BY <2>2 DEF StoreIsAccepted, G!Corrupt
  <2> QED
    BY <1>2, <2>1, <2>2
<1>4. /\ \A f \in G!Files : tree'[f] \in Contents[f]
      /\ torn' \subseteq G!Files /\ locked' \subseteq Dirs
  <2>1. CASE \E f \in G!Files : G!Save(f)
    BY <2>1 DEF G!Save, GateInv, G!TypeOK
  <2>2. CASE \E d \in Dirs : G!Chmod(d)
    BY <2>2 DEF G!Chmod, GateInv, G!TypeOK
  <2>3. CASE G!LoseBaseline
    BY <2>3 DEF G!LoseBaseline, GateInv, G!TypeOK
  <2> QED
    BY <2>1, <2>2, <2>3
<1>5. G!TypeOK'
  BY <1>1, <1>3, <1>4 DEF GateInv, G!TypeOK
<1> QED
  BY <1>1, <1>3, <1>5, NothingRan DEF GateInv

(* A command that gates nothing. *)
LEMMA UngatedKept ==
    ASSUME G!TypeOK', StoreIsAccepted', NEW cmd, NEW code \in {0, 2},
           last' = [command |-> [cmd |-> cmd], line |-> "none", code |-> code],
           cmd = "baseline" \/ code = 2
    PROVE  GateInv'
<1>1. /\ last'.command.cmd = cmd /\ last'.code = code /\ last'.line = "none"
  OBVIOUS
<1>2. ~G!Gated("scan")' /\ ~G!Gated("invariants")'
  BY <1>1 DEF G!Gated
<1> QED
  BY <1>1, <1>2 DEF GateInv, G!DeniesExactlyNew, G!GreenInvariantsAssert, G!GateLineIsTheExitCode

LEMMA BaselineKept ==
    ASSUME GateInv, G!Baseline \/ G!BaselineNotWritten \/ G!WrongPath
    PROVE  GateInv'
<1>1. G!TypeOK /\ StoreIsAccepted
  BY DEF GateInv
<1>2. UNCHANGED <<tree, torn, locked>>
  BY DEF G!Baseline, G!BaselineNotWritten, G!WrongPath, G!Exits
<1>3. CASE G!Baseline
  <2>1. store'.loads = TRUE /\ store'.findings = G!FoundLeaks
    BY <1>3 DEF G!Baseline
  <2>2. G!FoundLeaks \in Seq(Prints) /\ G!Bag(G!FoundLeaks) \in [Prints -> Nat]
    BY <1>1, FindsThemAll, BagIsBudget
  <2>3. accepted' = G!Bag(G!FoundLeaks)
    BY <1>3 DEF G!Baseline
  <2>4. G!TypeOK'
    BY <1>1, <1>2, <2>1, <2>2, <2>3 DEF G!TypeOK
  <2>5. StoreIsAccepted'
    BY <2>1, <2>3 DEF StoreIsAccepted
  <2>6. last' = [command |-> [cmd |-> "baseline"], line |-> "none", code |-> 0]
    BY <1>3 DEF G!Baseline, G!Exits
  <2> QED
    BY <2>4, <2>5, <2>6, UngatedKept
<1>4. CASE G!BaselineNotWritten
  <2>1. accepted' = accepted /\ (store' = store \/ store' = G!Corrupt)
    BY <1>4 DEF G!BaselineNotWritten
  <2>2. StoreIsAccepted' /\ (store'.loads => store'.findings \in Seq(Prints))
    <3>1. CASE store' = store
      BY <1>1, <2>1, <3>1 DEF StoreIsAccepted, G!TypeOK
    <3>2. CASE store' = G!Corrupt
      BY <3>2 DEF StoreIsAccepted, G!Corrupt
    <3> QED
      BY <2>1, <3>1, <3>2
  <2>3. G!TypeOK'
    BY <1>1, <1>2, <2>1, <2>2 DEF G!TypeOK
  <2>4. last' = [command |-> [cmd |-> "baseline"], line |-> "none", code |-> 2]
    BY <1>4 DEF G!BaselineNotWritten, G!Exits
  <2> QED
    BY <2>2, <2>3, <2>4, UngatedKept
<1>5. CASE G!WrongPath
  <2>1. G!TypeOK' /\ StoreIsAccepted'
    BY <1>1, <1>2, <1>5 DEF G!WrongPath, G!TypeOK, StoreIsAccepted
  <2>2. PICK cmd : last' = [command |-> [cmd |-> cmd], line |-> "none", code |-> 2]
    BY <1>5 DEF G!WrongPath, G!Exits
  <2> QED
    BY <2>1, <2>2, UngatedKept
<1> QED
  BY <1>3, <1>4, <1>5

LEMMA TreeKept ==
    ASSUME UNCHANGED <<tree, torn, locked>>
    PROVE  /\ G!Answerable' = G!Answerable /\ G!Unseen' = G!Unseen
           /\ \A p : G!Occurring(p)' = G!Occurring(p)
           /\ \A f : G!Asserts(f)' = G!Asserts(f)
BY DEF G!Answerable, G!Unseen, G!Occurring, G!Asserts

(* What a scan keeps of its leaks are those that are new. *)
LEMMA KeepsTheNew ==
    ASSUME GateInv, NEW based \in BOOLEAN, based => store.loads
    PROVE  /\ G!Kept(based) \in Seq(Prints)
           /\ \A p \in Prints :
                 Occurs(p, G!Kept(based)) <=> G!Occurring(p) > IF based THEN accepted[p] ELSE 0
<1>1. /\ G!FoundLeaks \in Seq(Prints)
      /\ \A p \in Prints : G!Bag(G!FoundLeaks)[p] = G!Occurring(p)
  BY FindsThemAll DEF GateInv
<1>2. CASE based
  <2>1. store.findings \in Seq(Prints) /\ accepted = G!Bag(store.findings)
    BY <1>2 DEF GateInv, G!TypeOK, StoreIsAccepted
  <2>2. G!Kept(based) = G!Retain(G!FoundLeaks, store.findings)
    BY <1>2 DEF G!Kept
  <2>3. /\ G!Kept(based) \in Seq(Prints)
        /\ \A p \in Prints : Occurs(p, G!Kept(based)) <=> G!Bag(G!FoundLeaks)[p] > accepted[p]
    BY <1>1, <2>1, <2>2, RetainsTheExcess
  <2> QED
    BY <1>1, <1>2, <2>3
<1>3. CASE ~based
  <2>1. G!Kept(based) = G!FoundLeaks
    BY <1>3 DEF G!Kept
  <2>2. ASSUME NEW p \in Prints PROVE Occurs(p, G!FoundLeaks) <=> G!Occurring(p) > 0
    <3>1. G!Occurring(p) = Cardinality(Places(G!FoundLeaks, p))
      BY <1>1, Bagged
    <3>2. IsFiniteSet(Places(G!FoundLeaks, p)) /\ Cardinality(Places(G!FoundLeaks, p)) \in Nat
      BY <1>1, Countable
    <3>3. Cardinality(Places(G!FoundLeaks, p)) = 0 <=> Places(G!FoundLeaks, p) = {}
      BY <3>2, FS_EmptySet
    <3>4. Occurs(p, G!FoundLeaks) <=> Places(G!FoundLeaks, p) # {}
      BY DEF Occurs, Places
    <3> QED
      BY <3>1, <3>2, <3>3, <3>4
  <2> QED
    BY <1>1, <1>3, <2>1, <2>2
<1> QED
  BY <1>2, <1>3

LEMMA UsageErrorKept ==
    ASSUME GateInv, NEW gate, G!ScanUsageError(gate)
    PROVE  GateInv'
<1>1. G!TypeOK' /\ StoreIsAccepted'
  BY DEF GateInv, G!ScanUsageError, G!Exits, G!TypeOK, StoreIsAccepted
<1>2. last'.code = 2 /\ last'.line = "none"
  BY DEF G!ScanUsageError, G!Exits
<1>3. ~G!Gated("scan")' /\ ~G!Gated("invariants")'
  BY <1>2 DEF G!Gated
<1>4. G!DeniesExactlyNew' /\ G!GreenInvariantsAssert'
  BY <1>3 DEF G!DeniesExactlyNew, G!GreenInvariantsAssert
<1>5. G!GateLineIsTheExitCode'
  BY <1>2 DEF G!GateLineIsTheExitCode
<1> QED
  BY <1>1, <1>4, <1>5 DEF GateInv

LEMMA ScanKept ==
    ASSUME GateInv, NEW gate \in G!Thresholds \cup {G!NoGate}, NEW based \in BOOLEAN,
           G!Scan(gate, based)
    PROVE  GateInv'
<1> DEFINE denied == G!AnyAtOrAbove(G!Kept(based), gate)
           blind  == G!ScanFailures # {}
<1>1. G!TypeOK' /\ StoreIsAccepted' /\ UNCHANGED <<tree, torn, locked, accepted>>
  BY DEF GateInv, G!Scan, G!Exits, G!TypeOK, StoreIsAccepted
<1>2. gate \in 0 .. 3 /\ G!NoGate = 0 /\ (based => store.loads)
  BY DEF G!Thresholds, G!NoGate, G!Scan
<1>3. PICK code \in {0, 1, 2} :
          /\ last' = [command |-> G!ScanCommand(gate, based),
                      line |-> G!ScanLine(gate, G!Kept(based)), code |-> code]
          /\ code = IF gate = G!NoGate THEN 0
                    ELSE IF blind THEN 2 ELSE IF denied THEN 1 ELSE 0
  BY DEF G!Scan, G!Exits
<1>4. /\ last'.command.cmd = "scan" /\ last'.command.gate = (gate # G!NoGate)
      /\ last'.command.threshold = gate /\ last'.command.based = based
      /\ last'.line = G!ScanLine(gate, G!Kept(based)) /\ last'.code = code
  BY <1>3 DEF G!ScanCommand
<1>5. denied <=> \E p \in Prints : Confidence[p] >= gate /\
                    G!Occurring(p) > IF based THEN accepted[p] ELSE 0
  <2>1. G!Kept(based) \in Seq(Prints)
    BY <1>2, KeepsTheNew
  <2>2. \A i \in DOMAIN G!Kept(based) : G!Kept(based)[i] \in Prints
    BY <2>1, ElementOfSeq, LenProperties
  <2>3. denied <=> \E p \in Prints : Confidence[p] >= gate /\ Occurs(p, G!Kept(based))
    BY <2>2 DEF G!AnyAtOrAbove, Occurs
  <2> HIDE DEF denied
  <2> QED
    BY <1>2, <2>3, KeepsTheNew
<1>6. \A p \in Prints : G!IsNew(p)' <=> G!Occurring(p) > IF based THEN accepted[p] ELSE 0
  BY <1>1, <1>4, TreeKept DEF G!IsNew
<1> HIDE DEF denied, blind
<1>7. G!DeniesExactlyNew'
  <2> SUFFICES ASSUME G!Gated("scan")'
               PROVE  last'.code = 1 <=>
                        \E p \in Prints : Confidence[p] >= last'.command.threshold /\ G!IsNew(p)'
    BY DEF G!DeniesExactlyNew
  <2>1. gate # G!NoGate /\ code # 2
    BY <1>4 DEF G!Gated
  <2>2. code = 1 <=> denied
    BY <1>3, <2>1
  <2> QED
    BY <1>4, <1>5, <1>6, <2>2
<1>8. G!GreenInvariantsAssert'
  BY <1>4 DEF G!GreenInvariantsAssert, G!Gated
<1>9. G!GateLineIsTheExitCode'
  <2>1. last'.line = IF gate = G!NoGate THEN "none"
                     ELSE IF blind THEN "uncertified" ELSE IF denied THEN "FAIL" ELSE "pass"
    BY <1>4 DEF G!ScanLine, blind, denied
  <2>2. last'.command.gate => gate # G!NoGate
    BY <1>4
  <2>3. /\ last'.line = "uncertified" => last'.code = 2
        /\ last'.line = "FAIL" <=> last'.code = 1
        /\ last'.line = "pass" => last'.code = 0
        /\ last'.line = "none" => gate = G!NoGate
    <3>1. last'.code = IF gate = G!NoGate THEN 0
                       ELSE IF blind THEN 2 ELSE IF denied THEN 1 ELSE 0
      BY <1>3, <1>4
    <3> QED
      BY <2>1, <3>1
  <2> QED
    BY <2>2, <2>3, Zenon DEF G!GateLineIsTheExitCode
<1> QED
  BY <1>1, <1>7, <1>8, <1>9 DEF GateInv

(* A tree that `invariants` passes has been seen, and asserts. *)
LEMMA PassesAsserting ==
    ASSUME G!TypeOK, G!PresenceFailures = {}, ~G!AnyUnwaived("Missing")
    PROVE  /\ G!Unseen = {}
           /\ \A f \in G!Answerable :
                 <<"marker", 0>> \in tree[f].signals => G!Asserts(f) \/ tree[f].waived
<1>1. G!Unseen = {}
  BY DEF G!PresenceFailures, G!Unparsed, G!Unwalkable, G!Reached, G!Unseen, G!Answerable, G!TypeOK
<1>2. ASSUME NEW f \in G!Answerable, <<"marker", 0>> \in tree[f].signals, ~tree[f].waived
      PROVE  G!Asserts(f)
  <2>1. f \in G!Parsed
    BY <1>1 DEF G!Parsed, G!Reached, G!Unseen, G!Answerable
  <2>2. G!IsSite(f)
    BY <1>2 DEF G!IsSite, G!Seen
  <2>3. G!Status(f) # "Missing"
    BY <1>2, <2>1, <2>2 DEF G!AnyUnwaived
  <2>4. G!HasInvariant(f) \/ G!Seen(f, "assert")
    BY <2>3 DEF G!Status
  <2>5. PICK s \in {"Invariant::new", "engine", "check", "assert"} : G!Seen(f, s)
    BY <2>4 DEF G!HasInvariant
  <2>6. PICK d : <<s, d>> \in tree[f].signals
    BY <2>5 DEF G!Seen
  <2>7. <<s, d>>[1] = s
    OBVIOUS
  <2> QED
    BY <2>5, <2>6, <2>7, Zenon DEF G!Asserts
<1> QED
  BY <1>1, <1>2

LEMMA InvariantsKept ==
    ASSUME GateInv, NEW gated \in BOOLEAN, NEW deny_raw \in BOOLEAN, G!Invariants(gated, deny_raw)
    PROVE  GateInv'
<1> DEFINE blind   == G!PresenceFailures # {}
           missing == G!AnyUnwaived("Missing")
           raw     == G!AnyUnwaived("RawOnly")
<1>1. G!TypeOK' /\ StoreIsAccepted' /\ UNCHANGED <<tree, torn, locked, accepted>>
  BY DEF GateInv, G!Invariants, G!Exits, G!TypeOK, StoreIsAccepted
<1>2. deny_raw => gated
  BY DEF G!Invariants
<1>3. PICK code \in {0, 1, 2} :
          /\ last' = [command |-> [cmd |-> "invariants", gate |-> gated, based |-> FALSE],
                      line |-> G!InvariantsLine(gated, deny_raw), code |-> code]
          /\ code = IF gated /\ blind THEN 2
                    ELSE IF (gated /\ missing) \/ (deny_raw /\ raw) THEN 1 ELSE 0
  BY DEF G!Invariants, G!Exits
<1>4. /\ last'.command.cmd = "invariants" /\ last'.command.gate = gated
      /\ last'.line = G!InvariantsLine(gated, deny_raw) /\ last'.code = code
  BY <1>3
<1>5. last'.line = IF ~gated THEN "none" ELSE IF blind THEN "uncertified"
                   ELSE IF missing \/ (deny_raw /\ raw) THEN "FAIL" ELSE "pass"
  BY <1>4 DEF G!InvariantsLine
<1>6. ~blind /\ ~missing =>
          /\ G!Unseen = {}
          /\ \A f \in G!Answerable :
                <<"marker", 0>> \in tree[f].signals => G!Asserts(f) \/ tree[f].waived
  BY PassesAsserting DEF GateInv
<1> HIDE DEF blind, missing, raw
<1>7. G!DeniesExactlyNew'
  BY <1>4 DEF G!DeniesExactlyNew, G!Gated
<1>8. G!GreenInvariantsAssert'
  <2> SUFFICES ASSUME G!Gated("invariants")', last'.code = 0
               PROVE  /\ G!Unseen' = {}
                      /\ \A f \in G!Answerable' :
                            <<"marker", 0>> \in tree'[f].signals => G!Asserts(f)' \/ tree'[f].waived
    BY DEF G!GreenInvariantsAssert
  <2>1. ~blind /\ ~missing
    BY <1>3, <1>4 DEF G!Gated
  <2> QED
    BY <1>1, <1>6, <2>1, TreeKept
<1>9. G!GateLineIsTheExitCode'
  <2>1. last'.command.gate => gated
    BY <1>4
  <2>2. /\ last'.line = "uncertified" => last'.code = 2
        /\ last'.line = "FAIL" <=> last'.code = 1
        /\ last'.line = "pass" => last'.code = 0
        /\ last'.line = "none" => ~gated
    <3>1. last'.code = IF gated /\ blind THEN 2
                       ELSE IF (gated /\ missing) \/ (deny_raw /\ raw) THEN 1 ELSE 0
      BY <1>3, <1>4
    <3> QED
      BY <1>2, <1>5, <3>1
  <2> QED
    BY <2>1, <2>2, Zenon DEF G!GateLineIsTheExitCode
<1> QED
  BY <1>1, <1>7, <1>8, <1>9 DEF GateInv

LEMMA GateStep == GateInv /\ [G!Next]_gvars => GateInv'
<1> SUFFICES ASSUME GateInv, [G!Next]_gvars PROVE GateInv'
  OBVIOUS
<1>1. CASE UNCHANGED gvars
  BY <1>1, TreeKept DEF gvars, GateInv, G!TypeOK, StoreIsAccepted, G!DeniesExactlyNew,
       G!GreenInvariantsAssert, G!GateLineIsTheExitCode, G!Gated, G!IsNew
<1>2. CASE G!Next
  <2>1. CASE \E gate \in G!Thresholds \cup {G!NoGate} :
                G!ScanUsageError(gate) \/ \E based \in BOOLEAN : G!Scan(gate, based)
    BY <2>1, UsageErrorKept, ScanKept
  <2>2. CASE \E gated, deny_raw \in BOOLEAN : G!Invariants(gated, deny_raw)
    BY <2>2, InvariantsKept
  <2> QED
    BY <1>2, <2>1, <2>2, EditKept, BaselineKept DEF G!Next
<1> QED
  BY <1>1, <1>2

LEMMA GateInvariance == MCSpec => []GateInv
<1>1. MCInit => GateInv
  BY GateInitial DEF MCInit
<1>2. GateInv /\ [MCNext]_<<part, vars, fvars, avars, nvars, gvars>> => GateInv'
  BY GateStep DEF MCNext
<1> QED
  BY <1>1, <1>2, PTL DEF MCSpec

(* `scan --deny --baseline` fails exactly if some finding at or above the    *)
(* threshold occurs more often than when the baseline was written, for any   *)
(* tree and history of edits, failed writes and damaged baselines.           *)
THEOREM DeniesTheNew == MCSpec => []DeniesExactlyNew
<1>1. GateInv => DeniesExactlyNew
  BY DEF GateInv, DeniesExactlyNew
<1> QED
  BY <1>1, GateInvariance, PTL

(* A green `invariants --deny` has seen all it answers for, and every        *)
(* simulation there asserts or is waived; the line that a gate prints, of    *)
(* `scan` or `invariants`, is the one of its exit code.                      *)
THEOREM GreenAsserts == MCSpec => []GreenInvariantsAssert
<1>1. GateInv => GreenInvariantsAssert
  BY DEF GateInv, GreenInvariantsAssert
<1> QED
  BY <1>1, GateInvariance, PTL

-----------------------------------------------------------------------------
(* Scanner: what the classifiers answer.                                     *)

Confidences == {"High", "Medium", "Advisory"}

RuleIds == {
    "TIME_SYSTEMTIME_NOW", "TIME_INSTANT_NOW", "TIME_CHRONO_NOW",
    "TIME_OFFSETDATETIME_NOW", "TIME_TOKIO_INSTANT_NOW", "TIME_THREAD_SLEEP",
    "TIME_TOKIO_TIMER", "RAND_THREAD_RNG", "RAND_RANDOM", "RAND_OSRNG",
    "RAND_FROM_ENTROPY", "RAND_GETRANDOM", "RAND_UUID", "RAND_FASTRAND",
    "RAND_GEN_METHOD", "NET_STD", "NET_REQWEST", "NET_TOKIO", "CONC_THREAD_SPAWN",
    "CONC_TOKIO_SPAWN", "CONC_RAYON", "ENV_VAR", "ENV_PROCESS_ID", "ENV_COMMAND",
    "FS_READ_DIR", "FS_GLOB", "FS_TEMPFILE", "ATOMIC_RELAXED"}

Classes == RuleIds \cup {None}

(* A match is of a known severity, and of iteration by its one rule only.    *)
Sound(m) ==
    /\ m.confidence \in Confidences
    /\ m.category = "Iteration" <=> m.rule_id = "ITER_HASH"

LEMMA CatalogSound ==
    ASSUME NEW rule \in RuleIds \cup {"ITER_HASH"}, NEW node, NEW pos
    PROVE  Sound(Match(rule, node, pos))
<1>1. CATALOG[rule].confidence \in Confidences
  BY DEF CATALOG, Rule, RuleIds, Confidences
<1>2. CATALOG[rule].category = "Iteration" <=> rule = "ITER_HASH"
  BY DEF CATALOG, Rule, RuleIds
<1>3. /\ Match(rule, node, pos).confidence = CATALOG[rule].confidence
      /\ Match(rule, node, pos).category = CATALOG[rule].category
      /\ Match(rule, node, pos).rule_id = rule
  BY DEF Match
<1> QED
  BY <1>1, <1>2, <1>3, Zenon DEF Sound

LEMMA Guarded ==
    ASSUME NEW rule, NEW segs, NEW key, NEW root
    PROVE  guard_high(rule, segs, key, root) \in {rule, None}
BY DEF guard_high

LEMMA MethodsClassed == \A m : classify_method(m) \in Classes
BY DEF classify_method, Classes, RuleIds

LEMMA PathsClassed == \A segs : classify_path(segs) \in Classes
BY Guarded DEF classify_path, Classes, RuleIds

LEMMA CallsClassed == \A segs : classify_call(segs) \in Classes
<1> SUFFICES ASSUME NEW segs PROVE classify_call(segs) \in Classes
  OBVIOUS
<1> DEFINE clauses == CallClauses(segs)
<1>1. DOMAIN clauses = 1 .. 26 /\ clauses[26][1] = TRUE
  BY DEF CallClauses
<1>2. \A i \in 1 .. 26 : clauses[i][2] \in Classes
  <2> DEFINE Right(i) == clauses[i][2] \in Classes
  <2>1. \A rule \in RuleIds : \A ss, key, root : guard_high(rule, ss, key, root) \in Classes
    BY Guarded DEF Classes
  <2>2. Right(1) /\ Right(2) /\ Right(3) /\ Right(4)
    BY <2>1 DEF CallClauses, Classes, RuleIds
  <2>3. Right(5) /\ Right(6) /\ Right(7) /\ Right(8)
    BY <2>1 DEF CallClauses, Classes, RuleIds
  <2>4. Right(9) /\ Right(10) /\ Right(11) /\ Right(12)
    BY <2>1 DEF CallClauses, Classes, RuleIds
  <2>5. Right(13) /\ Right(14) /\ Right(15) /\ Right(16)
    BY <2>1 DEF CallClauses, Classes, RuleIds
  <2>6. Right(17) /\ Right(18) /\ Right(19) /\ Right(20)
    BY <2>1 DEF CallClauses, Classes, RuleIds
  <2>7. Right(21) /\ Right(22) /\ Right(23) /\ Right(24)
    BY <2>1 DEF CallClauses, Classes, RuleIds
  <2>8. Right(25) /\ Right(26)
    BY <2>1 DEF CallClauses, Classes, RuleIds
  <2> HIDE DEF Right
  <2>9. \A i \in 1 .. 26 : Right(i)
    BY <2>2, <2>3, <2>4, <2>5, <2>6, <2>7, <2>8
  <2> QED
    BY <2>9 DEF Right
<1> HIDE DEF clauses
<1>3. \E i \in 1 .. 26 : clauses[i][1] /\ \A j \in 1 .. i - 1 : ~clauses[j][1]
  <2> DEFINE true == {i \in 1 .. 26 : clauses[i][1]}
  <2>1. true \in SUBSET Nat /\ true # {}
    BY <1>1
  <2>2. PICK i \in true : \A j \in true : i <= j
    BY <2>1, Lowest
  <2> QED
    BY <2>2
<1>4. classify_call(segs) \in {clauses[i][2] : i \in 1 .. 26}
  BY <1>1, <1>3 DEF classify_call, clauses
<1> QED
  BY <1>2, <1>4

-----------------------------------------------------------------------------
(* Scanner: the one finding of each place.                                   *)

SamePlace(m, l) == m.at = l.at /\ m.category = l.category

(* Every match has one finding of its place, that is at least as severe.     *)
Strongest(found, matches) ==
    \A m \in matches : \E i \in DOMAIN found :
        /\ SamePlace(found[i], m)
        /\ \A j \in DOMAIN found : SamePlace(found[j], m) => j = i
        /\ Rank[found[i].confidence] >= Rank[m.confidence]

Recorded(found, matches) ==
    /\ found \in Seq(matches)
    /\ \A m \in matches : Sound(m)
    /\ Strongest(found, matches)

LEMMA RecordKept ==
    ASSUME NEW found, NEW matches, Recorded(found, matches), NEW match, Sound(match)
    PROVE  Recorded(record(found, match), matches \cup {match})
<1> DEFINE same == {i \in DOMAIN found : found[i].at = match.at
                                            /\ found[i].category = match.category}
           old  == CHOOSE i \in same : \A j \in same : i <= j
           all  == matches \cup {match}
           new  == record(found, match)
           R(m) == Rank[m.confidence]
<1>1. /\ found \in Seq(matches) /\ found \in Seq(all)
      /\ Len(found) \in Nat /\ DOMAIN found = 1 .. Len(found)
      /\ \A i \in DOMAIN found : found[i] \in matches
  <2>1. found \in Seq(matches)
    BY DEF Recorded
  <2> QED
    BY <2>1, LenProperties, ElementOfSeq, SeqMonotonic
<1>2. \A m \in all : Sound(m)
  BY DEF Recorded
<1>3. \A m \in all : R(m) \in Int
  BY <1>2 DEF Sound, Confidences, Rank
<1>4. \A i \in same, j \in DOMAIN found : SamePlace(found[j], match) => j = i
  <2> SUFFICES ASSUME NEW i \in same, NEW j \in DOMAIN found, SamePlace(found[j], match)
               PROVE  j = i
    OBVIOUS
  <2>1. PICK k \in DOMAIN found : \A l \in DOMAIN found : SamePlace(found[l], found[i]) => l = k
    BY <1>1 DEF Recorded, Strongest
  <2> QED
    BY <2>1 DEF SamePlace
<1>5. CASE same = {}
  <2>1. new = Append(found, match)
    BY <1>5 DEF record
  <2>2. /\ new \in Seq(all) /\ DOMAIN new = 1 .. Len(found) + 1
        /\ new[Len(found) + 1] = match /\ \A i \in DOMAIN found : new[i] = found[i]
    BY <1>1, <2>1, AppendProperties
  <2>3. \A i \in DOMAIN found : ~SamePlace(found[i], match)
    BY <1>5 DEF SamePlace
  <2> HIDE DEF new, same
  <2>4. ASSUME NEW m \in matches
        PROVE  \E i \in DOMAIN new :
                  /\ SamePlace(new[i], m)
                  /\ \A j \in DOMAIN new : SamePlace(new[j], m) => j = i
                  /\ R(new[i]) >= R(m)
    <3>1. PICK i \in DOMAIN found :
              /\ SamePlace(found[i], m)
              /\ \A j \in DOMAIN found : SamePlace(found[j], m) => j = i
              /\ R(found[i]) >= R(m)
      BY DEF Recorded, Strongest
    <3>2. ~SamePlace(match, m)
      BY <2>3, <3>1 DEF SamePlace
    <3>3. i \in DOMAIN new /\ new[i] = found[i]
      BY <1>1, <2>2
    <3>4. ASSUME NEW j \in DOMAIN new, SamePlace(new[j], m) PROVE j = i
      <4>1. j # Len(found) + 1
        BY <2>2, <3>2, <3>4
      <4>2. j \in DOMAIN found
        BY <1>1, <2>2, <4>1
      <4> QED
        BY <2>2, <3>1, <3>4, <4>2
    <3> QED
      BY <3>1, <3>3, <3>4
  <2>5. \E i \in DOMAIN new :
            /\ SamePlace(new[i], match)
            /\ \A j \in DOMAIN new : SamePlace(new[j], match) => j = i
            /\ R(new[i]) >= R(match)
    <3>1. Len(found) + 1 \in DOMAIN new /\ SamePlace(match, match)
      BY <1>1, <2>2 DEF SamePlace
    <3>2. \A j \in DOMAIN new : j # Len(found) + 1 => j \in DOMAIN found
      BY <1>1, <2>2
    <3> QED
      BY <1>3, <2>2, <2>3, <3>1, <3>2
  <2>6. Strongest(new, all)
    BY <2>4, <2>5 DEF Strongest
  <2> QED
    BY <1>2, <2>2, <2>6 DEF Recorded, new
<1>6. CASE same # {}
  <2>1. PICK i \in DOMAIN found : i \in same
    BY <1>6
  <2>2. old = i /\ SamePlace(found[i], match)
    <3>1. \A j \in same : j = i
      BY <1>4, <2>1 DEF SamePlace
    <3>2. old \in same
      BY <1>1, <2>1, <3>1
    <3> QED
      BY <2>1, <3>1, <3>2 DEF SamePlace
  <2>3. new = IF R(match) > R(found[i]) THEN [found EXCEPT ![i] = match] ELSE found
    <3>1. new = IF R(match) > R(found[old]) THEN [found EXCEPT ![old] = match] ELSE found
      BY <1>6, Zenon DEF record
    <3> HIDE DEF new, old
    <3> QED
      BY <2>2, <3>1
  <2>4. new \in Seq(all) /\ DOMAIN new = DOMAIN found
    <3>1. [found EXCEPT ![i] = match] \in Seq(all)
      BY <1>1, <2>1, ExceptSeq
    <3> QED
      BY <1>1, <2>3, <3>1
  <2>5. /\ \A j \in DOMAIN found : j # i => new[j] = found[j]
        /\ SamePlace(new[i], match) /\ R(new[i]) >= R(match) /\ R(new[i]) >= R(found[i])
        /\ new[i] \in all
    <3>1. R(match) \in Int /\ R(found[i]) \in Int /\ SamePlace(match, match)
      BY <1>1, <1>3, <2>1 DEF SamePlace
    <3>2. CASE R(match) > R(found[i])
      <4>1. new = [found EXCEPT ![i] = match]
        BY <2>3, <3>2
      <4>2. new[i] = match /\ \A j \in DOMAIN found : j # i => new[j] = found[j]
        BY <2>1, <4>1
      <4> HIDE DEF new
      <4> QED
        BY <3>1, <3>2, <4>2
    <3>3. CASE ~(R(match) > R(found[i]))
      <4>1. new = found
        BY <2>3, <3>3
      <4> HIDE DEF new
      <4> QED
        BY <1>1, <2>1, <2>2, <3>1, <3>3, <4>1
    <3> QED
      BY <3>2, <3>3
  <2> HIDE DEF new, same, old
  <2>6. ASSUME NEW m \in all
        PROVE  \E k \in DOMAIN new :
                  /\ SamePlace(new[k], m)
                  /\ \A j \in DOMAIN new : SamePlace(new[j], m) => j = k
                  /\ R(new[k]) >= R(m)
    <3>1. CASE SamePlace(match, m)
      <4>1. \A j \in DOMAIN new : SamePlace(new[j], m) => j = i
        BY <1>4, <2>1, <2>4, <2>5, <3>1 DEF SamePlace
      <4>2. R(found[i]) >= R(m) \/ m = match
        BY <2>2, <3>1 DEF Recorded, Strongest, SamePlace
      <4>3. R(new[i]) >= R(m)
        BY <1>1, <1>3, <2>1, <2>5, <4>2
      <4> QED
        BY <2>4, <2>5, <3>1, <4>1, <4>3 DEF SamePlace
    <3>2. CASE ~SamePlace(match, m)
      <4>1. m \in matches
        BY <3>2 DEF SamePlace
      <4>2. PICK k \in DOMAIN found :
                /\ SamePlace(found[k], m)
                /\ \A j \in DOMAIN found : SamePlace(found[j], m) => j = k
                /\ R(found[k]) >= R(m)
        BY <4>1 DEF Recorded, Strongest
      <4>3. k # i /\ ~SamePlace(new[i], m)
        BY <2>2, <2>5, <3>2, <4>2 DEF SamePlace
      <4> QED
        BY <2>4, <2>5, <4>2, <4>3
    <3> QED
      BY <3>1, <3>2
  <2>7. Strongest(new, all)
    BY <2>6 DEF Strongest
  <2> QED
    BY <1>2, <2>4, <2>7 DEF Recorded, new
<1> QED
  BY <1>5, <1>6

LEMMA RecordAnyKept ==
    ASSUME NEW found, NEW matches, Recorded(found, matches),
           NEW rule \in Classes \cup {"ITER_HASH"}, NEW node, NEW pos
    PROVE  Recorded(RecordAny(found, rule, node, pos), matches \cup Matches(rule, node, pos))
<1>1. CASE rule = None
  <2>1. RecordAny(found, rule, node, pos) = found /\ matches \cup Matches(rule, node, pos) = matches
    BY <1>1 DEF RecordAny, Matches
  <2> QED
    BY <2>1, Zenon
<1>2. CASE rule # None
  <2>1. Sound(Match(rule, node, pos))
    BY <1>2, CatalogSound DEF Classes
  <2>2. /\ RecordAny(found, rule, node, pos) = record(found, Match(rule, node, pos))
        /\ Matches(rule, node, pos) = {Match(rule, node, pos)}
    BY <1>2 DEF RecordAny, Matches
  <2>3. Recorded(record(found, Match(rule, node, pos)), matches \cup {Match(rule, node, pos)})
    BY <2>1, RecordKept
  <2> QED
    BY <2>2, <2>3
<1> QED
  BY <1>1, <1>2

IterFound(p) == \E m \in seen : m.at = p /\ m.rule_id = "ITER_HASH"

(* What is reported is recorded, and iteration only by its rule.             *)
LEMMA ReportKept ==
    ASSUME Recorded(leaks, seen), NEW rule \in Classes \cup {"ITER_HASH"},
           NEW rule2 \in Classes \cup {"ITER_HASH"}, NEW node, NEW pos,
           Report(rule, rule2, node, pos)
    PROVE  /\ Recorded(leaks', seen')
           /\ \A p : IterFound(p)' <=> IterFound(p) \/ (p = pos /\ "ITER_HASH" \in {rule, rule2})
<1>1. Recorded(leaks', seen')
  <2>1. Recorded(RecordAny(leaks, rule, node, pos), seen \cup Matches(rule, node, pos))
    BY RecordAnyKept
  <2>2. Recorded(RecordAny(RecordAny(leaks, rule, node, pos), rule2, node, pos),
                 (seen \cup Matches(rule, node, pos)) \cup Matches(rule2, node, pos))
    BY <2>1, RecordAnyKept
  <2> QED
    BY <2>2, Zenon DEF Report
<1>2. \A r \in {rule, rule2} : \A m \in Matches(r, node, pos) : m.at = pos /\ m.rule_id = r
  BY DEF Matches, Match
<1>3. \A r \in {rule, rule2} : r = "ITER_HASH" => Matches(r, node, pos) # {}
  BY DEF Matches, None
<1> QED
  BY <1>1, <1>2, <1>3 DEF Report, IterFound

-----------------------------------------------------------------------------
(* Scanner: the locals of each open function are those bound in it.          *)

Lines == at[1]

Scoped ==
    /\ fn_stack \in Seq(FnNames)
    /\ map_vars \in Seq(SUBSET Idents)
    /\ scopes \in Seq(Nat)
    /\ Len(map_vars) = Len(fn_stack) + 1
    /\ Len(scopes) = Len(map_vars)
    /\ \A k \in DOMAIN scopes : scopes[k] <= Lines
    /\ \A j, k \in DOMAIN scopes : scopes[j] = scopes[k] => j = k
    /\ \A s, x : <<s, x>> \in hashLocals => s \in 0 .. Lines
    /\ \A k \in DOMAIN scopes : \A x : x \in map_vars[k] <=> <<scopes[k], x>> \in hashLocals

Iterated(p)  == [at |-> p, hash |-> TRUE] \in iterated

(* IterationExact, of the matches rather than the findings.                  *)
IteratedOK == \A p : Iterated(p) <=> IterFound(p)

Placed == at \in (0 .. MaxLines) \X Nat

FileInv == Placed /\ Scoped /\ Recorded(leaks, seen) /\ IteratedOK

LEMMA FileInitial == Init => FileInv
<1> SUFFICES ASSUME Init PROVE FileInv
  OBVIOUS
<1>1. /\ fn_stack = <<>> /\ map_vars = <<{}>> /\ leaks = <<>> /\ at = <<0, 1>>
      /\ scopes = <<0>> /\ hashLocals = {} /\ seen = {} /\ iterated = {}
  BY DEF Init
<1>2. Placed /\ Lines = 0
  BY <1>1, ScannerAssumption DEF Placed, Lines
<1>3. /\ fn_stack \in Seq(FnNames) /\ map_vars \in Seq(SUBSET Idents) /\ scopes \in Seq(Nat)
      /\ Len(fn_stack) = 0 /\ Len(map_vars) = 1 /\ Len(scopes) = 1
      /\ DOMAIN scopes = {1} /\ scopes[1] = 0 /\ map_vars[1] = {}
  BY <1>1
<1>4. Scoped
  BY <1>1, <1>2, <1>3 DEF Scoped
<1>5. Recorded(leaks, seen)
  BY <1>1, EmptySeq DEF Recorded, Strongest
<1>6. IteratedOK
  BY <1>1 DEF IteratedOK, Iterated, IterFound
<1> QED
  BY <1>2, <1>4, <1>5, <1>6 DEF FileInv

(* The container that the scanner knows is the one the function bound.       *)
LEMMA KnowsTheContainers ==
    ASSUME Scoped, NEW e
    PROVE  IteratesHash(e) \in BOOLEAN /\ (iter_base_is_hash(e) <=> IteratesHash(e))
<1>1. /\ Len(scopes) \in DOMAIN scopes /\ Len(map_vars) = Len(scopes)
      /\ Last(map_vars) = map_vars[Len(map_vars)] /\ Last(scopes) = scopes[Len(scopes)]
  BY LenProperties DEF Scoped, Last
<1>2. \A x : x \in Last(map_vars) <=> <<Last(scopes), x>> \in hashLocals
  BY <1>1 DEF Scoped
<1> QED
  BY <1>2, Zenon DEF iter_base_is_hash, IteratesHash

LEMMA LineKept ==
    ASSUME Placed, NEW e, NextLine(e)
    PROVE  Placed' /\ Lines' = Lines + 1 /\ Lines \in Nat
BY ScannerAssumption DEF Placed, NextLine, Lines

LEMMA NothingFound ==
    ASSUME Recorded(leaks, seen), IteratedOK, UNCHANGED <<leaks, seen, iterated>>
    PROVE  Recorded(leaks', seen') /\ IteratedOK'
BY DEF IteratedOK, Iterated, IterFound

(* A function begins, at a line of its own. *)
LEMMA VisitFnKept ==
    ASSUME FileInv, NEW name \in FnNames, VisitFn(name)
    PROVE  FileInv'
<1>1. Placed' /\ Lines' = Lines + 1 /\ Lines \in Nat
  BY LineKept DEF FileInv, VisitFn
<1>2. /\ fn_stack' = Append(fn_stack, name) /\ map_vars' = Append(map_vars, {})
      /\ scopes' = Append(scopes, Lines + 1) /\ hashLocals' = hashLocals
  BY DEF VisitFn, Lines
<1>3. /\ fn_stack \in Seq(FnNames) /\ map_vars \in Seq(SUBSET Idents) /\ scopes \in Seq(Nat)
      /\ Len(map_vars) = Len(fn_stack) + 1 /\ Len(scopes) = Len(map_vars)
      /\ Len(scopes) \in Nat /\ DOMAIN scopes = 1 .. Len(scopes)
      /\ \A k \in DOMAIN scopes : scopes[k] \in 0 .. Lines
  BY LenProperties, ElementOfSeq DEF FileInv, Scoped
<1>4. /\ fn_stack' \in Seq(FnNames) /\ Len(fn_stack') = Len(fn_stack) + 1
      /\ map_vars' \in Seq(SUBSET Idents) /\ Len(map_vars') = Len(map_vars) + 1
      /\ scopes' \in Seq(Nat) /\ Len(scopes') = Len(scopes) + 1
      /\ DOMAIN scopes' = 1 .. Len(scopes) + 1
      /\ scopes'[Len(scopes) + 1] = Lines + 1 /\ map_vars'[Len(scopes) + 1] = {}
      /\ \A k \in DOMAIN scopes : scopes'[k] = scopes[k] /\ map_vars'[k] = map_vars[k]
  BY <1>1, <1>2, <1>3, AppendProperties
<1>5. \A k \in DOMAIN scopes' : k = Len(scopes) + 1 \/ k \in DOMAIN scopes
  BY <1>3, <1>4
<1>6. /\ \A k \in DOMAIN scopes' : scopes'[k] <= Lines'
      /\ \A j, k \in DOMAIN scopes' : scopes'[j] = scopes'[k] => j = k
  <2>1. \A j, k \in DOMAIN scopes : scopes[j] = scopes[k] => j = k
    BY DEF FileInv, Scoped
  <2>2. \A k \in DOMAIN scopes : scopes'[k] \in 0 .. Lines /\ scopes'[k] = scopes[k]
    BY <1>3, <1>4
  <2>3. ASSUME NEW k \in DOMAIN scopes' PROVE scopes'[k] <= Lines'
    <3>1. CASE k = Len(scopes) + 1
      BY <1>1, <1>4, <3>1
    <3>2. CASE k \in DOMAIN scopes
      <4>1. scopes'[k] \in 0 .. Lines
        BY <2>2, <3>2
      <4> QED
        BY <1>1, <4>1
    <3> QED
      BY <1>5, <3>1, <3>2
  <2>4. ASSUME NEW j \in DOMAIN scopes', NEW k \in DOMAIN scopes', scopes'[j] = scopes'[k]
        PROVE  j = k
    <3>1. CASE j \in DOMAIN scopes /\ k \in DOMAIN scopes
      BY <2>1, <2>2, <2>4, <3>1
    <3>2. CASE ~(j \in DOMAIN scopes /\ k \in DOMAIN scopes)
      <4>1. \A i \in DOMAIN scopes : scopes'[i] # scopes'[Len(scopes) + 1]
        BY <1>1, <1>4, <2>2
      <4> QED
        BY <1>5, <2>4, <3>2, <4>1
    <3> QED
      BY <3>1, <3>2
  <2> QED
    BY <2>3, <2>4
<1>7. /\ \A s, x : <<s, x>> \in hashLocals' => s \in 0 .. Lines'
      /\ \A x : <<Lines + 1, x>> \notin hashLocals'
  <2>1. \A s, x : <<s, x>> \in hashLocals => s \in 0 .. Lines
    BY DEF FileInv, Scoped
  <2> QED
    BY <1>1, <1>2, <2>1
<1>8. \A k \in DOMAIN scopes' : \A x : x \in map_vars'[k] <=> <<scopes'[k], x>> \in hashLocals'
  <2>1. \A k \in DOMAIN scopes : \A x : x \in map_vars[k] <=> <<scopes[k], x>> \in hashLocals
    BY DEF FileInv, Scoped
  <2> QED
    BY <1>2, <1>4, <1>5, <1>7, <2>1
<1>9. Scoped'
  BY <1>3, <1>4, <1>6, <1>7, <1>8 DEF Scoped
<1> QED
  BY <1>1, <1>9, NothingFound DEF FileInv, VisitFn

(* A function ends: the enclosing one goes on with its own locals.           *)
LEMMA LeaveFnKept ==
    ASSUME FileInv, LeaveFn
    PROVE  FileInv'
<1>1. Placed' /\ Lines' = Lines + 1 /\ Lines \in Nat
  BY LineKept DEF FileInv, LeaveFn
<1>2. /\ fn_stack \in Seq(FnNames) /\ map_vars \in Seq(SUBSET Idents) /\ scopes \in Seq(Nat)
      /\ Len(map_vars) = Len(fn_stack) + 1 /\ Len(scopes) = Len(map_vars)
      /\ Len(fn_stack) \in Nat /\ DOMAIN scopes = 1 .. Len(scopes)
      /\ Len(fn_stack) >= 1
      /\ \A k \in 1 .. Len(fn_stack) :
            fn_stack[k] \in FnNames /\ map_vars[k] \in SUBSET Idents /\ scopes[k] \in Nat
  <2>1. fn_stack # <<>>
    BY DEF LeaveFn
  <2> QED
    BY <2>1, LenProperties, EmptySeq, ElementOfSeq DEF FileInv, Scoped
<1> DEFINE n == Len(fn_stack)
<1>3. /\ fn_stack' = SubSeq(fn_stack, 1, n - 1) /\ map_vars' = SubSeq(map_vars, 1, n)
      /\ scopes' = SubSeq(scopes, 1, n) /\ hashLocals' = hashLocals
  BY <1>2 DEF LeaveFn, Front
<1>4. /\ fn_stack' \in Seq(FnNames) /\ Len(fn_stack') = n - 1
      /\ map_vars' \in Seq(SUBSET Idents) /\ Len(map_vars') = n
      /\ scopes' \in Seq(Nat) /\ Len(scopes') = n /\ DOMAIN scopes' = 1 .. n
      /\ \A k \in 1 .. n : scopes'[k] = scopes[k] /\ map_vars'[k] = map_vars[k]
  <2>1. /\ fn_stack' \in Seq(FnNames) /\ Len(fn_stack') = n - 1
    <3>1. n - 1 \in Int /\ 1 \in Int /\ \A i \in 1 .. n - 1 : fn_stack[i] \in FnNames
      BY <1>2
    <3>2. /\ SubSeq(fn_stack, 1, n - 1) \in Seq(FnNames)
          /\ Len(SubSeq(fn_stack, 1, n - 1)) = IF 1 <= n - 1 THEN (n - 1) - 1 + 1 ELSE 0
      BY <3>1, SubSeqProperties
    <3>3. fn_stack' = SubSeq(fn_stack, 1, n - 1) /\ n \in Nat /\ n >= 1
      BY <1>2, <1>3
    <3> HIDE DEF n
    <3> QED
      BY <3>2, <3>3
  <2>2. /\ map_vars' \in Seq(SUBSET Idents) /\ Len(map_vars') = n
        /\ \A k \in 1 .. n : map_vars'[k] = map_vars[k]
    BY <1>2, <1>3, SubSeqProperties
  <2>3. /\ scopes' \in Seq(Nat) /\ Len(scopes') = n /\ DOMAIN scopes' = 1 .. n
        /\ \A k \in 1 .. n : scopes'[k] = scopes[k]
    BY <1>2, <1>3, SubSeqProperties
  <2> QED
    BY <2>1, <2>2, <2>3
<1>5. 1 .. n \subseteq DOMAIN scopes
  BY <1>2
<1> HIDE DEF n
<1>6. /\ \A k \in 1 .. n : scopes'[k] <= Lines'
      /\ \A j, k \in 1 .. n : scopes'[j] = scopes'[k] => j = k
  <2>1. /\ \A k \in 1 .. n : scopes[k] <= Lines /\ scopes[k] \in Nat
        /\ \A j, k \in 1 .. n : scopes[j] = scopes[k] => j = k
    BY <1>2, <1>5 DEF FileInv, Scoped, n
  <2>2. \A k \in 1 .. n : scopes'[k] = scopes[k]
    BY <1>4
  <2>3. ASSUME NEW k \in 1 .. n PROVE scopes'[k] <= Lines'
    BY <1>1, <2>1, <2>2
  <2>4. ASSUME NEW j \in 1 .. n, NEW k \in 1 .. n, scopes'[j] = scopes'[k] PROVE j = k
    BY <2>1, <2>2, <2>4
  <2> QED
    BY <2>3, <2>4
<1>7. /\ \A s, x : <<s, x>> \in hashLocals' => s \in 0 .. Lines'
      /\ \A k \in 1 .. n : \A x : x \in map_vars'[k] <=> <<scopes'[k], x>> \in hashLocals'
  <2>1. /\ \A s, x : <<s, x>> \in hashLocals => s \in 0 .. Lines
        /\ \A k \in 1 .. n : \A x : x \in map_vars[k] <=> <<scopes[k], x>> \in hashLocals
    BY <1>5 DEF FileInv, Scoped
  <2>2. \A k \in 1 .. n : scopes'[k] = scopes[k] /\ map_vars'[k] = map_vars[k]
    BY <1>4
  <2>3. ASSUME NEW s, NEW x, <<s, x>> \in hashLocals' PROVE s \in 0 .. Lines'
    <3>1. s \in 0 .. Lines
      BY <1>3, <2>1, <2>3
    <3> QED
      BY <1>1, <3>1
  <2>4. ASSUME NEW k \in 1 .. n, NEW x
        PROVE  x \in map_vars'[k] <=> <<scopes'[k], x>> \in hashLocals'
    BY <1>3, <2>1, <2>2
  <2> QED
    BY <2>3, <2>4
<1>8. Scoped'
  BY <1>2, <1>4, <1>6, <1>7 DEF Scoped, n
<1> QED
  BY <1>1, <1>8, NothingFound DEF FileInv, LeaveFn

LEMMA VisitLocalKept ==
    ASSUME FileInv, NEW x \in Idents, NEW typed, NEW e, VisitLocal(x, typed, e)
    PROVE  FileInv'
<1> DEFINE hash == typed \/ expr_is_hash_ctor(e)
           n    == Len(scopes)
<1>1. Placed' /\ Lines' = Lines + 1 /\ Lines \in Nat
  BY LineKept DEF FileInv, VisitLocal
<1>2. /\ fn_stack \in Seq(FnNames) /\ map_vars \in Seq(SUBSET Idents) /\ scopes \in Seq(Nat)
      /\ Len(map_vars) = Len(fn_stack) + 1 /\ Len(scopes) = Len(map_vars)
      /\ n \in DOMAIN scopes /\ DOMAIN scopes = 1 .. n /\ DOMAIN map_vars = 1 .. n
      /\ DOMAIN scopes = 1 .. Len(map_vars)
      /\ \A k \in DOMAIN scopes : map_vars[k] \in SUBSET Idents /\ scopes[k] \in 0 .. Lines
      /\ Last(scopes) = scopes[n]
  BY LenProperties, ElementOfSeq DEF FileInv, Scoped, Last
<1>3. /\ fn_stack' = fn_stack /\ scopes' = scopes
      /\ map_vars' = IF hash THEN [map_vars EXCEPT ![n] = map_vars[n] \cup {x}] ELSE map_vars
      /\ hashLocals' = IF hash THEN hashLocals \cup {<<scopes[n], x>>} ELSE hashLocals
  BY <1>2 DEF VisitLocal
<1> HIDE DEF hash, n
<1>4. /\ map_vars' \in Seq(SUBSET Idents) /\ Len(map_vars') = Len(map_vars)
      /\ \A k \in DOMAIN scopes : map_vars'[k] =
            IF hash /\ k = n THEN map_vars[k] \cup {x} ELSE map_vars[k]
  <2>1. CASE hash
    <3>1. map_vars' = [map_vars EXCEPT ![n] = map_vars[n] \cup {x}]
      BY <1>3, <2>1
    <3>2. n \in DOMAIN map_vars /\ map_vars[n] \cup {x} \in SUBSET Idents
      BY <1>2
    <3>3. /\ map_vars' \in Seq(SUBSET Idents) /\ Len(map_vars') = Len(map_vars)
          /\ \A k \in 1 .. Len(map_vars) :
                map_vars'[k] = IF k = n THEN map_vars[n] \cup {x} ELSE map_vars[k]
      BY <1>2, <3>1, <3>2, ExceptSeq
    <3> QED
      BY <1>2, <2>1, <3>3
  <2>2. CASE ~hash
    BY <1>2, <1>3, <2>2
  <2> QED
    BY <2>1, <2>2
<1>5. \A s, y : <<s, y>> \in hashLocals' <=> <<s, y>> \in hashLocals \/ (hash /\ s = scopes[n] /\ y = x)
  BY <1>3
<1>6. /\ \A k \in DOMAIN scopes : scopes[k] <= Lines'
      /\ \A s, y : <<s, y>> \in hashLocals' => s \in 0 .. Lines'
  <2>1. \A s, y : <<s, y>> \in hashLocals => s \in 0 .. Lines
    BY DEF FileInv, Scoped
  <2> QED
    BY <1>1, <1>2, <1>5, <2>1
<1>7. \A k \in DOMAIN scopes : \A y : y \in map_vars'[k] <=> <<scopes[k], y>> \in hashLocals'
  <2>1. /\ \A k \in DOMAIN scopes : \A y : y \in map_vars[k] <=> <<scopes[k], y>> \in hashLocals
        /\ \A j, k \in DOMAIN scopes : scopes[j] = scopes[k] => j = k
    BY DEF FileInv, Scoped
  <2>2. ASSUME NEW k \in DOMAIN scopes, NEW y
        PROVE  y \in map_vars'[k] <=> <<scopes[k], y>> \in hashLocals'
    <3>1. y \in map_vars'[k] <=> y \in map_vars[k] \/ (hash /\ k = n /\ y = x)
      BY <1>4
    <3>2. scopes[k] = scopes[n] <=> k = n
      BY <1>2, <2>1
    <3>3. <<scopes[k], y>> \in hashLocals' <=>
            <<scopes[k], y>> \in hashLocals \/ (hash /\ scopes[k] = scopes[n] /\ y = x)
      BY <1>5
    <3> QED
      BY <2>1, <3>1, <3>2, <3>3
  <2> QED
    BY <2>2
<1>8. Scoped'
  <2>1. \A j, k \in DOMAIN scopes : scopes[j] = scopes[k] => j = k
    BY DEF FileInv, Scoped
  <2> QED
    BY <1>2, <1>3, <1>4, <1>6, <1>7, <2>1 DEF Scoped
<1> QED
  BY <1>1, <1>8, NothingFound DEF FileInv, VisitLocal

-----------------------------------------------------------------------------
(* Scanner: the nodes of an expression.                                      *)

LEMMA ScopedKept ==
    ASSUME Placed, Scoped, UNCHANGED file, Lines' \in Lines .. Lines + 1
    PROVE  Scoped'
<1>1. \A k \in DOMAIN scopes : scopes[k] <= Lines' /\ scopes[k] \in Nat
  BY LenProperties, ElementOfSeq DEF Scoped, Placed, Lines
<1>2. \A s, x : <<s, x>> \in hashLocals => s \in 0 .. Lines'
  BY DEF Scoped, Placed, Lines
<1> QED
  BY <1>1, <1>2 DEF Scoped, file

(* A container's iteration is reported where it is noted, and only there.    *)
LEMMA IterationKept ==
    ASSUME Recorded(leaks, seen), IteratedOK,
           NEW rule \in Classes, NEW hash \in BOOLEAN, NEW node, NEW pos,
           Report(rule, IF hash THEN "ITER_HASH" ELSE None, node, pos)
             \/ Report(IF hash THEN "ITER_HASH" ELSE None, rule, node, pos),
           \A p : Iterated(p)' <=> Iterated(p) \/ (p = pos /\ hash)
    PROVE  Recorded(leaks', seen') /\ IteratedOK'
<1> DEFINE rule2 == IF hash THEN "ITER_HASH" ELSE None
<1>1. /\ rule \in Classes \cup {"ITER_HASH"} /\ rule2 \in Classes \cup {"ITER_HASH"}
      /\ "ITER_HASH" \in {rule, rule2} <=> hash
  BY DEF Classes, RuleIds, None
<1> HIDE DEF rule2
<1>2. Recorded(leaks', seen') /\ \A p : IterFound(p)' <=> IterFound(p) \/ (p = pos /\ hash)
  <2>1. CASE Report(rule, rule2, node, pos)
    <3>1. /\ Recorded(leaks', seen')
          /\ \A p : IterFound(p)' <=>
                      IterFound(p) \/ (p = pos /\ "ITER_HASH" \in {rule, rule2})
      BY <1>1, <2>1, ReportKept
    <3> QED
      BY <1>1, <3>1
  <2>2. CASE Report(rule2, rule, node, pos)
    <3>1. /\ Recorded(leaks', seen')
          /\ \A p : IterFound(p)' <=>
                      IterFound(p) \/ (p = pos /\ "ITER_HASH" \in {rule2, rule})
      BY <1>1, <2>2, ReportKept
    <3> QED
      BY <1>1, <3>1
  <2> QED
    BY <2>1, <2>2 DEF rule2
<1> QED
  BY <1>2 DEF IteratedOK

LEMMA NoneClassed == None \in Classes
BY DEF Classes

LEMMA VisitForLoopKept ==
    ASSUME FileInv, NEW e, VisitForLoop(e)
    PROVE  FileInv'
<1>1. Placed' /\ Lines' = Lines + 1 /\ Lines \in Nat
  BY LineKept DEF FileInv, VisitForLoop
<1>2. Scoped'
  BY <1>1, ScopedKept DEF FileInv, VisitForLoop
<1>3. IteratesHash(e) \in BOOLEAN /\ (iter_base_is_hash(e) <=> IteratesHash(e))
  BY KnowsTheContainers DEF FileInv
<1>4. /\ Report(IF IteratesHash(e) THEN "ITER_HASH" ELSE None, None, e, at')
      /\ iterated' = iterated \cup {[at |-> at', hash |-> IteratesHash(e)]}
  BY <1>3 DEF VisitForLoop
<1>5. \A p : Iterated(p)' <=> Iterated(p) \/ (p = at' /\ IteratesHash(e))
  BY <1>3, <1>4 DEF Iterated
<1>6. Recorded(leaks', seen') /\ IteratedOK'
  BY <1>3, <1>4, <1>5, NoneClassed, IterationKept DEF FileInv
<1> QED
  BY <1>1, <1>2, <1>6 DEF FileInv

LEMMA VisitMethodCallKept ==
    ASSUME FileInv, VisitMethodCall
    PROVE  FileInv'
<1> DEFINE m        == Head(expr.wraps)
           receiver == [expr EXCEPT !.wraps = Tail(@)]
           iterates == m \in ITER_METHODS
           hash     == iterates /\ IteratesHash(receiver)
<1>1. at' = at /\ UNCHANGED file
  BY DEF VisitMethodCall
<1>2. Placed' /\ Scoped'
  <2>1. Placed' /\ Lines' = Lines /\ Lines \in Nat
    BY <1>1 DEF FileInv, Placed, Lines
  <2> QED
    BY <1>1, <2>1, ScopedKept DEF FileInv
<1>3. /\ IteratesHash(receiver) \in BOOLEAN
      /\ iter_base_is_hash(receiver) <=> IteratesHash(receiver)
  BY KnowsTheContainers DEF FileInv
<1>4. /\ Report(classify_method(m),
                IF iterates /\ iter_base_is_hash(receiver) THEN "ITER_HASH" ELSE None, expr, at)
      /\ iterated' = IF iterates
                     THEN iterated \cup {[at |-> at, hash |-> IteratesHash(receiver)]}
                     ELSE iterated
  BY Zenon DEF VisitMethodCall
<1>5. iterates \in BOOLEAN
  OBVIOUS
<1> HIDE DEF m, receiver, iterates
<1>6. hash \in BOOLEAN /\ (iterates /\ iter_base_is_hash(receiver) <=> hash)
  BY <1>3, <1>5
<1>7. Report(classify_method(m), IF hash THEN "ITER_HASH" ELSE None, expr, at)
  BY <1>4, <1>6
<1>8. \A p : Iterated(p)' <=> Iterated(p) \/ (p = at /\ hash)
  BY <1>3, <1>4, <1>5 DEF Iterated
<1> HIDE DEF hash
<1>9. Recorded(leaks', seen') /\ IteratedOK'
  BY <1>6, <1>7, <1>8, MethodsClassed, IterationKept DEF FileInv
<1> QED
  BY <1>2, <1>9 DEF FileInv

(* A call or a path: what it is classified as, and no iteration.             *)
LEMMA ClassifiedKept ==
    ASSUME FileInv, NEW rule \in Classes, Report(rule, None, expr, at),
           UNCHANGED <<at, iterated, file>>
    PROVE  FileInv'
<1>1. Placed' /\ Scoped'
  <2>1. Placed' /\ Lines' = Lines /\ Lines \in Nat
    BY DEF FileInv, Placed, Lines
  <2> QED
    BY <2>1, ScopedKept DEF FileInv
<1>2. \A p : Iterated(p)' <=> Iterated(p) \/ (p = at /\ FALSE)
  BY DEF Iterated
<1>3. Report(rule, IF FALSE THEN "ITER_HASH" ELSE None, expr, at)
  OBVIOUS
<1>4. Recorded(leaks', seen') /\ IteratedOK'
  BY <1>2, <1>3, IterationKept DEF FileInv
<1> QED
  BY <1>1, <1>4 DEF FileInv

(* What is walked past without a match. *)
LEMMA PassedKept ==
    ASSUME FileInv, VisitReference \/ \E e \in Exprs : VisitStatement(e)
    PROVE  FileInv'
<1>1. UNCHANGED <<leaks, seen, iterated, file>>
  BY DEF VisitReference, VisitStatement
<1>2. Placed' /\ Lines' \in Lines .. Lines + 1
  <2>1. CASE VisitReference
    BY <2>1 DEF VisitReference, FileInv, Placed, Lines
  <2>2. CASE \E e \in Exprs : VisitStatement(e)
    <3>1. Placed' /\ Lines' = Lines + 1 /\ Lines \in Nat
      BY <2>2, LineKept DEF FileInv, VisitStatement
    <3> QED
      BY <3>1
  <2> QED
    BY <2>1, <2>2
<1>3. Scoped'
  BY <1>1, <1>2, ScopedKept DEF FileInv
<1>4. Recorded(leaks', seen') /\ IteratedOK'
  BY <1>1, NothingFound DEF FileInv
<1> QED
  BY <1>2, <1>3, <1>4 DEF FileInv

LEMMA FileStep == FileInv /\ Next => FileInv'
<1> SUFFICES ASSUME FileInv, Next PROVE FileInv'
  OBVIOUS
<1>1. CASE VisitCall
  <2>1. classify_call(resolve(expr.base.segs)) \in Classes
    BY CallsClassed
  <2> QED
    BY <1>1, <2>1, ClassifiedKept DEF VisitCall
<1>2. CASE VisitPath
  <2>1. classify_path(resolve(expr.base.segs)) \in Classes
    BY PathsClassed
  <2> QED
    BY <1>2, <2>1, ClassifiedKept DEF VisitPath
<1>3. CASE \E e \in Exprs : VisitStatement(e) \/ VisitForLoop(e)
  BY <1>3, PassedKept, VisitForLoopKept
<1> QED
  BY <1>1, <1>2, <1>3, VisitFnKept, LeaveFnKept, VisitLocalKept, PassedKept,
     VisitMethodCallKept DEF Next

LEMMA FileUnchanged == FileInv /\ UNCHANGED vars => FileInv'
<1> SUFFICES ASSUME FileInv, UNCHANGED vars PROVE FileInv'
  OBVIOUS
<1>1. UNCHANGED <<leaks, at, seen, iterated, file>>
  BY DEF vars
<1>2. Placed' /\ Lines' = Lines /\ Lines \in Nat
  BY <1>1 DEF FileInv, Placed, Lines
<1> QED
  BY <1>1, <1>2, ScopedKept, NothingFound DEF FileInv

(* From the invariant on the matches to the findings that stand.             *)
LEMMA StandingFindings == FileInv => FindingsExact
<1> SUFFICES ASSUME FileInv PROVE FindingsExact
  OBVIOUS
<1>1. /\ leaks \in Seq(seen) /\ Strongest(leaks, seen) /\ (\A m \in seen : Sound(m))
      /\ \A i \in DOMAIN leaks : leaks[i] \in seen
  BY LenProperties, ElementOfSeq DEF FileInv, Recorded
<1>2. TypeOK
  BY <1>1 DEF FileInv, Scoped, Placed, TypeOK
<1>3. StrongestMatch
  <2> SUFFICES ASSUME NEW m \in seen
               PROVE  LET there == {i \in DOMAIN leaks : leaks[i].at = m.at
                                                           /\ leaks[i].category = m.category}
                      IN  /\ Cardinality(there) = 1
                          /\ \A i \in there : /\ leaks[i] \in seen
                                              /\ Rank[leaks[i].confidence] >= Rank[m.confidence]
    BY DEF StrongestMatch
  <2> DEFINE there == {i \in DOMAIN leaks : leaks[i].at = m.at
                                              /\ leaks[i].category = m.category}
  <2>1. PICK i \in DOMAIN leaks :
            /\ SamePlace(leaks[i], m)
            /\ \A j \in DOMAIN leaks : SamePlace(leaks[j], m) => j = i
            /\ Rank[leaks[i].confidence] >= Rank[m.confidence]
    BY <1>1 DEF Strongest
  <2>2. there = {i}
    BY <2>1 DEF SamePlace
  <2>3. Cardinality(there) = 1
    BY <2>2, FS_Singleton
  <2> QED
    BY <1>1, <2>1, <2>2, <2>3
<1>4. IterationExact
  <2>1. ASSUME NEW p
        PROVE  Iterated(p) <=> \E k \in DOMAIN leaks : leaks[k].at = p /\ leaks[k].rule_id = "ITER_HASH"
    <3>1. ASSUME NEW k \in DOMAIN leaks, leaks[k].at = p, leaks[k].rule_id = "ITER_HASH"
          PROVE  IterFound(p)
      BY <1>1, <3>1 DEF IterFound
    <3>2. ASSUME NEW m \in seen, m.at = p, m.rule_id = "ITER_HASH"
          PROVE  \E k \in DOMAIN leaks : leaks[k].at = p /\ leaks[k].rule_id = "ITER_HASH"
      <4>1. PICK k \in DOMAIN leaks : SamePlace(leaks[k], m)
        BY <1>1 DEF Strongest
      <4>2. leaks[k].rule_id = "ITER_HASH"
        BY <1>1, <3>2, <4>1, Zenon DEF Sound, SamePlace
      <4> QED
        BY <3>2, <4>1, <4>2 DEF SamePlace
    <3> QED
      BY <3>1, <3>2 DEF FileInv, IteratedOK, IterFound
  <2> QED
    BY <2>1 DEF IterationExact, Iterated
<1> QED
  BY <1>2, <1>3, <1>4 DEF FindingsExact

(* Whatever the file: every match has its one finding, none more severe is   *)
(* dropped for it, and iteration is reported exactly over the containers of  *)
(* the function at hand.                                                     *)
THEOREM FindsExactly == MCSpec => []FindingsExact
<1>1. MCInit => FileInv
  BY FileInitial DEF MCInit
<1>2. FileInv /\ [MCNext]_<<part, vars, fvars, avars, nvars, gvars>> => FileInv'
  BY FileStep, FileUnchanged DEF MCNext
<1> QED
  BY <1>1, <1>2, StandingFindings, PTL DEF MCSpec

-----------------------------------------------------------------------------
(* Fingerprint: what a text is when the spaces in it are as few as can be,   *)
(* from character to character.                                              *)
LEMMA OneElement ==
    ASSUME NEW S, NEW c \in S
    PROVE  <<c>> \in Seq(S) /\ Len(<<c>>) = 1 /\ <<c>>[1] = c
OBVIOUS

LEMMA FlattensAlike == \A seqs : F!FlattenSeq(seqs) = FlattenSeq(seqs)
BY DEF F!FlattenSeq, FlattenSeq

(* What Normalized leaves of c behind a text. *)
Left(text, c) ==
    IF text # <<>> /\ c = " " /\ text[Len(text)] = " " THEN <<>> ELSE <<c>>

Parts(text) ==
    [k \in DOMAIN text |->
        IF k > 1 /\ text[k] = " " /\ text[k - 1] = " " THEN <<>> ELSE <<text[k]>>]

LEMMA PartsAppend ==
    ASSUME NEW S, NEW text \in Seq(S), NEW c \in S
    PROVE  /\ Parts(text) \in Seq(Seq(S)) /\ Left(text, c) \in Seq(S)
           /\ Parts(Append(text, c)) = Append(Parts(text), Left(text, c))
<1> DEFINE length == Len(text)
           more == Append(text, c)
<1>1. length \in Nat /\ DOMAIN text = 1 .. length /\ \A k \in 1 .. length : text[k] \in S
  BY LenProperties, ElementOfSeq
<1>2. /\ DOMAIN more = 1 .. length + 1 /\ more[length + 1] = c
      /\ \A k \in 1 .. length : more[k] = text[k]
  BY <1>1, AppendProperties, LenProperties
<1>3. \A s \in S : <<s>> \in Seq(S)
  BY OneElement
<1>4. <<>> \in Seq(S)
  BY EmptySeq
<1>5. Parts(text) \in [1 .. length -> Seq(S)] /\ Left(text, c) \in Seq(S)
  BY <1>1, <1>3, <1>4, Zenon DEF Parts, Left
<1>6. Parts(text) \in Seq(Seq(S)) /\ Len(Parts(text)) = length
  BY <1>1, <1>5
<1> DEFINE both == Append(Parts(text), Left(text, c))
<1>7. /\ both \in Seq(Seq(S)) /\ Len(both) = length + 1 /\ both[length + 1] = Left(text, c)
      /\ \A k \in 1 .. length : both[k] = Parts(text)[k]
  <2> DEFINE T == Seq(S)
             parts == Parts(text)
             left == Left(text, c)
  <2>1. parts \in Seq(T) /\ left \in T /\ Len(parts) = length
    BY <1>5, <1>6
  <2> HIDE DEF parts, left, T
  <2>2. LET all == Append(parts, left)
        IN  /\ all \in Seq(T) /\ Len(all) = Len(parts) + 1 /\ all[Len(parts) + 1] = left
            /\ \A k \in 1 .. Len(parts) : all[k] = parts[k]
    BY <2>1, AppendProperties
  <2> QED
    BY <2>1, <2>2 DEF parts, left, T
<1>8. both = [k \in 1 .. length + 1 |-> both[k]]
  BY <1>7, LenProperties
<1> HIDE DEF both, more
<1>9. ASSUME NEW k \in 1 .. length + 1
      PROVE  both[k] = IF k > 1 /\ more[k] = " " /\ more[k - 1] = " " THEN <<>> ELSE <<more[k]>>
  <2>1. CASE k = length + 1
    <3>1. k > 1 <=> text # <<>>
      BY <1>1, <2>1, EmptySeq
    <3>2. k > 1 => more[k - 1] = text[length]
      BY <1>1, <1>2, <2>1
    <3> QED
      BY <1>2, <1>7, <2>1, <3>1, <3>2, Zenon DEF Left
  <2>2. CASE k # length + 1
    <3>1. k \in 1 .. length /\ (k > 1 => k - 1 \in 1 .. length)
      BY <1>1, <2>2
    <3>2. Parts(text)[k] = IF k > 1 /\ text[k] = " " /\ text[k - 1] = " " THEN <<>> ELSE <<text[k]>>
      BY <1>1, <3>1, Zenon DEF Parts
    <3> QED
      BY <1>2, <1>7, <3>1, <3>2, Zenon
  <2> QED
    BY <2>1, <2>2
<1>10. Parts(more) = both
  BY <1>2, <1>8, <1>9, Zenon DEF Parts
<1> QED
  BY <1>5, <1>6, <1>10, Zenon DEF both, more

LEMMA NormalizedAppend ==
    ASSUME NEW S, NEW text \in Seq(S), NEW c \in S
    PROVE  /\ F!Normalized(text) \in Seq(S)
           /\ F!Normalized(Append(text, c)) = F!Normalized(text) \o Left(text, c)
<1>1. \A t : F!Normalized(t) = FlattenSeq(Parts(t))
  BY FlattensAlike DEF F!Normalized, Parts
<1> QED
  <2>1. /\ Parts(text) \in Seq(Seq(S)) /\ Left(text, c) \in Seq(S)
        /\ Parts(Append(text, c)) = Append(Parts(text), Left(text, c))
    BY PartsAppend
  <2>2. /\ FlattenSeq(Parts(text)) \in Seq(S)
        /\ FlattenSeq(Append(Parts(text), Left(text, c))) = FlattenSeq(Parts(text)) \o Left(text, c)
    BY <2>1, FlattenAppend, FlattenIsSeq
  <2> QED
    BY <1>1, <2>1, <2>2, Zenon

(* Two texts that differ in their spaces alone, and go on alike.             *)
Alike(s, t, S) ==
    /\ s \in Seq(S) /\ s # <<>>
    /\ t \in Seq(S) /\ t # <<>>
    /\ s[Len(s)] = t[Len(t)]
    /\ F!Normalized(s) = F!Normalized(t)

LEMMA LastAppended ==
    ASSUME NEW S, NEW text \in Seq(S), NEW c \in S
    PROVE  /\ Append(text, c) \in Seq(S) /\ Append(text, c) # <<>>
           /\ Append(text, c)[Len(Append(text, c))] = c
BY AppendProperties

LEMMA AlikeAppend ==
    ASSUME NEW S, NEW s, NEW t, Alike(s, t, S), NEW c \in S
    PROVE  Alike(Append(s, c), Append(t, c), S)
<1>1. ASSUME NEW u \in Seq(S)
      PROVE  /\ Append(u, c) \in Seq(S) /\ Append(u, c) # <<>>
             /\ Append(u, c)[Len(Append(u, c))] = c
  BY LastAppended, ZenonT(30)
<1>2. Left(s, c) = Left(t, c)
  BY DEF Alike, Left
<1>3. F!Normalized(Append(s, c)) = F!Normalized(Append(t, c))
  <2>1. s \in Seq(S) /\ t \in Seq(S) /\ F!Normalized(s) = F!Normalized(t)
    BY DEF Alike
  <2>2. /\ F!Normalized(Append(s, c)) = F!Normalized(s) \o Left(s, c)
        /\ F!Normalized(Append(t, c)) = F!Normalized(t) \o Left(t, c)
    BY <2>1, NormalizedAppend, Zenon
  <2> QED
    BY <1>2, <2>1, <2>2, Zenon
<1> QED
  BY <1>1, <1>3 DEF Alike

LEMMA AlikeWider ==
    ASSUME NEW S, NEW s, NEW t, Alike(s, t, S), NEW c \in S, c = " "
    PROVE  /\ Alike(Append(s, c), Append(Append(t, c), c), S)
           /\ Alike(Append(Append(s, c), c), Append(t, c), S)
<1>1. ASSUME NEW u \in Seq(S)
      PROVE  /\ Append(u, c) \in Seq(S) /\ Append(u, c) # <<>>
             /\ Append(u, c)[Len(Append(u, c))] = c
             /\ F!Normalized(Append(Append(u, c), c)) = F!Normalized(Append(u, c))
  <2>1. /\ Append(u, c) \in Seq(S) /\ Append(u, c) # <<>>
        /\ Append(u, c)[Len(Append(u, c))] = c
    BY LastAppended, ZenonT(30)
  <2>2. Left(Append(u, c), c) = <<>>
    BY <2>1 DEF Left
  <2>3. /\ F!Normalized(Append(u, c)) \in Seq(S)
        /\ F!Normalized(Append(Append(u, c), c)) = F!Normalized(Append(u, c)) \o Left(Append(u, c), c)
    BY <2>1, NormalizedAppend, Zenon
  <2>4. F!Normalized(Append(u, c)) \o <<>> = F!Normalized(Append(u, c))
    BY <2>3, ConcatEmptySeq
  <2> QED
    BY <2>1, <2>2, <2>3, <2>4, Zenon
<1>2. Alike(Append(s, c), Append(t, c), S)
  BY AlikeAppend
<1>3. s \in Seq(S) /\ t \in Seq(S) /\ Append(s, c) \in Seq(S) /\ Append(t, c) \in Seq(S)
  BY <1>1 DEF Alike
<1> QED
  BY <1>1, <1>2, <1>3, Zenon DEF Alike

LEMMA TwoElements ==
    ASSUME NEW S, NEW c \in S, NEW d \in S
    PROVE  <<c, d>> \in Seq(S) /\ <<c, d>> = Append(<<c>>, d)
<1>1. <<c, d>> \in Seq(S) /\ Len(<<c, d>>) = 2 /\ <<c, d>>[1] = c /\ <<c, d>>[2] = d
  OBVIOUS
<1> DEFINE two == Append(<<c>>, d)
<1>2. two \in Seq(S) /\ Len(two) = 2 /\ two[1] = c /\ two[2] = d
  BY OneElement, AppendProperties
<1> HIDE DEF two
<1>3. <<c, d>> = two
  BY <1>1, <1>2, SeqEqual
<1> QED
  BY <1>1, <1>3 DEF two

LEMMA ConcatAppend ==
    ASSUME NEW S, NEW s \in Seq(S), NEW t \in Seq(S), NEW c \in S
    PROVE  s \o Append(t, c) = Append(s \o t, c)
<1>1. Append(t, c) = t \o <<c>> /\ <<c>> \in Seq(S) /\ s \o t \in Seq(S)
  BY AppendIsConcat, OneElement, ConcatProperties
<1>2. Append(s \o t, c) = (s \o t) \o <<c>>
  BY <1>1, AppendIsConcat
<1> QED
  BY <1>1, <1>2, ConcatAssociative

Paired(u, c, d) == u \o <<c, d>> = Append(Append(u, c), d)

LEMMA PairAppended ==
    ASSUME NEW S, NEW u \in Seq(S), NEW c \in S, NEW d \in S
    PROVE  Paired(u, c, d)
<1> DEFINE Right(s, t, e) == s \o Append(t, e) = Append(s \o t, e)
<1>1. \A T : \A s \in Seq(T), t \in Seq(T), e \in T : Right(s, t, e)
  BY ConcatAppend
<1> HIDE DEF Right
<1>2. <<c>> \in Seq(S) /\ <<c, d>> = Append(<<c>>, d)
  BY OneElement, TwoElements, Zenon
<1>3. Right(u, <<c>>, d)
  BY <1>1, <1>2, Zenon
<1>4. u \o <<c>> = Append(u, c)
  BY AppendIsConcat
<1> QED
  BY <1>2, <1>3, <1>4, Zenon DEF Right, Paired

LEMMA GapAppended ==
    ASSUME NEW S, NEW u \in Seq(S), " " \in S, NEW c \in S
    PROVE  /\ u \o Append(<<>>, c) = Append(u, c)
           /\ u \o Append(<<" ">>, c) = Append(Append(u, " "), c)
           /\ u \o Append(<<" ", " ">>, c) = Append(Append(Append(u, " "), " "), c)
<1> DEFINE Right(s, t, e) == s \o Append(t, e) = Append(s \o t, e)
<1>1. \A T : \A s \in Seq(T), t \in Seq(T), e \in T : Right(s, t, e)
  BY ConcatAppend
<1> HIDE DEF Right
<1>2. <<>> \in Seq(S) /\ <<" ">> \in Seq(S) /\ <<" ", " ">> \in Seq(S)
  BY EmptySeq, OneElement, TwoElements
<1>3. Right(u, <<>>, c) /\ Right(u, <<" ">>, c) /\ Right(u, <<" ", " ">>, c)
  BY <1>1, <1>2, Zenon
<1>4. u \o <<>> = u /\ u \o <<" ">> = Append(u, " ")
  BY ConcatEmptySeq, AppendIsConcat
<1>5. u \o <<" ", " ">> = Append(Append(u, " "), " ")
  <2>1. Paired(u, " ", " ")
    BY PairAppended, Zenon
  <2> QED
    BY <2>1 DEF Paired
<1> QED
  BY <1>3, <1>4, <1>5, Zenon DEF Right

LEMMA AlikeGap ==
    ASSUME NEW S, NEW s, NEW t, Alike(s, t, S), " " \in S, NEW c \in S,
           NEW g \in F!Gaps, NEW h \in F!Gaps, F!Wide(g) = F!Wide(h), g # <<"LF">>
    PROVE  Alike(s \o Append(g, c), t \o Append(h, c), S)
<1> DEFINE One(u) == Append(u, " ")
           Two(u) == Append(One(u), " ")
<1>1. ASSUME NEW u \in Seq(S)
      PROVE  /\ u \o Append(<<>>, c) = Append(u, c)
             /\ u \o Append(<<" ">>, c) = Append(One(u), c)
             /\ u \o Append(<<" ", " ">>, c) = Append(Two(u), c)
  BY GapAppended, Zenon
<1>2. s \in Seq(S) /\ t \in Seq(S)
  BY DEF Alike
<1>3. \/ g = <<>> /\ h = <<>>
      \/ g \in {<<" ">>, <<" ", " ">>} /\ h \in {<<" ">>, <<" ", " ">>}
  <2>1. <<" ">> # <<>> /\ <<"LF">> # <<>> /\ <<" ">> # <<"LF">>
    OBVIOUS
  <2> QED
    BY <2>1, Zenon DEF F!Gaps, F!Wide
<1> HIDE DEF One, Two
<1>4. CASE g = <<>> /\ h = <<>>
  <2>1. s \o Append(g, c) = Append(s, c) /\ t \o Append(h, c) = Append(t, c)
    BY <1>1, <1>2, <1>4, Zenon
  <2> QED
    BY <2>1, AlikeAppend, Zenon
<1>5. CASE g \in {<<" ">>, <<" ", " ">>} /\ h \in {<<" ">>, <<" ", " ">>}
  <2>1. /\ Alike(One(s), One(t), S) /\ Alike(One(s), Two(t), S)
        /\ Alike(Two(s), One(t), S) /\ Alike(Two(s), Two(t), S)
    <3>1. Alike(One(s), One(t), S)
      BY AlikeAppend, Zenon DEF One
    <3>2. Alike(Two(s), Two(t), S)
      BY <3>1, AlikeAppend, Zenon DEF Two
    <3> QED
      BY <3>1, <3>2, AlikeWider, Zenon DEF One, Two
  <2>2. ASSUME NEW u, NEW v, Alike(u, v, S) PROVE Alike(Append(u, c), Append(v, c), S)
    BY <2>2, AlikeAppend, Zenon
  <2>3. /\ s \o Append(g, c) \in {Append(One(s), c), Append(Two(s), c)}
        /\ t \o Append(h, c) \in {Append(One(t), c), Append(Two(t), c)}
    BY <1>1, <1>2, <1>5, Zenon
  <2> QED
    BY <2>1, <2>2, <2>3, Zenon
<1> QED
  BY <1>3, <1>4, <1>5

(* A finding: tokens, and between them gaps.                                 *)
Finding(l, S) ==
    /\ l.call \in Seq(S) /\ l.call # <<>>
    /\ l.gaps \in [1 .. Len(l.call) - 1 -> F!Gaps]
    /\ {" ", "LF", "..."} \subseteq S

(* Its first tokens, and the gaps between those. *)
Spaced(l, n) == [k \in 1 .. n |-> Append(l.gaps[k], l.call[k + 1])]
Line(l, n)   == <<l.call[1]>> \o FlattenSeq(Spaced(l, n))

LEMMA CallTokens ==
    ASSUME NEW S, NEW l, Finding(l, S)
    PROVE  /\ Len(l.call) \in Nat /\ Len(l.call) # 0
           /\ \A k \in 1 .. Len(l.call) : l.call[k] \in S
<1> DEFINE call == l.call
<1>1. call \in Seq(S) /\ call # <<>>
  BY DEF Finding
<1> HIDE DEF call
<1>2. /\ Len(call) \in Nat /\ Len(call) # 0
      /\ \A k \in 1 .. Len(call) : call[k] \in S
  BY <1>1, LenProperties, EmptySeq, ElementOfSeq
<1> QED
  BY <1>2 DEF call

LEMMA LineGrows ==
    ASSUME NEW S, NEW l, Finding(l, S), NEW n \in Nat, n + 1 < Len(l.call)
    PROVE  Line(l, n + 1) = Line(l, n) \o Append(l.gaps[n + 1], l.call[n + 2])
<1>1. /\ Len(l.call) \in Nat /\ l.call[1] \in S
      /\ \A k \in 1 .. n + 1 : l.gaps[k] \in F!Gaps /\ l.call[k + 1] \in S
  <2>1. Len(l.call) \in Nat /\ \A k \in 1 .. Len(l.call) : l.call[k] \in S
    BY CallTokens, Zenon
  <2>2. \A k \in 1 .. n + 1 : k \in 1 .. Len(l.call) - 1 /\ k + 1 \in 1 .. Len(l.call)
    BY <2>1
  <2>3. \A k \in 1 .. Len(l.call) - 1 : l.gaps[k] \in F!Gaps
    BY Zenon DEF Finding
  <2>4. l.call[1] \in S
    BY <2>1
  <2> QED
    BY <2>1, <2>2, <2>3, <2>4, Zenon
<1>2. \A g \in F!Gaps, c \in S : Append(g, c) \in Seq(S)
  <2>1. " " \in S /\ "LF" \in S
    BY Zenon DEF Finding
  <2>2. <<" ">> \in Seq(S) /\ <<"LF">> \in Seq(S) /\ <<>> \in Seq(S)
    BY <2>1, OneElement, EmptySeq
  <2>4. <<" ", " ">> \in Seq(S)
    BY <2>1, TwoElements, Zenon
  <2>5. \A g \in F!Gaps : g \in Seq(S)
    BY <2>2, <2>4, Zenon DEF F!Gaps
  <2> QED
    BY <2>5, AppendProperties
<1>3. \A k \in 1 .. n + 1 : Append(l.gaps[k], l.call[k + 1]) \in Seq(S)
  BY <1>1, <1>2, Zenon
<1> DEFINE T == Seq(S)
           more == Append(l.gaps[n + 1], l.call[n + 2])
           now  == Spaced(l, n)
<1>4. now \in Seq(T) /\ more \in T /\ Spaced(l, n + 1) = Append(now, more)
  <2> DEFINE e(k) == Append(l.gaps[k], l.call[k + 1])
  <2>4. (\A k \in 1 .. n + 1 : e(k) \in T) /\ more = e(n + 1)
    BY <1>3
  <2> HIDE DEF e, T
  <2>1. [k \in 1 .. n |-> e(k)] \in Seq(T) /\ [k \in 1 .. n + 1 |-> e(k)] = Append([k \in 1 .. n |-> e(k)], e(n + 1))
    BY <2>4
  <2>2. more \in T
    BY <2>4
  <2>5. now = [k \in 1 .. n |-> e(k)] /\ Spaced(l, n + 1) = [k \in 1 .. n + 1 |-> e(k)]
    BY DEF Spaced, e
  <2> QED
    BY <2>1, <2>2, <2>4, <2>5, Zenon
<1> HIDE DEF more, now
<1>5. FlattenSeq(Append(now, more)) = FlattenSeq(now) \o more /\ FlattenSeq(now) \in Seq(S)
  BY <1>4, FlattenAppend, FlattenIsSeq
<1>6. <<l.call[1]>> \in Seq(S)
  BY <1>1, OneElement
<1>7. (<<l.call[1]>> \o FlattenSeq(now)) \o more = <<l.call[1]>> \o (FlattenSeq(now) \o more)
  BY <1>4, <1>5, <1>6, ConcatAssociative
<1>8. Line(l, n + 1) = Line(l, n) \o more
  BY <1>4, <1>5, <1>7, Zenon DEF Line, now
<1> QED
  BY <1>8 DEF more

(* Two that differ in the width of their gaps.                               *)
Widened(l, m) ==
    /\ l.call = m.call
    /\ \A k \in DOMAIN l.gaps : F!Wide(l.gaps[k]) = F!Wide(m.gaps[k])

LEMMA LinesAlike ==
    ASSUME NEW S, NEW l, NEW m, Finding(l, S), Finding(m, S), Widened(l, m),
           NEW n \in 0 .. Len(l.call) - 1, \A k \in 1 .. n : l.gaps[k] # <<"LF">>
    PROVE  Alike(Line(l, n), Line(m, n), S)
<1> DEFINE apart == {k \in 0 .. n : ~Alike(Line(l, k), Line(m, k), S)}
<1> SUFFICES ASSUME apart # {} PROVE FALSE
  <2>1. Len(l.call) \in Nat
    BY CallTokens
  <2> QED
    BY <2>1
<1>1. PICK k \in apart : \A j \in apart : k <= j
  <2>1. apart \in SUBSET Nat
    OBVIOUS
  <2> QED
    BY <2>1, Lowest
<1>2. Len(l.call) \in Nat /\ Len(l.call) # 0 /\ l.call = m.call /\ n \in Nat
  BY CallTokens DEF Widened
<1>3. l.call[1] \in S
  BY <1>2, CallTokens
<1>4. CASE k = 0
  <2>1. <<l.call[1]>> \in Seq(S) /\ <<l.call[1]>> # <<>>
    BY <1>3, OneElement, EmptySeq
  <2>2. Line(l, 0) = <<l.call[1]>> /\ Line(m, 0) = <<l.call[1]>>
    <3>1. Spaced(l, 0) = <<>> /\ Spaced(m, 0) = <<>>
      BY DEF Spaced
    <3> QED
      BY <1>2, <2>1, <3>1, FlattenEmpty, ConcatEmptySeq DEF Line
  <2>3. Alike(Line(l, 0), Line(m, 0), S)
    BY <2>1, <2>2, Zenon DEF Alike
  <2> QED
    BY <1>1, <1>4, <2>3
<1>5. CASE k # 0
  <2>1. k - 1 \in 0 .. n /\ k \in 1 .. n
    BY <1>1, <1>2, <1>5
  <2>2. k - 1 \notin apart
    <3> HIDE DEF apart
    <3> QED
      BY <1>1, <2>1
  <2>3. Alike(Line(l, k - 1), Line(m, k - 1), S)
    BY <2>1, <2>2
  <2> DEFINE p == k - 1
  <2>4. p \in Nat /\ p + 1 < Len(l.call) /\ p + 1 = k /\ p + 2 = k + 1 /\ k \in 1 .. Len(l.call) - 1
    BY <1>2, <2>1
  <2>5. /\ Line(l, k) = Line(l, p) \o Append(l.gaps[k], l.call[k + 1])
        /\ Line(m, k) = Line(m, p) \o Append(m.gaps[k], l.call[k + 1])
    <3> HIDE DEF p
    <3>1. /\ Line(l, p + 1) = Line(l, p) \o Append(l.gaps[p + 1], l.call[p + 2])
          /\ Line(m, p + 1) = Line(m, p) \o Append(m.gaps[p + 1], m.call[p + 2])
      BY <1>2, <2>4, LineGrows
    <3> QED
      BY <1>2, <2>4, <3>1
  <2>6. /\ l.gaps[k] \in F!Gaps /\ m.gaps[k] \in F!Gaps /\ l.gaps[k] # <<"LF">>
        /\ F!Wide(l.gaps[k]) = F!Wide(m.gaps[k])
    BY <1>2, <2>1, <2>4, Zenon DEF Finding, Widened
  <2>7. l.call[k + 1] \in S
    <3>1. k + 1 \in 1 .. Len(l.call)
      BY <1>2, <2>4
    <3> QED
      BY <3>1, CallTokens
  <2>8. " " \in S
    BY DEF Finding
  <2>9. Alike(Line(l, k), Line(m, k), S)
    BY <2>3, <2>5, <2>6, <2>7, <2>8, AlikeGap, Zenon
  <2> QED
    BY <1>1, <2>9
<1> QED
  BY <1>4, <1>5

(* Where the first line of a finding ends.                                   *)
EndsAt(l, k) ==
    /\ k \in 1 .. Len(l.call)
    /\ \A m \in 1 .. k - 1 : l.gaps[m] # <<"LF">>
    /\ k = Len(l.call) \/ l.gaps[k] = <<"LF">>

LEMMA LineEnds ==
    ASSUME NEW S, NEW l, Finding(l, S)
    PROVE  EndsAt(l, F!FirstGap(l))
<1> DEFINE ends == {k \in 1 .. Len(l.call) : k = Len(l.call) \/ l.gaps[k] = <<"LF">>}
<1>1. Len(l.call) \in Nat /\ Len(l.call) # 0
  BY CallTokens
<1>2. PICK k \in ends : \A j \in ends : k <= j
  <2>1. ends \in SUBSET Nat /\ Len(l.call) \in ends
    BY <1>1
  <2> HIDE DEF ends
  <2> QED
    BY <2>1, Lowest
<1>3. ASSUME NEW m \in 1 .. k - 1 PROVE l.gaps[m] # <<"LF">>
  BY <1>1, <1>2
<1>4. EndsAt(l, k)
  BY <1>1, <1>2, <1>3 DEF EndsAt
<1>5. \E j \in 1 .. Len(l.call) :
         /\ \A m \in 1 .. j - 1 : l.gaps[m] # <<"LF">>
         /\ j = Len(l.call) \/ l.gaps[j] = <<"LF">>
  BY <1>4, Zenon DEF EndsAt
<1> QED
  BY <1>5, Zenon DEF EndsAt, F!FirstGap

LEMMA LinesEndAlike ==
    ASSUME NEW S, NEW l, NEW m, Finding(l, S), Finding(m, S), Widened(l, m)
    PROVE  /\ F!FirstGap(l) = F!FirstGap(m)
           /\ F!OnOneLine(l) = F!OnOneLine(m)
<1> DEFINE a == F!FirstGap(l)
           b == F!FirstGap(m)
<1>1. Len(l.call) \in Nat /\ Len(l.call) # 0 /\ l.call = m.call
  BY CallTokens DEF Widened
<1>2. DOMAIN l.gaps = 1 .. Len(l.call) - 1 /\ DOMAIN m.gaps = 1 .. Len(l.call) - 1
  BY <1>1 DEF Finding
<1>3. \A k \in 1 .. Len(l.call) - 1 : l.gaps[k] = <<"LF">> <=> m.gaps[k] = <<"LF">>
  <2>1. <<" ">> # <<"LF">> /\ <<>> # <<"LF">>
    OBVIOUS
  <2>2. \A g : F!Wide(g) = <<"LF">> <=> g = <<"LF">>
    BY <2>1, Zenon DEF F!Wide
  <2>3. \A k \in 1 .. Len(l.call) - 1 : F!Wide(l.gaps[k]) = F!Wide(m.gaps[k])
    BY <1>2, Zenon DEF Widened
  <2> QED
    BY <2>2, <2>3, Zenon
<1>4. EndsAt(l, a) /\ EndsAt(m, b)
  BY LineEnds
<1> HIDE DEF a, b
<1>5. ~(a < b)
  <2> SUFFICES ASSUME a < b PROVE FALSE
    OBVIOUS
  <2>1. /\ a \in 1 .. b - 1 /\ a \in 1 .. Len(l.call) - 1 /\ a # Len(l.call)
    BY <1>1, <1>4 DEF EndsAt
  <2> QED
    BY <1>3, <1>4, <2>1, Zenon DEF EndsAt
<1>6. ~(b < a)
  <2> SUFFICES ASSUME b < a PROVE FALSE
    OBVIOUS
  <2>1. /\ b \in 1 .. a - 1 /\ b \in 1 .. Len(l.call) - 1 /\ b # Len(m.call)
    BY <1>1, <1>4 DEF EndsAt
  <2> QED
    BY <1>3, <1>4, <2>1, Zenon DEF EndsAt
<1>7. a = b
  BY <1>1, <1>4, <1>5, <1>6 DEF EndsAt
<1>8. F!OnOneLine(l) = F!OnOneLine(m)
  BY <1>2, <1>3 DEF F!OnOneLine
<1> QED
  BY <1>7, <1>8 DEF a, b

(* The text of a snippet before it is cut.                                   *)
Whole(l) == IF F!OnOneLine(l) THEN F!FirstLine(l) ELSE F!FirstLine(l) \o <<" ", "...">>

LEMMA WholeAlike ==
    ASSUME NEW S, NEW l, NEW m, Finding(l, S), Finding(m, S), Widened(l, m)
    PROVE  Alike(Whole(l), Whole(m), S)
<1> DEFINE n == F!FirstGap(l) - 1
<1>1. F!FirstLine(l) = Line(l, n) /\ F!FirstLine(m) = Line(m, n)
  BY FlattensAlike, LinesEndAlike DEF F!FirstLine, Line, Spaced
<1>2. n \in 0 .. Len(l.call) - 1 /\ \A k \in 1 .. n : l.gaps[k] # <<"LF">>
  <2>1. EndsAt(l, F!FirstGap(l))
    BY LineEnds
  <2>2. Len(l.call) \in Nat
    BY CallTokens
  <2> QED
    BY <2>1, <2>2 DEF EndsAt
<1> HIDE DEF n
<1>3. Alike(Line(l, n), Line(m, n), S)
  BY <1>2, LinesAlike
<1>4. " " \in S /\ "..." \in S
  BY Zenon DEF Finding
<1> DEFINE More(u) == Append(Append(u, " "), "...")
<1>5. Alike(More(Line(l, n)), More(Line(m, n)), S)
  BY <1>3, <1>4, AlikeAppend
<1>6. ASSUME NEW u \in Seq(S) PROVE u \o <<" ", "...">> = More(u)
  <2>1. Paired(u, " ", "...")
    BY <1>4, PairAppended, Zenon
  <2> QED
    BY <2>1 DEF Paired
<1> HIDE DEF More
<1>7. Line(l, n) \in Seq(S) /\ Line(m, n) \in Seq(S)
  BY <1>3 DEF Alike
<1> QED
  <2>1. F!OnOneLine(l) = F!OnOneLine(m)
    BY LinesEndAlike
  <2>2. CASE F!OnOneLine(l)
    BY <1>1, <1>3, <2>1, <2>2, Zenon DEF Whole
  <2>3. CASE ~F!OnOneLine(l)
    <3>1. ~F!OnOneLine(m)
      BY <2>1, <2>3
    <3> QED
      BY <1>1, <1>5, <1>6, <1>7, <2>3, <3>1, Zenon DEF Whole
  <2> QED
    BY <2>2, <2>3

LEMMA Cut ==
    ASSUME CAP \in Nat \ {0}, NEW S, "..." \in S, NEW text \in Seq(S)
    PROVE  /\ F!Capped(text) \in Seq(S)
           /\ Len(F!Capped(text)) < CAP => F!Capped(text) = text
<1>1. Len(text) \in Nat /\ \A k \in 1 .. Len(text) : text[k] \in S
  BY LenProperties, ElementOfSeq
<1>2. CASE Len(text) > CAP
  <2> DEFINE front == SubSeq(text, 1, CAP - 1)
  <2>1. front \in Seq(S) /\ Len(front) = CAP - 1
    <3>1. 1 \in Int /\ CAP - 1 \in Int /\ \A k \in 1 .. CAP - 1 : text[k] \in S
      BY <1>1, <1>2
    <3>2. front \in Seq(S) /\ Len(front) = IF 1 <= CAP - 1 THEN CAP - 1 - 1 + 1 ELSE 0
      BY <3>1, SubSeqProperties
    <3> QED
      BY <3>2
  <2> HIDE DEF front
  <2>2. Append(front, "...") \in Seq(S) /\ Len(Append(front, "...")) = CAP - 1 + 1
    BY <2>1, AppendProperties
  <2> QED
    BY <1>2, <2>2 DEF F!Capped, front
<1>3. CASE ~(Len(text) > CAP)
  BY <1>3 DEF F!Capped
<1> QED
  BY <1>2, <1>3

LEMMA SnippetKept ==
    ASSUME CAP \in Nat \ {0}, NEW S, NEW l, Finding(l, S)
    PROVE  /\ F!snippet_from_span(l) \in Seq(S)
           /\ F!Normalized(F!snippet_from_span(l)) \in Seq(S)
           /\ \A m : Finding(m, S) /\ Widened(l, m) /\ F!Fits(l) /\ F!Fits(m) =>
                  F!Normalized(F!snippet_from_span(l)) = F!Normalized(F!snippet_from_span(m))
<1>1. "..." \in S /\ " " \in S
  BY Zenon DEF Finding
<1>2. \A k : F!snippet_from_span(k) = F!Capped(Whole(k))
  BY DEF F!snippet_from_span, Whole
<1>3. ASSUME NEW m, Finding(m, S), Widened(l, m) PROVE Alike(Whole(l), Whole(m), S)
  BY <1>3, WholeAlike
<1>4. Widened(l, l)
  BY DEF Widened
<1>5. Whole(l) \in Seq(S)
  BY <1>3, <1>4 DEF Alike
<1>6. F!snippet_from_span(l) \in Seq(S)
  BY <1>1, <1>2, <1>5, Cut
<1>7. F!Normalized(F!snippet_from_span(l)) \in Seq(S)
  BY <1>1, <1>6, NormalizedAppend
<1>8. ASSUME NEW m, Finding(m, S), Widened(l, m), F!Fits(l), F!Fits(m)
      PROVE  F!Normalized(F!snippet_from_span(l)) = F!Normalized(F!snippet_from_span(m))
  <2>1. /\ Whole(l) \in Seq(S) /\ Whole(m) \in Seq(S)
        /\ F!Normalized(Whole(l)) = F!Normalized(Whole(m))
    BY <1>3, <1>8, Zenon DEF Alike
  <2>2. Len(F!Capped(Whole(l))) < CAP /\ Len(F!Capped(Whole(m))) < CAP
    BY <1>2, <1>8 DEF F!Fits
  <2>3. F!Capped(Whole(l)) = Whole(l) /\ F!Capped(Whole(m)) = Whole(m)
    BY <1>1, <2>1, <2>2, Cut
  <2> QED
    BY <1>2, <2>1, <2>3, Zenon
<1> QED
  BY <1>6, <1>7, <1>8, Zenon

(* Where a separator that is in neither of two texts comes, they end.        *)
Without(u, s) == \A k \in 1 .. Len(s) : s[k] # u
Splits(s, x, t, y, u) == s \o (<<u>> \o x) = t \o (<<u>> \o y) => s = t /\ x = y

LEMMA Separated ==
    ASSUME NEW S, NEW s \in Seq(S), NEW t \in Seq(S), NEW x \in Seq(S), NEW y \in Seq(S),
           NEW u \in S, Without(u, s), Without(u, t)
    PROVE  Splits(s, x, t, y, u)
<1> SUFFICES ASSUME s \o (<<u>> \o x) = t \o (<<u>> \o y)
             PROVE  s = t /\ x = y
  BY Zenon DEF Splits
<1> USE DEF Without
<1> DEFINE v == <<u>> \o x
           w == <<u>> \o y
<1>1. /\ v \in Seq(S) /\ Len(v) = 1 + Len(x) /\ v[1] = u
      /\ w \in Seq(S) /\ Len(w) = 1 + Len(y) /\ w[1] = u
  <2>1. ASSUME NEW z \in Seq(S)
        PROVE  <<u>> \o z \in Seq(S) /\ Len(<<u>> \o z) = 1 + Len(z) /\ (<<u>> \o z)[1] = u
    <3> DEFINE one == <<u>>
    <3>1. one \in Seq(S) /\ Len(one) = 1 /\ one[1] = u /\ Len(z) \in Nat
      BY OneElement, LenProperties
    <3> HIDE DEF one
    <3>2. /\ one \o z \in Seq(S) /\ Len(one \o z) = Len(one) + Len(z)
          /\ \A k \in 1 .. Len(one) + Len(z) :
                 (one \o z)[k] = IF k <= Len(one) THEN one[k] ELSE z[k - Len(one)]
      BY <3>1, ConcatProperties
    <3>3. 1 \in 1 .. Len(one) + Len(z) /\ 1 <= Len(one)
      BY <3>1
    <3> QED
      BY <3>1, <3>2, <3>3, Zenon DEF one
  <2> QED
    BY <2>1
<1>2. Len(s) \in Nat /\ Len(t) \in Nat /\ Len(x) \in Nat /\ Len(y) \in Nat
  BY LenProperties
<1>3. s \o v = t \o w
  OBVIOUS
<1> HIDE DEF v, w
<1> DEFINE all == s \o v
<1>4. /\ \A k \in 1 .. Len(s) : all[k] = s[k]
      /\ all[Len(s) + 1] = u
  BY <1>1, <1>2, ConcatProperties
<1>5. /\ \A k \in 1 .. Len(t) : all[k] = t[k]
      /\ all[Len(t) + 1] = u
  <2>1. /\ \A k \in 1 .. Len(t) : (t \o w)[k] = t[k]
        /\ (t \o w)[Len(t) + 1] = u
    BY <1>1, <1>2, ConcatProperties
  <2> QED
    BY <1>3, <2>1, Zenon
<1> HIDE DEF all
<1>6. Len(s) = Len(t)
  <2>1. ~(Len(s) < Len(t))
    <3>1. Len(s) < Len(t) => Len(s) + 1 \in 1 .. Len(t)
      BY <1>2
    <3> QED
      BY <1>4, <1>5, <3>1, Zenon
  <2>2. ~(Len(t) < Len(s))
    <3>1. Len(t) < Len(s) => Len(t) + 1 \in 1 .. Len(s)
      BY <1>2
    <3> QED
      BY <1>4, <1>5, <3>1, Zenon
  <2> QED
    BY <1>2, <2>1, <2>2
<1>7. s = t
  BY <1>4, <1>5, <1>6, SeqEqual
<1>8. v = w
  <2> DEFINE Cancels(a, b, c) == a \o b = a \o c => b = c
  <2>1. \A T : \A a, b, c \in Seq(T) : Cancels(a, b, c)
    BY ConcatSimplifications
  <2> HIDE DEF Cancels
  <2>2. Cancels(s, v, w)
    BY <1>1, <2>1, Zenon
  <2> QED
    BY <1>3, <1>7, <2>2, Zenon DEF Cancels
<1>9. x = y
  <2> DEFINE Cancels(a, b, c) == a \o b = a \o c => b = c
  <2>1. \A T : \A a, b, c \in Seq(T) : Cancels(a, b, c)
    BY ConcatSimplifications
  <2> HIDE DEF Cancels
  <2>2. <<u>> \in Seq(S)
    BY OneElement
  <2>3. Cancels(<<u>>, x, y)
    BY <2>1, <2>2, Zenon
  <2> QED
    BY <1>8, <2>3, Zenon DEF v, w, Cancels
<1> QED
  BY <1>7, <1>9

(* The characters there are, and what is never forgotten of a finding.       *)
Alphabet ==
    {" ", "LF", "...", "US"} \cup (UNION {F!Range(text) : text \in Calls \cup Rules \cup Fns})

IdentityInv ==
    /\ leak \in [1 .. 2 -> [rule : Rules, function : Fns, call : Calls,
                            front : Fronts \cup {<<>>}, gaps : UNION {[1 .. k -> F!Gaps] : k \in Int}]]
    /\ \A n \in 1 .. 2 : leak[n].gaps \in [1 .. Len(leak[n].call) - 1 -> F!Gaps]

LEMMA Letters == {" ", "LF", "...", "US"} \subseteq Alphabet
BY DEF Alphabet

LEMMA Written ==
    /\ \A text \in Calls \cup Rules \cup Fns : text \in Seq(Alphabet)
    /\ \A name \in Rules \cup Fns : Without("US", name)
    /\ \A call \in Calls : call # <<>>
<1>1. /\ \A text \in Calls \cup Rules \cup Fns : text \in Seq(F!Range(text))
      /\ \A name \in Rules \cup Fns : "US" \notin F!Range(name)
      /\ \A call \in Calls : call # <<>>
  BY StagesAssumption DEF F!FingerprintAssumption
<1>2. \A text \in Calls \cup Rules \cup Fns : F!Range(text) \subseteq Alphabet
  BY Zenon DEF Alphabet
<1>3. ASSUME NEW text \in Calls \cup Rules \cup Fns PROVE text \in Seq(Alphabet)
  BY <1>1, <1>2, SeqMonotonic
<1>4. ASSUME NEW name \in Rules \cup Fns, NEW k \in 1 .. Len(name) PROVE name[k] # "US"
  <2>1. DOMAIN name = 1 .. Len(name)
    BY <1>3, LenProperties
  <2> QED
    BY <1>1, <2>1, Zenon DEF F!Range
<1> QED
  BY <1>1, <1>3, <1>4 DEF Without

LEMMA AreFindings == IdentityInv => \A n \in 1 .. 2 : Finding(leak[n], Alphabet)
<1> SUFFICES ASSUME IdentityInv, NEW n \in 1 .. 2 PROVE Finding(leak[n], Alphabet)
  OBVIOUS
<1>1. leak[n].call \in Calls
  BY DEF IdentityInv
<1>2. leak[n].call \in Seq(Alphabet) /\ leak[n].call # <<>>
  BY <1>1, Written
<1>3. leak[n].gaps \in [1 .. Len(leak[n].call) - 1 -> F!Gaps]
  BY Zenon DEF IdentityInv
<1> QED
  BY <1>2, <1>3, Letters DEF Finding

LEMMA FingerprintSplits ==
    ASSUME IdentityInv
    PROVE  F!FieldsApart
<1> SUFFICES ASSUME F!fingerprint(leak[1]) = F!fingerprint(leak[2])
             PROVE  /\ leak[1].rule = leak[2].rule
                    /\ leak[1].function = leak[2].function
                    /\ F!Normalized(F!snippet_from_span(leak[1]))
                          = F!Normalized(F!snippet_from_span(leak[2]))
  BY DEF F!FieldsApart
<1> DEFINE rule(n) == leak[n].rule
           name(n) == leak[n].function
           text(n) == F!Normalized(F!snippet_from_span(leak[n]))
           us == <<"US">>
           rest(n) == name(n) \o (us \o text(n))
<1>1. ASSUME NEW n \in 1 .. 2
      PROVE  /\ rule(n) \in Seq(Alphabet) /\ Without("US", rule(n))
             /\ name(n) \in Seq(Alphabet) /\ Without("US", name(n))
  <2>1. rule(n) \in Rules /\ name(n) \in Fns
    BY DEF IdentityInv
  <2> QED
    BY <2>1, Written
<1>2. \A n \in 1 .. 2 : text(n) \in Seq(Alphabet)
  BY AreFindings, SnippetKept, StagesAssumption DEF F!FingerprintAssumption
<1>3. "US" \in Alphabet /\ us \in Seq(Alphabet)
  BY OneElement, Letters
<1>4. \A n \in 1 .. 2 : F!fingerprint(leak[n])
                            = rule(n) \o us \o name(n) \o us \o text(n)
  BY DEF F!fingerprint, F!composed
<1> HIDE DEF rule, name, text, us
<1>5. ASSUME NEW n \in 1 .. 2
      PROVE  /\ rest(n) \in Seq(Alphabet)
             /\ F!fingerprint(leak[n]) = rule(n) \o (us \o rest(n))
  <2> DEFINE Assoc(r, s, t) == (r \o s) \o t = r \o (s \o t)
  <2>1. \A T : \A r, s, t \in Seq(T) : Assoc(r, s, t)
    BY ConcatAssociative, SMTT(20)
  <2>2. \A r, s \in Seq(Alphabet) : r \o s \in Seq(Alphabet)
    BY ConcatProperties
  <2>3. /\ rule(n) \in Seq(Alphabet) /\ name(n) \in Seq(Alphabet) /\ text(n) \in Seq(Alphabet)
    BY <1>1, <1>2
  <2> HIDE DEF Assoc
  <2>4. /\ Assoc(rule(n), us, name(n))
        /\ Assoc(rule(n) \o us, name(n), us) /\ Assoc((rule(n) \o us) \o name(n), us, text(n))
        /\ Assoc(rule(n) \o us, name(n), us \o text(n))
        /\ Assoc(rule(n), us, rest(n))
    BY <1>3, <2>1, <2>2, <2>3, Zenon
  <2>5. rest(n) \in Seq(Alphabet)
    BY <1>3, <2>2, <2>3, Zenon
  <2> QED
    BY <1>4, <2>4, <2>5, Zenon DEF Assoc
<1> HIDE DEF rest
<1>8. 1 \in 1 .. 2 /\ 2 \in 1 .. 2
  OBVIOUS
<1>6. rule(1) = rule(2) /\ rest(1) = rest(2)
  <2>1. rule(1) \o (us \o rest(1)) = rule(2) \o (us \o rest(2))
    BY <1>5, <1>8, Zenon
  <2>2. Splits(rule(1), rest(1), rule(2), rest(2), "US")
    BY <1>1, <1>3, <1>5, <1>8, Separated
  <2> QED
    BY <2>1, <2>2, Zenon DEF us, Splits
<1>7. name(1) = name(2) /\ text(1) = text(2)
  <2>1. name(1) \o (us \o text(1)) = name(2) \o (us \o text(2))
    BY <1>6, Zenon DEF rest
  <2>2. Splits(name(1), text(1), name(2), text(2), "US")
    BY <1>1, <1>2, <1>3, <1>8, Separated
  <2> QED
    BY <2>1, <2>2, Zenon DEF us, Splits
<1> QED
  BY <1>6, <1>7 DEF rule, name, text

LEMMA IdentityInitial == F!Init => IdentityInv
<1> SUFFICES ASSUME F!Init PROVE IdentityInv
  OBVIOUS
<1>1. leak \in [1 .. 2 -> UNION {F!Findings(call) : call \in Calls}]
  BY DEF F!Init
<1>2. ASSUME NEW n \in 1 .. 2
      PROVE  /\ leak[n] \in [rule : Rules, function : Fns, call : Calls,
                             front : Fronts \cup {<<>>},
                             gaps : UNION {[1 .. k -> F!Gaps] : k \in Int}]
             /\ leak[n].gaps \in [1 .. Len(leak[n].call) - 1 -> F!Gaps]
  <2>1. PICK call \in Calls : leak[n] \in F!Findings(call)
    BY <1>1
  <2>2. Len(call) - 1 \in Int
    BY Written, LenProperties
  <2>3. [k \in 1 .. Len(call) - 1 |-> <<>>] \in [1 .. Len(call) - 1 -> F!Gaps]
    BY DEF F!Gaps
  <2> DEFINE gaps == [k \in 1 .. Len(call) - 1 |-> <<>>]
             found == leak[n]
  <2> HIDE DEF gaps
  <2>4. found \in [rule : Rules, function : Fns, call : {call}, front : {<<>>}, gaps : {gaps}]
    BY <2>1 DEF F!Findings, gaps
  <2> HIDE DEF found
  <2>5. found.gaps = gaps /\ found.call = call
    BY <2>4
  <2>6. gaps \in UNION {[1 .. k -> F!Gaps] : k \in Int}
    BY <2>2, <2>3, Zenon DEF gaps
  <2>7. found \in [rule : Rules, function : Fns, call : Calls, front : Fronts \cup {<<>>},
                   gaps : UNION {[1 .. k -> F!Gaps] : k \in Int}]
    BY <2>4, <2>6
  <2> QED
    BY <2>3, <2>5, <2>7, Zenon DEF found, gaps
<1> QED
  BY <1>1, <1>2 DEF IdentityInv

(* A step changes what is in front of a finding, or one of its gaps.         *)
LEMMA IdentityStep ==
    ASSUME IdentityInv, F!Next
    PROVE  /\ IdentityInv'
           /\ \A n \in 1 .. 2 : /\ leak'[n].rule = leak[n].rule
                                /\ leak'[n].function = leak[n].function
                                /\ leak'[n].call = leak[n].call
<1> DEFINE Records == [rule : Rules, function : Fns, call : Calls, front : Fronts \cup {<<>>},
                       gaps : UNION {[1 .. k -> F!Gaps] : k \in Int}]
           Kept(l, m) ==
               /\ m \in Records /\ m.gaps \in [1 .. Len(m.call) - 1 -> F!Gaps]
               /\ m.rule = l.rule /\ m.function = l.function /\ m.call = l.call
<1>1. /\ leak \in [1 .. 2 -> Records]
      /\ \A n \in 1 .. 2 : Kept(leak[n], leak[n])
  BY DEF IdentityInv
<1>2. ASSUME NEW n \in 1 .. 2, NEW front \in Fronts, F!Move(n, front)
      PROVE  \E m : Kept(leak[n], m) /\ leak' = [leak EXCEPT ![n] = m]
  <2> DEFINE m == [leak[n] EXCEPT !.front = front]
  <2>1. leak' = [leak EXCEPT ![n] = m]
    BY <1>2 DEF F!Move
  <2>2. Kept(leak[n], m)
    BY <1>1
  <2> QED
    BY <2>1, <2>2
<1>3. ASSUME NEW n \in 1 .. 2, NEW k \in DOMAIN leak[n].gaps, NEW gap \in F!Gaps,
             F!Reformat(n, k, gap)
      PROVE  \E m : Kept(leak[n], m) /\ leak' = [leak EXCEPT ![n] = m]
  <2> DEFINE gaps == [leak[n].gaps EXCEPT ![k] = gap]
             m == [leak[n] EXCEPT !.gaps = gaps]
  <2>1. leak' = [leak EXCEPT ![n] = m]
    BY <1>3 DEF F!Reformat
  <2>2. gaps \in [1 .. Len(leak[n].call) - 1 -> F!Gaps]
    BY <1>1
  <2>3. Len(leak[n].call) - 1 \in Int
    BY Written, LenProperties, <1>1
  <2>4. m.gaps = gaps /\ m.call = leak[n].call
    BY <1>1
  <2>5. m \in Records
    <3>1. gaps \in UNION {[1 .. j -> F!Gaps] : j \in Int}
      BY <2>2, <2>3
    <3> HIDE DEF gaps
    <3> QED
      BY <1>1, <3>1
  <2>6. Kept(leak[n], m)
    BY <1>1, <2>2, <2>4, <2>5
  <2> QED
    BY <2>1, <2>6
<1>4. PICK n \in 1 .. 2 : \E m : Kept(leak[n], m) /\ leak' = [leak EXCEPT ![n] = m]
  BY <1>2, <1>3, Zenon DEF F!Next
<1>5. PICK m : Kept(leak[n], m) /\ leak' = [leak EXCEPT ![n] = m]
  BY <1>4
<1>6. \A j \in 1 .. 2 : Kept(leak[j], leak'[j])
  <2> HIDE DEF Kept
  <2> QED
    BY <1>1, <1>5
<1>7. leak' \in [1 .. 2 -> Records]
  BY <1>1, <1>5
<1> QED
  BY <1>6, <1>7, Zenon DEF IdentityInv

LEMMA IdentityKept ==
    ASSUME IdentityInv, F!Next
    PROVE  \A n \in 1 .. 2 :
               /\ leak'[n] # leak[n]
               /\ \A k \in DOMAIN leak[n].gaps :
                      F!Wide(leak'[n].gaps[k]) = F!Wide(leak[n].gaps[k])
               /\ F!Fits(leak[n]) /\ F!Fits(leak'[n])
               => F!fingerprint(leak'[n]) = F!fingerprint(leak[n])
<1> SUFFICES ASSUME NEW n \in 1 .. 2,
                    \A k \in DOMAIN leak[n].gaps :
                        F!Wide(leak'[n].gaps[k]) = F!Wide(leak[n].gaps[k]),
                    F!Fits(leak[n]), F!Fits(leak'[n])
             PROVE  F!fingerprint(leak'[n]) = F!fingerprint(leak[n])
  OBVIOUS
<1>1. /\ IdentityInv' /\ leak'[n].rule = leak[n].rule
      /\ leak'[n].function = leak[n].function /\ leak'[n].call = leak[n].call
  BY IdentityStep
<1>2. Finding(leak[n], Alphabet) /\ Finding(leak'[n], Alphabet)
  <2>1. leak'[n].call \in Calls /\ leak'[n].gaps \in [1 .. Len(leak'[n].call) - 1 -> F!Gaps]
    BY <1>1 DEF IdentityInv
  <2>2. leak'[n].call \in Seq(Alphabet) /\ leak'[n].call # <<>>
    BY <2>1, Written
  <2>3. Finding(leak'[n], Alphabet)
    BY <2>1, <2>2, Letters DEF Finding
  <2> QED
    BY <2>3, AreFindings
<1>3. Widened(leak[n], leak'[n])
  BY <1>1, Zenon DEF Widened
<1>4. CAP \in Nat \ {0}
  BY StagesAssumption DEF F!FingerprintAssumption
<1>5. F!Normalized(F!snippet_from_span(leak[n])) = F!Normalized(F!snippet_from_span(leak'[n]))
  BY <1>2, <1>3, <1>4, SnippetKept, Zenon
<1> QED
  BY <1>1, <1>5, Zenon DEF F!fingerprint, F!composed

(* A finding keeps its identity while its code moves, and shares it with     *)
(* none of another rule, function or text.                                   *)
THEOREM IdentityStands == MCSpec => IdentityIsStable
<1>1. MCInit => IdentityInv
  BY IdentityInitial DEF MCInit
<1>2. IdentityInv /\ [MCNext]_<<part, vars, fvars, avars, nvars, gvars>> =>
          /\ IdentityInv'
          /\ [F!Next]_leak
  <2> SUFFICES ASSUME IdentityInv, [MCNext]_<<part, vars, fvars, avars, nvars, gvars>>
               PROVE  IdentityInv' /\ [F!Next]_leak
    OBVIOUS
  <2>1. CASE F!Next
    BY <2>1, IdentityStep
  <2>2. CASE UNCHANGED leak
    BY <2>2 DEF IdentityInv
  <2> QED
    BY <2>1, <2>2, Zenon DEF MCNext, fvars
<1>3. IdentityInv => F!FieldsApart
  BY FingerprintSplits
<1> DEFINE Same == \A n \in 1 .. 2 :
               /\ leak'[n] # leak[n]
               /\ \A k \in DOMAIN leak[n].gaps :
                      F!Wide(leak'[n].gaps[k]) = F!Wide(leak[n].gaps[k])
               /\ F!Fits(leak[n]) /\ F!Fits(leak'[n])
               => F!fingerprint(leak'[n]) = F!fingerprint(leak[n])
<1>4. IdentityInv /\ [F!Next]_leak => [Same]_F!vars
  BY IdentityKept DEF F!vars
<1>5. MCSpec => [][Same]_F!vars /\ []F!FieldsApart
  <2> HIDE DEF Same
  <2> QED
    BY <1>1, <1>2, <1>3, <1>4, PTL DEF MCSpec
<1> QED
  BY <1>5 DEF IdentityIsStable, F!MovesKeepIdentity


-----------------------------------------------------------------------------
(* A sequence that is put together from pieces, each with the place of the   *)
(* next one, until the end is reached.                                       *)
Pieced(f, m, head, next) ==
    \A k \in 1 .. m + 2 : f[k] = IF k > m THEN <<>> ELSE head[k] \o f[next[k]]

Onwards(next, m) == next \in [1 .. m -> 1 .. m + 2] /\ \A k \in 1 .. m : next[k] > k

LEMMA Onward ==
    ASSUME NEW m \in Nat, NEW T, NEW head \in [1 .. m -> Seq(T)], NEW next, Onwards(next, m)
    PROVE  \E f \in [1 .. m + 2 -> Seq(T)] : Pieced(f, m, head, next)
<1> DEFINE Later(h) == {k \in 1 .. m + 2 : k + h > m}
           value(g, k) == IF k > m THEN <<>> ELSE head[k] \o g[next[k]]
           Joined(h) == \E f \in [Later(h) -> Seq(T)] : \A k \in Later(h) : f[k] = value(f, k)
           none == {h \in Nat : ~Joined(h)}
<1>1. \A k \in 1 .. m : next[k] \in 1 .. m + 2 /\ next[k] > k /\ head[k] \in Seq(T)
  BY DEF Onwards
<1>2. none = {}
  <2> SUFFICES ASSUME none # {} PROVE FALSE
    OBVIOUS
  <2>1. PICK h \in none : \A k \in none : h <= k
    <3>1. none \in SUBSET Nat
      OBVIOUS
    <3> QED BY <3>1, Lowest
  <2>2. h \in Nat /\ ~Joined(h)
    BY <2>1
  <2>3. CASE h = 0
    <3> DEFINE f == [k \in Later(0) |-> <<>>]
    <3>1. \A k \in Later(0) : k > m
      OBVIOUS
    <3>2. f \in [Later(0) -> Seq(T)]
      BY EmptySeq
    <3>3. \A k \in Later(0) : f[k] = value(f, k)
      BY <3>1
    <3> QED BY <2>2, <2>3, <3>2, <3>3
  <2>4. CASE h # 0
    <3> DEFINE j == h - 1
    <3>1. j \in Nat /\ j < h /\ h = j + 1
      BY <2>2, <2>4
    <3> HIDE DEF j
    <3>2. Joined(j)
      <4> HIDE DEF Joined
      <4> QED BY <2>1, <3>1
    <3>3. PICK f \in [Later(j) -> Seq(T)] : \A k \in Later(j) : f[k] = value(f, k)
      BY <3>2
    <3> DEFINE g == [k \in Later(h) |-> IF k \in Later(j) THEN f[k] ELSE value(f, k)]
    <3>4. \A k \in Later(j) : k \in Later(h)
      BY <3>1
    <3>5. ASSUME NEW k \in Later(h), ~(k > m)
          PROVE  k \in 1 .. m /\ next[k] \in Later(j)
      <4>1. k \in 1 .. m
        BY <3>5
      <4>2. next[k] \in 1 .. m + 2 /\ next[k] > k
        BY <1>1, <4>1
      <4>3. next[k] + j > m
        BY <3>1, <3>5, <4>1, <4>2
      <4> QED BY <4>1, <4>2, <4>3
    <3>6. ASSUME NEW k \in Later(h) PROVE value(f, k) \in Seq(T)
      <4>1. CASE k > m
        BY <4>1, EmptySeq
      <4>2. CASE ~(k > m)
        <5>1. head[k] \in Seq(T) /\ f[next[k]] \in Seq(T)
          BY <1>1, <3>3, <3>5, <4>2
        <5>2. head[k] \o f[next[k]] \in Seq(T)
          BY <5>1, ConcatProperties
        <5> QED BY <4>2, <5>2
      <4> QED BY <4>1, <4>2
    <3>7. g \in [Later(h) -> Seq(T)]
      <4> HIDE DEF Later, value
      <4> QED BY <3>3, <3>6
    <3>8. \A k \in Later(j) : g[k] = f[k]
      <4> HIDE DEF Later, value
      <4> QED BY <3>4
    <3>9. ASSUME NEW k \in Later(h) PROVE g[k] = value(g, k)
      <4>1. g[k] = value(f, k)
        <5>1. k \in Later(j) => f[k] = value(f, k)
          <6> HIDE DEF Later, value
          <6> QED BY <3>3
        <5> HIDE DEF Later, value
        <5> QED BY <5>1
      <4>2. CASE k > m
        <5> HIDE DEF g
        <5> QED BY <4>1, <4>2
      <4>3. CASE ~(k > m)
        <5>1. g[next[k]] = f[next[k]]
          <6> HIDE DEF g, Later
          <6> QED BY <3>5, <3>8, <4>3
        <5> HIDE DEF g
        <5> QED BY <4>1, <4>3, <5>1
      <4> QED BY <4>2, <4>3
    <3>10. Joined(h)
      <4> HIDE DEF g, Later, value
      <4> QED BY <3>7, <3>9
    <3> QED BY <2>2, <3>10
  <2> QED BY <2>3, <2>4
<1>3. Joined(m)
  <2> HIDE DEF Joined
  <2> QED BY <1>2
<1>4. Later(m) = 1 .. m + 2
  OBVIOUS
<1> QED
  BY <1>3, <1>4 DEF Pieced

(* Whatever is put together so is a sequence. *)
LEMMA PiecedSeq ==
    ASSUME NEW m \in Nat, NEW T, NEW head \in [1 .. m -> Seq(T)], NEW next, Onwards(next, m),
           NEW g, Pieced(g, m, head, next)
    PROVE  \A k \in 1 .. m + 2 : g[k] \in Seq(T)
<1>1. \A k \in 1 .. m : next[k] \in 1 .. m + 2 /\ next[k] > k /\ head[k] \in Seq(T)
  BY DEF Onwards
<1> DEFINE bad == {h \in Nat : \E k \in 1 .. m + 2 : h = m + 2 - k /\ g[k] \notin Seq(T)}
<1>2. ASSUME bad # {} PROVE FALSE
  <2>1. PICK h \in bad : \A j \in bad : h <= j
    <3>1. bad \in SUBSET Nat
      OBVIOUS
    <3> QED BY <1>2, <3>1, Lowest
  <2>2. PICK k \in 1 .. m + 2 : h = m + 2 - k /\ g[k] \notin Seq(T)
    BY <2>1
  <2>3. g[k] = IF k > m THEN <<>> ELSE head[k] \o g[next[k]]
    BY DEF Pieced
  <2>4. ~(k > m)
    BY <2>2, <2>3, EmptySeq
  <2>5. k \in 1 .. m /\ next[k] \in 1 .. m + 2 /\ next[k] > k
    BY <1>1, <2>4
  <2>6. m + 2 - next[k] \in Nat /\ m + 2 - next[k] < h
    BY <2>2, <2>5
  <2>7. g[next[k]] \in Seq(T)
    <3>1. g[next[k]] \notin Seq(T) => m + 2 - next[k] \in bad
      BY <2>5, <2>6
    <3>2. h \in Nat
      BY <2>1
    <3> HIDE DEF bad
    <3> QED BY <2>1, <2>6, <3>1, <3>2
  <2>8. head[k] \o g[next[k]] \in Seq(T)
    BY <1>1, <2>5, <2>7, ConcatProperties
  <2> QED BY <2>2, <2>3, <2>4, <2>8
<1>3. \A k \in 1 .. m + 2 : m + 2 - k \in Nat
  OBVIOUS
<1> QED BY <1>2, <1>3

Assoc(x, y, z) == (x \o y) \o z = x \o (y \o z)

LEMMA Associates ==
    ASSUME NEW S, NEW x \in Seq(S), NEW y \in Seq(S), NEW z \in Seq(S)
    PROVE  Assoc(x, y, z)
BY ConcatAssociative DEF Assoc

-----------------------------------------------------------------------------
(* Annotations: one character of a text replaced.                            *)

LEMMA SameFlattening == \A seqs : A!FlattenSeq(seqs) = FlattenSeq(seqs)
BY DEF A!FlattenSeq, FlattenSeq

(* What one character becomes. *)
Swap(x, c, by) == IF x = c THEN by ELSE <<x>>

Swapped(s, c, by) == [i \in DOMAIN s |-> Swap(s[i], c, by)]

LEMMA ReplaceFlattens == \A s, c, by : A!Replace(s, c, by) = FlattenSeq(Swapped(s, c, by))
<1> TAKE s, c, by
<1>1. Swapped(s, c, by) = [i \in DOMAIN s |-> IF s[i] = c THEN by ELSE <<s[i]>>]
  BY DEF Swapped, Swap
<1> QED
  BY <1>1, SameFlattening, Zenon DEF A!Replace

LEMMA SwapIs ==
    ASSUME NEW S, NEW T, NEW c, S \ {c} \subseteq T, NEW by \in Seq(T), NEW x \in S
    PROVE  Swap(x, c, by) \in Seq(T)
<1>1. x # c => <<x>> \in Seq(T)
  OBVIOUS
<1> QED
  BY <1>1 DEF Swap

LEMMA SwappedIs ==
    ASSUME NEW S, NEW T, NEW c, S \ {c} \subseteq T, NEW by \in Seq(T), NEW s \in Seq(S)
    PROVE  /\ Swapped(s, c, by) \in Seq(Seq(T))
           /\ Len(Swapped(s, c, by)) = Len(s)
<1> DEFINE n == Len(s)
           w == Swapped(s, c, by)
<1>1. n \in Nat /\ DOMAIN s = 1 .. n /\ \A i \in 1 .. n : s[i] \in S
  BY LenProperties, ElementOfSeq
<1>2. \A i \in 1 .. n : Swap(s[i], c, by) \in Seq(T)
  BY <1>1, SwapIs
<1>3. w \in [1 .. n -> Seq(T)]
  BY <1>1, <1>2, Zenon DEF Swapped
<1> HIDE DEF w
<1>4. w \in Seq(Seq(T)) /\ Len(w) = n
  BY <1>1, <1>3
<1> QED
  BY <1>4 DEF w

(* The text is one of other characters. *)
LEMMA ReplaceIs ==
    ASSUME NEW S, NEW T, NEW c, S \ {c} \subseteq T, NEW by \in Seq(T), NEW s \in Seq(S)
    PROVE  A!Replace(s, c, by) \in Seq(T)
<1>1. Swapped(s, c, by) \in Seq(Seq(T))
  BY SwappedIs
<1> QED
  BY <1>1, ReplaceFlattens, FlattenIsSeq

LEMMA ReplaceNothing == \A c, by : A!Replace(<<>>, c, by) = <<>>
<1> TAKE c, by
<1>1. Swapped(<<>>, c, by) = <<>>
  BY DEF Swapped
<1> QED
  BY <1>1, ReplaceFlattens, FlattenEmpty

(* It is replaced from front to back. *)
LEMMA ReplaceAppend ==
    ASSUME NEW S, NEW c, NEW by \in Seq(S), NEW s \in Seq(S), NEW x \in S
    PROVE  A!Replace(Append(s, x), c, by) = A!Replace(s, c, by) \o Swap(x, c, by)
<1> DEFINE n == Len(s)
           more == Append(s, x)
           w == Swapped(s, c, by)
           p == Swap(x, c, by)
           v == Swapped(more, c, by)
           T == Seq(S)
<1>1. /\ n \in Nat /\ DOMAIN s = 1 .. n
      /\ DOMAIN more = 1 .. n + 1 /\ more[n + 1] = x /\ \A i \in 1 .. n : more[i] = s[i]
      /\ more \in Seq(S)
  BY LenProperties, AppendProperties
<1>2. w \in Seq(T) /\ Len(w) = n /\ p \in T /\ v \in Seq(T) /\ Len(v) = n + 1
  <2>1. S \ {c} \subseteq S
    OBVIOUS
  <2>2. w \in Seq(T) /\ Len(w) = n
    BY <2>1, SwappedIs
  <2>3. p \in T
    BY <2>1, SwapIs
  <2>4. v \in Seq(T) /\ Len(v) = Len(more)
    <3> HIDE DEF more
    <3> QED BY <1>1, <2>1, SwappedIs
  <2> QED BY <1>1, <2>2, <2>3, <2>4, LenProperties
<1>3. \A i \in 1 .. n + 1 : v[i] = IF i = n + 1 THEN p ELSE w[i]
  <2>1. \A i \in 1 .. n + 1 : v[i] = Swap(more[i], c, by)
    BY <1>1, Zenon DEF Swapped
  <2>2. \A i \in 1 .. n : w[i] = Swap(s[i], c, by)
    BY <1>1, Zenon DEF Swapped
  <2>3. \A i \in 1 .. n + 1 : i = n + 1 \/ i \in 1 .. n
    BY <1>1
  <2> HIDE DEF v, w, p, more, n
  <2>4. \A i \in 1 .. n : i # n + 1
    BY <1>1
  <2>5. p = Swap(x, c, by)
    BY DEF p
  <2> QED BY <1>1, <2>1, <2>2, <2>3, <2>4, <2>5, Zenon
<1> DEFINE both == Append(w, p)
<1> HIDE DEF v, w, p, T, n, more
<1>4. both \in Seq(T) /\ Len(both) = n + 1 /\ \A i \in 1 .. n + 1 : both[i] = IF i = n + 1 THEN p ELSE w[i]
  <2>1. both \in Seq(T) /\ Len(both) = n + 1
    BY <1>1, <1>2, AppendProperties
  <2> QED BY <1>1, <1>2, <2>1, AppendProperties
<1> HIDE DEF both
<1>5. v = both
  BY <1>2, <1>3, <1>4, SeqEqual
<1>6. FlattenSeq(both) = FlattenSeq(w) \o p
  BY <1>2, FlattenAppend DEF both, T
<1>7. A!Replace(s, c, by) = FlattenSeq(w) /\ A!Replace(more, c, by) = FlattenSeq(v)
  BY ReplaceFlattens DEF w, v
<1> QED
  BY <1>5, <1>6, <1>7 DEF p, more

Grows(s, x, c, by) ==
    A!Replace(Append(s, x), c, by) = A!Replace(s, c, by) \o Swap(x, c, by)

LEMMA ReplaceGrows ==
    ASSUME NEW S, NEW c, NEW by \in Seq(S), NEW s \in Seq(S), NEW x \in S
    PROVE  Grows(s, x, c, by)
BY ReplaceAppend, Zenon DEF Grows

(* Two texts are replaced one after the other. *)
TwoReplaced(s, t, c, by) == A!Replace(s \o t, c, by) = A!Replace(s, c, by) \o A!Replace(t, c, by)

LEMMA ReplaceSplits ==
    ASSUME NEW S, NEW c, NEW by \in Seq(S), NEW s \in Seq(S), NEW t \in Seq(S)
    PROVE  TwoReplaced(s, t, c, by)
<1> DEFINE bad == {n \in Nat : \E u \in Seq(S) : Len(u) = n /\ ~TwoReplaced(s, u, c, by)}
           r == A!Replace(s, c, by)
<1>1. r \in Seq(S)
  <2>1. S \ {c} \subseteq S
    OBVIOUS
  <2> QED BY <2>1, ReplaceIs
<1>2. ASSUME bad # {} PROVE FALSE
  <2>1. PICK n \in bad : \A k \in bad : n <= k
    <3>1. bad \in SUBSET Nat
      OBVIOUS
    <3> QED BY <1>2, <3>1, Lowest
  <2>2. PICK u \in Seq(S) : Len(u) = n /\ ~TwoReplaced(s, u, c, by)
    BY <2>1
  <2>3. CASE u = <<>>
    <3>1. s \o u = s /\ A!Replace(u, c, by) = <<>> /\ r \o <<>> = r
      BY <1>1, <2>3, ConcatEmptySeq, ReplaceNothing
    <3> QED BY <2>2, <3>1 DEF TwoReplaced
  <2>4. CASE u # <<>>
    <3> DEFINE v == SubSeq(u, 1, Len(u) - 1)
               x == u[Len(u)]
    <3>1. n \in Nat /\ n - 1 \in Nat /\ n - 1 < n
      BY <2>2, <2>4, EmptySeq, LenProperties
    <3>2. v \in Seq(S) /\ x \in S /\ Len(v) = n - 1 /\ u = Append(v, x)
      <4>1. x \in S /\ v \in Seq(S) /\ Len(v) = n - 1 /\ \A i \in 1 .. n - 1 : v[i] = u[i]
        BY <2>2, <3>1, SubSeqProperties, ElementOfSeq
      <4> DEFINE w == Append(v, x)
      <4> HIDE DEF v
      <4>2. w \in Seq(S) /\ Len(w) = n
        BY <3>1, <4>1, AppendProperties
      <4>3. \A i \in 1 .. n : w[i] = u[i]
        <5>1. \A i \in 1 .. n : i = n \/ i \in 1 .. n - 1
          BY <3>1
        <5>2. w[n] = x /\ \A i \in 1 .. n - 1 : w[i] = v[i]
          BY <3>1, <4>1, AppendProperties
        <5> QED BY <2>2, <4>1, <5>1, <5>2
      <4> HIDE DEF w
      <4>4. u = w
        BY <2>2, <4>2, <4>3, SeqEqual
      <4> QED BY <4>1, <4>4 DEF w
    <3> HIDE DEF v, x
    <3>3. TwoReplaced(s, v, c, by)
      <4>1. ~TwoReplaced(s, v, c, by) => n - 1 \in bad
        BY <3>1, <3>2
      <4> HIDE DEF bad
      <4> QED BY <2>1, <3>1, <4>1
    <3> DEFINE rv == A!Replace(v, c, by)
               p  == Swap(x, c, by)
               sv == s \o v
    <3>4. rv \in Seq(S) /\ p \in Seq(S) /\ sv \in Seq(S)
      <4>1. S \ {c} \subseteq S
        OBVIOUS
      <4>2. rv \in Seq(S)
        BY <3>2, <4>1, ReplaceIs
      <4>3. p \in Seq(S)
        BY <3>2, <4>1, SwapIs
      <4> QED BY <3>2, <4>2, <4>3, ConcatProperties
    <3>5. A!Replace(sv, c, by) = r \o rv
      BY <3>3 DEF TwoReplaced
    <3>6. s \o u = Append(sv, x)
      <4> DEFINE y == <<x>>
      <4>1. y \in Seq(S) /\ u = v \o y
        BY <3>2, AppendIsConcat
      <4>2. Append(sv, x) = sv \o y
        BY <3>2, <3>4, AppendIsConcat
      <4> HIDE DEF y
      <4>3. Assoc(s, v, y)
        BY <3>2, <4>1, Associates
      <4> QED BY <4>1, <4>2, <4>3 DEF Assoc
    <3> HIDE DEF sv, rv, p, r
    <3>7. A!Replace(s \o u, c, by) = (r \o rv) \o p
      <4>1. Grows(sv, x, c, by)
        BY <3>2, <3>4, ReplaceGrows
      <4> QED BY <3>5, <3>6, <4>1, Zenon DEF Grows, p
    <3>8. A!Replace(u, c, by) = rv \o p
      <4>1. Grows(v, x, c, by)
        BY <3>2, ReplaceGrows
      <4> QED BY <3>2, <4>1, Zenon DEF Grows, rv, p
    <3>9. Assoc(r, rv, p)
      BY <1>1, <3>4, Associates
    <3>10. TwoReplaced(s, u, c, by)
      BY <3>7, <3>8, <3>9 DEF TwoReplaced, Assoc, r
    <3> QED BY <2>2, <3>10
  <2> QED BY <2>3, <2>4
<1>3. Len(t) \in Nat
  BY LenProperties
<1> QED
  BY <1>2, <1>3

(* One character, and three that are not replaced. *)
LEMMA ReplaceOne ==
    ASSUME NEW S, NEW c, NEW by \in Seq(S), NEW x \in S
    PROVE  A!Replace(<<x>>, c, by) = Swap(x, c, by)
<1> DEFINE none == <<>>
           p == Swap(x, c, by)
<1>1. none \in Seq(S) /\ Append(none, x) = <<x>> /\ A!Replace(none, c, by) = none
  BY ReplaceNothing
<1>2. p \in Seq(S)
  BY SwapIs
<1>3. none \o p = p
  <2> HIDE DEF p
  <2> QED BY <1>2, ConcatEmptySeq
<1> HIDE DEF none
<1>4. Grows(none, x, c, by)
  BY <1>1, ReplaceGrows
<1> QED
  BY <1>1, <1>3, <1>4, Zenon DEF Grows, p

LEMMA AppendIs ==
    ASSUME NEW S, NEW s \in Seq(S), NEW x \in S, NEW t \in Seq(S),
           Len(t) = Len(s) + 1, t[Len(s) + 1] = x, \A i \in 1 .. Len(s) : t[i] = s[i]
    PROVE  t = Append(s, x)
<1> DEFINE u == Append(s, x)
<1>1. u \in Seq(S) /\ Len(u) = Len(s) + 1
  BY AppendProperties
<1>2. u[Len(s) + 1] = x /\ \A i \in 1 .. Len(s) : u[i] = s[i]
  BY AppendProperties
<1> HIDE DEF u
<1>3. Len(s) \in Nat
  BY LenProperties
<1>4. \A i \in 1 .. Len(s) + 1 : i = Len(s) + 1 \/ i \in 1 .. Len(s)
  BY <1>3
<1>5. \A i \in 1 .. Len(t) : t[i] = u[i]
  BY <1>2, <1>4
<1>6. t = u
  BY <1>1, <1>5, SeqEqual
<1> QED
  BY <1>6 DEF u

Three(x, y, z) == <<x, y, z>> = Append(Append(<<x>>, y), z)

LEMMA ThreeIs ==
    ASSUME NEW S, NEW x \in S, NEW y \in S, NEW z \in S
    PROVE  Three(x, y, z)
<1> DEFINE one == <<x>>
           two == <<x, y>>
           three == <<x, y, z>>
<1>1. /\ one \in Seq(S) /\ Len(one) = 1 /\ one[1] = x
      /\ two \in Seq(S) /\ Len(two) = 2 /\ two[1] = x /\ two[2] = y
      /\ three \in Seq(S) /\ Len(three) = 3 /\ three[1] = x /\ three[2] = y /\ three[3] = z
  OBVIOUS
<1> HIDE DEF one, two, three
<1>2. two = Append(one, y)
  <2>1. Len(two) = Len(one) + 1 /\ two[Len(one) + 1] = y /\ \A i \in 1 .. Len(one) : two[i] = one[i]
    BY <1>1
  <2> QED BY <1>1, <2>1, AppendIs
<1>3. three = Append(two, z)
  <2>1. Len(three) = Len(two) + 1 /\ three[Len(two) + 1] = z /\ \A i \in 1 .. Len(two) : three[i] = two[i]
    BY <1>1
  <2> QED BY <1>1, <2>1, AppendIs
<1> QED
  BY <1>2, <1>3, Zenon DEF Three, one, three

Fixed(x, y, z, c, by) == A!Replace(<<x, y, z>>, c, by) = <<x, y, z>>

LEMMA ReplaceFixed ==
    ASSUME NEW S, NEW c, NEW by \in Seq(S), NEW x \in S \ {c}, NEW y \in S \ {c}, NEW z \in S \ {c}
    PROVE  Fixed(x, y, z, c, by)
<1> DEFINE one == <<x>>
           two == Append(one, y)
           three == Append(two, z)
<1>1. one \in Seq(S)
  OBVIOUS
<1>2. two \in Seq(S)
  <2> HIDE DEF one
  <2> QED BY <1>1, AppendProperties
<1>3. Swap(x, c, by) = one /\ Swap(y, c, by) = <<y>> /\ Swap(z, c, by) = <<z>>
  BY DEF Swap
<1>4. A!Replace(one, c, by) = one
  BY <1>3, ReplaceOne
<1> HIDE DEF one
<1>5. A!Replace(two, c, by) = two
  <2>1. Grows(one, y, c, by)
    BY <1>1, ReplaceGrows
  <2>2. two = one \o <<y>>
    BY <1>1, AppendIsConcat
  <2> HIDE DEF two
  <2>3. two = Append(one, y)
    BY DEF two
  <2> QED BY <1>3, <1>4, <2>1, <2>2, <2>3, Zenon DEF Grows
<1> HIDE DEF two
<1>6. A!Replace(three, c, by) = three
  <2>1. Grows(two, z, c, by)
    BY <1>2, ReplaceGrows
  <2>2. three = two \o <<z>>
    BY <1>2, AppendIsConcat
  <2>3. three = Append(two, z)
    BY DEF three
  <2> HIDE DEF three
  <2> QED BY <1>3, <1>5, <2>1, <2>2, <2>3, Zenon DEF Grows
<1>7. three = <<x, y, z>>
  <2>1. x \in S /\ y \in S /\ z \in S
    OBVIOUS
  <2>2. Three(x, y, z)
    BY <2>1, ThreeIs
  <2> QED BY <2>2, Zenon DEF Three, one, two, three
<1> HIDE DEF three
<1> QED
  BY <1>6, <1>7, Zenon DEF Fixed

(* The characters of an escape. *)
Signs == {"percent", "CR", "LF", "comma", "colon", "0", "2", "3", "5", "A", "C", "D"}

DataSign(x) == IF x = "percent" THEN <<"percent", "2", "5">>
               ELSE IF x = "CR" THEN <<"percent", "0", "D">>
               ELSE IF x = "LF" THEN <<"percent", "0", "A">> ELSE <<x>>

PropSign(x) == IF x = "comma" THEN <<"percent", "2", "C">>
               ELSE IF x = "colon" THEN <<"percent", "3", "A">> ELSE DataSign(x)

LEMMA CodesAre ==
    ASSUME NEW S, Signs \subseteq S
    PROVE  /\ <<"percent", "2", "5">> \in Seq(S) /\ <<"percent", "0", "D">> \in Seq(S)
           /\ <<"percent", "0", "A">> \in Seq(S) /\ <<"percent", "2", "C">> \in Seq(S)
           /\ <<"percent", "3", "A">> \in Seq(S)
BY DEF Signs

(* What an escape makes of one character, *)
LEMMA DataOne ==
    ASSUME NEW S, Signs \subseteq S, NEW x \in S
    PROVE  A!gh_escape_data(<<x>>) = DataSign(x)
<1> DEFINE p25 == <<"percent", "2", "5">>
           p0D == <<"percent", "0", "D">>
           p0A == <<"percent", "0", "A">>
<1>1. p25 \in Seq(S) /\ p0D \in Seq(S) /\ p0A \in Seq(S)
  BY CodesAre
<1>2. \A d \in {"5", "D", "A"} : d \in S /\ d # "CR" /\ d # "LF"
  BY DEF Signs
<1>3. {"percent", "0", "2", "CR", "LF"} \subseteq S
  BY DEF Signs
<1>4. A!Replace(p25, "CR", p0D) = p25 /\ A!Replace(p25, "LF", p0A) = p25 /\ A!Replace(p0D, "LF", p0A) = p0D
  <2>1. /\ "percent" \in S \ {"CR"} /\ "2" \in S \ {"CR"} /\ "5" \in S \ {"CR"}
        /\ "percent" \in S \ {"LF"} /\ "2" \in S \ {"LF"} /\ "5" \in S \ {"LF"}
        /\ "0" \in S \ {"LF"} /\ "D" \in S \ {"LF"}
    BY <1>2, <1>3
  <2> HIDE DEF p0D, p0A
  <2>2. Fixed("percent", "2", "5", "CR", p0D) /\ Fixed("percent", "2", "5", "LF", p0A)
    BY <1>1, <2>1, ReplaceFixed
  <2>3. Fixed("percent", "0", "D", "LF", p0A)
    BY <1>1, <2>1, ReplaceFixed
  <2> QED BY <2>2, <2>3, Zenon DEF Fixed, p0D, p25
<1>5. \A z \in S : /\ A!Replace(<<z>>, "percent", p25) = Swap(z, "percent", p25)
                   /\ A!Replace(<<z>>, "CR", p0D) = Swap(z, "CR", p0D)
                   /\ A!Replace(<<z>>, "LF", p0A) = Swap(z, "LF", p0A)
  BY <1>1, ReplaceOne
<1>6. A!gh_escape_data(<<x>>)
        = A!Replace(A!Replace(A!Replace(<<x>>, "percent", p25), "CR", p0D), "LF", p0A)
  BY DEF A!gh_escape_data
<1>7. DataSign(x) = IF x = "percent" THEN p25 ELSE IF x = "CR" THEN p0D
                    ELSE IF x = "LF" THEN p0A ELSE <<x>>
  BY DEF DataSign
<1> HIDE DEF p25, p0D, p0A
<1>8. CASE x = "percent"
  BY <1>4, <1>5, <1>6, <1>7, <1>8 DEF Swap
<1>9. CASE x = "CR"
  BY <1>4, <1>5, <1>6, <1>7, <1>9 DEF Swap
<1>10. CASE x = "LF"
  BY <1>5, <1>6, <1>7, <1>10 DEF Swap
<1>11. CASE x \notin {"percent", "CR", "LF"}
  BY <1>5, <1>6, <1>7, <1>11 DEF Swap
<1> QED
  BY <1>8, <1>9, <1>10, <1>11

LEMMA PropOne ==
    ASSUME NEW S, Signs \subseteq S, NEW x \in S
    PROVE  A!gh_escape_prop(<<x>>) = PropSign(x)
<1> DEFINE p25 == <<"percent", "2", "5">>
           p0D == <<"percent", "0", "D">>
           p0A == <<"percent", "0", "A">>
           p2C == <<"percent", "2", "C">>
           p3A == <<"percent", "3", "A">>
<1>1. p2C \in Seq(S) /\ p3A \in Seq(S)
  BY CodesAre
<1>2. \A d \in {"percent", "0", "2", "3", "5", "D", "A", "C"} : d \in S /\ d # "comma" /\ d # "colon"
  BY DEF Signs
<1>3. \A a \in {"0", "2", "3"}, d \in {"5", "D", "A", "C"} :
        Fixed("percent", a, d, "comma", p2C) /\ Fixed("percent", a, d, "colon", p3A)
  <2> TAKE a \in {"0", "2", "3"}, d \in {"5", "D", "A", "C"}
  <2>1. /\ "percent" \in S \ {"comma"} /\ a \in S \ {"comma"} /\ d \in S \ {"comma"}
        /\ "percent" \in S \ {"colon"} /\ a \in S \ {"colon"} /\ d \in S \ {"colon"}
    BY <1>2
  <2> HIDE DEF p2C, p3A
  <2> QED BY <1>1, <2>1, ReplaceFixed
<1>4. \A z \in S : /\ A!Replace(<<z>>, "comma", p2C) = Swap(z, "comma", p2C)
                   /\ A!Replace(<<z>>, "colon", p3A) = Swap(z, "colon", p3A)
  BY <1>1, ReplaceOne
<1>5. A!gh_escape_data(<<x>>) = DataSign(x)
  BY DataOne
<1>6. A!gh_escape_prop(<<x>>) = A!Replace(A!Replace(A!gh_escape_data(<<x>>), "comma", p2C), "colon", p3A)
  BY DEF A!gh_escape_prop
<1>7. /\ A!Replace(p25, "comma", p2C) = p25 /\ A!Replace(p25, "colon", p3A) = p25
      /\ A!Replace(p0D, "comma", p2C) = p0D /\ A!Replace(p0D, "colon", p3A) = p0D
      /\ A!Replace(p0A, "comma", p2C) = p0A /\ A!Replace(p0A, "colon", p3A) = p0A
      /\ A!Replace(p2C, "colon", p3A) = p2C
  <2> HIDE DEF p2C, p3A
  <2>1. /\ Fixed("percent", "2", "5", "comma", p2C) /\ Fixed("percent", "2", "5", "colon", p3A)
        /\ Fixed("percent", "0", "D", "comma", p2C) /\ Fixed("percent", "0", "D", "colon", p3A)
        /\ Fixed("percent", "0", "A", "comma", p2C) /\ Fixed("percent", "0", "A", "colon", p3A)
        /\ Fixed("percent", "2", "C", "colon", p3A)
    BY <1>3
  <2> QED BY <2>1, Zenon DEF Fixed, p25, p0D, p0A, p2C
<1>8. DataSign(x) = IF x = "percent" THEN p25 ELSE IF x = "CR" THEN p0D
                    ELSE IF x = "LF" THEN p0A ELSE <<x>>
  BY DEF DataSign
<1>9. PropSign(x) = IF x = "comma" THEN p2C ELSE IF x = "colon" THEN p3A ELSE DataSign(x)
  BY DEF PropSign
<1> HIDE DEF p25, p0D, p0A, p2C, p3A
<1>10. CASE x \in {"percent", "CR", "LF"}
  BY <1>5, <1>6, <1>7, <1>8, <1>9, <1>10
<1>11. CASE x = "comma"
  BY <1>4, <1>5, <1>6, <1>7, <1>8, <1>9, <1>11 DEF Swap
<1>12. CASE x = "colon"
  BY <1>4, <1>5, <1>6, <1>8, <1>9, <1>12 DEF Swap
<1>13. CASE x \notin {"percent", "CR", "LF", "comma", "colon"}
  BY <1>4, <1>5, <1>6, <1>8, <1>9, <1>13 DEF Swap
<1> QED
  BY <1>10, <1>11, <1>12, <1>13

(* An escape is one of other characters, *)
LEMMA DataIs ==
    ASSUME NEW S, Signs \subseteq S, NEW s \in Seq(S)
    PROVE  A!gh_escape_data(s) \in Seq(S \ {"LF"})
<1> DEFINE T == S \ {"LF"}
           p25 == <<"percent", "2", "5">>
           p0D == <<"percent", "0", "D">>
           p0A == <<"percent", "0", "A">>
           r == A!Replace(s, "percent", p25)
           q == A!Replace(r, "CR", p0D)
<1>1. p25 \in Seq(S) /\ p0D \in Seq(S)
  BY CodesAre
<1>2. p0A \in Seq(T)
  BY DEF Signs
<1>3. S \ {"percent"} \subseteq S /\ S \ {"CR"} \subseteq S /\ S \ {"LF"} \subseteq T
  OBVIOUS
<1> HIDE DEF T, p25, p0D, p0A
<1>4. r \in Seq(S)
  BY <1>1, <1>3, ReplaceIs
<1>5. q \in Seq(S)
  <2> HIDE DEF r
  <2> QED BY <1>1, <1>3, <1>4, ReplaceIs
<1>6. A!Replace(q, "LF", p0A) \in Seq(T)
  <2> HIDE DEF q
  <2> QED BY <1>2, <1>3, <1>5, ReplaceIs
<1> QED
  BY <1>6, Zenon DEF A!gh_escape_data, T, p25, p0D, p0A

LEMMA PropIs ==
    ASSUME NEW S, Signs \subseteq S, NEW s \in Seq(S)
    PROVE  A!gh_escape_prop(s) \in Seq(S \ {"LF", "comma", "colon"})
<1> DEFINE T == S \ {"LF"}
           U == S \ {"LF", "comma"}
           V == S \ {"LF", "comma", "colon"}
           p2C == <<"percent", "2", "C">>
           p3A == <<"percent", "3", "A">>
           r == A!gh_escape_data(s)
           q == A!Replace(r, "comma", p2C)
<1>1. p2C \in Seq(U) /\ p3A \in Seq(V)
  BY DEF Signs
<1>2. T \ {"comma"} \subseteq U /\ U \ {"colon"} \subseteq V
  OBVIOUS
<1>3. r \in Seq(T)
  BY DataIs
<1> HIDE DEF T, U, V, p2C, p3A, r
<1>4. q \in Seq(U)
  BY <1>1, <1>2, <1>3, ReplaceIs
<1>5. A!Replace(q, "colon", p3A) \in Seq(V)
  <2> HIDE DEF q
  <2> QED BY <1>1, <1>2, <1>4, ReplaceIs
<1> QED
  BY <1>5, Zenon DEF A!gh_escape_prop, V, p2C, p3A, r, q

(* and two texts are escaped one after the other. *)
DataSplit(s, t) == A!gh_escape_data(s \o t) = A!gh_escape_data(s) \o A!gh_escape_data(t)
PropSplit(s, t) == A!gh_escape_prop(s \o t) = A!gh_escape_prop(s) \o A!gh_escape_prop(t)

LEMMA DataSplits ==
    ASSUME NEW S, Signs \subseteq S, NEW s \in Seq(S), NEW t \in Seq(S)
    PROVE  DataSplit(s, t)
<1> DEFINE p25 == <<"percent", "2", "5">>
           p0D == <<"percent", "0", "D">>
           p0A == <<"percent", "0", "A">>
           r(x) == A!Replace(x, "percent", p25)
           q(x) == A!Replace(x, "CR", p0D)
           u(x) == A!Replace(x, "LF", p0A)
<1>1. p25 \in Seq(S) /\ p0D \in Seq(S) /\ p0A \in Seq(S)
  BY CodesAre
<1>2. S \ {"percent"} \subseteq S /\ S \ {"CR"} \subseteq S /\ S \ {"LF"} \subseteq S
  OBVIOUS
<1>3. \A x : A!gh_escape_data(x) = u(q(r(x)))
  BY DEF A!gh_escape_data
<1> HIDE DEF p25, p0D, p0A
<1>4. \A x \in Seq(S) : r(x) \in Seq(S) /\ q(x) \in Seq(S)
  BY <1>1, <1>2, ReplaceIs
<1>5. \A x \in Seq(S), y \in Seq(S) : /\ TwoReplaced(x, y, "percent", p25)
                                      /\ TwoReplaced(x, y, "CR", p0D)
                                      /\ TwoReplaced(x, y, "LF", p0A)
  BY <1>1, ReplaceSplits
<1>6. r(s \o t) = r(s) \o r(t)
  BY <1>5, Zenon DEF TwoReplaced
<1>7. q(r(s) \o r(t)) = q(r(s)) \o q(r(t))
  BY <1>4, <1>5, Zenon DEF TwoReplaced
<1>8. u(q(r(s)) \o q(r(t))) = u(q(r(s))) \o u(q(r(t)))
  BY <1>4, <1>5, Zenon DEF TwoReplaced
<1> HIDE DEF r, q, u
<1>9. A!gh_escape_data(s \o t) = u(q(r(s))) \o u(q(r(t)))
  BY <1>3, <1>6, <1>7, <1>8, Zenon
<1> QED
  BY <1>3, <1>9, Zenon DEF DataSplit

LEMMA PropSplits ==
    ASSUME NEW S, Signs \subseteq S, NEW s \in Seq(S), NEW t \in Seq(S)
    PROVE  PropSplit(s, t)
<1> DEFINE p2C == <<"percent", "2", "C">>
           p3A == <<"percent", "3", "A">>
           r(x) == A!gh_escape_data(x)
           q(x) == A!Replace(x, "comma", p2C)
           u(x) == A!Replace(x, "colon", p3A)
<1>1. p2C \in Seq(S) /\ p3A \in Seq(S)
  BY CodesAre
<1>2. S \ {"comma"} \subseteq S
  OBVIOUS
<1>3. \A x : A!gh_escape_prop(x) = u(q(r(x)))
  BY DEF A!gh_escape_prop
<1> HIDE DEF p2C, p3A
<1>4. r(s) \in Seq(S) /\ r(t) \in Seq(S)
  <2>1. \A x \in Seq(S \ {"LF"}) : x \in Seq(S)
    OBVIOUS
  <2> QED BY <2>1, DataIs
<1>5. \A x \in Seq(S) : q(x) \in Seq(S)
  BY <1>1, <1>2, ReplaceIs
<1>6. \A x \in Seq(S), y \in Seq(S) : TwoReplaced(x, y, "comma", p2C) /\ TwoReplaced(x, y, "colon", p3A)
  BY <1>1, ReplaceSplits
<1>7. r(s \o t) = r(s) \o r(t)
  BY DataSplits, Zenon DEF DataSplit
<1>8. q(r(s) \o r(t)) = q(r(s)) \o q(r(t))
  BY <1>4, <1>6, Zenon DEF TwoReplaced
<1>9. u(q(r(s)) \o q(r(t))) = u(q(r(s))) \o u(q(r(t)))
  BY <1>4, <1>5, <1>6, Zenon DEF TwoReplaced
<1> HIDE DEF r, q, u
<1>10. A!gh_escape_prop(s \o t) = u(q(r(s))) \o u(q(r(t)))
  BY <1>3, <1>7, <1>8, <1>9, Zenon
<1> QED
  BY <1>3, <1>10, Zenon DEF PropSplit

(* What is read back: each character as itself, or as the escape of it. *)
Piece(p, x, codes) ==
    \/ x # "percent" /\ p = <<x>>
    \/ \E a, b : p = <<"percent", a, b>> /\ <<a, b>> \in codes /\ A!Char(<<a, b>>) = x

Encodes(e, S, codes) ==
    /\ e \in [Seq(S) -> Seq(S)] /\ e[<<>>] = <<>>
    /\ \A x \in S, t \in Seq(S) : \E p \in Seq(S) : Piece(p, x, codes) /\ e[<<x>> \o t] = p \o e[t]

DataCodes == {<<"2", "5">>, <<"0", "D">>, <<"0", "A">>}
PropCodes == DataCodes \cup {<<"2", "C">>, <<"3", "A">>}

LEMMA CharsAre == /\ A!Char(<<"2", "5">>) = "percent" /\ A!Char(<<"0", "D">>) = "CR"
                  /\ A!Char(<<"0", "A">>) = "LF" /\ A!Char(<<"2", "C">>) = "comma"
                  /\ A!Char(<<"3", "A">>) = "colon"
<1>1. <<"0", "D">> # <<"2", "5">> /\ <<"0", "A">> # <<"2", "5">> /\ <<"0", "A">> # <<"0", "D">>
  OBVIOUS
<1>2. \A d \in {<<"2", "5">>, <<"0", "D">>, <<"0", "A">>} : <<"2", "C">> # d /\ <<"3", "A">> # d
  OBVIOUS
<1>3. <<"3", "A">> # <<"2", "C">>
  OBVIOUS
<1> QED
  BY <1>1, <1>2, <1>3 DEF A!Char

LEMMA DataPiece == \A x : Piece(DataSign(x), x, DataCodes) 
<1> TAKE x
<1>1. CASE x \in {"percent", "CR", "LF"}
  BY <1>1, CharsAre DEF Piece, DataSign, DataCodes
<1>2. CASE x \notin {"percent", "CR", "LF"}
  BY <1>2 DEF Piece, DataSign
<1> QED
  BY <1>1, <1>2

LEMMA PropPiece == \A x : Piece(PropSign(x), x, PropCodes)
<1> TAKE x
<1>1. CASE x \in {"comma", "colon"}
  BY <1>1, CharsAre DEF Piece, PropSign, PropCodes
<1>2. CASE x \notin {"comma", "colon"}
  BY <1>2, DataPiece DEF Piece, PropSign, PropCodes
<1> QED
  BY <1>1, <1>2

LEMMA DataEncodes ==
    ASSUME NEW S, Signs \subseteq S
    PROVE  Encodes([s \in Seq(S) |-> A!gh_escape_data(s)], S, DataCodes)
<1> DEFINE e == [s \in Seq(S) |-> A!gh_escape_data(s)]
<1>1. \A s \in Seq(S) : A!gh_escape_data(s) \in Seq(S)
  <2>1. \A x \in Seq(S \ {"LF"}) : x \in Seq(S)
    OBVIOUS
  <2> QED BY <2>1, DataIs
<1>2. e[<<>>] = <<>>
  <2>1. A!gh_escape_data(<<>>) = <<>>
    BY ReplaceNothing, Zenon DEF A!gh_escape_data
  <2> QED BY <2>1, EmptySeq
<1>3. ASSUME NEW x \in S, NEW t \in Seq(S)
      PROVE  \E p \in Seq(S) : Piece(p, x, DataCodes) /\ e[<<x>> \o t] = p \o e[t]
  <2> DEFINE y == <<x>>
             p == A!gh_escape_data(y)
  <2>1. y \in Seq(S) /\ p = DataSign(x)
    BY DataOne
  <2> HIDE DEF y
  <2>2. y \o t \in Seq(S) /\ p \in Seq(S)
    BY <1>1, <2>1, ConcatProperties
  <2>3. DataSplit(y, t)
    BY <2>1, DataSplits
  <2>4. Piece(p, x, DataCodes)
    BY <2>1, DataPiece
  <2>5. e[y \o t] = A!gh_escape_data(y \o t) /\ e[t] = A!gh_escape_data(t)
    BY <2>2
  <2> HIDE DEF e
  <2>6. e[y \o t] = p \o e[t]
    BY <2>3, <2>5, Zenon DEF DataSplit
  <2> QED BY <2>2, <2>4, <2>6, Zenon DEF y
<1>4. e \in [Seq(S) -> Seq(S)]
  BY <1>1
<1> HIDE DEF e
<1>5. Encodes(e, S, DataCodes)
  BY <1>2, <1>3, <1>4 DEF Encodes
<1> QED
  BY <1>5 DEF e

LEMMA PropEncodes ==
    ASSUME NEW S, Signs \subseteq S
    PROVE  Encodes([s \in Seq(S) |-> A!gh_escape_prop(s)], S, PropCodes)
<1> DEFINE e == [s \in Seq(S) |-> A!gh_escape_prop(s)]
<1>1. \A s \in Seq(S) : A!gh_escape_prop(s) \in Seq(S)
  <2>1. \A x \in Seq(S \ {"LF", "comma", "colon"}) : x \in Seq(S)
    OBVIOUS
  <2> QED BY <2>1, PropIs
<1>2. e[<<>>] = <<>>
  <2>1. A!gh_escape_prop(<<>>) = <<>>
    BY ReplaceNothing, Zenon DEF A!gh_escape_data, A!gh_escape_prop
  <2> QED BY <2>1, EmptySeq
<1>3. ASSUME NEW x \in S, NEW t \in Seq(S)
      PROVE  \E p \in Seq(S) : Piece(p, x, PropCodes) /\ e[<<x>> \o t] = p \o e[t]
  <2> DEFINE y == <<x>>
             p == A!gh_escape_prop(y)
  <2>1. y \in Seq(S) /\ p = PropSign(x)
    BY PropOne
  <2> HIDE DEF y
  <2>2. y \o t \in Seq(S) /\ p \in Seq(S)
    BY <1>1, <2>1, ConcatProperties
  <2>3. PropSplit(y, t)
    BY <2>1, PropSplits
  <2>4. Piece(p, x, PropCodes)
    BY <2>1, PropPiece
  <2>5. e[y \o t] = A!gh_escape_prop(y \o t) /\ e[t] = A!gh_escape_prop(t)
    BY <2>2
  <2> HIDE DEF e
  <2>6. e[y \o t] = p \o e[t]
    BY <2>3, <2>5, Zenon DEF PropSplit
  <2> QED BY <2>2, <2>4, <2>6, Zenon DEF y
<1>4. e \in [Seq(S) -> Seq(S)]
  BY <1>1
<1> HIDE DEF e
<1>5. Encodes(e, S, PropCodes)
  BY <1>2, <1>3, <1>4 DEF Encodes
<1> QED
  BY <1>5 DEF e

(* What is put back from one place on. *)
Coded(s, k, codes) ==
    k + 2 <= Len(s) /\ s[k] = "percent" /\ SubSeq(s, k + 1, k + 2) \in codes

Unescapes(f, s, codes) ==
    \A k \in 1 .. Len(s) + 2 :
        f[k] = IF k > Len(s) THEN <<>>
               ELSE IF Coded(s, k, codes) THEN <<A!Char(SubSeq(s, k + 1, k + 2))>> \o f[k + 3]
                    ELSE <<s[k]>> \o f[k + 1]

LEMMA UnescapeWalks ==
    ASSUME NEW S, NEW s \in Seq(S), NEW codes
    PROVE  \E f : A!Unescape(s, codes) = f[1] /\ Unescapes(f, s, codes)
<1> DEFINE m == Len(s)
           char(k) == A!Char(SubSeq(s, k + 1, k + 2))
           T == S \cup {char(k) : k \in 1 .. m}
           head == [k \in 1 .. m |-> IF Coded(s, k, codes) THEN <<char(k)>> ELSE <<s[k]>>]
           next == [k \in 1 .. m |-> IF Coded(s, k, codes) THEN k + 3 ELSE k + 1]
           value(f, k) == IF Coded(s, k, codes) THEN <<char(k)>> \o f[k + 3] ELSE <<s[k]>> \o f[k + 1]
           Is(f) == f = [k \in 1 .. Len(s) + 2 |-> IF k > Len(s) THEN <<>> ELSE value(f, k)]
<1>1. m \in Nat /\ \A k \in 1 .. m : s[k] \in S
  BY LenProperties, ElementOfSeq
<1>2. A!Unescape(s, codes) = (CHOOSE f : Is(f))[1]
  BY Zenon DEF A!Unescape, Coded
<1>3. \A k \in 1 .. m : /\ head[k] \in Seq(T)
                        /\ next[k] \in 1 .. m + 2 /\ next[k] > k
  <2> TAKE k \in 1 .. m
  <2>1. s[k] \in T /\ char(k) \in T
    BY <1>1
  <2>2. Coded(s, k, codes) => k + 2 <= m
    BY DEF Coded
  <2> HIDE DEF T, char
  <2> QED BY <1>1, <2>1, <2>2
<1> HIDE DEF T
<1>4. head \in [1 .. m -> Seq(T)] /\ Onwards(next, m)
  <2> DEFINE hd(k) == head[k]
  <2>1. head = [k \in 1 .. m |-> head[k]] /\ next = [k \in 1 .. m |-> next[k]]
    OBVIOUS
  <2> HIDE DEF head, next
  <2> QED BY <1>3, <2>1 DEF Onwards
<1>5. PICK f \in [1 .. m + 2 -> Seq(T)] : Pieced(f, m, head, next)
  <2> HIDE DEF head, next, m
  <2> QED BY <1>1, <1>4, Onward
<1>6. \A k \in 1 .. m : head[k] \o f[next[k]] = value(f, k)
  OBVIOUS
<1>7. \A k \in 1 .. m + 2 : k > m \/ k \in 1 .. m
  BY <1>1
<1>8. Is(f)
  <2>1. f = [k \in 1 .. m + 2 |-> f[k]]
    OBVIOUS
  <2> HIDE DEF head, next, m, value
  <2>2. \A k \in 1 .. m + 2 : f[k] = IF k > m THEN <<>> ELSE value(f, k)
    BY <1>5, <1>6, <1>7 DEF Pieced
  <2> QED BY <2>1, <2>2 DEF m
<1>9. PICK g : g = (CHOOSE x : Is(x)) /\ Is(g)
  <2> HIDE DEF Is
  <2> QED BY <1>8
<1>10. Unescapes(g, s, codes)
  <2> HIDE DEF value
  <2>1. \A k \in 1 .. m + 2 : g[k] = IF k > m THEN <<>> ELSE value(g, k)
    BY <1>9
  <2> QED BY <2>1, Zenon DEF Unescapes, value, m, char
<1> QED
  BY <1>2, <1>9, <1>10

(* A text in the middle of another. *)
At(t, u, p) == \A i \in 1 .. Len(p) : Len(u) + i \in 1 .. Len(t) /\ t[Len(u) + i] = p[i]

LEMMA Middle ==
    ASSUME NEW S, NEW u \in Seq(S), NEW p \in Seq(S), NEW q \in Seq(S), NEW t, t = u \o (p \o q)
    PROVE  At(t, u, p)
<1> DEFINE r == p \o q
<1>1. r \in Seq(S) /\ Len(r) = Len(p) + Len(q) /\ \A i \in 1 .. Len(p) : r[i] = p[i]
  BY ConcatProperties, LenProperties
<1> HIDE DEF r
<1>2. Len(t) = Len(u) + Len(r) /\ \A i \in 1 .. Len(u) + Len(r) : i > Len(u) => t[i] = r[i - Len(u)]
  <2>1. t = u \o r
    BY DEF r
  <2> QED BY <1>1, <2>1, ConcatProperties, LenProperties
<1>3. Len(u) \in Nat /\ Len(p) \in Nat /\ Len(q) \in Nat
  BY LenProperties
<1> SUFFICES ASSUME NEW i \in 1 .. Len(p) PROVE Len(u) + i \in 1 .. Len(t) /\ t[Len(u) + i] = p[i]
  BY DEF At
<1>4. Len(u) + i \in 1 .. Len(u) + Len(r) /\ Len(u) + i > Len(u) /\ Len(u) + i - Len(u) = i
  BY <1>1, <1>3
<1> QED
  BY <1>1, <1>2, <1>4

(* A text is its first character and the rest of it. *)
LEMMA FirstIs ==
    ASSUME NEW S, NEW v \in Seq(S), v # <<>>
    PROVE  \E x \in S, r \in Seq(S) : v = <<x>> \o r /\ Len(r) = Len(v) - 1
<1> DEFINE x == Head(v)
           r == Tail(v)
           y == <<x>>
           w == y \o r
<1>1. x \in S /\ r \in Seq(S) /\ Len(r) = Len(v) - 1 /\ Len(v) \in Nat /\ Len(v) # 0 /\ v[1] = x
  BY HeadTailProperties, EmptySeq, LenProperties
<1>2. \A i \in 1 .. Len(v) - 1 : r[i] = v[i + 1]
  BY <1>1, HeadTailProperties
<1>3. y \in Seq(S) /\ Len(y) = 1 /\ y[1] = x
  BY <1>1
<1> HIDE DEF x, r, y
<1>4. w \in Seq(S) /\ Len(w) = Len(v)
  BY <1>1, <1>3, ConcatProperties
<1>5. \A i \in 1 .. Len(v) : w[i] = IF i = 1 THEN x ELSE r[i - 1]
  <2>1. \A i \in 1 .. Len(y) + Len(r) : w[i] = IF i <= Len(y) THEN y[i] ELSE r[i - Len(y)]
    BY <1>1, <1>3, ConcatProperties
  <2> HIDE DEF w
  <2> QED BY <1>1, <1>3, <2>1
<1>6. \A i \in 1 .. Len(v) : w[i] = v[i]
  <2> HIDE DEF w
  <2> TAKE i \in 1 .. Len(v)
  <2>1. i # 1 => i - 1 \in 1 .. Len(v) - 1 /\ i - 1 + 1 = i
    BY <1>1
  <2> QED BY <1>1, <1>2, <1>5, <2>1
<1>7. w = v
  <2> HIDE DEF w
  <2> QED BY <1>4, <1>6, SeqEqual
<1> QED
  BY <1>1, <1>7, Zenon DEF y, w

(* What is escaped is put back. *)
LEMMA Restores ==
    ASSUME NEW S, "percent" \in S, NEW codes, NEW e, Encodes(e, S, codes), NEW s \in Seq(S)
    PROVE  A!Unescape(e[s], codes) = s
<1> DEFINE t == e[s]
           none == <<>>
           Rest(u, v) == t = u \o e[v]
<1>1. /\ \A v \in Seq(S) : e[v] \in Seq(S)
      /\ e[none] = none
      /\ \A x \in S, v \in Seq(S) : \E p \in Seq(S) : Piece(p, x, codes) /\ e[<<x>> \o v] = p \o e[v]
  BY Zenon DEF Encodes
<1>2. t \in Seq(S) /\ none \in Seq(S) /\ Len(none) = 0
  BY <1>1
<1> HIDE DEF t, none
<1>3. PICK f : A!Unescape(t, codes) = f[1] /\ Unescapes(f, t, codes)
  BY <1>2, UnescapeWalks
<1>4. Len(t) \in Nat
  BY <1>2, LenProperties
<1> DEFINE char(j) == A!Char(SubSeq(t, j + 1, j + 2))
<1>5. \A j \in 1 .. Len(t) + 2 :
        /\ j > Len(t) => f[j] = <<>>
        /\ ~(j > Len(t)) /\ Coded(t, j, codes) => f[j] = <<char(j)>> \o f[j + 3]
        /\ ~(j > Len(t)) /\ ~Coded(t, j, codes) => f[j] = <<t[j]>> \o f[j + 1]
  BY <1>3, Zenon DEF Unescapes
<1> HIDE DEF char
<1> DEFINE bad == {n \in Nat : \E u, v \in Seq(S) : Len(v) = n /\ Rest(u, v) /\ f[Len(u) + 1] # v}
<1>6. ASSUME bad # {} PROVE FALSE
  <2>1. PICK n \in bad : \A j \in bad : n <= j
    <3>1. bad \in SUBSET Nat
      OBVIOUS
    <3> QED BY <1>6, <3>1, Lowest
  <2>2. PICK u \in Seq(S), v \in Seq(S) : Len(v) = n /\ Rest(u, v) /\ f[Len(u) + 1] # v
    BY <2>1
  <2> DEFINE k == Len(u) + 1
  <2>3. Len(u) \in Nat /\ n \in Nat
    BY <2>1, LenProperties
  <2>4. CASE v = none
    <3>1. u \o none = u
      BY <1>2, ConcatEmptySeq DEF none
    <3>2. t = u
      BY <1>1, <2>2, <2>4, <3>1
    <3>3. f[k] = <<>>
      <4>1. k \in 1 .. Len(t) + 2 /\ k > Len(t)
        BY <1>4, <3>2
      <4> HIDE DEF k
      <4> QED BY <1>5, <4>1
    <3> QED BY <2>2, <2>4, <3>3 DEF none
  <2>5. CASE v # none
    <3>1. PICK x \in S, r \in Seq(S) : v = <<x>> \o r /\ Len(r) = Len(v) - 1
      BY <2>5, FirstIs DEF none
    <3>2. PICK p \in Seq(S) : Piece(p, x, codes) /\ e[v] = p \o e[r]
      BY <1>1, <3>1
    <3> DEFINE w == u \o p
               er == e[r]
    <3>3. er \in Seq(S)
      BY <1>1
    <3>4. w \in Seq(S) /\ Len(w) = Len(u) + Len(p)
      BY ConcatProperties
    <3> HIDE DEF w, er
    <3>5. t = u \o (p \o er)
      BY <2>2, <3>2, Zenon DEF er
    <3>6. t = w \o er
      <4>1. Assoc(u, p, er)
        BY <3>3, Associates
      <4> QED BY <3>5, <4>1, Zenon DEF Assoc, w
    <3>7. At(t, u, p)
      BY <3>3, <3>5, Middle
    <3>8. f[Len(w) + 1] = r
      <4>1. n - 1 \in Nat /\ Len(r) = n - 1 /\ n - 1 < n
        BY <2>2, <2>3, <3>1, LenProperties
      <4>2. Rest(w, r)
        BY <3>6 DEF er
      <4> HIDE DEF Rest
      <4>3. f[Len(w) + 1] # r => n - 1 \in bad
        BY <3>4, <4>1, <4>2
      <4> HIDE DEF bad
      <4>4. ~(n <= n - 1)
        BY <2>3
      <4> QED BY <2>1, <4>3, <4>4
    <3> HIDE DEF Rest, bad
    <3>9. CASE x # "percent" /\ p = <<x>>
      <4>1. Len(p) = 1 /\ p[1] = x
        BY <3>9
      <4>2. k \in 1 .. Len(t) /\ t[k] = x
        BY <3>7, <4>1 DEF At
      <4>3. ~Coded(t, k, codes)
        BY <3>9, <4>2 DEF Coded
      <4>4. f[k] = <<t[k]>> \o f[k + 1]
        <5>1. k \in 1 .. Len(t) + 2 /\ ~(k > Len(t))
          BY <1>4, <4>2
        <5> HIDE DEF k
        <5> QED BY <1>5, <4>3, <5>1
      <4>5. Len(w) + 1 = k + 1
        BY <2>3, <3>4, <4>1
      <4>6. f[k] = v
        <5> HIDE DEF k
        <5> QED BY <3>1, <3>8, <4>2, <4>4, <4>5, Zenon
      <4> QED BY <2>2, <4>6
    <3>10. CASE \E a, b : p = <<"percent", a, b>> /\ <<a, b>> \in codes /\ A!Char(<<a, b>>) = x
      <4>1. PICK a, b : p = <<"percent", a, b>> /\ <<a, b>> \in codes /\ A!Char(<<a, b>>) = x
        BY <3>10
      <4>2. Len(p) = 3 /\ p[1] = "percent" /\ p[2] = a /\ p[3] = b
        BY <4>1
      <4>3. /\ \A i \in 1 .. 3 : Len(u) + i \in 1 .. Len(t) /\ t[Len(u) + i] = p[i]
        BY <3>7, <4>2 DEF At
      <4>4. /\ k \in 1 .. Len(t) /\ k + 1 \in 1 .. Len(t) /\ k + 2 \in 1 .. Len(t)
            /\ t[k] = "percent" /\ t[k + 1] = a /\ t[k + 2] = b
        <5>1. 1 \in 1 .. 3 /\ 2 \in 1 .. 3 /\ 3 \in 1 .. 3
          OBVIOUS
        <5>2. Len(u) + 2 = k + 1 /\ Len(u) + 3 = k + 2
          BY <2>3
        <5> QED BY <4>2, <4>3, <5>1, <5>2
      <4> DEFINE c == SubSeq(t, k + 1, k + 2)
                 d == <<a, b>>
      <4>5. c = d
        <5>1. a \in S /\ b \in S
          BY <1>2, <4>4, ElementOfSeq
        <5>2. d \in Seq(S) /\ Len(d) = 2 /\ d[1] = a /\ d[2] = b
          BY <5>1
        <5>3. k \in Nat
          BY <2>3
        <5> HIDE DEF d, k
        <5>4. c \in Seq(S) /\ Len(c) = 2 /\ \A i \in 1 .. 2 : c[i] = t[k + i]
          <6>1. k + 1 \in 1 .. Len(t) + 1 /\ k + 2 \in k .. Len(t) /\ k + 2 - (k + 1) + 1 = 2
            BY <1>4, <4>4, <5>3
          <6>2. \A i \in 1 .. 2 : k + 1 + i - 1 = k + i
            BY <5>3
          <6>3. \A i \in k + 1 .. k + 2 : t[i] \in S
            BY <1>2, <4>4, <5>3, ElementOfSeq
          <6> QED BY <1>2, <4>4, <5>3, <6>1, <6>2, <6>3, SubSeqProperties
        <5> HIDE DEF c
        <5>5. \A i \in 1 .. 2 : c[i] = d[i]
          BY <4>4, <5>2, <5>4
        <5> QED BY <5>2, <5>4, <5>5, SeqEqual
      <4>6. Coded(t, k, codes) /\ A!Char(c) = x
        <5>1. k + 2 <= Len(t)
          BY <1>4, <2>3, <4>4
        <5> HIDE DEF k
        <5> QED BY <4>1, <4>4, <4>5, <5>1 DEF Coded
      <4>7. f[k] = <<A!Char(c)>> \o f[k + 3]
        <5>1. k \in 1 .. Len(t) + 2 /\ ~(k > Len(t))
          BY <1>4, <4>4
        <5> HIDE DEF k
        <5> QED BY <1>5, <4>6, <5>1, Zenon DEF char
      <4>8. Len(w) + 1 = k + 3
        BY <2>3, <3>4, <4>2
      <4>9. f[k] = v
        <5> HIDE DEF k, c
        <5> QED BY <3>1, <3>8, <4>6, <4>7, <4>8, Zenon
      <4> QED BY <2>2, <4>9
    <3> QED BY <3>2, <3>9, <3>10 DEF Piece
  <2> QED BY <2>4, <2>5
<1>7. Rest(none, s)
  <2>1. none \o t = t
    BY <1>2, ConcatEmptySeq DEF none
  <2> QED BY <2>1 DEF t
<1>8. Len(s) \in Nat
  BY LenProperties
<1>9. f[1] = s
  <2>1. f[Len(none) + 1] = s
    <3> HIDE DEF Rest
    <3> QED BY <1>2, <1>6, <1>7, <1>8
  <2> QED BY <1>2, <2>1
<1> QED
  BY <1>3, <1>9 DEF t

LEMMA DataRestored ==
    ASSUME NEW S, Signs \subseteq S, NEW s \in Seq(S)
    PROVE  A!Unescape(A!gh_escape_data(s), A!Escaped.chars) = s
<1> DEFINE e == [x \in Seq(S) |-> A!gh_escape_data(x)]
<1>1. e[s] = A!gh_escape_data(s)
  OBVIOUS
<1>2. A!Escaped.chars = DataCodes
  BY DEF A!Escaped, DataCodes
<1>3. "percent" \in S
  BY DEF Signs
<1>4. Encodes(e, S, DataCodes)
  BY DataEncodes
<1> HIDE DEF e
<1>5. A!Unescape(e[s], DataCodes) = s
  BY <1>3, <1>4, Restores
<1> QED
  BY <1>1, <1>2, <1>5

LEMMA PropRestored ==
    ASSUME NEW S, Signs \subseteq S, NEW s \in Seq(S)
    PROVE  A!Unescape(A!gh_escape_prop(s), A!Escaped.chars \cup A!Escaped.props) = s
<1> DEFINE e == [x \in Seq(S) |-> A!gh_escape_prop(x)]
<1>1. e[s] = A!gh_escape_prop(s)
  OBVIOUS
<1>2. A!Escaped.chars \cup A!Escaped.props = PropCodes
  BY DEF A!Escaped, DataCodes, PropCodes
<1>3. "percent" \in S
  BY DEF Signs
<1>4. Encodes(e, S, PropCodes)
  BY PropEncodes
<1> HIDE DEF e
<1>5. A!Unescape(e[s], PropCodes) = s
  BY <1>3, <1>4, Restores
<1> QED
  BY <1>1, <1>2, <1>5

(* Where a field ends. *)
LEMMA LeastIs ==
    ASSUME NEW R \in SUBSET Nat, NEW k \in R, \A j \in R : k <= j
    PROVE  A!Least(R) = k
<1>1. \E i \in R : \A j \in R : i <= j
  OBVIOUS
<1>2. A!Least(R) \in R /\ \A j \in R : A!Least(R) <= j
  BY <1>1, Zenon DEF A!Least
<1>3. A!Least(R) \in Nat /\ k \in Nat /\ A!Least(R) <= k /\ k <= A!Least(R)
  BY <1>2
<1> QED
  BY <1>3

LEMMA FirstAt ==
    ASSUME NEW S, NEW s \in Seq(S), NEW c, NEW k \in 1 .. Len(s) + 1,
           k <= Len(s) => s[k] = c, \A j \in 1 .. Len(s) : j < k => s[j] # c
    PROVE  A!First(s, c) = k
<1> DEFINE R == {j \in DOMAIN s : s[j] = c} \cup {Len(s) + 1}
<1>1. Len(s) \in Nat /\ DOMAIN s = 1 .. Len(s)
  BY LenProperties
<1>2. R \in SUBSET Nat /\ k \in R
  BY <1>1
<1>3. \A j \in R : k <= j
  BY <1>1
<1> HIDE DEF R
<1>4. A!Least(R) = k
  BY <1>2, <1>3, LeastIs
<1> QED
  BY <1>4, Zenon DEF A!First, R

LEMMA SubSeqIs ==
    ASSUME NEW S, NEW s \in Seq(S), NEW a \in Nat, NEW t \in Seq(S), a + Len(t) <= Len(s),
           \A i \in 1 .. Len(t) : s[a + i] = t[i]
    PROVE  SubSeq(s, a + 1, a + Len(t)) = t
<1> DEFINE m == Len(t)
           n == Len(s)
           r == SubSeq(s, a + 1, a + m)
<1>1. m \in Nat /\ n \in Nat /\ a + m <= n
  BY LenProperties
<1>2. /\ a + 1 \in 1 .. n + 1 /\ a + m \in a .. n /\ a + m - (a + 1) + 1 = m
      /\ \A i \in 1 .. m : a + 1 + i - 1 = a + i
  BY <1>1
<1>3. \A i \in a + 1 .. a + m : s[i] \in S
  BY <1>1, ElementOfSeq
<1>4. r \in Seq(S) /\ Len(r) = m /\ \A i \in 1 .. m : r[i] = s[a + i]
  BY <1>1, <1>2, <1>3, SubSeqProperties
<1>5. \A i \in 1 .. m : r[i] = t[i]
  BY <1>4
<1> HIDE DEF r
<1>6. r = t
  BY <1>4, <1>5, SeqEqual DEF m
<1> QED
  BY <1>6 DEF r, m

Behind(z, x, y, S) ==
    /\ z \in Seq(S) /\ Len(z) = Len(x) + Len(y)
    /\ \A i \in 1 .. Len(x) : z[i] = x[i]
    /\ \A i \in 1 .. Len(y) : z[Len(x) + i] = y[i]

LEMMA ConcatAt ==
    ASSUME NEW S, NEW x \in Seq(S), NEW y \in Seq(S)
    PROVE  Behind(x \o y, x, y, S)
<1> DEFINE z == x \o y
<1>1. Len(x) \in Nat /\ Len(y) \in Nat
  BY LenProperties
<1>2. /\ z \in Seq(S) /\ Len(z) = Len(x) + Len(y)
      /\ \A i \in 1 .. Len(x) + Len(y) : z[i] = IF i <= Len(x) THEN x[i] ELSE y[i - Len(x)]
  BY ConcatProperties
<1>3. \A i \in 1 .. Len(y) : Len(x) + i \in 1 .. Len(x) + Len(y) /\ ~(Len(x) + i <= Len(x))
                             /\ Len(x) + i - Len(x) = i
  BY <1>1
<1>4. \A i \in 1 .. Len(x) : i \in 1 .. Len(x) + Len(y) /\ i <= Len(x)
  BY <1>1
<1> HIDE DEF z
<1>5. \A i \in 1 .. Len(x) : z[i] = x[i]
  BY <1>2, <1>4
<1>6. \A i \in 1 .. Len(y) : z[Len(x) + i] = y[i]
  BY <1>2, <1>3
<1>7. Behind(z, x, y, S)
  BY <1>2, <1>5, <1>6 DEF Behind
<1> QED
  BY <1>7 DEF z

(* The line of one finding, and what is read in it. *)
Opening(level) == <<"colon", "colon", level, "space", "file">>
Annotation(level, f, d) == ((Opening(level) \o f) \o <<"colon", "colon">>) \o d

LineIs(l, level, f, d, S) ==
    /\ l \in Seq(S) /\ Len(l) = Len(f) + Len(d) + 7
    /\ \A i \in 1 .. 5 : l[i] = Opening(level)[i]
    /\ \A i \in 1 .. Len(f) : l[5 + i] = f[i]
    /\ l[Len(f) + 6] = "colon" /\ l[Len(f) + 7] = "colon"
    /\ \A i \in 1 .. Len(d) : l[Len(f) + 7 + i] = d[i]

LEMMA LineFields ==
    ASSUME NEW S, {"colon", "space", "file"} \subseteq S, NEW level \in S,
           NEW f \in Seq(S), NEW d \in Seq(S)
    PROVE  LineIs(Annotation(level, f, d), level, f, d, S)
<1> DEFINE h == Opening(level)
           c == <<"colon", "colon">>
           hf == h \o f
           hfc == hf \o c
           l == hfc \o d
<1>1. h \in Seq(S) /\ Len(h) = 5
  BY DEF Opening
<1>2. c \in Seq(S) /\ Len(c) = 2 /\ c[1] = "colon" /\ c[2] = "colon"
  OBVIOUS
<1>3. Len(f) \in Nat /\ Len(d) \in Nat
  BY LenProperties
<1> HIDE DEF h, c
<1>4. /\ hf \in Seq(S) /\ Len(hf) = 5 + Len(f)
      /\ \A i \in 1 .. 5 : hf[i] = h[i]
      /\ \A i \in 1 .. Len(f) : hf[5 + i] = f[i]
  <2>1. Behind(hf, h, f, S)
    BY <1>1, ConcatAt
  <2> HIDE DEF hf
  <2> QED BY <1>1, <2>1 DEF Behind
<1> HIDE DEF hf
<1>5. /\ hfc \in Seq(S) /\ Len(hfc) = Len(f) + 7
      /\ \A i \in 1 .. 5 + Len(f) : hfc[i] = hf[i]
      /\ \A i \in 1 .. 2 : hfc[5 + Len(f) + i] = c[i]
  <2>1. Behind(hfc, hf, c, S)
    BY <1>2, <1>4, ConcatAt
  <2> HIDE DEF hfc
  <2>2. Len(hfc) = 5 + Len(f) + 2 /\ 5 + Len(f) + 2 = Len(f) + 7
    BY <1>2, <1>3, <1>4, <2>1 DEF Behind
  <2> QED BY <1>2, <1>4, <2>1, <2>2 DEF Behind
<1> HIDE DEF hfc
<1>6. /\ l \in Seq(S) /\ Len(l) = Len(f) + 7 + Len(d)
      /\ \A i \in 1 .. Len(f) + 7 : l[i] = hfc[i]
      /\ \A i \in 1 .. Len(d) : l[Len(f) + 7 + i] = d[i]
  <2>1. Behind(l, hfc, d, S)
    BY <1>5, ConcatAt
  <2> HIDE DEF l
  <2> QED BY <1>5, <2>1 DEF Behind
<1>7. l = Annotation(level, f, d)
  BY Zenon DEF l, hfc, hf, h, c, Annotation
<1> HIDE DEF l
<1>8. \A i \in 1 .. 5 : l[i] = h[i]
  <2>1. \A i \in 1 .. 5 : i \in 1 .. 5 + Len(f) /\ i \in 1 .. Len(f) + 7
    BY <1>3
  <2> QED BY <1>4, <1>5, <1>6, <2>1
<1>9. \A i \in 1 .. Len(f) : l[5 + i] = f[i]
  <2>1. \A i \in 1 .. Len(f) : 5 + i \in 1 .. 5 + Len(f) /\ 5 + i \in 1 .. Len(f) + 7
    BY <1>3
  <2> QED BY <1>4, <1>5, <1>6, <2>1
<1>10. l[Len(f) + 6] = "colon" /\ l[Len(f) + 7] = "colon"
  <2>1. /\ 5 + Len(f) + 1 = Len(f) + 6 /\ 5 + Len(f) + 2 = Len(f) + 7
        /\ Len(f) + 6 \in 1 .. Len(f) + 7 /\ Len(f) + 7 \in 1 .. Len(f) + 7
        /\ 1 \in 1 .. 2 /\ 2 \in 1 .. 2
    BY <1>3
  <2> QED BY <1>2, <1>5, <1>6, <2>1
<1>11. Len(l) = Len(f) + Len(d) + 7
  BY <1>3, <1>6
<1>12. LineIs(l, level, f, d, S)
  BY <1>6, <1>8, <1>9, <1>10, <1>11 DEF h, LineIs
<1> QED
  BY <1>7, <1>12

LEMMA ReadLineIs ==
    ASSUME NEW S, Signs \subseteq S, {"space", "file"} \subseteq S,
           NEW level \in S, level # "colon", NEW name \in Seq(S), NEW snippet \in Seq(S)
    PROVE  A!ReadLine(Annotation(level, A!gh_escape_prop(name), A!gh_escape_data(snippet)))
             = [level |-> level, file |-> name, snippet |-> snippet]
<1> DEFINE f == A!gh_escape_prop(name)
           d == A!gh_escape_data(snippet)
           l == Annotation(level, f, d)
           n == Len(f)
<1>1. /\ f \in Seq(S) /\ \A i \in 1 .. n : f[i] # "comma" /\ f[i] # "colon"
  <2>1. f \in Seq(S \ {"LF", "comma", "colon"})
    BY PropIs
  <2> HIDE DEF f
  <2> QED BY <2>1, ElementOfSeq
<1>2. d \in Seq(S)
  <2>1. \A x \in Seq(S \ {"LF"}) : x \in Seq(S)
    OBVIOUS
  <2> QED BY <2>1, DataIs
<1>3. {"colon", "space", "file"} \subseteq S
  BY DEF Signs
<1>4. /\ A!Unescape(f, A!Escaped.chars \cup A!Escaped.props) = name
      /\ A!Unescape(d, A!Escaped.chars) = snippet
  BY DataRestored, PropRestored
<1> HIDE DEF f, d
<1>5. n \in Nat /\ Len(d) \in Nat
  BY <1>1, <1>2, LenProperties
<1>6. /\ l \in Seq(S) /\ Len(l) = n + Len(d) + 7
      /\ \A i \in 1 .. 5 : l[i] = Opening(level)[i]
      /\ \A i \in 1 .. n : l[5 + i] = f[i]
      /\ l[n + 6] = "colon" /\ l[n + 7] = "colon"
      /\ \A i \in 1 .. Len(d) : l[n + 7 + i] = d[i]
  <2>1. LineIs(l, level, f, d, S)
    BY <1>1, <1>2, <1>3, LineFields
  <2> HIDE DEF l
  <2> QED BY <2>1, Zenon DEF LineIs, n
<1>7. l[3] = level /\ l[4] # "colon" /\ l[5] # "colon"
  <2>1. Opening(level)[3] = level /\ Opening(level)[4] = "space" /\ Opening(level)[5] = "file"
    BY DEF Opening
  <2>2. 3 \in 1 .. 5 /\ 4 \in 1 .. 5 /\ 5 \in 1 .. 5
    OBVIOUS
  <2> HIDE DEF l
  <2> QED BY <1>6, <2>1, <2>2
<1> HIDE DEF l
<1>8. A!Ends(l) = n + 6
  <2> DEFINE R == {k \in DOMAIN l : /\ k > 2 /\ k < Len(l) /\ l[k] = "colon" /\ l[k + 1] = "colon"}
                     \cup {Len(l) + 1}
  <2>1. DOMAIN l = 1 .. Len(l) /\ Len(l) \in Nat
    BY <1>6, LenProperties
  <2>2. R \in SUBSET Nat
    BY <2>1
  <2>3. n + 6 \in R
    <3>1. n + 6 \in 1 .. Len(l) /\ n + 6 > 2 /\ n + 6 < Len(l) /\ n + 6 + 1 = n + 7
      BY <1>5, <1>6
    <3> QED BY <1>6, <2>1, <3>1
  <2>4. ASSUME NEW k \in R PROVE n + 6 <= k
    <3>1. CASE k = Len(l) + 1
      BY <1>5, <1>6, <3>1
    <3>2. CASE k \in 1 .. Len(l) /\ k > 2 /\ l[k] = "colon"
      <4>1. k # 3 /\ k # 4 /\ k # 5
        BY <1>7, <3>2
      <4>2. k \in 6 .. n + 5 => k - 5 \in 1 .. n /\ 5 + (k - 5) = k
        BY <1>5
      <4>3. k \notin 6 .. n + 5
        <5>1. k \in 6 .. n + 5 => l[k] = f[k - 5] /\ f[k - 5] # "colon"
          BY <1>1, <1>6, <4>2
        <5> QED BY <3>2, <5>1
      <4> QED BY <1>5, <1>6, <3>2, <4>1, <4>3
    <3> QED BY <2>1, <3>1, <3>2
  <2> HIDE DEF R
  <2>5. A!Least(R) = n + 6
    BY <2>2, <2>3, <2>4, LeastIs
  <2> QED BY <2>5, Zenon DEF A!Ends, R
<1> DEFINE props == SubSeq(l, 6, A!Ends(l) - 1)
<1>9. props = f
  <2>1. SubSeq(l, 5 + 1, 5 + n) = f
    <3>1. 5 \in Nat /\ 5 + n <= Len(l)
      BY <1>5, <1>6
    <3> QED BY <1>1, <1>6, <3>1, SubSeqIs
  <2>2. 5 + 1 = 6 /\ n + 6 - 1 = 5 + n
    BY <1>5
  <2> QED BY <1>8, <2>1, <2>2
<1>10. SubSeq(props, 1, A!First(props, "comma") - 1) = f
  <2>1. A!First(f, "comma") = n + 1
    <3>1. n + 1 \in 1 .. Len(f) + 1 /\ ~(n + 1 <= Len(f))
      BY <1>5
    <3> QED BY <1>1, <3>1, FirstAt
  <2>2. SubSeq(f, 0 + 1, 0 + n) = f
    <3>1. 0 + Len(f) <= Len(f) /\ \A i \in 1 .. Len(f) : f[0 + i] = f[i]
      BY <1>5
    <3> QED BY <1>1, <3>1, SubSeqIs
  <2>3. 0 + 1 = 1 /\ 0 + n = n /\ n + 1 - 1 = n
    BY <1>5
  <2> HIDE DEF props
  <2> QED BY <1>9, <2>1, <2>2, <2>3
<1>11. SubSeq(l, A!Ends(l) + 2, Len(l)) = d
  <2> DEFINE a == n + 7
  <2>1. a \in Nat /\ a + Len(d) = Len(l) /\ a + 1 = n + 6 + 2 /\ a + Len(d) <= Len(l)
    BY <1>5, <1>6
  <2>2. \A i \in 1 .. Len(d) : l[a + i] = d[i]
    BY <1>6
  <2> HIDE DEF a
  <2>3. SubSeq(l, a + 1, a + Len(d)) = d
    BY <1>2, <1>6, <2>1, <2>2, SubSeqIs
  <2> QED BY <1>8, <2>1, <2>3
<1>12. A!ReadLine(l) =
         [level   |-> l[3],
          file    |-> A!Unescape(SubSeq(props, 1, A!First(props, "comma") - 1),
                                 A!Escaped.chars \cup A!Escaped.props),
          snippet |-> A!Unescape(SubSeq(l, A!Ends(l) + 2, Len(l)), A!Escaped.chars)]
  BY Zenon DEF A!ReadLine
<1> HIDE DEF props
<1>13. A!ReadLine(l) = [level |-> level, file |-> name, snippet |-> snippet]
  BY <1>4, <1>7, <1>10, <1>11, <1>12, Zenon
<1> QED
  BY <1>13, Zenon DEF l, f, d

(* What is read of a report, line by line. *)
Remains(s, k)  == SubSeq(s, k, Len(s))
LineAt(s, k)   == SubSeq(Remains(s, k), 1, A!First(Remains(s, k), "LF") - 1)
Told(line)     == IF Len(line) >= 5 /\ SubSeq(line, 1, 2) = <<"colon", "colon">>
                  THEN <<A!ReadLine(line)>> ELSE <<>>
Following(s, k) == k + A!First(Remains(s, k), "LF")

Reads(f, s) ==
    \A k \in 1 .. Len(s) + 2 :
        f[k] = IF k > Len(s) THEN <<>> ELSE Told(LineAt(s, k)) \o f[Following(s, k)]

LEMMA FirstIn ==
    ASSUME NEW S, NEW s \in Seq(S), NEW c
    PROVE  /\ A!First(s, c) \in 1 .. Len(s) + 1
           /\ A!First(s, c) <= Len(s) => s[A!First(s, c)] = c
           /\ \A j \in 1 .. Len(s) : j < A!First(s, c) => s[j] # c
<1> DEFINE R == {j \in DOMAIN s : s[j] = c} \cup {Len(s) + 1}
<1>1. Len(s) \in Nat /\ DOMAIN s = 1 .. Len(s)
  BY LenProperties
<1>2. R \in SUBSET Nat /\ R # {}
  BY <1>1
<1>3. \E k \in R : \A j \in R : k <= j
  <2> HIDE DEF R
  <2> QED BY <1>2, Lowest
<1>4. A!First(s, c) \in R /\ \A j \in R : A!First(s, c) <= j
  <2>1. A!First(s, c) = A!Least(R)
    BY Zenon DEF A!First
  <2> HIDE DEF R
  <2> QED BY <1>3, <2>1, Zenon DEF A!Least
<1> DEFINE k == A!First(s, c)
<1> HIDE DEF k
<1>5. k \in R /\ \A j \in R : k <= j
  BY <1>4 DEF k
<1>6. k \in 1 .. Len(s) + 1 /\ (k <= Len(s) => s[k] = c)
  BY <1>1, <1>5
<1>7. \A j \in 1 .. Len(s) : j < k => s[j] # c
  <2> TAKE j \in 1 .. Len(s)
  <2>1. s[j] = c => k <= j
    BY <1>1, <1>5
  <2> QED BY <1>6, <2>1
<1> QED
  BY <1>6, <1>7 DEF k

(* What remains of a text from one place on. *)
LEMMA RemainsIs ==
    ASSUME NEW S, NEW s \in Seq(S), NEW k \in 1 .. Len(s)
    PROVE  /\ Remains(s, k) \in Seq(S) /\ Len(Remains(s, k)) = Len(s) - k + 1
           /\ \A i \in 1 .. Len(s) - k + 1 : Remains(s, k)[i] = s[k + i - 1]
<1> DEFINE m == Len(s)
           r == SubSeq(s, k, m)
<1>1. m \in Nat /\ k \in 1 .. m + 1 /\ m \in k - 1 .. m
  BY LenProperties
<1>2. \A i \in k .. m : s[i] \in S
  BY <1>1, ElementOfSeq
<1>3. r \in Seq(S) /\ Len(r) = m - k + 1
  BY <1>1, <1>2, SubSeqProperties
<1>4. \A i \in 1 .. m - k + 1 : r[i] = s[k + i - 1]
  BY <1>1, SubSeqProperties
<1> QED
  BY <1>3, <1>4 DEF Remains

LEMMA ReadWalks ==
    ASSUME NEW S, NEW s \in Seq(S), NEW T, \A k \in 1 .. Len(s) : A!ReadLine(LineAt(s, k)) \in T
    PROVE  \E f : /\ A!Read(s) = f[1] /\ Reads(f, s)
                  /\ \A k \in 1 .. Len(s) + 2 : f[k] \in Seq(T)
<1> DEFINE m == Len(s)
           head == [k \in 1 .. m |-> Told(LineAt(s, k))]
           next == [k \in 1 .. m |-> Following(s, k)]
           value(f, k) == Told(LineAt(s, k)) \o f[Following(s, k)]
           Is(f) == f = [k \in 1 .. Len(s) + 2 |-> IF k > Len(s) THEN <<>> ELSE value(f, k)]
<1>1. m \in Nat
  BY LenProperties
<1>2. A!Read(s) = (CHOOSE f : Is(f))[1]
  BY Zenon DEF A!Read, Told, LineAt, Following, Remains
<1>3. \A k \in 1 .. m : Told(LineAt(s, k)) \in Seq(T)
  <2> TAKE k \in 1 .. m
  <2> DEFINE r == A!ReadLine(LineAt(s, k))
  <2>1. r \in T
    OBVIOUS
  <2>2. Told(LineAt(s, k)) = <<r>> \/ Told(LineAt(s, k)) = <<>>
    BY Zenon DEF Told
  <2> HIDE DEF r
  <2>3. <<r>> \in Seq(T) /\ <<>> \in Seq(T)
    BY <2>1
  <2> QED BY <2>2, <2>3, Zenon
<1>4. \A k \in 1 .. m : Following(s, k) \in 1 .. m + 2 /\ Following(s, k) > k
  <2> TAKE k \in 1 .. m
  <2> DEFINE r == Remains(s, k)
             j == A!First(r, "LF")
  <2>1. r \in Seq(S) /\ Len(r) = m - k + 1
    BY RemainsIs
  <2>2. Following(s, k) = k + j
    BY DEF Following
  <2> HIDE DEF r
  <2>3. j \in 1 .. Len(r) + 1
    BY <2>1, FirstIn
  <2> HIDE DEF j
  <2> QED BY <1>1, <2>1, <2>2, <2>3
<1>5. head \in [1 .. m -> Seq(T)] /\ Onwards(next, m)
  <2>1. \A k \in 1 .. m : next[k] = Following(s, k)
    OBVIOUS
  <2> QED BY <1>3, <1>4, <2>1, Zenon DEF Onwards
<1>6. PICK f \in [1 .. m + 2 -> Seq(T)] : Pieced(f, m, head, next)
  <2> HIDE DEF head, next, m
  <2> QED BY <1>1, <1>5, Onward
<1>7. \A x : \A k \in 1 .. m : head[k] \o x[next[k]] = value(x, k)
  OBVIOUS
<1>8. \A k \in 1 .. m + 2 : k > m \/ k \in 1 .. m
  BY <1>1
<1>9. Is(f)
  <2>1. f = [k \in 1 .. m + 2 |-> f[k]]
    OBVIOUS
  <2> HIDE DEF head, next, m, value
  <2>2. \A k \in 1 .. m + 2 : f[k] = IF k > m THEN <<>> ELSE value(f, k)
    BY <1>6, <1>7, <1>8 DEF Pieced
  <2> QED BY <2>1, <2>2 DEF m
<1>10. PICK g : g = (CHOOSE x : Is(x)) /\ Is(g)
  <2> HIDE DEF Is
  <2> QED BY <1>9
<1>11. \A k \in 1 .. m + 2 : g[k] = IF k > m THEN <<>> ELSE value(g, k)
  <2> HIDE DEF value
  <2> QED BY <1>10
<1>12. Reads(g, s)
  BY <1>11, Zenon DEF Reads, value, m
<1>13. Pieced(g, m, head, next)
  <2> HIDE DEF head, next, value
  <2> QED BY <1>7, <1>8, <1>11 DEF Pieced
<1>14. \A k \in 1 .. m + 2 : g[k] \in Seq(T)
  <2> HIDE DEF head, next, m, Is, value
  <2> QED BY <1>1, <1>5, <1>13, PiecedSeq
<1> QED
  BY <1>2, <1>10, <1>12, <1>14

(* A line is read wherever a line ends in front of it, *)
LineLast(e, s, line, S) ==
    /\ LineAt(e, Len(s) + 1) = line /\ Following(e, Len(s) + 1) = Len(e) + 1
    /\ e \in Seq(S) /\ Len(e) = Len(s) + Len(line) + 1
    /\ \A i \in 1 .. Len(s) : e[i] = s[i]
    /\ e[Len(e)] = "LF"

LEMMA LastLine ==
    ASSUME NEW S, "LF" \in S, NEW s \in Seq(S), NEW line \in Seq(S \ {"LF"}), NEW e,
           e = s \o (line \o <<"LF">>)
    PROVE  LineLast(e, s, line, S)
<1> DEFINE n == Len(line)
           m == Len(s)
           y == <<"LF">>
           r == line \o y
           p == Remains(e, m + 1)
<1>1. line \in Seq(S) /\ y \in Seq(S) /\ Len(y) = 1 /\ y[1] = "LF"
  OBVIOUS
<1>2. n \in Nat /\ m \in Nat /\ \A i \in 1 .. n : line[i] # "LF"
  BY LenProperties, ElementOfSeq
<1> HIDE DEF y
<1>3. /\ r \in Seq(S) /\ Len(r) = n + 1
      /\ \A i \in 1 .. n : r[i] = line[i]
      /\ r[n + 1] = "LF"
  <2>1. Behind(r, line, y, S)
    BY <1>1, ConcatAt
  <2> HIDE DEF r
  <2>2. 1 \in 1 .. 1
    OBVIOUS
  <2> QED BY <1>1, <1>2, <2>1, <2>2 DEF Behind
<1> HIDE DEF r
<1>4. /\ e \in Seq(S) /\ Len(e) = m + (n + 1)
      /\ \A i \in 1 .. m : e[i] = s[i]
      /\ \A i \in 1 .. n + 1 : e[m + i] = r[i]
  <2>1. Behind(s \o r, s, r, S)
    BY <1>3, ConcatAt
  <2>2. e = s \o r
    BY Zenon DEF r, y
  <2>3. Behind(e, s, r, S)
    BY <2>1, <2>2
  <2> QED BY <1>2, <1>3, <2>3 DEF Behind
<1>5. p = r
  <2>1. m + Len(r) <= Len(e) /\ m + Len(r) = Len(e) /\ \A i \in 1 .. Len(r) : e[m + i] = r[i]
    BY <1>2, <1>3, <1>4
  <2>2. SubSeq(e, m + 1, m + Len(r)) = r
    BY <1>2, <1>3, <1>4, <2>1, SubSeqIs
  <2> QED BY <2>1, <2>2 DEF Remains
<1>6. A!First(r, "LF") = n + 1
  <2>1. n + 1 \in 1 .. Len(r) + 1 /\ \A j \in 1 .. Len(r) : j < n + 1 => j \in 1 .. n
    BY <1>2, <1>3
  <2>2. n + 1 <= Len(r) => r[n + 1] = "LF"
    BY <1>3
  <2>3. \A j \in 1 .. Len(r) : j < n + 1 => r[j] # "LF"
    BY <1>2, <1>3, <2>1
  <2> QED BY <1>3, <2>1, <2>2, <2>3, FirstAt
<1>7. SubSeq(r, 1, n) = line
  <2>1. 0 + n <= Len(r) /\ 0 \in Nat /\ \A i \in 1 .. n : r[0 + i] = line[i]
    BY <1>2, <1>3
  <2>2. SubSeq(r, 0 + 1, 0 + n) = line
    BY <1>1, <1>3, <2>1, SubSeqIs
  <2>3. 0 + 1 = 1 /\ 0 + n = n
    BY <1>2
  <2> QED BY <2>2, <2>3
<1> HIDE DEF p
<1>8. LineAt(e, m + 1) = line
  <2>1. LineAt(e, m + 1) = SubSeq(p, 1, A!First(p, "LF") - 1)
    BY DEF LineAt, p
  <2>2. n + 1 - 1 = n
    BY <1>2
  <2> QED BY <1>5, <1>6, <1>7, <2>1, <2>2
<1>9. Following(e, m + 1) = Len(e) + 1
  <2>1. Following(e, m + 1) = m + 1 + A!First(p, "LF")
    BY DEF Following, p
  <2>2. m + 1 + (n + 1) = m + (n + 1) + 1 /\ m + (n + 1) = m + n + 1
    BY <1>2
  <2> QED BY <1>4, <1>5, <1>6, <2>1, <2>2
<1>10. Len(e) = m + n + 1
  BY <1>2, <1>4
<1>11. e[Len(e)] = "LF"
  <2>1. n + 1 \in 1 .. n + 1
    BY <1>2
  <2> QED BY <1>3, <1>4, <2>1
<1> QED
  BY <1>4, <1>8, <1>9, <1>10, <1>11 DEF LineLast

(* and the lines in front of it as they were. *)
LEMMA EarlierLine ==
    ASSUME NEW S, NEW s \in Seq(S), s # <<>> => s[Len(s)] = "LF", NEW e \in Seq(S),
           Len(e) >= Len(s), \A i \in 1 .. Len(s) : e[i] = s[i], NEW k \in 1 .. Len(s)
    PROVE  /\ LineAt(e, k) = LineAt(s, k) /\ Following(e, k) = Following(s, k)
           /\ Following(s, k) \in k + 1 .. Len(s) + 1
<1> DEFINE m == Len(s)
           w == m - k + 1
           r == Remains(s, k)
           q == Remains(e, k)
           j == A!First(r, "LF")
<1>1. m \in Nat /\ Len(e) \in Nat /\ w \in Nat /\ w \in 1 .. m /\ k + w - 1 = m /\ k \in 1 .. Len(e)
  BY LenProperties
<1>2. s[m] = "LF"
  <2>1. s # <<>>
    BY <1>1
  <2> QED BY <2>1
<1>3. r \in Seq(S) /\ Len(r) = w /\ \A i \in 1 .. w : r[i] = s[k + i - 1]
  BY RemainsIs
<1>4. q \in Seq(S) /\ Len(q) = Len(e) - k + 1 /\ \A i \in 1 .. Len(e) - k + 1 : q[i] = e[k + i - 1]
  BY <1>1, RemainsIs
<1> HIDE DEF r, q
<1>5. \A i \in 1 .. w : q[i] = r[i]
  <2> TAKE i \in 1 .. w
  <2>1. i \in 1 .. Len(e) - k + 1 /\ k + i - 1 \in 1 .. m
    BY <1>1
  <2> QED BY <1>3, <1>4, <2>1
<1>6. r[w] = "LF"
  <2>1. w \in 1 .. w
    BY <1>1
  <2> HIDE DEF w
  <2> QED BY <1>1, <1>2, <1>3, <2>1
<1> HIDE DEF w
<1>7. j \in 1 .. w /\ r[j] = "LF" /\ \A i \in 1 .. w : i < j => r[i] # "LF"
  <2>1. /\ j \in 1 .. w + 1 /\ (j <= w => r[j] = "LF")
        /\ \A i \in 1 .. w : i < j => r[i] # "LF"
    BY <1>3, FirstIn
  <2> HIDE DEF j
  <2>2. w < j => FALSE
    BY <1>1, <1>6, <2>1
  <2> QED BY <1>1, <2>1, <2>2
<1> HIDE DEF j
<1>8. w <= Len(q)
  BY <1>1, <1>4 DEF w
<1>9. A!First(q, "LF") = j
  <2>1. j \in 1 .. Len(q) + 1 /\ q[j] = "LF"
    BY <1>1, <1>4, <1>5, <1>7, <1>8
  <2>2. \A i \in 1 .. Len(q) : i < j => q[i] # "LF"
    <3> TAKE i \in 1 .. Len(q)
    <3>1. i < j => i \in 1 .. w
      BY <1>1, <1>7
    <3> QED BY <1>5, <1>7, <3>1
  <2>3. q \in Seq(S)
    BY <1>4
  <2> HIDE DEF j
  <2> QED BY <2>1, <2>2, <2>3, FirstAt
<1>10. SubSeq(q, 1, j - 1) = SubSeq(r, 1, j - 1)
  <2> DEFINE c == SubSeq(r, 1, j - 1)
  <2>1. j - 1 \in Nat /\ j - 1 <= w
    BY <1>1, <1>7
  <2>2. c \in Seq(S) /\ Len(c) = j - 1 /\ \A i \in 1 .. j - 1 : c[i] = r[i]
    <3>1. /\ 1 \in 1 .. Len(r) + 1 /\ j - 1 \in 1 - 1 .. Len(r) /\ j - 1 - 1 + 1 = j - 1
          /\ \A i \in 1 .. j - 1 : 1 + i - 1 = i
      BY <1>1, <1>3, <2>1
    <3>2. \A i \in 1 .. j - 1 : r[i] \in S
      BY <1>1, <1>3, <2>1, ElementOfSeq
    <3> QED BY <1>3, <3>1, <3>2, SubSeqProperties
  <2> HIDE DEF c
  <2>3. 0 + Len(c) <= Len(q) /\ 0 + 1 = 1 /\ 0 + Len(c) = j - 1
    BY <1>1, <1>8, <1>4, <2>1, <2>2
  <2>4. \A i \in 1 .. Len(c) : q[0 + i] = c[i]
    <3> TAKE i \in 1 .. Len(c)
    <3>1. i \in 1 .. w /\ 0 + i = i
      BY <1>1, <2>1, <2>2
    <3> QED BY <1>5, <2>2, <3>1
  <2>5. SubSeq(q, 0 + 1, 0 + Len(c)) = c
    BY <1>4, <2>2, <2>3, <2>4, SubSeqIs
  <2> QED BY <2>3, <2>5 DEF c
<1>11. LineAt(e, k) = LineAt(s, k) /\ Following(e, k) = Following(s, k)
  BY <1>9, <1>10, Zenon DEF LineAt, Following, r, q, j
<1>12. Following(s, k) = k + j
  BY DEF Following, r, j
<1>13. k + j \in k + 1 .. m + 1
  BY <1>1, <1>7 DEF w
<1> QED
  BY <1>11, <1>12, <1>13

(* So a report is read finding by finding. *)
LEMMA ReadAppends ==
    ASSUME NEW S, "LF" \in S, NEW s \in Seq(S), s # <<>> => s[Len(s)] = "LF",
           NEW line \in Seq(S \ {"LF"}), Told(line) = <<A!ReadLine(line)>>, NEW e,
           e = s \o (line \o <<"LF">>)
    PROVE  A!Read(e) = Append(A!Read(s), A!ReadLine(line))
<1> DEFINE m == Len(s)
           r == A!ReadLine(line)
           y == <<r>>
           T == {A!ReadLine(LineAt(e, k)) : k \in 1 .. Len(e)} \cup {A!ReadLine(LineAt(s, k)) : k \in 1 .. m}
                  \cup {r}
<1>1. /\ LineAt(e, m + 1) = line /\ Following(e, m + 1) = Len(e) + 1
      /\ e \in Seq(S) /\ Len(e) = m + Len(line) + 1
      /\ \A i \in 1 .. m : e[i] = s[i]
  <2>1. LineLast(e, s, line, S)
    BY LastLine
  <2> QED BY <2>1, Zenon DEF LineLast, m
<1>2. m \in Nat /\ Len(line) \in Nat /\ Len(e) \in Nat /\ Len(e) >= m + 1
  <2>1. m \in Nat /\ Len(line) \in Nat
    BY LenProperties
  <2> QED BY <1>1, <2>1
<1>3. r \in T /\ \A k \in 1 .. Len(e) : A!ReadLine(LineAt(e, k)) \in T
  BY Zenon
<1>4. \A k \in 1 .. m : A!ReadLine(LineAt(s, k)) \in T
  BY Zenon
<1> HIDE DEF T, r
<1>5. y \in Seq(T)
  BY <1>3
<1>6. PICK f : A!Read(e) = f[1] /\ Reads(f, e) /\ \A k \in 1 .. Len(e) + 2 : f[k] \in Seq(T)
  BY <1>1, <1>3, ReadWalks
<1>7. PICK g : A!Read(s) = g[1] /\ Reads(g, s) /\ \A k \in 1 .. m + 2 : g[k] \in Seq(T)
  BY <1>4, ReadWalks
<1> HIDE DEF y
<1>8. f[m + 1] = y
  <2> DEFINE k == m + 1
             n == Len(e) + 1
  <2>1. k \in 1 .. Len(e) + 2 /\ ~(k > Len(e)) /\ n \in 1 .. Len(e) + 2 /\ n > Len(e)
    BY <1>2
  <2> HIDE DEF k, n
  <2>2. f[k] = Told(LineAt(e, k)) \o f[Following(e, k)] /\ f[n] = <<>>
    BY <1>6, <2>1, Zenon DEF Reads
  <2>3. Told(LineAt(e, k)) = y /\ Following(e, k) = n
    BY <1>1 DEF k, n, y, r
  <2>4. y \o <<>> = y
    BY <1>5, ConcatEmptySeq
  <2>5. f[k] = y
    BY <2>2, <2>3, <2>4, Zenon
  <2> QED BY <2>5 DEF k
<1> DEFINE More(k) == f[k] = g[k] \o y
           bad == {h \in Nat : \E k \in 1 .. m + 1 : h = m + 1 - k /\ ~More(k)}
<1>9. ASSUME bad # {} PROVE FALSE
  <2>1. PICK h \in bad : \A j \in bad : h <= j
    <3>1. bad \in SUBSET Nat
      OBVIOUS
    <3> QED BY <1>9, <3>1, Lowest
  <2>2. PICK k \in 1 .. m + 1 : h = m + 1 - k /\ ~More(k)
    BY <2>1
  <2>3. CASE k = m + 1
    <3> DEFINE n == m + 1
    <3>1. n \in 1 .. m + 2 /\ n > m
      BY <1>2
    <3> HIDE DEF n
    <3>2. g[n] = <<>>
      BY <1>7, <3>1, Zenon DEF Reads
    <3>3. <<>> \o y = y
      BY <1>5, ConcatEmptySeq
    <3>4. f[n] = g[n] \o y
      BY <1>8, <3>2, <3>3, Zenon DEF n
    <3> QED BY <2>2, <2>3, <3>4 DEF n
  <2>4. CASE k # m + 1
    <3> DEFINE n == Following(s, k)
               t == Told(LineAt(s, k))
    <3>1. k \in 1 .. m /\ k \in 1 .. m + 2 /\ ~(k > m) /\ k \in 1 .. Len(e) + 2 /\ ~(k > Len(e))
      BY <1>2, <2>2, <2>4
    <3>2. LineAt(e, k) = LineAt(s, k) /\ Following(e, k) = n /\ n \in k + 1 .. m + 1
      <4>1. Len(e) >= m
        BY <1>2
      <4> QED BY <1>1, <3>1, <4>1, EarlierLine
    <3>3. g[k] = t \o g[n]
      BY <1>7, <3>1, Zenon DEF Reads
    <3>4. f[k] = t \o f[n]
      <4>1. f[k] = Told(LineAt(e, k)) \o f[Following(e, k)]
        BY <1>6, <3>1, Zenon DEF Reads
      <4> QED BY <3>2, <4>1, Zenon
    <3>5. t \in Seq(T)
      <4>1. A!ReadLine(LineAt(s, k)) \in T
        BY <1>4, <3>1
      <4> DEFINE v == A!ReadLine(LineAt(s, k))
      <4>2. t = <<v>> \/ t = <<>>
        BY Zenon DEF Told
      <4> HIDE DEF v, t
      <4>3. <<v>> \in Seq(T) /\ <<>> \in Seq(T)
        BY <4>1 DEF v
      <4> QED BY <4>2, <4>3, Zenon
    <3> HIDE DEF n, t
    <3>6. n \in 1 .. m + 1 /\ m + 1 - n \in Nat /\ m + 1 - n < h /\ n \in 1 .. m + 2 /\ h \in Nat
      BY <1>2, <2>1, <2>2, <3>2
    <3>7. More(n)
      <4> HIDE DEF More
      <4>1. ~More(n) => m + 1 - n \in bad
        BY <3>6
      <4> HIDE DEF bad
      <4>2. ~(h <= m + 1 - n)
        BY <3>6
      <4> QED BY <2>1, <4>1, <4>2
    <3>8. Assoc(t, g[n], y)
      <4>1. g[n] \in Seq(T)
        BY <1>7, <3>6
      <4> QED BY <1>5, <3>5, <4>1, Associates
    <3>9. More(k)
      BY <3>3, <3>4, <3>7, <3>8, Zenon DEF Assoc
    <3> QED BY <2>2, <3>9
  <2> QED BY <2>3, <2>4
<1>10. More(1)
  <2> HIDE DEF More
  <2>1. 1 \in 1 .. m + 1 /\ m + 1 - 1 \in Nat
    BY <1>2
  <2>2. ~More(1) => m + 1 - 1 \in bad
    BY <2>1
  <2> QED BY <1>9, <2>2
<1>11. g[1] \in Seq(T)
  <2>1. 1 \in 1 .. m + 2
    BY <1>2
  <2> QED BY <1>7, <2>1
<1>12. Append(A!Read(s), r) = A!Read(s) \o y
  BY <1>3, <1>7, <1>11, AppendIsConcat DEF y
<1>13. A!Read(e) = A!Read(s) \o y
  BY <1>6, <1>7, <1>10, Zenon
<1> QED
  BY <1>12, <1>13, Zenon DEF r

-----------------------------------------------------------------------------
(* Annotations: the inductive invariant.  What has been printed is lines, and*)
(* they read as the findings.                                                *)
Printable ==
    Signs \cup {"space", "file"} \cup Levels
        \cup UNION {{text[n] : n \in DOMAIN text} : text \in Paths \cup Snippets}

Printed == [level : Levels, file : Paths, snippet : Snippets]

AnnotationsInv ==
    /\ stdout \in Seq(Printable) /\ (stdout # <<>> => stdout[Len(stdout)] = "LF")
    /\ printed \in Seq(Printed)
    /\ A!OneAnnotationEach

LEMMA TextsPrint ==
    /\ Levels \cap {"colon", "LF"} = {}
    /\ \A text \in Paths \cup Snippets : text \in Seq(Printable)
<1>1. A!AnnotationsAssumption
  BY StagesAssumption
<1>2. ASSUME NEW text \in Paths \cup Snippets PROVE text \in Seq(Printable)
  <2> DEFINE C == {text[n] : n \in DOMAIN text}
  <2>1. text \in Seq(C)
    BY <1>1 DEF A!AnnotationsAssumption
  <2>2. C \subseteq Printable
    BY DEF Printable
  <2> HIDE DEF C
  <2>3. Seq(C) \subseteq Seq(Printable)
    BY <2>2
  <2> QED BY <2>1, <2>3
<1> QED
  BY <1>1, <1>2 DEF A!AnnotationsAssumption

LEMMA NothingRead == A!Read(<<>>) = <<>>
<1> DEFINE s == <<>>
<1>1. s \in Seq({}) /\ Len(s) = 0 /\ \A k \in 1 .. Len(s) : A!ReadLine(LineAt(s, k)) \in {}
  OBVIOUS
<1> HIDE DEF s
<1>2. PICK f : A!Read(s) = f[1] /\ Reads(f, s)
  BY <1>1, ReadWalks
<1>3. 1 \in 1 .. Len(s) + 2 /\ 1 > Len(s)
  BY <1>1
<1>4. f[1] = <<>>
  BY <1>2, <1>3, Zenon DEF Reads
<1> QED
  BY <1>2, <1>4 DEF s

LEMMA AnnotationsInitial == A!Init => AnnotationsInv
<1> SUFFICES ASSUME A!Init PROVE AnnotationsInv
  OBVIOUS
<1>1. printed = <<>> /\ stdout = <<>>
  BY DEF A!Init
<1>2. A!OneAnnotationEach
  BY <1>1, NothingRead DEF A!OneAnnotationEach
<1> QED
  BY <1>1, <1>2 DEF AnnotationsInv

(* One finding more is one line more, that says it. *)
LEMMA EmitKept ==
    ASSUME AnnotationsInv, NEW l \in Printed, A!Emit(l)
    PROVE  AnnotationsInv'
<1> DEFINE f == A!gh_escape_prop(l.file)
           d == A!gh_escape_data(l.snippet)
           line == Annotation(l.level, f, d)
           S == Printable
           T == S \ {"LF"}
<1>1. /\ l.level \in Levels /\ l.file \in Seq(S) /\ l.snippet \in Seq(S)
      /\ l = [level |-> l.level, file |-> l.file, snippet |-> l.snippet]
  BY TextsPrint DEF Printed
<1>2. /\ Signs \subseteq S /\ {"space", "file"} \subseteq T /\ "colon" \in T /\ "LF" \in S
      /\ {"colon", "space", "file"} \subseteq T /\ {"space", "file"} \subseteq S
      /\ l.level \in T /\ l.level \in S /\ l.level # "colon"
  <2>1. l.level # "colon" /\ l.level # "LF"
    BY <1>1, TextsPrint
  <2>2. Levels \subseteq S /\ Signs \subseteq S /\ {"space", "file"} \subseteq S
    BY DEF Printable
  <2>3. "colon" \in Signs /\ "LF" \in Signs
    BY DEF Signs
  <2> HIDE DEF S
  <2> QED BY <1>1, <2>1, <2>2, <2>3
<1> HIDE DEF S, T
<1>3. f \in Seq(T) /\ d \in Seq(T)
  <2>1. \A x \in Seq(S \ {"LF", "comma", "colon"}) : x \in Seq(S \ {"LF"})
    OBVIOUS
  <2>2. d \in Seq(S \ {"LF"})
    BY <1>1, <1>2, DataIs
  <2>3. f \in Seq(S \ {"LF", "comma", "colon"})
    BY <1>1, <1>2, PropIs
  <2> HIDE DEF f, d
  <2> QED BY <2>1, <2>2, <2>3 DEF S, T
<1>4. A!ReadLine(line) = l
  <2>1. A!ReadLine(line) = [level |-> l.level, file |-> l.file, snippet |-> l.snippet]
    BY <1>1, <1>2, ReadLineIs
  <2> QED BY <1>1, <2>1
<1>5. stdout' = stdout \o (line \o <<"LF">>) /\ printed' = Append(printed, l)
  BY Zenon DEF A!Emit, A!Command, Annotation, Opening
<1> HIDE DEF f, d
<1>6. line \in Seq(T) /\ Told(line) = <<A!ReadLine(line)>>
  <2>1. LineIs(line, l.level, f, d, T)
    BY <1>2, <1>3, LineFields
  <2> HIDE DEF line
  <2>2. Len(f) \in Nat /\ Len(d) \in Nat
    BY <1>3, LenProperties
  <2>3. line \in Seq(T) /\ Len(line) = Len(f) + Len(d) + 7 /\ \A i \in 1 .. 5 : line[i] = Opening(l.level)[i]
    BY <2>1, Zenon DEF LineIs
  <2>4. Opening(l.level)[1] = "colon" /\ Opening(l.level)[2] = "colon"
    BY DEF Opening
  <2> DEFINE c == <<"colon", "colon">>
  <2>5. c \in Seq(T) /\ Len(c) = 2 /\ c[1] = "colon" /\ c[2] = "colon"
    BY <1>2
  <2> HIDE DEF c
  <2>6. 0 + Len(c) <= Len(line) /\ 0 + 1 = 1 /\ 0 + Len(c) = 2 /\ Len(line) >= 5
    BY <2>2, <2>3, <2>5
  <2>7. \A i \in 1 .. Len(c) : line[0 + i] = c[i]
    <3>1. 1 \in 1 .. 5 /\ 2 \in 1 .. 5 /\ \A i \in 1 .. 2 : (i = 1 \/ i = 2) /\ 0 + i = i
      OBVIOUS
    <3>2. line[1] = c[1] /\ line[2] = c[2]
      BY <2>3, <2>4, <2>5, <3>1
    <3> QED BY <2>5, <3>1, <3>2
  <2>8. SubSeq(line, 0 + 1, 0 + Len(c)) = c
    BY <2>3, <2>5, <2>6, <2>7, SubSeqIs
  <2>9. SubSeq(line, 1, 2) = c
    BY <2>6, <2>8
  <2> QED BY <2>3, <2>6, <2>9, Zenon DEF Told, c
<1> HIDE DEF line
<1> DEFINE e == stdout'
<1>7. stdout \in Seq(S) /\ (stdout # <<>> => stdout[Len(stdout)] = "LF")
      /\ printed \in Seq(Printed) /\ A!Read(stdout) = printed
  BY DEF AnnotationsInv, A!OneAnnotationEach, S
<1>8. LineLast(e, stdout, line, S)
  <2>1. line \in Seq(S \ {"LF"})
    BY <1>6 DEF T, S
  <2> QED BY <1>2, <1>5, <1>7, <2>1, LastLine
<1>9. A!Read(e) = Append(A!Read(stdout), A!ReadLine(line))
  <2>1. line \in Seq(S \ {"LF"})
    BY <1>6 DEF T, S
  <2> QED BY <1>2, <1>5, <1>6, <1>7, <2>1, ReadAppends
<1>10. A!Read(e) = printed'
  BY <1>4, <1>5, <1>7, <1>9, Zenon
<1>11. printed' \in Seq(Printed)
  BY <1>5, <1>7, AppendProperties
<1>12. e \in Seq(S) /\ e[Len(e)] = "LF"
  BY <1>8, Zenon DEF LineLast
<1> QED
  BY <1>10, <1>11, <1>12 DEF AnnotationsInv, A!OneAnnotationEach, S

(* Whatever is found: what the runner reads in the output are the findings,  *)
(* each with its level, its file and what it quotes.                         *)
THEOREM AnnotatesEach == MCSpec => []OneAnnotationEach
<1>1. MCInit => AnnotationsInv
  BY AnnotationsInitial DEF MCInit
<1>2. AnnotationsInv /\ UNCHANGED avars => AnnotationsInv'
  BY DEF AnnotationsInv, A!OneAnnotationEach, avars
<1>3. AnnotationsInv /\ A!Next => AnnotationsInv'
  BY EmitKept, Zenon DEF A!Next, Printed
<1>4. AnnotationsInv /\ [MCNext]_<<part, vars, fvars, avars, nvars, gvars>> => AnnotationsInv'
  BY <1>2, <1>3, Zenon DEF MCNext
<1>5. AnnotationsInv => OneAnnotationEach
  BY DEF AnnotationsInv, OneAnnotationEach
<1> QED
  BY <1>1, <1>4, <1>5, PTL DEF MCSpec
=============================================================================
