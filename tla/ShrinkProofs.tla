----------------------------- MODULE ShrinkProofs -----------------------------
(*****************************************************************************)
(* The contract of ddmin() for inputs of every length and every predicate:   *)
(* the result still reproduces, keeps the input's order and is 1-minimal.    *)
(* And what it makes of a schedule of the planted ledger, of every length    *)
(* and with all kinds of faults: a single crash.                             *)
(*****************************************************************************)
EXTENDS PlantedLedger, FiniteSetTheorems, SequenceTheorems, WellFoundedInduction, TLAPS

(* What a cut of a sequence is. *)
LEMMA Cut ==
    ASSUME NEW S, NEW c \in Seq(S), NEW a \in Nat \ {0}, NEW b \in Nat,
           b <= Len(c)
    PROVE  /\ SubSeq(c, a, b) \in Seq(S)
           /\ Len(SubSeq(c, a, b)) = IF a <= b THEN b - a + 1 ELSE 0
           /\ \A k \in 1 .. Len(SubSeq(c, a, b)) :
                 SubSeq(c, a, b)[k] = c[a + k - 1] /\ a + k - 1 \in 1 .. Len(c)
OBVIOUS

(* A piece of an increasing sequence is increasing. *)
Increasing(c) == \A i, j \in DOMAIN c : i < j => c[i] < c[j]

LEMMA CutIncreasing ==
    ASSUME NEW c \in Seq(Nat), Increasing(c),
           NEW a \in Nat \ {0}, NEW b \in Nat, b <= Len(c)
    PROVE  Increasing(SubSeq(c, a, b))
<1> DEFINE d == SubSeq(c, a, b)
<1>1. /\ d \in Seq(Nat)
      /\ \A k \in 1 .. Len(d) : d[k] = c[a + k - 1] /\ a + k - 1 \in 1 .. Len(c)
  BY Cut
<1>2. DOMAIN d = 1 .. Len(d) /\ DOMAIN c = 1 .. Len(c) /\ Len(d) \in Nat
  BY <1>1
<1> HIDE DEF d
<1>3. ASSUME NEW i \in 1 .. Len(d), NEW j \in 1 .. Len(d), i < j
      PROVE  d[i] < d[j]
  <2>1. /\ d[i] = c[a + i - 1] /\ a + i - 1 \in DOMAIN c
        /\ d[j] = c[a + j - 1] /\ a + j - 1 \in DOMAIN c
    BY <1>1, <1>2
  <2>2. a + i - 1 < a + j - 1
    BY <1>2, <1>3
  <2> QED
    BY <2>1, <2>2 DEF Increasing
<1>4. Increasing(d)
  BY <1>2, <1>3 DEF Increasing
<1> QED
  BY <1>4 DEF d

(* A sequence with a middle piece taken out. *)
LEMMA Splice ==
    ASSUME NEW S, NEW c \in Seq(S),
           NEW a \in Nat, NEW b \in Nat, a <= b, b <= Len(c)
    PROVE  LET d == SubSeq(c, 1, a) \o SubSeq(c, b + 1, Len(c))
           IN  /\ d \in Seq(S)
               /\ DOMAIN d = 1 .. (a + Len(c) - b)
               /\ \A k \in 1 .. (a + Len(c) - b) :
                     /\ k <= a => d[k] = c[k] /\ k \in 1 .. Len(c)
                     /\ k > a  => d[k] = c[b + k - a] /\ b + k - a \in 1 .. Len(c)
<1> DEFINE l == SubSeq(c, 1, a)
           r == SubSeq(c, b + 1, Len(c))
           d == l \o r
<1>0. Len(c) \in Nat
  OBVIOUS
<1>1. /\ l \in Seq(S) /\ Len(l) = a
      /\ \A k \in 1 .. a : l[k] = c[k] /\ k \in 1 .. Len(c)
  BY <1>0, Cut
<1>2. /\ r \in Seq(S) /\ Len(r) = Len(c) - b
      /\ \A k \in 1 .. (Len(c) - b) : r[k] = c[b + k] /\ b + k \in 1 .. Len(c)
  <2>1. b + 1 \in Nat \ {0} /\ \A k \in Int : b + 1 + k - 1 = b + k
    OBVIOUS
  <2> QED
    BY <1>0, <2>1, Cut
<1> HIDE DEF l, r
<1>3. /\ d \in Seq(S)
      /\ DOMAIN d = 1 .. (a + Len(c) - b)
      /\ \A k \in 1 .. (a + Len(c) - b) :
            d[k] = IF k <= a THEN l[k] ELSE r[k - a]
  <2>1. /\ d \in Seq(S) /\ Len(d) = Len(l) + Len(r)
        /\ \A k \in 1 .. Len(l) + Len(r) :
              d[k] = IF k <= Len(l) THEN l[k] ELSE r[k - Len(l)]
    BY <1>1, <1>2, ConcatProperties
  <2>2. Len(l) + Len(r) = a + Len(c) - b
    BY <1>0, <1>1, <1>2
  <2>3. Len(l) = a
    BY <1>1
  <2> HIDE DEF d
  <2>4. DOMAIN d = 1 .. Len(d)
    BY <2>1
  <2> QED
    BY <2>1, <2>2, <2>3, <2>4
<1> HIDE DEF d
<1>4. \A k \in 1 .. (a + Len(c) - b) :
         /\ k <= a => d[k] = c[k] /\ k \in 1 .. Len(c)
         /\ k > a  => d[k] = c[b + k - a] /\ b + k - a \in 1 .. Len(c)
  <2> TAKE k \in 1 .. (a + Len(c) - b)
  <2>1. CASE k <= a
    BY <2>1, <1>0, <1>1, <1>3
  <2>2. CASE k > a
    <3>1. k - a \in 1 .. (Len(c) - b) /\ b + (k - a) = b + k - a
      BY <2>2, <1>0
    <3>2. d[k] = r[k - a]
      BY <2>2, <1>3
    <3>3. r[k - a] = c[b + (k - a)] /\ b + (k - a) \in 1 .. Len(c)
      BY <3>1, <1>2
    <3> QED
      BY <2>2, <3>1, <3>2, <3>3
  <2> QED
    BY <2>1, <2>2
<1> QED
  BY <1>3, <1>4 DEF d, l, r

(* Taking a middle piece out leaves an increasing sequence.                  *)
LEMMA SpliceIncreasing ==
    ASSUME NEW c \in Seq(Nat), Increasing(c),
           NEW a \in Nat, NEW b \in Nat, a <= b, b <= Len(c)
    PROVE  Increasing(SubSeq(c, 1, a) \o SubSeq(c, b + 1, Len(c)))
<1> DEFINE d == SubSeq(c, 1, a) \o SubSeq(c, b + 1, Len(c))
<1>0. Len(c) \in Nat
  OBVIOUS
<1>2. /\ d \in Seq(Nat)
      /\ DOMAIN d = 1 .. (a + Len(c) - b)
      /\ \A k \in 1 .. (a + Len(c) - b) :
            /\ k <= a => d[k] = c[k] /\ k \in 1 .. Len(c)
            /\ k > a  => d[k] = c[b + k - a] /\ b + k - a \in 1 .. Len(c)
  BY Splice, Zenon
<1>3. DOMAIN d = 1 .. (a + Len(c) - b)
  BY <1>2, Zenon
<1>4. \A k \in 1 .. (a + Len(c) - b) :
         /\ k <= a => d[k] = c[k] /\ k \in 1 .. Len(c)
         /\ k > a  => d[k] = c[b + k - a] /\ b + k - a \in 1 .. Len(c)
  BY <1>2, Zenon
<1> HIDE DEF d
<1>5. ASSUME NEW i \in 1 .. (a + Len(c) - b), NEW j \in 1 .. (a + Len(c) - b),
             i < j
      PROVE  d[i] < d[j]
  <2>1. DOMAIN c = 1 .. Len(c)
    BY <1>0
  <2>2. CASE j <= a
    <3>1. i <= a
      BY <2>2, <1>5
    <3> QED
      BY <2>2, <3>1, <1>4, <1>5, <2>1 DEF Increasing
  <2>3. CASE i > a
    <3>1. j > a /\ b + i - a < b + j - a
      BY <2>3, <1>5
    <3> QED
      BY <2>3, <3>1, <1>4, <2>1 DEF Increasing
  <2>4. CASE i <= a /\ j > a
    <3>1. i < b + j - a
      BY <2>4
    <3> QED
      BY <2>4, <3>1, <1>4, <2>1 DEF Increasing
  <2> QED
    BY <2>2, <2>3, <2>4
<1>6. Increasing(d)
  BY <1>3, <1>5 DEF Increasing
<1> QED
  BY <1>6 DEF d

-----------------------------------------------------------------------------
(* The inductive invariant.                                                  *)

(* The empty input is tried first: either it reproduces and is the result,   *)
(* or it is known to pass.                                                   *)
EmptyTried ==
    pc # "empty" => (<<>> \in no \/ (pc = "done" /\ current = <<>>))

(* The condition of the loop holds while it runs. *)
InLoop == pc \in {"chunk", "complement"} => Len(current) >= 2

(* At the finest granularity the chunks are single elements, and the         *)
(* complements tried so far are the removals of the first start elements.    *)
RemovalsTried ==
    (pc = "complement" /\ granularity >= Len(current)) =>
        \A k \in 0 .. (Len(current) - 1) :
            k < start => Without(current, k) \in no

IInv ==
    /\ TypeOK
    /\ StillReproduces
    /\ OrderPreserved
    /\ EmptyTried
    /\ InLoop
    /\ RemovalsTried
    /\ OneMinimal

(* Chunks are never empty, and single elements at the finest granularity. *)
LEMMA ChunkSizes ==
    ASSUME NEW a \in Nat \ {0}, NEW b \in Nat \ {0}
    PROVE  /\ DivCeil(a, b) \in Nat \ {0}
           /\ a <= b => DivCeil(a, b) = 1
<1>1. (a + b - 1) \div b \in Nat
  OBVIOUS
<1>2. (a + b - 1) \div b >= 1
  OBVIOUS
<1>3. a <= b => (a + b - 1) \div b = 1
  OBVIOUS
<1> QED
  BY <1>1, <1>2, <1>3 DEF DivCeil

(* The chunk under test lies within current. *)
LEMMA ChunkBounds ==
    ASSUME TypeOK, start < Len(current)
    PROVE  /\ ChunkSize \in Nat \ {0}
           /\ ChunkEnd \in Nat /\ start < ChunkEnd /\ ChunkEnd <= Len(current)
           /\ granularity >= Len(current) => ChunkSize = 1 /\ ChunkEnd = start + 1
           /\ Chunk \in Seq(1 .. N)
           /\ Complement \in Seq(1 .. N)
<1>1. Len(current) \in Nat \ {0} /\ granularity \in Nat \ {0} /\ start \in Nat
  BY DEF TypeOK
<1>2. /\ ChunkSize \in Nat \ {0}
      /\ granularity >= Len(current) => ChunkSize = 1
  BY <1>1, ChunkSizes DEF ChunkSize
<1>3. /\ ChunkEnd \in Nat /\ start < ChunkEnd /\ ChunkEnd <= Len(current)
      /\ ChunkSize = 1 => ChunkEnd = start + 1
  BY <1>1, <1>2 DEF ChunkEnd, Least
<1>4. Chunk \in Seq(1 .. N)
  <2>1. current \in Seq(1 .. N) /\ start + 1 \in Nat \ {0}
    BY <1>1 DEF TypeOK
  <2> QED
    BY <1>3, <2>1, Cut DEF Chunk
<1>5. Complement \in Seq(1 .. N)
  <2>1. /\ current \in Seq(1 .. N)
        /\ 1 \in Nat \ {0} /\ start <= Len(current)
        /\ ChunkEnd + 1 \in Nat \ {0} /\ Len(current) <= Len(current)
    BY <1>1, <1>3 DEF TypeOK
  <2>2. SubSeq(current, 1, start) \in Seq(1 .. N)
    BY <1>1, <2>1, Cut
  <2>3. SubSeq(current, ChunkEnd + 1, Len(current)) \in Seq(1 .. N)
    BY <1>1, <1>3, <2>1, Cut
  <2> QED
    BY <2>2, <2>3 DEF Complement
<1> QED
  BY <1>2, <1>3, <1>4, <1>5

(* Nothing can be removed from an input of at most one element but itself. *)
LEMMA ShortIsMinimal ==
    ASSUME NEW S, NEW c \in Seq(S), Len(c) < 2,
           NEW k \in 0 .. (Len(c) - 1)
    PROVE  Without(c, k) = <<>>
<1>0. PICK n \in Nat : n = Len(c)
  OBVIOUS
<1>1. n = 1 /\ k = 0
  BY <1>0
<1>2. ASSUME NEW d \in Seq(S), Len(d) = 0 PROVE d = <<>>
  BY <1>2, EmptySeq
<1>3. SubSeq(c, 1, 0) = <<>> /\ SubSeq(c, 2, 1) = <<>>
  BY <1>0, <1>1, <1>2, Cut
<1>4. <<>> \o <<>> = <<>>
  BY ConcatEmptySeq
<1> QED
  BY <1>0, <1>1, <1>3, <1>4 DEF Without

-----------------------------------------------------------------------------
LEMMA InitInv == Init => IInv
<1> SUFFICES ASSUME Init PROVE IInv
  OBVIOUS
<1>1. Input \in Seq(1 .. N) /\ DOMAIN Input = 1 .. N
  BY InputAssumption DEF Input
<1>2. \A k \in 1 .. N : Input[k] = k
  BY DEF Input
<1>3. TypeOK
  BY <1>1 DEF Init, TypeOK
<1>4. OrderPreserved
  BY <1>1, <1>2 DEF Init, OrderPreserved
<1> QED
  BY <1>3, <1>4 DEF Init, IInv, StillReproduces, EmptyTried, InLoop,
                    RemovalsTried, OneMinimal

(* A step that keeps a shorter input: the predicate answered TRUE for x.     *)
LEMMA Shrinks ==
    ASSUME IInv, NEW x \in Seq(1 .. N), Reproduces(x, TRUE), Increasing(x),
           pc \in {"chunk", "complement"},
           current' = x, pc' = LoopHead(x), start' = 0,
           granularity' \in Nat \ {0, 1}
    PROVE  IInv'
<1>1. /\ yes' = yes \cup {x} /\ no' = no /\ evals' \in {evals, evals + 1}
      /\ Len(x) \in Nat
      /\ (pc' = "chunk" /\ Len(x) >= 2) \/ (pc' = "done" /\ Len(x) < 2)
  BY DEF Reproduces, CountEvaluation, LoopHead
<1>2. TypeOK'
  BY <1>1 DEF IInv, TypeOK
<1>3. <<>> \in no
  BY DEF IInv, EmptyTried
<1>4. OneMinimal'
  <2>1. ASSUME pc' = "done", NEW k \in 0 .. (Len(x) - 1)
        PROVE  Without(x, k) \in no
    BY <1>1, <1>3, <2>1, ShortIsMinimal
  <2> QED
    BY <1>1, <2>1 DEF OneMinimal, Without
<1> QED
  BY <1>1, <1>2, <1>3, <1>4
     DEF IInv, StillReproduces, OrderPreserved, Increasing, EmptyTried, InLoop,
         RemovalsTried

(* A step that keeps the input and learns at most that more inputs pass.     *)
LEMMA Keeps ==
    ASSUME IInv, TypeOK', UNCHANGED <<current, yes>>, no \subseteq no',
           pc # "done", pc' = pc, RemovalsTried',
           pc \in {"chunk", "complement"}
    PROVE  IInv'
BY DEF IInv, StillReproduces, OrderPreserved, EmptyTried, InLoop, OneMinimal

LEMMA StepInv == IInv /\ [Next]_vars => IInv'
<1> SUFFICES ASSUME IInv, [Next]_vars PROVE IInv'
  OBVIOUS
<1>0. /\ TypeOK /\ Len(current) \in Nat
      /\ current \in Seq(Nat) /\ Increasing(current)
  <2>1. TypeOK /\ Increasing(current)
    BY DEF IInv, OrderPreserved, Increasing
  <2>2. current \in Seq(1 .. N) /\ Len(current) \in Nat
    BY <2>1 DEF TypeOK
  <2>3. (1 .. N) \subseteq Nat
    OBVIOUS
  <2>4. current \in Seq(Nat)
    BY <2>2, <2>3, SeqMonotonic
  <2> QED
    BY <2>1, <2>2, <2>4
<1>e. <<>> \in Seq(1 .. N)
  BY EmptySeq
<1>1. CASE EmptyReproduces
  <2>1. TypeOK'
    <3>1. PICK x \in Seq(1 .. N) : x = <<>>
      BY <1>e
    <3>2. /\ yes' = yes \cup {x} /\ no' = no /\ evals' \in {evals, evals + 1}
          /\ current' = x /\ pc' = "done" /\ UNCHANGED <<granularity, start>>
      BY <1>1, <3>1 DEF EmptyReproduces, CountEvaluation, Reproduces
    <3> QED
      BY <1>0, <3>2 DEF TypeOK
  <2>2. Len(<<>>) = 0 /\ DOMAIN <<>> = {}
    OBVIOUS
  <2> QED
    BY <1>1, <2>1, <2>2
       DEF EmptyReproduces, Reproduces, IInv, StillReproduces, OrderPreserved,
           EmptyTried, InLoop, RemovalsTried, OneMinimal
<1>2. CASE EmptyPasses
  <2>1. /\ UNCHANGED <<current, granularity, start, yes>>
        /\ no' = no \cup {<<>>} /\ evals' \in {evals, evals + 1}
        /\ \/ pc' = "chunk" /\ Len(current) >= 2
           \/ pc' = "done" /\ Len(current) < 2
    BY <1>0, <1>2 DEF EmptyPasses, Reproduces, CountEvaluation, LoopHead
  <2>2. TypeOK'
    <3>1. PICK x \in Seq(1 .. N) : x = <<>>
      BY <1>e
    <3>2. /\ no' = no \cup {x} /\ evals' \in {evals, evals + 1}
          /\ UNCHANGED <<current, granularity, start, yes>>
          /\ pc' \in {"chunk", "done"}
      BY <2>1, <3>1
    <3> QED
      BY <1>0, <3>2 DEF TypeOK
  <2>3. OneMinimal'
    <3>1. ASSUME pc' = "done", NEW k \in 0 .. (Len(current) - 1)
          PROVE  Without(current, k) \in no'
      BY <1>0, <2>1, <3>1, ShortIsMinimal
    <3> QED
      BY <2>1, <3>1 DEF OneMinimal, Without
  <2> QED
    BY <2>1, <2>2, <2>3
       DEF IInv, StillReproduces, OrderPreserved, EmptyTried, InLoop,
           RemovalsTried
<1>3. CASE ChunkReproduces
  <2>1. Chunk \in Seq(1 .. N)
    BY <1>0, <1>3, ChunkBounds DEF ChunkReproduces
  <2>2. Increasing(Chunk)
    <3>1. start + 1 \in Nat \ {0} /\ ChunkEnd \in Nat /\ ChunkEnd <= Len(current)
      BY <1>0, <1>3, ChunkBounds DEF ChunkReproduces, TypeOK
    <3> QED
      BY <1>0, <3>1, CutIncreasing DEF Chunk
  <2>3. PICK x \in Seq(1 .. N) : x = Chunk
    BY <2>1
  <2> QED
    BY <1>3, <2>2, <2>3, Shrinks DEF ChunkReproduces, Reproduces
<1>4. CASE ChunkPasses
  <2>1. ChunkSize \in Nat /\ Chunk \in Seq(1 .. N)
    BY <1>0, <1>4, ChunkBounds DEF ChunkPasses
  <2>2. TypeOK'
    BY <1>0, <1>4, <2>1 DEF ChunkPasses, Reproduces, CountEvaluation, TypeOK
  <2> QED
    BY <1>4, <2>2, Keeps DEF ChunkPasses, Reproduces, RemovalsTried
<1>5. CASE ChunksExhausted
  <2>1. TypeOK' /\ RemovalsTried'
    BY <1>0, <1>5 DEF ChunksExhausted, TypeOK, RemovalsTried
  <2> QED
    BY <1>5, <2>1 DEF ChunksExhausted, IInv, StillReproduces, OrderPreserved,
                      EmptyTried, InLoop, OneMinimal
<1>6. CASE ComplementReproduces
  <2>1. Complement \in Seq(1 .. N)
    BY <1>0, <1>6, ChunkBounds DEF ComplementReproduces
  <2>2. Increasing(Complement)
    <3>1. start \in Nat /\ ChunkEnd \in Nat /\ start <= ChunkEnd
          /\ ChunkEnd <= Len(current)
      BY <1>0, <1>6, ChunkBounds DEF ComplementReproduces, TypeOK
    <3> QED
      BY <1>0, <3>1, SpliceIncreasing DEF Complement
  <2>3. granularity' \in Nat \ {0, 1}
    BY <1>0, <1>6 DEF ComplementReproduces, TypeOK
  <2>4. PICK x \in Seq(1 .. N) : x = Complement
    BY <2>1
  <2> QED
    BY <1>6, <2>2, <2>3, <2>4, Shrinks DEF ComplementReproduces, Reproduces
<1>7. CASE ComplementPasses
  <2>1. /\ ChunkSize \in Nat /\ Complement \in Seq(1 .. N)
        /\ granularity >= Len(current) => ChunkSize = 1 /\ ChunkEnd = start + 1
    BY <1>0, <1>7, ChunkBounds DEF ComplementPasses
  <2>2. /\ UNCHANGED <<current, yes, granularity, pc>>
        /\ no \subseteq no' /\ no' \subseteq no \cup {Complement}
        /\ evals' \in {evals, evals + 1}
        /\ start' = start + ChunkSize
        /\ Complement \in no'
    BY <1>7 DEF ComplementPasses, Reproduces, CountEvaluation, IInv, EmptyTried
  <2>3. TypeOK'
    BY <1>0, <2>1, <2>2 DEF TypeOK
  <2>4. RemovalsTried'
    <3> SUFFICES ASSUME pc = "complement", granularity >= Len(current),
                        NEW k \in 0 .. (Len(current) - 1), k < start'
                 PROVE  Without(current, k) \in no'
      BY <2>2 DEF RemovalsTried, Without
    <3>1. CASE k < start
      BY <3>1, <2>2 DEF IInv, RemovalsTried
    <3>2. CASE k = start
      BY <3>2, <2>1, <2>2 DEF Complement, Without
    <3>3. k < start \/ k = start
      BY <1>0, <2>1, <2>2 DEF TypeOK
    <3> QED
      BY <3>1, <3>2, <3>3
  <2> QED
    BY <1>7, <2>2, <2>3, <2>4, Keeps DEF ComplementPasses
<1>8. CASE Refine
  <2>1. granularity' \in Nat \ {0, 1}
    BY <1>0, <1>8 DEF Refine, Least, TypeOK, IInv, InLoop
  <2>2. TypeOK'
    BY <1>0, <1>8, <2>1 DEF Refine, TypeOK
  <2> QED
    BY <1>8, <2>2 DEF Refine, IInv, StillReproduces, OrderPreserved,
                      EmptyTried, InLoop, RemovalsTried, OneMinimal
<1>9. CASE Stop
  <2>1. TypeOK'
    BY <1>0, <1>9 DEF Stop, TypeOK
  <2>2. \A k \in 0 .. (Len(current) - 1) : Without(current, k) \in no
    BY <1>0, <1>9 DEF Stop, IInv, RemovalsTried, TypeOK
  <2>3. OneMinimal'
    BY <1>9, <2>2 DEF Stop, OneMinimal, Without
  <2> QED
    BY <1>9, <2>1, <2>3 DEF Stop, IInv, StillReproduces, OrderPreserved,
                            EmptyTried, InLoop, RemovalsTried
<1>10. CASE UNCHANGED vars
  BY <1>10 DEF vars, IInv, TypeOK, StillReproduces, OrderPreserved, EmptyTried,
               InLoop, RemovalsTried, OneMinimal, Without
<1> QED
  BY <1>1, <1>2, <1>3, <1>4, <1>5, <1>6, <1>7, <1>8, <1>9, <1>10 DEF Next

(* What the loops of ddmin remember of the passes, in every state.           *)
THEOREM Invariance == Spec => []IInv
<1> QED
  BY InitInv, StepInv, PTL DEF Spec

(* ddmin returns an input that fails. *)
THEOREM ReturnsFailing == Spec => []StillReproduces
<1>1. IInv => StillReproduces
  BY DEF IInv
<1> QED
  BY <1>1, Invariance, PTL

(* ddmin returns a subsequence of its input. *)
THEOREM ReturnsInOrder == Spec => []OrderPreserved
<1>1. IInv => OrderPreserved
  BY DEF IInv
<1> QED
  BY <1>1, Invariance, PTL

(* What ddmin returns is 1-minimal, for every input length and predicate.    *)
THEOREM ReturnsOneMinimal == Spec => []OneMinimal
<1>1. IInv => OneMinimal
  BY DEF IInv
<1> QED
  BY <1>1, Invariance, PTL

-----------------------------------------------------------------------------
(* A run of the ledger.                                                      *)

LEMMA Smallest ==
    ASSUME NEW S \in SUBSET Nat, S # {}
    PROVE  \E m \in S : \A n \in S : m <= n
<1>1. PICK m \in S : \A n \in S : ~(<<n, m>> \in OpToRel(<, Nat))
  BY NatLessThanWellFounded, WFMin, Zenon
<1>2. ASSUME NEW n \in Nat, NEW k \in Nat, n < k PROVE <<n, k>> \in OpToRel(<, Nat)
  <2>1. <<n, k>> \in Nat \X Nat /\ <<n, k>>[1] = n /\ <<n, k>>[2] = k
    OBVIOUS
  <2> QED
    BY <1>2, <2>1, Zenon DEF OpToRel
<1>3. ASSUME NEW n \in S PROVE ~(n < m)
  BY <1>1, <1>2, Zenon
<1> QED
  BY <1>3

(* A schedule of the ledger, or what is left of one. *)
Kinds == {"None", "TransientError", "CrashRestart", "ClockSkew"}

IsSchedule(s) ==
    /\ DOMAIN s = 1 .. STEPS /\ Len(s) = STEPS
    /\ \A i \in 1 .. STEPS : s[i].kind \in Kinds

CrashAt(s, k) == s[k + 1].kind = "CrashRestart"

LEMMA OnlyCrashesDrop ==
    ASSUME NEW s, IsSchedule(s), NEW k \in 0 .. STEPS - 1
    PROVE  persisted(DeliveryOf(at(s, k))) <=> ~CrashAt(s, k)
<1>1. at(s, k) = s[k + 1] /\ s[k + 1].kind \in Kinds
  BY LedgerAssumption DEF LedgerAssumption, IsSchedule, at
<1> QED
  BY <1>1 DEF persisted, DeliveryOf, CrashAt, Kinds

(* All the deposits of the first n steps are durable if none crashed. *)
LEMMA DurableCount ==
    ASSUME NEW s, IsSchedule(s), NEW n \in 0 .. STEPS
    PROVE  /\ durable(s, n) \in Nat
           /\ durable(s, n) >= n <=> \A k \in 0 .. n - 1 : ~CrashAt(s, k)
<1> DEFINE K == {k \in 0 .. n - 1 : persisted(DeliveryOf(at(s, k)))}
<1>1. n \in Nat /\ \A k \in 0 .. n - 1 : k \in 0 .. STEPS - 1
  BY LedgerAssumption DEF LedgerAssumption
<1>2. IsFiniteSet(0 .. n - 1) /\ Cardinality(0 .. n - 1) = n
  BY <1>1, FS_Interval
<1>3. K \in SUBSET (0 .. n - 1)
  OBVIOUS
<1>4. /\ IsFiniteSet(K) /\ Cardinality(K) <= n
      /\ Cardinality(K) = n => K = 0 .. n - 1
  BY <1>2, <1>3, FS_Subset
<1>5. Cardinality(K) \in Nat
  BY <1>4, FS_CardinalityType
<1>6. K = 0 .. n - 1 <=> \A k \in 0 .. n - 1 : ~CrashAt(s, k)
  BY <1>1, OnlyCrashesDrop
<1>7. durable(s, n) = Cardinality(K)
  BY DEF durable
<1>8. Cardinality(K) >= n <=> Cardinality(K) = n
  BY <1>1, <1>4, <1>5
<1>9. Cardinality(K) = n <=> K = 0 .. n - 1
  BY <1>2, <1>4
<1> QED
  BY <1>5, <1>6, <1>7, <1>8, <1>9

(* The engine's look at one verdict. *)
LEMMA LookIsExact ==
    ASSUME NEW s, NEW k \in Nat, NEW buggy
    PROVE  LET v == Look(s, k, buggy)
               fine == durable(s, k + 1) >= acknowledged(s, k + 1, buggy)
           IN  /\ v # NoViolation <=> ~fine
               /\ v # NoViolation => v.step = k
<1> DEFINE name == "acknowledged_writes_are_durable"
           fine == durable(s, k + 1) >= acknowledged(s, k + 1, buggy)
           vs   == <<[name |-> name, holds |-> fine]>>
<1>1. Look(s, k, buggy) = check(k, vs)
  BY DEF Look
<1>2. DOMAIN vs = {1} /\ vs[1].name = name /\ vs[1].holds = fine
  OBVIOUS
<1>3. Broken(vs) = IF fine THEN {} ELSE {1}
  BY <1>2 DEF Broken
<1>4. Violation(k, name).step = k /\ Violation(k, name) # NoViolation
  BY DEF Violation, NoViolation
<1>5. CASE fine
  BY <1>1, <1>3, <1>5 DEF check
<1>6. CASE ~fine
  <2>1. FirstBroken(vs) = 1
    BY <1>3, <1>6 DEF FirstBroken
  <2>2. check(k, vs) = Violation(k, name)
    BY <1>2, <1>3, <1>6, <2>1 DEF check
  <2> QED
    BY <1>1, <1>4, <1>6, <2>2
<1> QED
  BY <1>5, <1>6

(* The buggy ledger fails exactly if there is a crash, at the first one. *)
LEMMA FailsAtFirstCrash ==
    ASSUME NEW s, IsSchedule(s)
    PROVE  LET crashes == {k \in 0 .. STEPS - 1 : CrashAt(s, k)}
               v       == run_ledger(s, TRUE)
           IN  /\ v = NoViolation <=> crashes = {}
               /\ crashes # {} => v.step \in crashes /\ \A k \in crashes : v.step <= k
<1> DEFINE crashes == {k \in 0 .. STEPS - 1 : CrashAt(s, k)}
           bad     == {k \in 0 .. STEPS - 1 : Look(s, k, TRUE) # NoViolation}
<1>1. ASSUME NEW k \in 0 .. STEPS - 1
      PROVE  k \in bad <=> \E j \in crashes : j <= k
  <2>1. k \in Nat /\ k + 1 \in 0 .. STEPS
    BY LedgerAssumption DEF LedgerAssumption
  <2>2. acknowledged(s, k + 1, TRUE) = k + 1
    BY DEF acknowledged
  <2>3. Look(s, k, TRUE) # NoViolation <=> ~(durable(s, k + 1) >= k + 1)
    BY <2>1, <2>2, LookIsExact
  <2>4. durable(s, k + 1) >= k + 1 <=> \A j \in 0 .. k : ~CrashAt(s, j)
    BY <2>1, DurableCount
  <2>5. (\E j \in crashes : j <= k) <=> \E j \in 0 .. k : CrashAt(s, j)
    <3>1. \A j \in 0 .. k : j \in 0 .. STEPS - 1 /\ j <= k
      BY <2>1, LedgerAssumption DEF LedgerAssumption
    <3>2. \A j \in 0 .. STEPS - 1 : j <= k => j \in 0 .. k
      BY <2>1, LedgerAssumption DEF LedgerAssumption
    <3> QED
      BY <3>1, <3>2
  <2> QED
    BY <2>3, <2>4, <2>5
<1>2. crashes \in SUBSET Nat /\ bad \in SUBSET Nat
  <2>1. \A k \in 0 .. STEPS - 1 : k \in Nat
    BY LedgerAssumption DEF LedgerAssumption
  <2> QED
    BY <2>1
<1>3. run_ledger(s, TRUE) = IF bad = {} THEN NoViolation ELSE Look(s, Kept(bad), TRUE)
  BY DEF run_ledger, IsSchedule
<1>4. CASE crashes = {}
  <2>1. bad = {}
    BY <1>1, <1>4
  <2> QED
    BY <1>3, <1>4, <2>1
<1>5. CASE crashes # {}
  <2>1. PICK m \in crashes : \A k \in crashes : m <= k
    BY <1>2, <1>5, Smallest
  <2>2. m \in bad /\ \A k \in bad : m <= k
    <3>1. m \in 0 .. STEPS - 1 /\ m \in Nat /\ m <= m
      BY <1>2, <2>1
    <3>2. m \in bad
      BY <1>1, <2>1, <3>1
    <3>3. ASSUME NEW k \in bad PROVE m <= k
      <4>1. PICK j \in crashes : j <= k
        BY <1>1, <3>3
      <4>2. m <= j /\ j \in Nat /\ k \in Nat
        BY <1>2, <2>1, <3>3
      <4> QED
        BY <3>1, <4>1, <4>2
    <3> QED
      BY <3>2, <3>3
  <2>3. Kept(bad) = m
    <3>1. ASSUME NEW x \in bad, \A k \in bad : x <= k PROVE x = m
      <4>1. x <= m /\ m <= x /\ x \in Nat /\ m \in Nat
        BY <1>2, <2>2, <3>1
      <4> QED
        BY <4>1
    <3> QED
      BY <2>2, <3>1 DEF Kept
  <2>4. run_ledger(s, TRUE) = Look(s, m, TRUE) /\ Look(s, m, TRUE) # NoViolation
    BY <1>3, <2>2, <2>3
  <2>5. Look(s, m, TRUE).step = m
    BY <1>2, <2>2, <2>4, LookIsExact
  <2> QED
    BY <1>5, <2>1, <2>4, <2>5
<1> QED
  BY <1>4, <1>5

(* The correct one never fails. *)
LEMMA CorrectIsDurable ==
    ASSUME NEW s, IsSchedule(s)
    PROVE  run_ledger(s, FALSE) = NoViolation
<1>1. ASSUME NEW k \in 0 .. STEPS - 1 PROVE Look(s, k, FALSE) = NoViolation
  <2>1. k \in Nat /\ k + 1 \in 0 .. STEPS
    BY LedgerAssumption DEF LedgerAssumption
  <2>2. durable(s, k + 1) >= acknowledged(s, k + 1, FALSE)
    <3>1. durable(s, k + 1) \in Nat
      BY <2>1, DurableCount
    <3> QED
      BY <3>1 DEF acknowledged
  <2> QED
    BY <2>1, <2>2, LookIsExact
<1> QED
  BY <1>1 DEF run_ledger, IsSchedule

(* A rebuilt schedule fails exactly if a crash is among the points kept.  *)
LEMMA RebuiltFails ==
    ASSUME NEW s, IsSchedule(s), NEW points \in SUBSET (1 .. N)
    PROVE  points \in Failing(s) <=>
             \E p \in points : FaultPoint(s, p) \in 0 .. STEPS - 1 /\ CrashAt(s, FaultPoint(s, p))
<1> DEFINE kept == {FaultPoint(s, p) : p \in points}
           r    == Rebuild(s, points)
<1>0. r = [i \in DOMAIN s |-> IF i - 1 \in kept THEN s[i] ELSE Quiet]
  BY Zenon DEF Rebuild
<1>1. r = [i \in 1 .. STEPS |-> IF i - 1 \in kept THEN s[i] ELSE Quiet]
  BY <1>0, Zenon DEF IsSchedule
<1>2. Quiet.kind = "None"
  BY DEF Quiet, Fault
<1>3. IsSchedule(r)
  <2>1. r \in Seq({s[i] : i \in 1 .. STEPS} \cup {Quiet}) /\ Len(r) = STEPS
    BY <1>1, LedgerAssumption DEF LedgerAssumption
  <2> QED
    BY <1>1, <1>2, <2>1 DEF IsSchedule, Kinds
<1>4. ASSUME NEW k \in 0 .. STEPS - 1
      PROVE  CrashAt(r, k) <=> k \in kept /\ CrashAt(s, k)
  <2>1. k + 1 \in 1 .. STEPS /\ (k + 1) - 1 = k
    BY LedgerAssumption DEF LedgerAssumption
  <2> QED
    BY <1>1, <1>2, <2>1 DEF CrashAt
<1>5. points \in Failing(s) <=> run_ledger(r, TRUE) # NoViolation
  <2>1. Failing(s) = {q \in SUBSET (1 .. N) : run_ledger(Rebuild(s, q), TRUE) # NoViolation}
    BY Zenon DEF Failing
  <2> QED
    BY <2>1, Zenon
<1>6. points \in Failing(s) <=> \E k \in 0 .. STEPS - 1 : CrashAt(r, k)
  BY <1>3, <1>5, FailsAtFirstCrash
<1> QED
  BY <1>4, <1>6

-----------------------------------------------------------------------------
(* What ddmin leaves of a schedule of the ledger.                            *)

(* The schedule is one, and failing is what its runs come to. *)
ScheduleFits == Harness => IsSchedule(schedule) /\ failing = Failing(schedule)

(* The predicate has answered as the ledger does.  The whole input is the    *)
(* schedule that failed.                                                     *)
AnswersMatch ==
    Harness =>
        /\ \A x \in yes : x = Input \/ reproduces(x)
        /\ \A x \in no : ~reproduces(x)
        /\ pc # "empty" => 1 .. N \in failing

LedgerInv == IInv /\ ScheduleFits /\ AnswersMatch

LEMMA InitLedgerInv == LedgerInit => LedgerInv
<1> SUFFICES ASSUME LedgerInit PROVE LedgerInv
  OBVIOUS
<1>1. IInv
  BY InitInv DEF LedgerInit
<1>2. ScheduleFits
  <2> SUFFICES ASSUME Harness PROVE IsSchedule(schedule) /\ failing = Failing(schedule)
    BY DEF ScheduleFits
  <2>1. schedule \in [1 .. STEPS -> Faults \cup {Quiet}] /\ failing = Failing(schedule)
    BY Zenon DEF LedgerInit, Harness
  <2>2. DOMAIN schedule = 1 .. STEPS /\ Len(schedule) = STEPS
    BY <2>1, LedgerAssumption DEF LedgerAssumption
  <2>3. \A f \in Faults \cup {Quiet} : f.kind \in Kinds
    BY LedgerAssumption DEF LedgerAssumption, Kinds, Quiet, Fault
  <2>4. \A i \in 1 .. STEPS : schedule[i] \in Faults \cup {Quiet}
    BY <2>1
  <2> QED
    BY <2>1, <2>2, <2>3, <2>4 DEF IsSchedule
<1>3. AnswersMatch
  BY DEF LedgerInit, Init, AnswersMatch
<1> QED
  BY <1>1, <1>2, <1>3 DEF LedgerInv

LEMMA StepLedgerInv ==
    LedgerInv /\ [LedgerNext]_<<vars, schedule, failing>> => LedgerInv'
<1> SUFFICES ASSUME LedgerInv, [LedgerNext]_<<vars, schedule, failing>>
             PROVE  LedgerInv'
  OBVIOUS
<1>1. IInv'
  BY StepInv DEF LedgerInv, LedgerNext
<1>2. schedule' = schedule /\ failing' = failing /\ Harness' = Harness
  BY DEF LedgerNext, Harness
<1>3. ScheduleFits'
  BY <1>2 DEF LedgerInv, ScheduleFits
<1>4. AnswersMatch'
  <2>1. CASE LedgerNext
    BY <1>2, <2>1 DEF LedgerInv, LedgerNext, AnswersMatch, reproduces
  <2>2. CASE UNCHANGED <<vars, schedule, failing>>
    BY <1>2, <2>2 DEF LedgerInv, AnswersMatch, reproduces, vars
  <2> QED
    BY <2>1, <2>2
<1> QED
  BY <1>1, <1>3, <1>4 DEF LedgerInv

LEMMA Elements ==
    ASSUME NEW S, NEW x \in Seq(S)
    PROVE  {x[k] : k \in DOMAIN x} \in SUBSET S
<1>1. DOMAIN x = 1 .. Len(x)
  OBVIOUS
<1>2. \A k \in 1 .. Len(x) : x[k] \in S
  OBVIOUS
<1> QED
  BY <1>1, <1>2, Zenon

(* A removal keeps every element but the one removed. *)
LEMMA WithoutKeeps ==
    ASSUME NEW S, NEW c \in Seq(S), NEW j \in 0 .. (Len(c) - 1),
           NEW k \in 1 .. Len(c), k # j + 1
    PROVE  LET d == Without(c, j)
           IN  d \in Seq(S) /\ \E i \in DOMAIN d : d[i] = c[k]
<1> DEFINE d == Without(c, j)
<1>1. PICK n \in Nat : n = Len(c)
  OBVIOUS
<1>2. j \in Nat /\ j + 1 \in Nat /\ j <= j + 1 /\ j + 1 <= Len(c) /\ (j + 1) + 1 = j + 2
  BY <1>1
<1>3. /\ d \in Seq(S)
      /\ DOMAIN d = 1 .. (j + Len(c) - (j + 1))
      /\ \A i \in 1 .. (j + Len(c) - (j + 1)) :
            /\ i <= j => d[i] = c[i]
            /\ i > j  => d[i] = c[(j + 1) + i - j]
  <2> DEFINE b == j + 1
             e == SubSeq(c, 1, j) \o SubSeq(c, b + 1, Len(c))
  <2>1. d = e
    BY <1>2, Zenon DEF Without
  <2>2. j \in Nat /\ b \in Nat /\ j <= b /\ b <= Len(c)
    BY <1>2
  <2> HIDE DEF b
  <2>3. /\ e \in Seq(S)
        /\ DOMAIN e = 1 .. (j + Len(c) - b)
        /\ \A i \in 1 .. (j + Len(c) - b) :
              /\ i <= j => e[i] = c[i] /\ i \in 1 .. Len(c)
              /\ i > j  => e[i] = c[b + i - j] /\ b + i - j \in 1 .. Len(c)
    BY <2>2, Splice, Zenon
  <2> HIDE DEF d, e
  <2> QED
    BY <2>1, <2>3, Zenon DEF b
<1> HIDE DEF d
<1>4. CASE k <= j
  <2>1. k \in 1 .. (j + Len(c) - (j + 1))
    BY <1>1, <1>4
  <2> QED
    BY <1>3, <1>4, <2>1 DEF d
<1>5. CASE k > j
  <2>1. k - 1 \in 1 .. (j + Len(c) - (j + 1)) /\ k - 1 > j /\ (j + 1) + (k - 1) - j = k
    BY <1>1, <1>5
  <2>2. d[k - 1] = c[k] /\ k - 1 \in DOMAIN d
    BY <1>3, <2>1
  <2> QED
    BY <1>3, <2>2 DEF d
<1> QED
  BY <1>1, <1>4, <1>5

LEMMA CrashesAre ==
    ASSUME IsSchedule(schedule)
    PROVE  Crashes = {k \in 0 .. STEPS - 1 : CrashAt(schedule, k)}
<1>1. ASSUME NEW k \in 0 .. STEPS - 1
      PROVE  at(schedule, k) = schedule[k + 1]
  BY LedgerAssumption DEF LedgerAssumption, IsSchedule, at
<1> QED
  BY <1>1 DEF Crashes, fault_steps, IsFault, CrashAt, IsSchedule

(* What is left when ddmin returns. *)
LEMMA OneCrashIsLeft ==
    ASSUME LedgerInv, Harness, pc = "done"
    PROVE  /\ Len(current) = 1
           /\ FaultPoint(schedule, current[1]) \in Crashes
<1> DEFINE elems(x) == {x[k] : k \in DOMAIN x}
<1>1. /\ current \in Seq(1 .. N) /\ current \in yes
      /\ IsSchedule(schedule) /\ failing = Failing(schedule)
      /\ 1 .. N \in failing
      /\ \A x \in yes : x = Input \/ reproduces(x)
      /\ \A x \in no : ~reproduces(x)
      /\ \A k \in 0 .. (Len(current) - 1) : Without(current, k) \in no
  BY DEF LedgerInv, IInv, TypeOK, StillReproduces, OneMinimal, ScheduleFits, AnswersMatch
<1>2. \A x : reproduces(x) <=> elems(x) \in Failing(schedule)
  BY <1>1, Zenon DEF reproduces
<1>3. \A x \in Seq(1 .. N) : elems(x) \in SUBSET (1 .. N)
  BY Elements, Zenon
<1>4. elems(Input) = 1 .. N
  BY InputAssumption DEF Input
<1>5. elems(current) \in Failing(schedule)
  BY <1>1, <1>2, <1>4, Zenon
<1>6. PICK p \in elems(current) :
         FaultPoint(schedule, p) \in 0 .. STEPS - 1 /\ CrashAt(schedule, FaultPoint(schedule, p))
  BY <1>1, <1>3, <1>5, RebuiltFails
<1>7. PICK k \in 1 .. Len(current) : current[k] = p
  BY <1>1, <1>6
<1>8. PICK n \in Nat : n = Len(current)
  BY <1>1
<1>9. ASSUME NEW j \in 0 .. (Len(current) - 1), k # j + 1
      PROVE  FALSE
  <2> DEFINE d == Without(current, j)
  <2>1. d \in Seq(1 .. N) /\ \E i \in DOMAIN d : d[i] = p
    BY <1>1, <1>7, <1>9, WithoutKeeps
  <2>2. p \in elems(d) /\ elems(d) \in SUBSET (1 .. N)
    BY <2>1, <1>3
  <2>3. elems(d) \in Failing(schedule)
    BY <1>1, <1>6, <2>2, RebuiltFails
  <2>4. d \in no
    BY <1>1
  <2> QED
    BY <1>1, <1>2, <2>3, <2>4, Zenon
<1>10. n = 1
  <2>1. CASE k = 1 /\ n > 1
    BY <1>8, <1>9, <2>1
  <2>2. CASE k > 1
    BY <1>8, <1>9, <2>2
  <2> QED
    BY <1>7, <1>8, <2>1, <2>2
<1>11. current[1] = p /\ Len(current) = 1
  BY <1>7, <1>8, <1>10
<1>12. FaultPoint(schedule, p) \in Crashes
  BY <1>1, <1>6, CrashesAre
<1> QED
  BY <1>11, <1>12

LEMMA LedgerIsBlamed == LedgerInv => BlamesTheCrash
<1> SUFFICES ASSUME LedgerInv, Harness
             PROVE  /\ FailsExactlyAtTheFirstCrash /\ CorrectSurvives
                    /\ ShrinksToOneCrash
  BY DEF BlamesTheCrash
<1>1. IsSchedule(schedule)
  BY DEF LedgerInv, ScheduleFits
<1>2. FailsExactlyAtTheFirstCrash
  BY <1>1, FailsAtFirstCrash, CrashesAre DEF FailsExactlyAtTheFirstCrash
<1>3. CorrectSurvives
  BY <1>1, CorrectIsDurable DEF CorrectSurvives
<1>4. ShrinksToOneCrash
  BY OneCrashIsLeft DEF ShrinksToOneCrash
<1> QED
  BY <1>2, <1>3, <1>4

(* The buggy ledger fails exactly if its schedule has a crash, at the first  *)
(* one, the correct ledger never does, and ddmin shrinks a failing schedule  *)
(* to one fault point, a crash: whatever the schedule's length and faults.   *)
THEOREM ACrashIsBlamed == LedgerSpec => []BlamesTheCrash
<1> QED
  BY InitLedgerInv, StepLedgerInv, LedgerIsBlamed, PTL DEF LedgerSpec
=============================================================================
