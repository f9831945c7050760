----------------------------- MODULE ProvidersProofs -----------------------------
(*****************************************************************************)
(* Proofs about the providers.  SimulatedRandom, for any threads, any stream *)
(* and any widths of the counter's byte and of what the variant bits leave   *)
(* of it; SimulatedTime, for any tasks, any width of the clock, any largest  *)
(* Instant and any durations.                                                *)
(*****************************************************************************)
EXTENDS MCProviders, WellFoundedInduction, TLAPS

-----------------------------------------------------------------------------
(* Arithmetic: numbers less than m apart do not agree modulo m.              *)
LEMMA ApartModulo ==
    ASSUME NEW m \in Nat \ {0}, NEW a \in Nat, NEW b \in Nat,
           a < b, b - a < m
    PROVE  a % m # b % m
<1> DEFINE p == a \div m
           q == b \div m
<1>1. a = m * p + (a % m) /\ b = m * q + (b % m) /\ p \in Int /\ q \in Int
  OBVIOUS
<1>2. SUFFICES ASSUME a % m = b % m PROVE FALSE
  OBVIOUS
<1> HIDE DEF p, q
<1>3. b - a = m * q - m * p
  BY <1>1, <1>2
<1>4. m * q - m * p = m * (q - p)
  BY <1>1
<1>5. CASE q - p >= 1
  <2>1. m * (q - p) >= m
    BY <1>5, <1>1
  <2> QED
    BY <2>1, <1>3, <1>4, <1>1
<1>6. CASE q - p <= 0
  <2>1. m * (q - p) <= 0
    BY <1>6, <1>1
  <2> QED
    BY <2>1, <1>3, <1>4, <1>1
<1> QED
  BY <1>1, <1>5, <1>6

(* A remainder and a quotient are recovered from their combination.          *)
LEMMA Digits ==
    ASSUME NEW m \in Nat \ {0}, NEW r \in 0 .. m - 1, NEW s \in 0 .. m - 1,
           NEW x \in Nat, NEW y \in Nat,
           r + m * x = s + m * y
    PROVE  r = s
<1>1. m * (x - y) = s - r
  OBVIOUS
<1>2. CASE x - y >= 1
  <2>1. m * (x - y) >= m
    BY <1>2
  <2> QED
    BY <2>1, <1>1
<1>3. CASE x - y <= -1
  <2>1. m * (x - y) <= -m
    BY <1>3
  <2> QED
    BY <2>1, <1>1
<1>4. CASE x = y
  BY <1>4
<1> QED
  BY <1>2, <1>3, <1>4

(* The variant bits leave enough of the counter to tell neighbours apart.    *)
LEMMA MaskedApart ==
    ASSUME RandomAssumption, NEW a \in Nat, NEW b \in Nat, a < b, b - a < Low
    PROVE  Masked(a) # Masked(b)
<1>1. Low \in Nat \ {0} /\ Byte \in Nat \ {0}
  BY RandomAssumption
<1>2. a % Low # b % Low
  BY <1>1, ApartModulo
<1>3. a % Low \in 0 .. Low - 1 /\ b % Low \in 0 .. Low - 1
  BY <1>1
<1>4. a \div Byte \in Nat /\ b \div Byte \in Nat
  BY <1>1
<1> QED
  BY <1>1, <1>2, <1>3, <1>4, Digits DEF Masked

-----------------------------------------------------------------------------
(* Only the holder of the mutex is inside next_uuid().                       *)
Exclusive == \A t \in Threads : pc[t] # "idle" <=> lock = t

(* What was issued is in the past of the stream and of the counter, and made *)
(* from both; the counter a thread is about to use is newer.                 *)
Past ==
    /\ \A u \in issued :
        /\ u.draw <= drawn
        /\ u.counter < uuid_counter
        /\ u.uuid[2] = Masked(u.counter)
    /\ \A t \in Threads : pc[t] = "counted" =>
        /\ counter[t] < uuid_counter
        /\ \A u \in issued : u.counter < counter[t]

IInv == TypeOK /\ Exclusive /\ Past /\ PairedInOrder

LEMMA MaskedType ==
    ASSUME NEW c \in Nat PROVE Masked(c) \in Nat
<1>1. Low \in Nat \ {0} /\ Byte \in Nat \ {0}
  BY RandomAssumption
<1>2. c % Low \in Nat /\ c \div Byte \in Nat
  BY <1>1
<1> QED
  BY <1>1, <1>2 DEF Masked

LEMMA Initial == Init => IInv
BY RandomAssumption DEF Init, IInv, TypeOK, Exclusive, Past, PairedInOrder, Draws

(* A drawn UUID is the newest one in both orders.                            *)
LEMMA DrawPreserves ==
    ASSUME IInv, NEW t \in Threads, DrawAndUnlock(t)
    PROVE  IInv'
<1> DEFINE new == [draw |-> drawn + 1, counter |-> counter[t],
                   uuid |-> <<stream[drawn + 1], Masked(counter[t])>>]
<1> USE RandomAssumption
<1>1. drawn \in Nat /\ drawn + 1 \in Draws /\ counter[t] \in Nat
      /\ drawn' = drawn + 1 /\ issued' = issued \cup {new}
  BY DEF IInv, TypeOK, Draws, DrawAndUnlock
<1>2. stream[drawn + 1] \in Words /\ Masked(counter[t]) \in Nat
  BY <1>1, MaskedType DEF IInv, TypeOK
<1>3. new \in [draw: Draws, counter: Nat, uuid: UUID]
  BY <1>1, <1>2 DEF UUID
<1>4. TypeOK'
  BY <1>1, <1>3 DEF IInv, TypeOK, DrawAndUnlock
<1>5. Exclusive'
  BY DEF IInv, TypeOK, Exclusive, DrawAndUnlock
<1>6. \A u \in issued : u.draw < new.draw /\ u.counter < new.counter
  BY <1>1 DEF IInv, TypeOK, Past, Draws, DrawAndUnlock
<1>7. Past'
  <2>1. \A u \in issued' : u.draw <= drawn' /\ u.counter < uuid_counter'
                           /\ u.uuid[2] = Masked(u.counter)
    BY <1>1 DEF IInv, TypeOK, Past, Draws, DrawAndUnlock
  <2>2. \A d \in Threads : pc'[d] # "counted"
    BY DEF IInv, TypeOK, Exclusive, DrawAndUnlock
  <2> QED
    BY <2>1, <2>2 DEF Past
<1>8. PairedInOrder'
  <2>1. SUFFICES ASSUME NEW u \in issued', NEW v \in issued', u.draw < v.draw
                 PROVE  u.counter < v.counter
    BY DEF PairedInOrder
  <2>2. CASE u \in issued /\ v \in issued
    BY <2>1, <2>2 DEF IInv, PairedInOrder
  <2>3. CASE u \in issued /\ v = new
    BY <2>3, <1>6
  <2>4. CASE u = new
    <3>1. v.draw <= new.draw
      BY <1>1, <1>6, <1>3 DEF IInv, TypeOK, Draws
    <3> QED
      BY <2>1, <2>4, <3>1, <1>1, <1>3 DEF IInv, TypeOK, Draws
  <2> QED
    BY <1>1, <2>2, <2>3, <2>4
<1> QED
  BY <1>4, <1>5, <1>7, <1>8 DEF IInv

LEMMA StepPreserves == IInv /\ [Next]_vars => IInv'
<1> SUFFICES ASSUME IInv, [Next]_vars PROVE IInv'
  OBVIOUS
<1> USE RandomAssumption
<1>1. ASSUME NEW t \in Threads, next_u64(t) PROVE IInv'
  BY <1>1 DEF IInv, TypeOK, Exclusive, Past, PairedInOrder, Draws, next_u64
<1>2. ASSUME NEW t \in Threads, Lock(t) PROVE IInv'
  <2>1. TypeOK' /\ PairedInOrder'
    BY <1>2 DEF IInv, TypeOK, PairedInOrder, Lock
  <2>2. Exclusive'
    BY <1>2 DEF IInv, TypeOK, Exclusive, Lock
  <2>3. Past'
    BY <1>2 DEF IInv, TypeOK, Past, Lock
  <2> QED
    BY <2>1, <2>2, <2>3 DEF IInv
<1>3. ASSUME NEW t \in Threads, FetchCounter(t) PROVE IInv'
  <2>1. TypeOK' /\ PairedInOrder'
    BY <1>3 DEF IInv, TypeOK, PairedInOrder, FetchCounter
  <2>2. Exclusive'
    BY <1>3 DEF IInv, TypeOK, Exclusive, FetchCounter
  <2>3. \A d \in Threads : pc'[d] = "counted" => d = t
    BY <1>3 DEF IInv, TypeOK, Exclusive, FetchCounter
  <2>4. counter'[t] = uuid_counter /\ uuid_counter' = uuid_counter + 1
        /\ issued' = issued /\ drawn' = drawn
    BY <1>3 DEF IInv, TypeOK, FetchCounter
  <2>5. Past'
    BY <2>3, <2>4 DEF IInv, TypeOK, Past
  <2> QED
    BY <2>1, <2>2, <2>5 DEF IInv
<1>4. CASE UNCHANGED vars
  BY <1>4 DEF IInv, TypeOK, Exclusive, Past, PairedInOrder, vars
<1> QED
  BY <1>1, <1>2, <1>3, <1>4, DrawPreserves DEF Next

(* The inductive invariant holds in every reachable state.                   *)
THEOREM Invariance == Spec => []IInv
BY Initial, StepPreserves, PTL DEF Spec

(* However many threads call next_uuid(), counter values and draws pair up   *)
(* in one order (random.rs, the comment at the lock in next_uuid).           *)
THEOREM PairsKept == Spec => []PairedInOrder
<1>1. IInv => PairedInOrder
  BY DEF IInv
<1> QED
  BY <1>1, Invariance, PTL

(* For every stream, UUIDs of calls less than Low apart differ, although the *)
(* variant bits overwrite part of the counter.                               *)
THEOREM NeighboursDiffer == Spec => []DistinctNearby
<1>1. IInv => DistinctNearby
  <2>1. SUFFICES ASSUME IInv, NEW u \in issued, NEW v \in issued,
                        u.counter < v.counter, v.counter - u.counter < Low
                 PROVE  u.uuid # v.uuid
    BY DEF DistinctNearby
  <2>2. u.counter \in Nat /\ v.counter \in Nat
    BY <2>1 DEF IInv, TypeOK
  <2>3. u.uuid[2] = Masked(u.counter) /\ v.uuid[2] = Masked(v.counter)
    BY <2>1 DEF IInv, Past
  <2> QED
    BY <2>1, <2>2, <2>3, MaskedApart, RandomAssumption
<1> QED
  BY <1>1, Invariance, PTL

-----------------------------------------------------------------------------
(* The binary search for the largest representable Instant.                  *)

LEMMA SmallestOf ==
    ASSUME NEW S \in SUBSET Nat, S # {}
    PROVE  \E m \in S : \A n \in S : m <= n
<1>1. PICK m \in S : \A n \in S : ~(<<n, m>> \in OpToRel(<, Nat))
  BY NatLessThanWellFounded, WFMin, Zenon
<1>2. ASSUME NEW n \in Nat, NEW k \in Nat, n < k PROVE <<n, k>> \in OpToRel(<, Nat)
  <2>1. <<n, k>> \in Nat \X Nat /\ <<n, k>>[1] = n /\ <<n, k>>[2] = k
    OBVIOUS
  <2> QED
    BY <1>2, <2>1, Zenon DEF OpToRel
<1>3. ASSUME NEW n \in S PROVE ~(n < m)
  BY <1>1, <1>2, Zenon
<1> QED
  BY <1>3

LEMMA Middle ==
    ASSUME NEW lo \in Nat, NEW hi \in Nat, hi - lo > 1
    PROVE  \E mid \in Nat : mid = lo + (hi - lo) \div 2 /\ lo < mid /\ mid < hi
OBVIOUS

Ranges == (0 .. T!MaxU) \X (0 .. T!MaxU)

(* One turn of the search, which goes on as f says. *)
Turn(f, r) ==
    LET lo  == r[1]
        hi  == r[2]
        mid == lo + (hi - lo) \div 2
    IN  IF hi - lo <= 1 THEN lo
        ELSE IF T!Representable(mid) THEN f[<<mid, hi>>] ELSE f[<<lo, mid>>]

(* The recursive definition has a solution: what the search finds between    *)
(* any two offsets, representable or not.                                    *)
LEMMA SearchTurns == T!Search = [r \in Ranges |-> Turn(T!Search, r)]
<1> DEFINE f == [r \in Ranges |->
                    IF r[2] - r[1] <= 1 THEN r[1]
                    ELSE IF T!Representable(r[2]) THEN r[2] - 1
                    ELSE IF T!Representable(r[1]) THEN MaxInstant ELSE r[1]]
<1>1. ASSUME NEW r \in Ranges PROVE f[r] = Turn(f, r)
  <2>0. MaxInstant \in Nat /\ T!MaxU \in Nat
     BY ProvidersAssumption DEF T!TimeAssumption, T!MaxU
  <2>1. PICK lo \in 0 .. T!MaxU, hi \in 0 .. T!MaxU : r = <<lo, hi>>
    BY DEF Ranges
  <2>2. CASE hi - lo <= 1
    BY <2>1, <2>2 DEF Turn
  <2>3. CASE hi - lo > 1
    <3>1. PICK mid \in 0 .. T!MaxU : mid = lo + (hi - lo) \div 2 /\ lo < mid /\ mid < hi
      BY <2>0, <2>3, Middle
    <3>2. <<lo, mid>> \in Ranges /\ <<mid, hi>> \in Ranges
      BY DEF Ranges
    <3>3. Turn(f, r) = IF T!Representable(mid) THEN f[<<mid, hi>>] ELSE f[<<lo, mid>>]
      BY <2>1, <2>3, <3>1 DEF Turn
    <3>4. f[r] = IF T!Representable(hi) THEN hi - 1
                 ELSE IF T!Representable(lo) THEN MaxInstant ELSE lo
      BY <2>1, <2>3
    <3>5. f[<<mid, hi>>] = IF hi - mid <= 1 THEN mid
                           ELSE IF T!Representable(hi) THEN hi - 1
                           ELSE IF T!Representable(mid) THEN MaxInstant ELSE mid
      BY <3>2
    <3>6. f[<<lo, mid>>] = IF mid - lo <= 1 THEN lo
                           ELSE IF T!Representable(mid) THEN mid - 1
                           ELSE IF T!Representable(lo) THEN MaxInstant ELSE lo
      BY <3>2
    <3> HIDE DEF f
    <3> QED
      BY <2>0, <3>1, <3>3, <3>4, <3>5, <3>6 DEF T!Representable
  <2> QED
    BY <2>1, <2>2, <2>3
<1>2. f = [r \in Ranges |-> Turn(f, r)]
  BY <1>1
<1> HIDE DEF f
<1>3. T!Search = CHOOSE g : g = [r \in Ranges |-> Turn(g, r)]
  BY Zenon DEF T!Search, Ranges, Turn
<1> QED
  BY <1>2, <1>3, Zenon

(* The search finds the largest representable Instant: by the shortest range *)
(* between a representable offset and one that is not on which it does not.  *)
LEMMA SearchFinds ==
    ASSUME NEW a \in 0 .. T!MaxU, NEW b \in 0 .. T!MaxU,
           T!Representable(a), ~T!Representable(b)
    PROVE  T!Search[<<a, b>>] = MaxInstant
<1> USE ProvidersAssumption DEF T!TimeAssumption
<1>0. MaxInstant \in Nat /\ T!MaxU \in Nat
  BY DEF T!MaxU
<1> DEFINE Missed(lo, hi) ==
               /\ T!Representable(lo) /\ ~T!Representable(hi)
               /\ T!Search[<<lo, hi>>] # MaxInstant
           spans == {d \in Nat : \E lo \in 0 .. T!MaxU, hi \in 0 .. T!MaxU :
                                      d = hi - lo /\ Missed(lo, hi)}
<1>1. \A lo, hi \in 0 .. T!MaxU : Missed(lo, hi) => hi - lo \in spans
  <2> SUFFICES ASSUME NEW lo \in 0 .. T!MaxU, NEW hi \in 0 .. T!MaxU, Missed(lo, hi)
               PROVE  hi - lo \in spans
    BY Zenon
  <2>1. hi - lo \in Nat
    BY <1>0 DEF T!Representable
  <2> HIDE DEF Missed
  <2> QED
    BY <2>1, Zenon
<1>2. spans = {}
  <2> SUFFICES ASSUME spans # {} PROVE FALSE
    OBVIOUS
  <2>1. PICK d \in spans : \A e \in spans : d <= e
    BY SmallestOf
  <2>2. PICK lo \in 0 .. T!MaxU, hi \in 0 .. T!MaxU : d = hi - lo /\ Missed(lo, hi)
    BY <2>1
  <2>3. T!Search[<<lo, hi>>] = Turn(T!Search, <<lo, hi>>)
    <3>1. <<lo, hi>> \in Ranges
      BY DEF Ranges
    <3> QED
      BY <3>1, SearchTurns, Zenon
  <2>4. CASE hi - lo <= 1
    <3>1. T!Search[<<lo, hi>>] = lo
      BY <2>3, <2>4 DEF Turn
    <3> QED
      BY <1>0, <2>2, <2>4, <3>1 DEF T!Representable
  <2>5. CASE hi - lo > 1
    <3>1. PICK mid \in 0 .. T!MaxU : mid = lo + (hi - lo) \div 2 /\ lo < mid /\ mid < hi
      BY <1>0, <2>5, Middle
    <3>2. T!Search[<<lo, hi>>] =
             IF T!Representable(mid) THEN T!Search[<<mid, hi>>] ELSE T!Search[<<lo, mid>>]
      BY <2>3, <2>5, <3>1 DEF Turn
    <3>3. Missed(mid, hi) \/ Missed(lo, mid)
      BY <2>2, <3>2
    <3>4. hi - mid \in spans \/ mid - lo \in spans
      BY <1>1, <3>1, <3>3
    <3> HIDE DEF spans
    <3> QED
      BY <1>0, <2>1, <2>2, <3>1, <3>4
  <2> QED
    BY <1>0, <2>4, <2>5
<1> QED
  BY <1>1, <1>2

(* An addition to the real Instant that overflows gives the largest one. *)
LEMMA Instants ==
    ASSUME NEW e \in 0 .. MaxI
    PROVE  T!InstantAt(e) = IF e <= MaxInstant THEN e ELSE MaxInstant
<1> USE ProvidersAssumption DEF T!TimeAssumption
<1>1. CASE e <= MaxInstant
  BY <1>1 DEF T!InstantAt, T!Representable
<1>2. CASE ~(e <= MaxInstant)
  <2>1. /\ 0 \in 0 .. T!MaxU /\ T!MaxU \in 0 .. T!MaxU
        /\ T!Representable(0) /\ ~T!Representable(T!MaxU)
    BY <1>2 DEF T!MaxU, T!Representable
  <2>2. T!Search[<<0, T!MaxU>>] = MaxInstant
    BY <2>1, SearchFinds
  <2> QED
    BY <1>2, <2>1, <2>2 DEF T!InstantAt, T!max_representable_instant, T!Representable
<1> QED
  BY <1>1, <1>2

-----------------------------------------------------------------------------
(* SimulatedTime.                                                            *)

LEMMA Clocks ==
    /\ T!Clock \subseteq Int /\ StartMs \in T!Clock /\ 0 \in T!Clock
    /\ \A x \in Int : T!Saturate(x) \in T!Clock /\ T!Wrap(x) \in T!Clock
    /\ \A c \in T!Clock : T!ElapsedAt(c) \in 0 .. MaxI
<1> USE ProvidersAssumption DEF T!TimeAssumption
<1>1. MaxI \in Nat /\ T!MinI = -MaxI - 1 /\ T!Clock = T!MinI .. MaxI
  BY DEF T!MinI, T!Clock
<1>5. T!Clock \subseteq Int /\ 0 \in T!Clock
  BY <1>1
<1>6. StartMs \in T!Clock
  OBVIOUS
<1>2. ASSUME NEW x \in Int PROVE T!Wrap(x) \in T!Clock
  <2>1. PICK m \in Nat \ {0} : m = 2 * (MaxI + 1)
    BY <1>1
  <2>2. PICK y \in Int : y = x - T!MinI
    BY <1>1, <1>2
  <2>3. y % m \in 0 .. m - 1
    BY <2>1, <2>2
  <2>4. T!Wrap(x) = (y % m) + T!MinI
    BY <2>1, <2>2 DEF T!Wrap
  <2> QED
    BY <1>1, <2>1, <2>3, <2>4
<1>3. ASSUME NEW x \in Int PROVE T!Saturate(x) \in T!Clock
  BY <1>1 DEF T!Saturate
<1>4. ASSUME NEW c \in T!Clock PROVE T!ElapsedAt(c) \in 0 .. MaxI
  <2>1. c - StartMs \in Int
    BY <1>5, <1>6
  <2> QED
    BY <1>1, <1>3, <2>1 DEF T!ElapsedAt, T!Larger
<1> QED
  BY <1>2, <1>3, <1>4, <1>5, <1>6, Zenon

(* Nothing that was returned, or was when a call began, is ahead of the mark *)
(* as an Instant; no receiver has seen a version that is still to come.      *)
Returned ==
    /\ returned <= T!InstantAt(hwm)
    /\ \A t \in Tasks : floor[t] <= returned

Seen == \A t \in Tasks : seen[t] <= version

TimeInv == T!TypeOK /\ Returned /\ Seen /\ T!NoMissedChange

LEMMA TimeInitial == T!Init => TimeInv
<1> USE ProvidersAssumption DEF T!TimeAssumption
<1> SUFFICES ASSUME T!Init PROVE TimeInv
  OBVIOUS
<1>1. T!TypeOK
  BY Clocks DEF T!Init, T!TypeOK
<1>2. Returned
  BY Instants DEF T!Init, Returned
<1> QED
  BY <1>1, <1>2 DEF T!Init, TimeInv, Seen, T!NoMissedChange

(* The clock moves: every receiver has a change to see. *)
LEMMA MovePreserves ==
    ASSUME TimeInv, NEW c \in T!Clock, T!MoveTo(c) PROVE TimeInv'
<1> USE ProvidersAssumption DEF T!TimeAssumption
<1>1. T!TypeOK'
  BY DEF TimeInv, T!TypeOK, T!MoveTo, T!sleep, T!instant
<1>2. UNCHANGED <<returned, hwm, floor, seen>> /\ version' = version + 1
  BY DEF T!MoveTo, T!sleep, T!instant
<1>3. Returned'
  BY <1>2 DEF TimeInv, Returned, T!InstantAt
<1>4. \A t \in Tasks : seen'[t] < version'
  BY <1>2 DEF TimeInv, Seen, T!TypeOK
<1> QED
  BY <1>1, <1>3, <1>4 DEF TimeInv, Seen, T!NoMissedChange, T!TypeOK

LEMMA ReadPreserves ==
    ASSUME TimeInv, NEW t \in Tasks, T!ReadClock(t) PROVE TimeInv'
<1> USE ProvidersAssumption DEF T!TimeAssumption
<1>1. T!ElapsedAt(clock) \in 0 .. MaxI
  BY Clocks DEF TimeInv, T!TypeOK
<1>2. T!TypeOK'
  BY <1>1 DEF TimeInv, T!TypeOK, T!ReadClock, T!sleep
<1>3. Returned'
  <2>1. \A u \in Tasks : floor'[u] = returned \/ floor'[u] = floor[u]
    BY DEF TimeInv, T!TypeOK, T!ReadClock
  <2>2. UNCHANGED <<returned, hwm>>
    BY DEF T!ReadClock
  <2> QED
    BY <2>1, <2>2 DEF TimeInv, Returned, T!InstantAt, T!TypeOK
<1> QED
  BY <1>2, <1>3 DEF TimeInv, Seen, T!NoMissedChange, T!TypeOK, T!ReadClock, T!sleep

(* What instant_now() returns is the mark it leaves behind, as an Instant. *)
LEMMA ResultIsMark ==
    ASSUME TimeInv, NEW t \in Tasks
    PROVE  /\ T!Larger(hwm, raw[t]) \in 0 .. MaxI
           /\ T!Result(t) = T!InstantAt(T!Larger(hwm, raw[t]))
           /\ T!Result(t) \in 0 .. MaxInstant
           /\ T!InstantAt(hwm) <= T!Result(t)
<1> USE ProvidersAssumption DEF T!TimeAssumption
<1>1. hwm \in 0 .. MaxI /\ raw[t] \in 0 .. MaxI /\ MaxI \in Nat /\ MaxInstant \in Nat
  BY DEF TimeInv, T!TypeOK
<1>2. PICK m \in 0 .. MaxI : m = T!Larger(hwm, raw[t]) /\ hwm <= m
  BY <1>1 DEF T!Larger
<1>3. /\ T!InstantAt(hwm) = IF hwm <= MaxInstant THEN hwm ELSE MaxInstant
      /\ T!InstantAt(m) = IF m <= MaxInstant THEN m ELSE MaxInstant
  BY <1>1, Instants
<1>4. T!Result(t) = T!InstantAt(m)
  BY <1>2 DEF T!Result
<1> QED
  BY <1>1, <1>2, <1>3, <1>4

LEMMA FetchPreserves ==
    ASSUME TimeInv, NEW t \in Tasks, T!FetchMax(t) PROVE TimeInv'
<1> USE ProvidersAssumption DEF T!TimeAssumption
<1> DEFINE m == T!Larger(hwm, raw[t])
<1>1. /\ hwm' = m
      /\ returned' = T!Larger(returned, T!Result(t))
      /\ floor' = [floor EXCEPT ![t] = 0] /\ raw' = [raw EXCEPT ![t] = 0]
      /\ tpc' = [tpc EXCEPT ![t] = "idle"]
      /\ UNCHANGED <<clock, version, wakeAt, seen, fut>>
  BY DEF T!FetchMax, T!sleep
<1>2. /\ m \in 0 .. MaxI /\ T!Result(t) = T!InstantAt(m)
      /\ T!Result(t) \in 0 .. MaxInstant /\ T!InstantAt(hwm) <= T!Result(t)
  BY ResultIsMark
<1> HIDE DEF m
<1>3. returned \in 0 .. MaxInstant /\ returned <= T!Result(t)
  <2>1. returned \in 0 .. MaxInstant /\ returned <= T!InstantAt(hwm) /\ hwm \in 0 .. MaxI
    BY DEF TimeInv, Returned, T!TypeOK
  <2>2. T!InstantAt(hwm) \in Int
    BY <2>1, Instants
  <2> QED
    BY <1>2, <2>1, <2>2
<1>4. returned' = T!Result(t)
  BY <1>1, <1>2, <1>3 DEF T!Larger
<1>5. T!TypeOK'
  BY <1>1, <1>2, <1>4 DEF TimeInv, T!TypeOK
<1>6. Returned'
  <2>1. T!InstantAt(hwm)' = T!Result(t)
    BY <1>1, <1>2 DEF T!InstantAt
  <2>2. \A u \in Tasks : floor'[u] = 0 \/ floor'[u] = floor[u]
    BY <1>1 DEF TimeInv, T!TypeOK
  <2>3. \A u \in Tasks : floor[u] <= returned /\ floor[u] \in 0 .. MaxInstant
    BY DEF TimeInv, Returned, T!TypeOK
  <2> QED
    BY <1>2, <1>3, <1>4, <2>1, <2>2, <2>3 DEF Returned
<1> QED
  BY <1>1, <1>5, <1>6 DEF TimeInv, Seen, T!NoMissedChange, T!TypeOK

(* A sleeper's step leaves the clock and instant_now() alone. *)
LEMMA SleeperPreserves ==
    ASSUME TimeInv, T!TypeOK', UNCHANGED <<clock, version, hwm, raw, returned, floor>>,
           Seen', T!NoMissedChange'
    PROVE  TimeInv'
BY DEF TimeInv, Returned, T!InstantAt

LEMMA BeginPreserves ==
    ASSUME TimeInv, NEW t \in Tasks, NEW d \in Durations,
           NEW f \in {"none", "pending"}, T!SleepBegin(t, d, f)
    PROVE  TimeInv'
<1> USE ProvidersAssumption DEF T!TimeAssumption
<1>1. clock \in Int /\ T!Wrap(d) \in Int
  <2>1. clock \in T!Clock /\ d \in Int
    BY DEF TimeInv, T!TypeOK
  <2> QED
    BY <2>1, Clocks, Zenon
<1>2. T!Wrap(clock + T!Wrap(d)) \in T!Clock
  BY <1>1, Clocks
<1>3. T!TypeOK'
  BY <1>2 DEF TimeInv, T!TypeOK, T!SleepBegin, T!instant
<1>4. Seen' /\ T!NoMissedChange'
  BY DEF TimeInv, Seen, T!NoMissedChange, T!TypeOK, T!SleepBegin, T!instant
<1> QED
  BY <1>3, <1>4, SleeperPreserves DEF T!SleepBegin, T!instant

LEMMA TaskPreserves ==
    ASSUME TimeInv, NEW t \in Tasks, T!TaskStep(t) \/ T!FutureReady(t) PROVE TimeInv'
<1> USE ProvidersAssumption DEF T!TimeAssumption
<1> USE DEF T!instant, T!LookedAtTheClock, T!Return
<1>0. UNCHANGED <<clock, version, hwm, raw, returned, floor>>
  BY DEF T!TaskStep, T!Subscribe, T!Elapsed, T!NotElapsed, T!Changed, T!FutureWins,
         T!FutureReady
<1>1. T!TypeOK'
  <2>1. 0 \in T!Clock
    BY Clocks
  <2> QED
    BY <2>1 DEF T!TaskStep, T!Subscribe, T!Elapsed, T!NotElapsed, T!Changed,
                T!FutureWins, T!FutureReady, TimeInv, T!TypeOK
<1>2. Seen'
  <2>1. \A u \in Tasks : seen'[u] \in {seen[u], version, 0}
    BY DEF T!TaskStep, T!Subscribe, T!Elapsed, T!NotElapsed, T!Changed,
           T!FutureWins, T!FutureReady, TimeInv, T!TypeOK
  <2> QED
    BY <1>0, <2>1 DEF TimeInv, Seen, T!TypeOK
<1>3. T!NoMissedChange'
  <2> SUFFICES ASSUME NEW u \in Tasks, tpc'[u] = "wait", seen'[u] = version'
               PROVE  clock' < wakeAt'[u]
    BY DEF T!NoMissedChange
  <2>1. CASE u = t
    BY <2>1 DEF T!TaskStep, T!Subscribe, T!Elapsed, T!NotElapsed, T!Changed,
                T!FutureWins, T!FutureReady, TimeInv, T!TypeOK, T!NoMissedChange
  <2>2. CASE u # t
    <3>1. tpc'[u] = tpc[u] /\ seen'[u] = seen[u] /\ wakeAt'[u] = wakeAt[u]
      BY <2>2 DEF T!TaskStep, T!Subscribe, T!Elapsed, T!NotElapsed, T!Changed,
                  T!FutureWins, T!FutureReady, TimeInv, T!TypeOK
    <3> QED
      BY <1>0, <3>1 DEF TimeInv, T!NoMissedChange
  <2> QED
    BY <2>1, <2>2
<1> QED
  BY <1>0, <1>1, <1>2, <1>3, SleeperPreserves

LEMMA TimePreserves == TimeInv /\ [T!Next]_tvars => TimeInv'
<1> SUFFICES ASSUME TimeInv, [T!Next]_tvars PROVE TimeInv'
  OBVIOUS
<1>1. ASSUME NEW delta \in T!Clock, T!advance_ms(delta) PROVE TimeInv'
  <2>1. clock + delta \in Int
    BY Clocks DEF TimeInv, T!TypeOK
  <2> QED
    BY <1>1, <2>1, Clocks, MovePreserves DEF T!advance_ms
<1>2. ASSUME NEW ms \in T!Clock, T!set_to_ms(ms) PROVE TimeInv'
  BY <1>2, MovePreserves DEF T!set_to_ms
<1>3. CASE UNCHANGED tvars
  BY <1>3 DEF tvars, TimeInv, T!TypeOK, Returned, Seen, T!NoMissedChange, T!InstantAt
<1> QED
  BY <1>1, <1>2, <1>3, ReadPreserves, FetchPreserves, BeginPreserves, TaskPreserves
     DEF T!Next

(* The invariant of the clock and its sleepers holds in every state.        *)
THEOREM TimeInvariance == MCSpec => []TimeInv
<1>1. MCInit => TimeInv
  BY TimeInitial DEF MCInit
<1>2. TimeInv /\ [MCNext]_<<part, vars, tvars>> => TimeInv'
  BY TimePreserves DEF MCNext
<1> QED
  BY <1>1, <1>2, PTL DEF MCSpec

(* instant_now() never goes back from one call to another that begins after  *)
(* it, on whatever threads, although the clock may, and whether or not the   *)
(* addition to the real Instant overflows (time.rs, SimulatedTime).          *)
THEOREM InstantsNeverGoBack == MCSpec => InstantMonotonic
<1>1. ASSUME TimeInv, T!Next, NEW t \in Tasks, tpc[t] = "instant"
      PROVE  floor[t] <= T!Result(t)
  <2>1. /\ T!InstantAt(hwm) <= T!Result(t) /\ T!Result(t) \in Int
        /\ hwm \in 0 .. MaxI
        /\ floor[t] <= returned /\ returned <= T!InstantAt(hwm)
        /\ floor[t] \in Int /\ returned \in Int
    BY <1>1, ResultIsMark DEF TimeInv, Returned, T!TypeOK
  <2>2. T!InstantAt(hwm) \in Int
    BY <2>1, ProvidersAssumption, Instants DEF T!TimeAssumption
  <2> QED
    BY <2>1, <2>2
<1>2. TimeInv /\ [MCNext]_<<part, vars, tvars>> =>
         [\A t \in Tasks :
             (tpc[t] = "instant" /\ tpc'[t] # "instant") => floor[t] <= T!Result(t)]_tvars
  BY <1>1 DEF MCNext, tvars
<1> QED
  BY <1>2, TimeInvariance, PTL DEF MCSpec, InstantMonotonic, T!InstantMonotonic, T!vars, tvars

(* A sleeper that waits and has seen the latest version has compared its     *)
(* deadline with the clock as it is: the "missed-wakeup race" that the loop  *)
(* of sleep() excludes.                                                      *)
THEOREM NoWakeupMissed == MCSpec => []T!NoMissedChange
<1>1. TimeInv => T!NoMissedChange
  BY DEF TimeInv
<1> QED
  BY <1>1, TimeInvariance, PTL
=============================================================================
