---------------------------- MODULE SimulatedRandom ----------------------------
(*****************************************************************************)
(* The seeded random source (crates/navian-dst/src/random.rs) shared by      *)
(* several threads: a ChaCha20 stream behind a mutex, and the counter that   *)
(* goes into every UUID.  What the seed makes of the stream is chosen in     *)
(* Init.  Widths are scaled: the low byte of the counter has Byte values, of *)
(* which the RFC 4122 variant bits leave Low.                                *)
(*****************************************************************************)
EXTENDS Integers

CONSTANTS
    Threads,
    Nobody,     \* the mutex is free
    Words,      \* what a draw contributes to a UUID (version bits left aside)
    Low, Byte,  \* 64 and 256
    MaxDraws    \* bound: draws from the stream

ASSUME RandomAssumption ==
    /\ Nobody \notin Threads
    /\ Low \in Nat \ {0} /\ Byte \in Nat /\ Low <= Byte
    /\ MaxDraws \in Nat

VARIABLES
    stream,        \* stream[k]: draw number k, a function of the seed
    drawn,         \* the position of rng in its stream
    uuid_counter,
    lock,          \* who holds the mutex of rng
    pc,            \* pc[t]: where thread t is
    counter,       \* counter[t]: the local of next_uuid
    issued         \* history: the UUIDs returned, with what they were made of

vars == <<stream, drawn, uuid_counter, lock, pc, counter, issued>>

Draws == 1 .. MaxDraws

Init ==
    /\ stream \in [Draws -> Words]
    /\ drawn = 0
    /\ uuid_counter = 0
    /\ lock = Nobody
    /\ pc = [t \in Threads |-> "idle"]
    /\ counter = [t \in Threads |-> 0]
    /\ issued = {}

(* next_u64() and, for any number of draws, shuffle_u64(): nobody else sees  *)
(* the stream while they hold the mutex.                                     *)
next_u64(t) ==
    /\ pc[t] = "idle"
    /\ lock = Nobody
    /\ drawn < MaxDraws
    /\ drawn' = drawn + 1
    /\ UNCHANGED <<stream, uuid_counter, lock, pc, counter, issued>>

\* Mutation: the counter is fetched before the mutex is taken.
FetchEarly(t) ==
    /\ pc[t] = "idle"
    /\ pc' = [pc EXCEPT ![t] = "counted"]
    /\ counter' = [counter EXCEPT ![t] = uuid_counter]
    /\ uuid_counter' = uuid_counter + 1
    /\ UNCHANGED <<stream, drawn, lock, issued>>

Lock(t) ==
    /\ pc[t] = "idle"
    /\ lock = Nobody
    /\ lock' = t
    /\ pc' = [pc EXCEPT ![t] = "locked"]
    /\ UNCHANGED <<stream, drawn, uuid_counter, counter, issued>>

FetchCounter(t) ==
    /\ pc[t] = "locked"
    /\ counter' = [counter EXCEPT ![t] = uuid_counter]
    /\ uuid_counter' = uuid_counter + 1
    /\ pc' = [pc EXCEPT ![t] = "counted"]
    /\ UNCHANGED <<stream, drawn, lock, issued>>

\* Mutation: every bit of the counter's low byte but one is overwritten.
KeepOneBit(c) == (c % 2) + 2 * (c \div Byte)

(* What is left of the counter under the variant bits of bytes[8]. *)
Masked(c) == (c % Low) + Low * (c \div Byte)

DrawAndUnlock(t) ==
    /\ pc[t] = "counted"
    /\ drawn < MaxDraws
    /\ drawn' = drawn + 1
    /\ lock' = Nobody
    /\ pc' = [pc EXCEPT ![t] = "idle"]
    /\ issued' = issued \cup {[draw |-> drawn + 1, counter |-> counter[t],
                               uuid |-> <<stream[drawn + 1], Masked(counter[t])>>]}
    /\ UNCHANGED <<stream, uuid_counter, counter>>

Next == \E t \in Threads :
            next_u64(t) \/ Lock(t) \/ FetchCounter(t) \/ DrawAndUnlock(t)

Spec == Init /\ [][Next]_vars

-----------------------------------------------------------------------------
UUID == Words \X Nat

TypeOK ==
    /\ stream \in [Draws -> Words]
    /\ drawn \in 0 .. MaxDraws
    /\ uuid_counter \in Nat
    /\ lock \in Threads \cup {Nobody}
    /\ pc \in [Threads -> {"idle", "locked", "counted"}]
    /\ counter \in [Threads -> Nat]
    /\ issued \subseteq [draw: Draws, counter: Nat, uuid: UUID]

(* "The k-th lock acquisition always pairs counter k with" the draw it makes:*)
(* no two threads' counters and draws are torn apart, so the UUIDs are those *)
(* of some order of the calls, one after the other.                          *)
PairedInOrder ==
    \A u, v \in issued : u.draw < v.draw => u.counter < v.counter

(* UUIDs less than Low apart in the sequence differ, whatever the stream.    *)
DistinctNearby ==
    \A u, v \in issued :
        (u.counter < v.counter /\ v.counter - u.counter < Low) => u.uuid # v.uuid

=============================================================================
