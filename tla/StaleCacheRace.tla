---------------------------- MODULE StaleCacheRace ----------------------------
(*****************************************************************************)
(* The reader/writer race of crates/navian-dst/examples/stale_cache_race.rs: *)
(* two tasks of one SimScheduler, a cache in front of a versioned store, and *)
(* the invariant the harness evaluates when the run is over.                 *)
(*                                                                           *)
(* The seed gives the three yield counts; every combination is an initial    *)
(* state.  A task runs from one sim_yield_now() to the next in one step: the *)
(* scheduler polls the head of its queue, and a task that yields goes to the *)
(* back.                                                                     *)
(*****************************************************************************)
EXTENDS InvariantEngine

CONSTANTS
    MaxReaderLead,  \* rng % 3
    MaxReaderGap,   \* 1 + rng % 3
    MaxWriterLead   \* rng % 5

ASSUME LeadsAssumption ==
    /\ MaxReaderLead \in Nat
    /\ MaxReaderGap \in Nat \ {0}
    /\ MaxWriterLead \in Nat

VARIABLES
    variant,        \* "Correct" or "Planted"
    reader_lead, reader_gap, writer_lead,
    ready,          \* the scheduler's queue
    pc,             \* pc[t]: the part of its code task t is in
    left,           \* left[t]: the yields before t leaves that part
    store,          \* the store's version
    cache,          \* the version of the cached entry, or Miss
    acked_version,
    fetched,        \* the version the reader has fetched, or Miss
    found           \* what the engine reports after the run

leads == <<variant, reader_lead, reader_gap, writer_lead>>
vars  == <<leads, ready, pc, left, store, cache, acked_version, fetched, found>>

Tasks    == {"reader", "writer"}
Miss     == 0
Versions == 1 .. 2

-----------------------------------------------------------------------------
Init ==
    /\ variant \in {"Correct", "Planted"}
    /\ reader_lead \in 0 .. MaxReaderLead
    /\ reader_gap \in 1 .. MaxReaderGap
    /\ writer_lead \in 0 .. MaxWriterLead
    /\ ready = <<"reader", "writer">>
    /\ pc = [t \in Tasks |-> "lead"]
    /\ left = [t \in Tasks |-> IF t = "reader" THEN reader_lead ELSE writer_lead]
    /\ store = 1
    /\ cache = Miss
    /\ acked_version = 1
    /\ fetched = Miss
    /\ found = NoViolation

Polled(t) == ready # <<>> /\ Head(ready) = t /\ pc[t] # "done"

(* One more sim_yield_now() of the loop task t is in. *)
Yield(t) ==
    /\ Polled(t)
    /\ left[t] > 0
    /\ left' = [left EXCEPT ![t] = @ - 1]
    /\ ready' = Append(Tail(ready), t)
    /\ UNCHANGED <<leads, pc, store, cache, acked_version, fetched, found>>

(* The cache-miss check, the fetch, and the first yield of the window.  A    *)
(* hit needs no fetch: the reader returns.                                   *)
Fetch ==
    LET hit == cache # Miss
    IN  /\ Polled("reader")
        /\ pc["reader"] = "lead" /\ left["reader"] = 0
        /\ fetched' = IF hit THEN fetched ELSE store
        /\ pc' = [pc EXCEPT !["reader"] = IF hit THEN "done" ELSE "window"]
        /\ left' = [left EXCEPT !["reader"] = reader_gap - 1]
        /\ ready' = IF hit THEN Tail(ready) ELSE Append(Tail(ready), "reader")
        /\ UNCHANGED <<leads, store, cache, acked_version, found>>

\* Mutations: the fence compares with what is acknowledged the wrong way
\* round; the planted variant is fenced too.
FencedBackwards == variant = "Planted" \/ store >= fetched
FencedAlways    == store = fetched

(* What the variants make of an entry fetched before the window. *)
Populates == variant = "Planted" \/ store = fetched

Populate ==
    /\ Polled("reader")
    /\ pc["reader"] = "window" /\ left["reader"] = 0
    /\ cache' = IF Populates THEN fetched ELSE cache
    /\ pc' = [pc EXCEPT !["reader"] = "done"]
    /\ ready' = Tail(ready)
    /\ UNCHANGED <<leads, left, store, acked_version, fetched, found>>

(* The writer commits, acknowledges and invalidates without a yield between. *)
Commit ==
    /\ Polled("writer")
    /\ left["writer"] = 0
    /\ store' = store + 1
    /\ acked_version' = store + 1
    /\ cache' = Miss
    /\ pc' = [pc EXCEPT !["writer"] = "done"]
    /\ ready' = Tail(ready)
    /\ UNCHANGED <<leads, left, fetched, found>>

(* stale_read_invariants(): one invariant, over what the next read would be  *)
(* served and the acknowledged version.                                      *)
ServesNoOlderVersion ==
    <<[name |-> "read_after_write_serves_no_older_version",
       holds |-> cache = Miss \/ cache >= acked_version]>>

(* run() has returned: the snapshot is checked. *)
Check ==
    /\ ready = <<>>
    /\ pc["writer"] # "checked"
    /\ found' = check(0, ServesNoOlderVersion)
    /\ pc' = [t \in Tasks |-> "checked"]
    /\ UNCHANGED <<leads, ready, left, store, cache, acked_version, fetched>>

Next == (\E t \in Tasks : Yield(t)) \/ Fetch \/ Populate \/ Commit \/ Check

Spec == Init /\ [][Next]_vars

-----------------------------------------------------------------------------
TypeOK ==
    /\ variant \in {"Correct", "Planted"}
    /\ reader_lead \in 0 .. MaxReaderLead
    /\ reader_gap \in 1 .. MaxReaderGap
    /\ writer_lead \in 0 .. MaxWriterLead
    /\ ready \in {<<>>, <<"reader">>, <<"writer">>,
                  <<"reader", "writer">>, <<"writer", "reader">>}
    /\ pc \in [Tasks -> {"lead", "window", "done", "checked"}]
    /\ left \in [Tasks -> Nat]
    /\ store \in Versions
    /\ cache \in {Miss} \cup Versions
    /\ acked_version \in Versions
    /\ fetched \in {Miss} \cup Versions

Checked == pc["writer"] = "checked"

(* "A version-fenced reader must never serve a stale version": whatever the  *)
(* interleaving, the fenced variant passes its check.                        *)
FencedNeverStale == (Checked /\ variant = "Correct") => found = NoViolation

(* "Some interleavings but not all of them": the planted reader is caught    *)
(* exactly when the commit falls between its fetch and its populate.  The    *)
(* reader is polled first in each round of the queue, so in the round of a   *)
(* draw it goes before the writer.                                           *)
PlantedExactly ==
    (Checked /\ variant = "Planted") =>
        (found # NoViolation
            <=> /\ reader_lead <= writer_lead
                /\ writer_lead < reader_lead + reader_gap)

(* "A hit never happens with one reader": the early return is not reached.   *)
NeverAHit == pc["reader"] = "lead" => cache = Miss
=============================================================================
