----------------------------- MODULE HarnessProofs -----------------------------
(*****************************************************************************)
(* The verdicts of StaleCacheRace for every bound on the yields; the reports *)
(* of InvariantRun for every counter and every number of steps; and what     *)
(* SimulatedNetwork does to its clients, for any number of callers, attempts *)
(* and rewinds and every schedule; and what Review says of every tree.       *)
(*                                                                           *)
(* In the race the two tasks take turns, so how often each was polled tells  *)
(* where the other stands: the argument counts polls.  In the run, what the  *)
(* predicate remembers is the counter's last value until something was       *)
(* reported.  On the link, every step that was consumed pays for one send.   *)
(* In `review`, a scope stands for the macro that an invariant is in.        *)
(*****************************************************************************)
EXTENDS MCHarness, FiniteSetTheorems, SequenceTheorems, WellFoundedInduction, TLAPS

(* How often each task has been polled. *)
ReaderPolls ==
    IF pc["reader"] = "lead" THEN reader_lead - left["reader"]
    ELSE IF pc["reader"] = "window" THEN reader_lead + reader_gap - left["reader"]
    ELSE reader_lead + reader_gap + 1

WriterPolls ==
    IF pc["writer"] = "lead" THEN writer_lead - left["writer"] ELSE writer_lead + 1

(* Who is in the queue, and how far each is against the other. *)
Turns ==
    /\ ready = <<"reader", "writer">> =>
        /\ pc["reader"] \in {"lead", "window"}
        /\ pc["writer"] = "lead"
        /\ ReaderPolls = WriterPolls
    /\ ready = <<"writer", "reader">> =>
        /\ pc["reader"] \in {"lead", "window"}
        /\ pc["writer"] = "lead"
        /\ ReaderPolls = WriterPolls + 1
    /\ ready = <<"reader">> =>
        /\ pc["reader"] \in {"lead", "window"}
        /\ pc["writer"] = "done"
        /\ ReaderPolls >= writer_lead + 1
    /\ ready = <<"writer">> =>
        /\ pc["reader"] = "done"
        /\ pc["writer"] = "lead"
        /\ WriterPolls >= reader_lead + reader_gap
    /\ ready = <<>> =>
        \/ pc["reader"] = "done" /\ pc["writer"] = "done"
        \/ pc["reader"] = "checked" /\ pc["writer"] = "checked"

Yields ==
    /\ pc["reader"] = "lead" => left["reader"] <= reader_lead
    /\ pc["reader"] = "window" => left["reader"] <= reader_gap - 1
    /\ pc["writer"] = "lead" => left["writer"] <= writer_lead

(* What a finished reader leaves when the writer is done as well. *)
FinalEntry ==
    IF writer_lead >= reader_lead + reader_gap THEN Miss
    ELSE IF reader_lead > writer_lead THEN 2
    ELSE IF variant = "Planted" THEN 1
    ELSE Miss

Data ==
    /\ store = IF pc["writer"] = "lead" THEN 1 ELSE 2
    /\ acked_version = store
    /\ pc["reader"] \in {"lead", "window"} => cache = Miss
    /\ pc["reader"] # "lead" =>
        fetched = IF reader_lead <= writer_lead THEN 1 ELSE 2
    /\ pc["reader"] \in {"done", "checked"} =>
        cache = IF pc["writer"] = "lead" THEN 1 ELSE FinalEntry

Verdict ==
    Checked => (found # NoViolation <=> cache # Miss /\ cache < acked_version)

IInv ==
    /\ TypeOK
    /\ Turns
    /\ Yields
    /\ Data
    /\ Verdict

-----------------------------------------------------------------------------
(* The engine reports a violation exactly when its one invariant is broken.  *)
LEMMA OneInvariant ==
    ASSUME TypeOK
    PROVE  check(0, ServesNoOlderVersion) # NoViolation
             <=> cache # Miss /\ cache < acked_version
<1> DEFINE inv == ServesNoOlderVersion
<1>1. DOMAIN inv = {1}
  BY DEF ServesNoOlderVersion
<1>2. inv[1].holds <=> (cache = Miss \/ cache >= acked_version)
  BY DEF ServesNoOlderVersion
<1>3. inv[1].name = "read_after_write_serves_no_older_version"
  BY DEF ServesNoOlderVersion
<1>4. cache = Miss \/ cache >= acked_version <=> ~(cache # Miss /\ cache < acked_version)
  BY DEF TypeOK, Miss, Versions
<1>5. CASE cache = Miss \/ cache >= acked_version
  <2>1. Broken(inv) = {}
    BY <1>1, <1>2, <1>5 DEF Broken
  <2> QED BY <2>1, <1>4, <1>5 DEF check
<1>6. CASE ~(cache = Miss \/ cache >= acked_version)
  <2>1. Broken(inv) = {1}
    BY <1>1, <1>2, <1>6 DEF Broken
  <2>2. FirstBroken(inv) = 1
    BY <2>1 DEF FirstBroken
  <2>3. check(0, inv).invariant = "read_after_write_serves_no_older_version"
    BY <2>1, <2>2, <1>3 DEF check, Violation
  <2>4. NoViolation.invariant = "none"
    BY DEF NoViolation, Violation
  <2> QED BY <2>3, <2>4, <1>4, <1>6
<1> QED BY <1>5, <1>6

LEMMA InitInv == Init => IInv
<1> SUFFICES ASSUME Init PROVE IInv
  OBVIOUS
<1> USE LeadsAssumption DEF Init, leads, Tasks, Miss, Versions
<1>1. TypeOK
  BY DEF TypeOK
<1>2. Turns
  BY DEF Turns, ReaderPolls, WriterPolls
<1>3. Yields
  BY DEF Yields
<1>4. Data /\ Verdict
  BY DEF Data, Verdict, Checked
<1> QED BY <1>1, <1>2, <1>3, <1>4 DEF IInv

(* A task polled is at the head of one of four queues.                       *)
LEMMA QueueStep ==
    ASSUME TypeOK, NEW t \in Tasks, Polled(t)
    PROVE  /\ t = "reader" =>
                \/ /\ ready = <<"reader">> /\ Tail(ready) = <<>>
                   /\ Append(Tail(ready), t) = <<"reader">>
                \/ /\ ready = <<"reader", "writer">> /\ Tail(ready) = <<"writer">>
                   /\ Append(Tail(ready), t) = <<"writer", "reader">>
           /\ t = "writer" =>
                \/ /\ ready = <<"writer">> /\ Tail(ready) = <<>>
                   /\ Append(Tail(ready), t) = <<"writer">>
                \/ /\ ready = <<"writer", "reader">> /\ Tail(ready) = <<"reader">>
                   /\ Append(Tail(ready), t) = <<"reader", "writer">>
<1>1. /\ Tail(<<"reader">>) = <<>> /\ Tail(<<"writer">>) = <<>>
      /\ Tail(<<"reader", "writer">>) = <<"writer">>
      /\ Tail(<<"writer", "reader">>) = <<"reader">>
  OBVIOUS
<1>2. \A u \in Tasks : Append(<<>>, u) = <<u>>
  <2> SUFFICES ASSUME NEW u \in Tasks PROVE Append(<<>>, u) = <<u>>
    OBVIOUS
  <2>1. <<>> \in Seq(Tasks) /\ Len(<<>>) = 0
    BY EmptySeq
  <2>2. /\ Append(<<>>, u) \in Seq(Tasks)
        /\ Len(Append(<<>>, u)) = 1
        /\ Append(<<>>, u)[1] = u
    BY <2>1, AppendProperties
  <2> QED BY <2>2
<1>3. \A u, v \in Tasks : Append(<<u>>, v) = <<u, v>>
  <2> SUFFICES ASSUME NEW u \in Tasks, NEW v \in Tasks
               PROVE  Append(<<u>>, v) = <<u, v>>
    OBVIOUS
  <2>1. <<u>> \in Seq(Tasks) /\ Len(<<u>>) = 1 /\ <<u>>[1] = u
    OBVIOUS
  <2>2. /\ Append(<<u>>, v) \in Seq(Tasks)
        /\ Len(Append(<<u>>, v)) = 2
        /\ Append(<<u>>, v)[1] = u
        /\ Append(<<u>>, v)[2] = v
    BY <2>1, AppendProperties
  <2>3. <<u, v>> \in Seq(Tasks) /\ Len(<<u, v>>) = 2
    OBVIOUS
  <2>4. \A i \in 1 .. 2 : Append(<<u>>, v)[i] = <<u, v>>[i]
    <3>1. <<u, v>>[1] = u /\ <<u, v>>[2] = v
      OBVIOUS
    <3> QED BY <2>2, <3>1
  <2> HIDE DEF Tasks
  <2> QED BY <2>2, <2>3, <2>4, SeqEqual
<1>4. /\ Head(<<"reader">>) = "reader" /\ Head(<<"writer">>) = "writer"
      /\ Head(<<"reader", "writer">>) = "reader"
      /\ Head(<<"writer", "reader">>) = "writer"
  OBVIOUS
<1>5. ready \in {<<"reader">>, <<"writer">>,
                <<"reader", "writer">>, <<"writer", "reader">>}
  BY DEF TypeOK, Polled
<1>6. CASE t = "reader"
  <2>1. ready = <<"reader">> \/ ready = <<"reader", "writer">>
    BY <1>4, <1>5, <1>6 DEF Polled
  <2> QED BY <1>1, <1>2, <1>3, <1>6, <2>1 DEF Tasks
<1>7. CASE t = "writer"
  <2>1. ready = <<"writer">> \/ ready = <<"writer", "reader">>
    BY <1>4, <1>5, <1>7 DEF Polled
  <2> QED BY <1>1, <1>2, <1>3, <1>7, <2>1 DEF Tasks
<1> QED BY <1>6, <1>7 DEF Tasks

(* The five queues are different from each other. *)
LEMMA Queues ==
    /\ <<>> # <<"reader">> /\ <<>> # <<"writer">>
    /\ <<>> # <<"reader", "writer">> /\ <<>> # <<"writer", "reader">>
    /\ <<"reader">> # <<"writer">>
    /\ <<"reader">> # <<"reader", "writer">> /\ <<"reader">> # <<"writer", "reader">>
    /\ <<"writer">> # <<"reader", "writer">> /\ <<"writer">> # <<"writer", "reader">>
    /\ <<"reader", "writer">> # <<"writer", "reader">>
OBVIOUS

LEMMA YieldInv ==
    ASSUME IInv, NEW t \in Tasks, Yield(t)
    PROVE  IInv'
<1> USE LeadsAssumption DEF IInv, leads, Tasks
<1>1. TypeOK /\ Polled(t)
  BY DEF Yield
<1>2. TypeOK'
  BY <1>1, QueueStep DEF TypeOK, Yield
<1>3. /\ left[t] \in Nat /\ left[t] > 0
      /\ reader_lead' = reader_lead /\ reader_gap' = reader_gap
      /\ writer_lead' = writer_lead
      /\ reader_lead \in Nat /\ reader_gap \in Nat /\ writer_lead \in Nat
      /\ left'[t] = left[t] - 1
      /\ \A u \in Tasks \ {t} : left'[u] = left[u]
  BY DEF Yield, TypeOK
<1>4. Yields'
  BY <1>3 DEF Yields, Yield, TypeOK
<1>5. Turns'
  <2>1. pc' = pc /\ ready' = Append(Tail(ready), t)
    BY DEF Yield
  <2>2. CASE t = "reader"
    <3>1. pc["reader"] \in {"lead", "window"}
      BY <1>1, <2>2, QueueStep, Queues DEF Turns
    <3>2. ReaderPolls' = ReaderPolls + 1 /\ WriterPolls' = WriterPolls
      <4>1. left'["writer"] = left["writer"] /\ left'["reader"] = left["reader"] - 1
        BY <1>3, <2>2
      <4> QED BY <1>3, <2>1, <2>2, <3>1, <4>1 DEF ReaderPolls, WriterPolls
    <3>3. ReaderPolls \in Int /\ WriterPolls \in Int
      BY DEF ReaderPolls, WriterPolls, TypeOK
    <3>4. \/ ready = <<"reader">> /\ ready' = <<"reader">>
          \/ ready = <<"reader", "writer">> /\ ready' = <<"writer", "reader">>
      BY <1>1, <2>1, <2>2, QueueStep
    <3> QED BY <1>3, <2>1, <3>2, <3>3, <3>4, Queues DEF Turns
  <2>3. CASE t = "writer"
    <3>1. pc["writer"] = "lead"
      BY <1>1, <2>3, QueueStep, Queues DEF Turns
    <3>2. ReaderPolls' = ReaderPolls /\ WriterPolls' = WriterPolls + 1
      <4>1. left'["reader"] = left["reader"] /\ left'["writer"] = left["writer"] - 1
        BY <1>3, <2>3
      <4> QED BY <1>3, <2>1, <2>3, <3>1, <4>1 DEF ReaderPolls, WriterPolls
    <3>3. ReaderPolls \in Int /\ WriterPolls \in Int
      BY DEF ReaderPolls, WriterPolls, TypeOK
    <3>4. \/ ready = <<"writer">> /\ ready' = <<"writer">>
          \/ ready = <<"writer", "reader">> /\ ready' = <<"reader", "writer">>
      BY <1>1, <2>1, <2>3, QueueStep
    <3> QED BY <1>3, <2>1, <3>2, <3>3, <3>4, Queues DEF Turns
  <2> QED BY <2>2, <2>3
<1>6. Data'
  BY DEF Data, FinalEntry, Yield
<1>7. Verdict'
  BY DEF Verdict, Checked, Yield
<1> QED BY <1>2, <1>4, <1>5, <1>6, <1>7

LEMMA FetchInv ==
    ASSUME IInv, Fetch
    PROVE  IInv'
<1> USE LeadsAssumption DEF IInv, leads, Tasks
<1>1. TypeOK /\ Polled("reader") /\ cache = Miss
  BY DEF Fetch, Data
<1>2. TypeOK'
  BY <1>1, QueueStep DEF TypeOK, Fetch, Versions, Miss
<1>3. /\ pc' = [pc EXCEPT !["reader"] = "window"]
      /\ left' = [left EXCEPT !["reader"] = reader_gap - 1]
      /\ fetched' = store
      /\ ready' = Append(Tail(ready), "reader")
  BY <1>1 DEF Fetch
<1>4. Yields'
  BY <1>3 DEF Yields, Fetch, TypeOK
<1>5. Turns'
  <2>1. left["reader"] = 0 /\ left'["reader"] = reader_gap - 1
    BY <1>3 DEF Fetch, TypeOK
  <2>2. ReaderPolls' = ReaderPolls + 1 /\ WriterPolls' = WriterPolls
    BY <1>3, <2>1 DEF ReaderPolls, WriterPolls, Fetch, TypeOK
  <2>3. ReaderPolls \in Int /\ WriterPolls \in Int
    BY DEF ReaderPolls, WriterPolls, TypeOK
  <2>4. \/ ready = <<"reader">> /\ ready' = <<"reader">>
        \/ ready = <<"reader", "writer">> /\ ready' = <<"writer", "reader">>
    BY <1>1, <1>3, QueueStep
  <2> QED BY <1>3, <2>2, <2>3, <2>4, Queues DEF Turns, Fetch, TypeOK
<1>6. Data'
  <2>1. pc["writer"] = "lead" => reader_lead <= writer_lead
    BY <1>1, QueueStep DEF Turns, ReaderPolls, WriterPolls, Yields, Fetch, TypeOK
  <2>2. pc["writer"] # "lead" => reader_lead > writer_lead
    BY <1>1, QueueStep DEF Turns, ReaderPolls, WriterPolls, Fetch, TypeOK
  <2> QED BY <1>3, <2>1, <2>2 DEF Data, Fetch, TypeOK
<1>7. Verdict'
  BY <1>3 DEF Verdict, Checked, Fetch, TypeOK, Turns
<1> QED BY <1>2, <1>4, <1>5, <1>6, <1>7

LEMMA PopulateInv ==
    ASSUME IInv, Populate
    PROVE  IInv'
<1> USE LeadsAssumption DEF IInv, leads, Tasks
<1>1. TypeOK /\ Polled("reader") /\ pc["reader"] = "window" /\ cache = Miss
  BY DEF Populate, Data
<1>2. TypeOK'
  BY <1>1, QueueStep DEF TypeOK, Populate
<1>4. Yields'
  BY DEF Yields, Populate, TypeOK
<1>5. Turns'
  <2>1. /\ pc'["reader"] = "done" /\ pc'["writer"] = pc["writer"]
        /\ WriterPolls' = WriterPolls
        /\ ReaderPolls = reader_lead + reader_gap
        /\ ReaderPolls' = reader_lead + reader_gap + 1
        /\ reader_lead' = reader_lead /\ reader_gap' = reader_gap
        /\ writer_lead' = writer_lead
        /\ reader_lead \in Nat /\ reader_gap \in Nat /\ writer_lead \in Nat
    BY <1>1 DEF ReaderPolls, WriterPolls, Populate, TypeOK
  <2>2. \/ ready = <<"reader">> /\ ready' = <<>>
        \/ ready = <<"reader", "writer">> /\ ready' = <<"writer">>
    BY <1>1, QueueStep DEF Populate
  <2>3. CASE ready = <<"reader">>
    BY <2>1, <2>2, <2>3, Queues DEF Turns
  <2>4. CASE ready = <<"reader", "writer">>
    <3>1. pc["writer"] = "lead" /\ WriterPolls = reader_lead + reader_gap
      BY <2>1, <2>4, Queues DEF Turns
    <3>2. ready' = <<"writer">>
      BY <2>2, <2>4, Queues
    <3> QED BY <2>1, <3>1, <3>2, Queues DEF Turns
  <2> QED BY <2>2, <2>3, <2>4
<1>6. Data'
  <2>1. pc["writer"] = "lead" => writer_lead >= reader_lead + reader_gap
    BY <1>1, QueueStep DEF Turns, ReaderPolls, WriterPolls, Yields, Populate, TypeOK
  <2>2. pc["writer"] # "lead" => reader_lead + reader_gap > writer_lead
    BY <1>1, QueueStep DEF Turns, ReaderPolls, WriterPolls, Populate, TypeOK
  <2>3. fetched = IF reader_lead <= writer_lead THEN 1 ELSE 2
    BY <1>1 DEF Data
  <2>4. store = IF pc["writer"] = "lead" THEN 1 ELSE 2
    BY DEF Data
  <2>5. cache' = IF pc["writer"] = "lead" THEN 1 ELSE FinalEntry
    BY <1>1, <2>1, <2>2, <2>3, <2>4 DEF Populate, Populates, FinalEntry, TypeOK, Miss
  <2> QED BY <1>1, <2>3, <2>4, <2>5 DEF Data, Populate, FinalEntry, TypeOK
<1>7. Verdict'
  BY <1>1 DEF Verdict, Checked, Populate, TypeOK, Polled, Turns
<1> QED BY <1>2, <1>4, <1>5, <1>6, <1>7

LEMMA CommitInv ==
    ASSUME IInv, Commit
    PROVE  IInv'
<1> USE LeadsAssumption DEF IInv, leads, Tasks
<1>1. TypeOK /\ Polled("writer") /\ pc["writer"] = "lead"
  BY QueueStep DEF Commit, Turns
<1>2. store = 1
  BY <1>1 DEF Data
<1>3. TypeOK'
  BY <1>1, <1>2, QueueStep DEF TypeOK, Commit, Versions
<1>4. Yields'
  BY DEF Yields, Commit, TypeOK
<1>5. Turns'
  <2>1. /\ pc'["writer"] = "done" /\ pc'["reader"] = pc["reader"]
        /\ ReaderPolls' = ReaderPolls
        /\ WriterPolls = writer_lead
        /\ ReaderPolls \in Int
        /\ reader_lead' = reader_lead /\ reader_gap' = reader_gap
        /\ writer_lead' = writer_lead
        /\ reader_lead \in Nat /\ reader_gap \in Nat /\ writer_lead \in Nat
    BY <1>1 DEF ReaderPolls, WriterPolls, Commit, TypeOK
  <2>2. \/ ready = <<"writer">> /\ ready' = <<>>
        \/ ready = <<"writer", "reader">> /\ ready' = <<"reader">>
    BY <1>1, QueueStep DEF Commit
  <2> QED BY <2>1, <2>2, Queues DEF Turns
<1>6. Data'
  <2>1. pc["reader"] \in {"lead", "window", "done"}
    BY <1>1, QueueStep DEF Turns
  <2>2. pc["reader"] = "done" => writer_lead >= reader_lead + reader_gap
    BY <1>1, QueueStep DEF Turns, WriterPolls, Commit, TypeOK
  <2> QED BY <1>1, <1>2, <2>1, <2>2 DEF Data, Commit, FinalEntry, TypeOK
<1>7. Verdict'
  BY <1>1 DEF Verdict, Checked, Commit, TypeOK
<1> QED BY <1>3, <1>4, <1>5, <1>6, <1>7

LEMMA CheckInv ==
    ASSUME IInv, Check
    PROVE  IInv'
<1> USE LeadsAssumption DEF IInv, leads, Tasks
<1>1. pc["reader"] = "done" /\ pc["writer"] = "done"
  BY DEF Check, Turns
<1>2. TypeOK'
  BY DEF TypeOK, Check
<1>3. Yields' /\ Turns'
  BY DEF Yields, Turns, Check
<1>4. Data'
  BY <1>1 DEF Data, Check, FinalEntry
<1>5. Verdict'
  BY OneInvariant DEF Verdict, Checked, Check
<1> QED BY <1>2, <1>3, <1>4, <1>5

(* What the counting gives at every moment of a run: who has been polled how *)
(* often, what was fetched, and what a finished reader has left behind.      *)
THEOREM Invariance == Spec => []IInv
<1>1. Init => IInv
  BY InitInv
<1>2. IInv /\ [Next]_vars => IInv'
  <2> SUFFICES ASSUME IInv, [Next]_vars PROVE IInv'
    OBVIOUS
  <2>1. ASSUME NEW t \in Tasks, Yield(t) PROVE IInv'
    BY <2>1, YieldInv
  <2>2. CASE Fetch
    BY <2>2, FetchInv
  <2>3. CASE Populate
    BY <2>3, PopulateInv
  <2>4. CASE Commit
    BY <2>4, CommitInv
  <2>5. CASE Check
    BY <2>5, CheckInv
  <2>6. CASE UNCHANGED vars
    BY <2>6 DEF vars, leads, IInv, TypeOK, Turns, Yields, Data, Verdict,
                ReaderPolls, WriterPolls, FinalEntry, Checked
  <2> QED BY <2>1, <2>2, <2>3, <2>4, <2>5, <2>6 DEF Next
<1> QED BY <1>1, <1>2, PTL DEF Spec

LEMMA Verdicts == IInv => FencedNeverStale /\ PlantedExactly
<1> SUFFICES ASSUME IInv, Checked PROVE FencedNeverStale /\ PlantedExactly
  BY DEF FencedNeverStale, PlantedExactly
<1> USE LeadsAssumption DEF IInv
<1>1. ready = <<>> /\ pc["reader"] = "checked"
  BY DEF Checked, Turns, TypeOK, Tasks
<1>2. cache = FinalEntry /\ acked_version = 2
  BY <1>1 DEF Data, Checked
<1>3. found # NoViolation <=> (FinalEntry # Miss /\ FinalEntry < 2)
  BY <1>2 DEF Verdict
<1>4. FinalEntry # Miss /\ FinalEntry < 2
        <=> /\ variant = "Planted"
            /\ reader_lead <= writer_lead
            /\ writer_lead < reader_lead + reader_gap
  BY DEF FinalEntry, Miss, TypeOK
<1> QED BY <1>3, <1>4 DEF FencedNeverStale, PlantedExactly

(* The fenced reader passes its check under every interleaving the yields    *)
(* can give.                                                                 *)
THEOREM Fenced == Spec => []FencedNeverStale
BY Invariance, Verdicts, PTL

(* The planted reader is caught exactly when the commit falls between its    *)
(* fetch and its populate.                                                   *)
THEOREM Planted == Spec => []PlantedExactly
BY Invariance, Verdicts, PTL

(* With one reader the cache is empty when it looks.                         *)
THEOREM Missed == Spec => []NeverAHit
<1>1. IInv => NeverAHit
  BY DEF IInv, Data, NeverAHit
<1> QED BY <1>1, Invariance, PTL

-----------------------------------------------------------------------------
(* An engine with two invariants.                                            *)

Invariants == {"under_cap", "monotonic"}

LEMMA BrokenOfTwo ==
    ASSUME NEW a, NEW b
    PROVE  /\ a.holds /\ b.holds => R!Broken(<<a, b>>) = {}
           /\ ~a.holds /\ b.holds => R!Broken(<<a, b>>) = {1}
           /\ a.holds /\ ~b.holds => R!Broken(<<a, b>>) = {2}
           /\ ~a.holds /\ ~b.holds => R!Broken(<<a, b>>) = {1, 2}
BY DEF R!Broken

(* check() looks at the second one only if the first holds. *)
LEMMA CheckOfTwo ==
    ASSUME NEW a, NEW b, NEW n
    PROVE  /\ a.holds /\ b.holds =>
                /\ R!check(n, <<a, b>>) = R!NoViolation
                /\ R!Evaluated(<<a, b>>) = {1, 2}
           /\ ~a.holds =>
                /\ R!check(n, <<a, b>>) = R!Violation(n, a.name)
                /\ R!Evaluated(<<a, b>>) = {1}
           /\ a.holds /\ ~b.holds =>
                /\ R!check(n, <<a, b>>) = R!Violation(n, b.name)
                /\ R!Evaluated(<<a, b>>) = {1, 2}
<1>1. /\ ~a.holds => R!FirstBroken(<<a, b>>) = 1
      /\ a.holds /\ ~b.holds => R!FirstBroken(<<a, b>>) = 2
  BY BrokenOfTwo DEF R!FirstBroken
<1>2. DOMAIN <<a, b>> = {1, 2} /\ 1 .. 1 = {1} /\ 1 .. 2 = {1, 2}
  OBVIOUS
<1> QED
  BY <1>1, <1>2, BrokenOfTwo DEF R!check, R!Evaluated

LEMMA AsSequence ==
    ASSUME NEW S, NEW k \in Nat, NEW r \in [1 .. k -> S]
    PROVE  r \in Seq(S) /\ Len(r) = k
<1>1. r \in Seq(S)
  BY SeqDef
<1>2. DOMAIN r = 1 .. k /\ DOMAIN r = 1 .. Len(r) /\ Len(r) \in Nat
  BY <1>1, LenProperties
<1> QED
  BY <1>1, <1>2

(* InvariantRun has a Cardinality of its own, which is the same. *)
LEMMA SameCardinality == \A S : R!Cardinality(S) = Cardinality(S)
BY Zenon DEF R!Cardinality, Cardinality

LEMMA UpToTwo ==
    /\ R!Cardinality({}) = 0
    /\ \A x : R!Cardinality({x}) = 1
    /\ R!Cardinality({1, 2}) = 2
<1>1. {1, 2} = {1} \cup {2} /\ 2 \notin {1}
  OBVIOUS
<1>2. IsFiniteSet({1}) /\ Cardinality({1}) = 1
  BY FS_Singleton
<1>3. Cardinality({1} \cup {2}) = 1 + 1
  BY <1>1, <1>2, FS_AddElement
<1>4. Cardinality({1, 2}) = 2
  BY <1>1, <1>3
<1> QED
  BY <1>4, FS_EmptySet, FS_Singleton, SameCardinality

(* check_all() reports each that is broken, and two in their order. *)
Reports == [step : Nat, invariant : Invariants]

BothReported(r, a, b) ==
    /\ r \in Seq(Reports)
    /\ {r[i].invariant : i \in DOMAIN r} =
            (IF a.holds THEN {} ELSE {a.name}) \cup (IF b.holds THEN {} ELSE {b.name})
    /\ Len(r) = 2 => r[1].invariant = a.name

LEMMA AllOfTwo ==
    ASSUME NEW a, NEW b, NEW n \in Nat, a.name \in Invariants, b.name \in Invariants
    PROVE  BothReported(R!check_all(n, <<a, b>>), a, b)
<1>0. PICK r : r = R!check_all(n, <<a, b>>)
  OBVIOUS
<1> SUFFICES BothReported(r, a, b)
  BY <1>0
<1> USE DEF BothReported, Reports
<1>1. PICK v : v = <<a, b>> /\ v[1] = a /\ v[2] = b
  <2>1. <<a, b>>[1] = a /\ <<a, b>>[2] = b
    OBVIOUS
  <2> QED
    BY <2>1
<1>2. PICK B : B = R!Broken(v)
  OBVIOUS
<1>3. r = [i \in 1 .. R!Cardinality(B) |-> R!Violation(n, v[R!NthBroken(v, i)].name)]
  BY <1>0, <1>1, <1>2 DEF R!check_all
<1>4. \A i \in {1, 2} : /\ R!Violation(n, v[i].name) \in Reports
                        /\ R!Violation(n, v[i].name).invariant = v[i].name
  BY <1>1 DEF R!Violation
<1>5. CASE B = {}
  <2>0. R!Cardinality(B) = 0
    BY <1>5, UpToTwo
  <2>1. r = [i \in 1 .. 0 |-> R!Violation(n, v[R!NthBroken(v, i)].name)]
    BY <1>3, <2>0
  <2>2. r \in Seq(Reports) /\ Len(r) = 0
    <3>1. r \in [1 .. 0 -> Reports]
      BY <2>1
    <3> QED
      BY <3>1, AsSequence
  <2>3. {r[i].invariant : i \in DOMAIN r} = {}
    BY <2>1
  <2>4. a.holds /\ b.holds
    BY <1>1, <1>2, <1>5, BrokenOfTwo
  <2> QED
    BY <2>2, <2>3, <2>4
<1>6. ASSUME NEW x \in {1, 2}, B = {x}
      PROVE  /\ r \in Seq(Reports) /\ Len(r) = 1
             /\ {r[i].invariant : i \in DOMAIN r} = {v[x].name}
  <2>1. R!Cardinality({j \in R!Broken(v) : j <= x}) = 1
    <3>1. {j \in R!Broken(v) : j <= x} = {x}
      BY <1>2, <1>6
    <3> QED
      BY <3>1, UpToTwo
  <2>2. R!NthBroken(v, 1) = x
    BY <1>2, <1>6, <2>1 DEF R!NthBroken
  <2>3. DOMAIN r = 1 .. 1 /\ r = [i \in 1 .. 1 |-> r[i]] /\ r[1] = R!Violation(n, v[x].name)
    <3>1. R!Cardinality(B) = 1
      BY <1>6, UpToTwo
    <3>2. r = [i \in 1 .. 1 |-> R!Violation(n, v[R!NthBroken(v, i)].name)]
      BY <1>3, <3>1
    <3> QED
      BY <2>2, <3>2
  <2>4. r \in [1 .. 1 -> Reports]
    BY <1>4, <2>3
  <2>5. r \in Seq(Reports) /\ Len(r) = 1
    BY <2>4, AsSequence
  <2> QED
    BY <1>4, <2>3, <2>5
<1>7. CASE B = {1, 2}
  <2>1. R!Cardinality({j \in R!Broken(v) : j <= 1}) = 1 /\ R!Cardinality({j \in R!Broken(v) : j <= 2}) = 2
    <3>1. {j \in R!Broken(v) : j <= 1} = {1} /\ {j \in R!Broken(v) : j <= 2} = {1, 2}
      BY <1>2, <1>7
    <3> QED
      BY <3>1, UpToTwo
  <2>2. R!NthBroken(v, 1) = 1 /\ R!NthBroken(v, 2) = 2
    BY <1>2, <1>7, <2>1 DEF R!NthBroken
  <2>3. /\ DOMAIN r = 1 .. 2 /\ r = [i \in 1 .. 2 |-> r[i]]
        /\ r[1] = R!Violation(n, v[1].name) /\ r[2] = R!Violation(n, v[2].name)
    <3>1. R!Cardinality(B) = 2
      BY <1>7, UpToTwo
    <3>2. r = [i \in 1 .. 2 |-> R!Violation(n, v[R!NthBroken(v, i)].name)]
      BY <1>3, <3>1
    <3> QED
      BY <2>2, <3>2
  <2>4. r \in [1 .. 2 -> Reports]
    BY <1>4, <2>3
  <2>5. r \in Seq(Reports) /\ Len(r) = 2
    BY <2>4, AsSequence
  <2>6. {r[i].invariant : i \in DOMAIN r} = {a.name, b.name} /\ r[1].invariant = a.name
    BY <1>1, <1>4, <2>3
  <2>7. ~a.holds /\ ~b.holds
    BY <1>1, <1>2, <1>7, BrokenOfTwo
  <2> QED
    BY <2>5, <2>6, <2>7
<1>8. CASE B = {1}
  <2>1. ~a.holds /\ b.holds
    BY <1>1, <1>2, <1>8, BrokenOfTwo
  <2> QED
    BY <1>1, <1>6, <1>8, <2>1
<1>9. CASE B = {2}
  <2>1. a.holds /\ ~b.holds
    BY <1>1, <1>2, <1>9, BrokenOfTwo
  <2> QED
    BY <1>1, <1>6, <1>9, <2>1
<1> QED
  BY <1>1, <1>2, <1>5, <1>7, <1>8, <1>9, BrokenOfTwo

-----------------------------------------------------------------------------
(* The run with the predicate that remembers.                                *)

CounterInv ==
    /\ order \in {<<"under_cap", "monotonic">>, <<"monotonic", "under_cap">>}
    /\ call \in {"check", "check_all"}
    /\ step \in Nat /\ value \in Int /\ prev \in Int
    /\ reported \in Seq(Seq(Reports)) /\ Len(reported) = step
    /\ R!OnlyTheSecondLags

LEMMA CounterInvInit == R!Init => CounterInv
BY DEF R!Init, CounterInv, R!OnlyTheSecondLags

(* What the two predicates say of a step, in the order of declaration. *)
LEMMA VerdictsOfTwo ==
    ASSUME CounterInv, NEW v \in Int, NEW c \in Int
    PROVE  R!Verdicts(v, c, prev) =
              <<[name |-> order[1], holds |-> R!Holds(order[1], v, c, prev)],
                [name |-> order[2], holds |-> R!Holds(order[2], v, c, prev)]>>
BY DEF CounterInv, R!Verdicts

(* The report of a step is the last one, and those before it stay. *)
LEMMA ReportAppended ==
    ASSUME CounterInv, NEW now \in Seq(Reports),
           reported' = Append(reported, now), step' = step + 1
    PROVE  /\ reported' \in Seq(Seq(Reports)) /\ Len(reported') = step'
           /\ reported'[step + 1] = now
           /\ R!SawViolation \/ now # <<>> => R!SawViolation'
<1>1. /\ reported' \in Seq(Seq(Reports))
      /\ Len(reported') = step + 1
      /\ reported'[step + 1] = now
      /\ \A k \in 1 .. step : reported'[k] = reported[k]
  BY AppendProperties DEF CounterInv
<1>2. DOMAIN reported = 1 .. step /\ DOMAIN reported' = 1 .. step + 1 /\ step \in Nat
  BY <1>1, LenProperties DEF CounterInv
<1>3. ASSUME R!SawViolation PROVE R!SawViolation'
  <2>1. PICK k \in DOMAIN reported : reported[k] # <<>>
    BY <1>3 DEF R!SawViolation
  <2>2. k \in DOMAIN reported' /\ reported'[k] # <<>>
    BY <1>1, <1>2, <2>1
  <2> QED
    BY <2>2 DEF R!SawViolation
<1>4. ASSUME now # <<>> PROVE R!SawViolation'
  <2>1. step + 1 \in DOMAIN reported' /\ reported'[step + 1] # <<>>
    BY <1>1, <1>2, <1>4
  <2> QED
    BY <2>1 DEF R!SawViolation
<1> QED
  BY <1>1, <1>3, <1>4

FirstIsExact ==
    (call = "check" /\ step' # step /\ ~R!SawViolation) =>
        LET now    == reported'[step + 1]
            broken == R!BrokenAt(value', cap', value)
        IN  /\ now = <<>> <=> broken = {}
            /\ now # <<>> =>
                /\ now[1].step = step
                /\ now[1].invariant \in broken
                /\ order[1] \in broken => now[1].invariant = order[1]

AllAreExact ==
    (call = "check_all" /\ step' # step) =>
        LET now == reported'[step + 1]
        IN  /\ R!Names(now) = R!BrokenAt(value', cap', value)
            /\ Len(now) = 2 => now[1].invariant = order[1]

LEMMA CounterStep ==
    ASSUME CounterInv, NEW v \in Int, NEW c \in Int, R!Step(v, c)
    PROVE  CounterInv' /\ FirstIsExact /\ AllAreExact
<1> DEFINE holds(n) == R!Holds(n, v, c, prev)
           verdicts == R!Verdicts(v, c, prev)
<1>1. PICK a, b : /\ a = [name |-> order[1], holds |-> holds(order[1])]
                  /\ b = [name |-> order[2], holds |-> holds(order[2])]
  OBVIOUS
<1>2. verdicts = <<a, b>>
  BY <1>1, VerdictsOfTwo
<1>3. /\ a.name = order[1] /\ a.holds = holds(order[1])
      /\ b.name = order[2] /\ b.holds = holds(order[2])
  BY <1>1
<1>4. /\ {order[1], order[2]} = Invariants /\ order[1] # order[2]
      /\ order[1] \in Invariants /\ order[2] \in Invariants
      /\ call \in {"check", "check_all"} /\ step \in Nat /\ value \in Int /\ prev \in Int
  BY DEF CounterInv, Invariants
<1>5. /\ step' = step + 1 /\ value' = v /\ cap' = c /\ UNCHANGED <<order, call>>
      /\ step' \in Nat /\ value' \in Int /\ step' # step
  BY <1>4 DEF R!Step
<1>6. \A l : R!BrokenAt(v, c, l) = {n \in Invariants : ~R!Holds(n, v, c, l)}
  BY DEF R!BrokenAt, Invariants
<1>7. R!BrokenAt(v, c, prev) = (IF a.holds THEN {} ELSE {order[1]}) \cup (IF b.holds THEN {} ELSE {order[2]})
  BY <1>3, <1>4, <1>6
<1>8. CASE call = "check_all"
  <2>1. reported' = Append(reported, R!check_all(step, <<a, b>>)) /\ prev' = R!Remember(DOMAIN verdicts, v)
    BY <1>2, <1>8 DEF R!Step
  <2>2. PICK now : now = R!check_all(step, <<a, b>>)
    OBVIOUS
  <2>3. /\ now \in Seq(Reports)
        /\ {now[i].invariant : i \in DOMAIN now} =
                (IF a.holds THEN {} ELSE {order[1]}) \cup (IF b.holds THEN {} ELSE {order[2]})
        /\ Len(now) = 2 => now[1].invariant = order[1]
    <3>1. a.name \in Invariants /\ b.name \in Invariants
      BY <1>3, <1>4
    <3>2. BothReported(now, a, b)
      BY <1>4, <2>2, <3>1, AllOfTwo
    <3> QED
      BY <1>3, <3>2 DEF BothReported
  <2>4. reported' \in Seq(Seq(Reports)) /\ Len(reported') = step' /\ reported'[step + 1] = now
    BY <1>5, <2>1, <2>2, <2>3, ReportAppended
  <2>5. prev' = v
    <3>1. DOMAIN verdicts = {1, 2}
      BY <1>2
    <3> QED
      BY <1>4, <2>1, <3>1 DEF R!Remember, Invariants
  <2>6. prev = value
    BY <1>8 DEF CounterInv, R!OnlyTheSecondLags
  <2>7. CounterInv'
    BY <1>5, <2>4, <2>5 DEF CounterInv, R!OnlyTheSecondLags
  <2>8. AllAreExact
    BY <1>5, <1>7, <2>3, <2>4, <2>6 DEF AllAreExact, R!Names
  <2> QED
    BY <1>8, <2>7, <2>8 DEF FirstIsExact
<1>9. CASE call = "check"
  <2>1. PICK first : first = R!check(step, <<a, b>>)
    OBVIOUS
  <2>2. PICK now : now = IF first = R!NoViolation THEN <<>> ELSE <<first>>
    OBVIOUS
  <2>3. reported' = Append(reported, now) /\ prev' = R!Remember(R!Evaluated(<<a, b>>), v)
    BY <1>2, <1>9, <2>1, <2>2 DEF R!Step
  <2>4. \A n \in Invariants : R!Violation(step, n) \in Reports /\ R!Violation(step, n) # R!NoViolation
    BY <1>4 DEF R!Violation, R!NoViolation, Invariants, Reports
  <2>5. /\ a.holds /\ b.holds => now = <<>> /\ R!Evaluated(<<a, b>>) = {1, 2}
        /\ ~a.holds => now = <<R!Violation(step, order[1])>> /\ R!Evaluated(<<a, b>>) = {1}
        /\ a.holds /\ ~b.holds =>
                now = <<R!Violation(step, order[2])>> /\ R!Evaluated(<<a, b>>) = {1, 2}
    BY <1>3, <1>4, <2>1, <2>2, <2>4, CheckOfTwo
  <2>6. now \in Seq(Reports)
    <3>1. \A n \in Invariants : <<R!Violation(step, n)>> \in Seq(Reports)
      BY <2>4
    <3>2. <<>> \in Seq(Reports)
      OBVIOUS
    <3> QED
      BY <1>4, <2>5, <3>1, <3>2
  <2>7. /\ reported' \in Seq(Seq(Reports)) /\ Len(reported') = step' /\ reported'[step + 1] = now
        /\ R!SawViolation \/ now # <<>> => R!SawViolation'
    BY <1>5, <2>3, <2>6, ReportAppended
  <2>8. prev' # v => now # <<>> /\ order[2] = "monotonic" /\ prev' = prev
    <3>1. CASE 2 \in R!Evaluated(<<a, b>>) /\ 1 \in R!Evaluated(<<a, b>>)
      BY <1>4, <2>3, <3>1 DEF R!Remember, Invariants
    <3>2. CASE ~a.holds
      <4>1. now # <<>> /\ R!Evaluated(<<a, b>>) = {1}
        BY <2>5, <3>2
      <4> QED
        BY <1>4, <2>3, <4>1 DEF R!Remember, Invariants
    <3> QED
      BY <2>5, <3>1, <3>2
  <2>9. CounterInv'
    BY <1>4, <1>5, <1>9, <2>3, <2>7, <2>8 DEF CounterInv, R!OnlyTheSecondLags
  <2>10. ASSUME ~R!SawViolation PROVE FirstIsExact
    <3>1. prev = value
      BY <2>10 DEF CounterInv, R!OnlyTheSecondLags
    <3>2. R!Violation(step, order[1]).step = step /\ R!Violation(step, order[1]).invariant = order[1]
      BY DEF R!Violation
    <3>3. R!Violation(step, order[2]).step = step /\ R!Violation(step, order[2]).invariant = order[2]
      BY DEF R!Violation
    <3>4. CASE a.holds /\ b.holds
      <4>1. now = <<>> /\ R!BrokenAt(v, c, value) = {}
        BY <1>7, <2>5, <3>1, <3>4
      <4> QED
        BY <1>5, <2>7, <4>1 DEF FirstIsExact
    <3>5. CASE ~a.holds
      <4>1. /\ now = <<R!Violation(step, order[1])>> /\ now # <<>>
            /\ order[1] \in R!BrokenAt(v, c, value)
        BY <1>7, <2>5, <3>1, <3>5
      <4> QED
        BY <1>5, <2>7, <3>2, <4>1 DEF FirstIsExact
    <3>6. CASE a.holds /\ ~b.holds
      <4>1. /\ now = <<R!Violation(step, order[2])>> /\ now # <<>>
            /\ order[2] \in R!BrokenAt(v, c, value) /\ order[1] \notin R!BrokenAt(v, c, value)
        <5>1. now = <<R!Violation(step, order[2])>>
          BY <2>5, <3>6
        <5>2. R!BrokenAt(v, c, value) = {order[2]}
          BY <1>7, <3>1, <3>6
        <5> QED
          BY <1>4, <5>1, <5>2
      <4> QED
        BY <1>4, <1>5, <2>7, <3>3, <4>1 DEF FirstIsExact
    <3> QED
      BY <3>4, <3>5, <3>6
  <2> QED
    BY <1>9, <2>9, <2>10 DEF FirstIsExact, AllAreExact
<1> QED
  BY <1>4, <1>8, <1>9

LEMMA CounterInvNext ==
    CounterInv /\ [R!Next]_R!vars => CounterInv' /\ [FirstIsExact]_R!vars /\ [AllAreExact]_R!vars
<1> SUFFICES ASSUME CounterInv, [R!Next]_R!vars
             PROVE  CounterInv' /\ [FirstIsExact]_R!vars /\ [AllAreExact]_R!vars
    OBVIOUS
<1>1. CASE UNCHANGED R!vars
  BY <1>1 DEF R!vars, CounterInv, R!OnlyTheSecondLags, R!SawViolation
<1>2. ASSUME NEW v \in 0 .. MaxValue, NEW c \in 0 .. MaxValue, R!Step(v, c)
      PROVE  CounterInv' /\ FirstIsExact /\ AllAreExact
  BY <1>2, CounterStep
<1> QED
  BY <1>1, <1>2 DEF R!Next

-----------------------------------------------------------------------------
(* The race and the counter, side by side.                                   *)

LEMMA CounterAlone == MCSpec => R!Spec
<1>1. MCInit => R!Init
  BY DEF MCInit
<1>2. [MCNext]_<<part, vars, counter, link, review>> => [R!Next]_R!vars
  BY DEF MCNext, counter, R!vars
<1> QED
  BY <1>1, <1>2, PTL DEF MCSpec, R!Spec

LEMMA CounterInvariance == R!Spec => []CounterInv
BY CounterInvInit, CounterInvNext, PTL DEF R!Spec

(* The memory of the predicate lags behind the counter only with check(),    *)
(* only if it is declared second, and only after a violation was reported.   *)
THEOREM SecondLags == MCSpec => []OnlyTheSecondLags
<1>1. CounterInv => OnlyTheSecondLags
  BY DEF CounterInv, OnlyTheSecondLags
<1> QED
  BY <1>1, CounterAlone, CounterInvariance, PTL

(* check() reports the first step that broke anything and the first          *)
(* invariant declared among the broken, check_all() all that a step broke.   *)
THEOREM Reported == MCSpec => ReportsAreExact
<1>1. R!Spec => [][FirstIsExact]_R!vars /\ [][AllAreExact]_R!vars
  BY CounterInvariance, CounterInvNext, PTL DEF R!Spec
<1>2. [][FirstIsExact]_R!vars => R!FirstViolationExact
  BY DEF R!FirstViolationExact, FirstIsExact
<1>3. [][AllAreExact]_R!vars => R!AllIsExact
  BY DEF R!AllIsExact, AllAreExact
<1> QED
  BY <1>1, <1>2, <1>3, CounterAlone, PTL DEF ReportsAreExact

-----------------------------------------------------------------------------
(* The link and its clients.  A send consumes its step before it knows the   *)
(* outcome.  So the sends that are still under way are counted with those    *)
(* that have failed, and both are charged to the steps that were consumed.   *)

LEMMA SameSize == \A S : N!Cardinality(S) = Cardinality(S)
BY Zenon DEF N!Cardinality, Cardinality

LEMMA SameFinite == \A S : N!IsFiniteSet(S) => IsFiniteSet(S)
BY Zenon DEF N!IsFiniteSet, IsFiniteSet

LEMMA LinkAlone == MCSpec => N!Spec
<1>1. MCInit => N!Init
  BY DEF MCInit
<1>2. [MCNext]_<<part, vars, counter, link, review>> => [N!Next]_N!vars
  BY DEF MCNext, link, N!vars
<1> QED
  BY <1>1, <1>2, PTL DEF MCSpec, N!Spec

(* The steps whose send is not delivered. *)
Faulty == N!fault_steps(N!without_clock_skew(schedule))

Lost(p, m)     == {c \in Callers : p[c] = "sent" /\ m[c] \in Faulty}
Consumed(k)    == {s \in Faulty : s < k}
UnderWay       == Lost(cpc, mine)

Charged ==
    failures + Cardinality(UnderWay)
        <= resets * Cardinality(Faulty) + Cardinality(Consumed(sends))

LinkTypes ==
    /\ schedule \in N!Schedules(MaxFaults, N!Faults)
    /\ sends \in Nat /\ resets \in Nat /\ failures \in Nat
    /\ cpc \in [Callers -> {"sending", "sent", "ok", "err"}]
    /\ mine \in [Callers -> Nat]

LinkInv == LinkTypes /\ Charged

-----------------------------------------------------------------------------
(* A schedule is a sequence of faults. *)
LEMMA SchedulesAreSequences ==
    ASSUME NEW s \in N!Schedules(MaxFaults, N!Faults)
    PROVE  /\ s \in Seq(N!Faults)
           /\ Len(s) \in Nat
           /\ DOMAIN s = 1 .. Len(s)
           /\ \A i \in 1 .. Len(s) : s[i] \in N!Faults
<1>1. PICK k \in 0 .. MaxFaults : s \in [1 .. k -> N!Faults]
  BY DEF N!Schedules
<1>2. k \in Nat
  BY LinkAssumption DEF N!NetworkAssumption
<1>3. s \in Seq(N!Faults)
  BY <1>1, <1>2, SeqDef
<1> QED BY <1>3, LenProperties, ElementOfSeq

(* A step is faulty iff its send is not delivered. *)
LEMMA FaultyIsUndelivered ==
    ASSUME schedule \in N!Schedules(MaxFaults, N!Faults), NEW k \in Nat
    PROVE  k \in Faulty <=> ~N!IsDelivered(N!DeliveryOf(N!at(schedule, k)))
<1> DEFINE w == N!without_clock_skew(schedule)
<1>1. /\ Len(schedule) \in Nat /\ DOMAIN schedule = 1 .. Len(schedule)
      /\ \A i \in 1 .. Len(schedule) : schedule[i] \in N!Faults
  BY SchedulesAreSequences
<1>2. /\ DOMAIN w = 1 .. Len(schedule)
      /\ \A i \in 1 .. Len(schedule) :
            w[i] = IF schedule[i].kind = "ClockSkew" THEN N!Quiet ELSE schedule[i]
  BY <1>1 DEF N!without_clock_skew
<1>3. \A i \in 1 .. Len(schedule) : w[i] \in N!Faults
  BY <1>1, <1>2 DEF N!Faults
<1>4. w \in Seq(N!Faults)
  <2>1. w = [i \in 1 .. Len(schedule) |-> w[i]]
    BY <1>1 DEF N!without_clock_skew
  <2> QED BY <2>1, <1>1, <1>3, IsASeq
<1>5. Len(w) = Len(schedule)
  BY <1>1, <1>2, <1>4, LenProperties
<1>6. k \in Faulty <=> k < Len(schedule) /\ N!IsFault(w[k + 1])
  BY <1>1, <1>5 DEF Faulty, N!fault_steps
<1>7. CASE k < Len(schedule)
  <2>1. k + 1 \in 1 .. Len(schedule) /\ schedule[k + 1] \in N!Faults
    BY <1>1, <1>7
  <2>2. N!at(schedule, k) = schedule[k + 1]
    BY <1>7 DEF N!at
  <2>3. N!IsFault(w[k + 1]) <=> ~N!IsDelivered(N!DeliveryOf(schedule[k + 1]))
    BY <1>2, <2>1
       DEF N!Faults, N!Fault, N!Quiet, N!Transient, N!Crash, N!Skew, N!IsFault, N!IsDelivered, N!DeliveryOf
  <2> QED BY <1>6, <1>7, <2>2, <2>3
<1>8. CASE ~(k < Len(schedule))
  BY <1>6, <1>8 DEF N!at, N!IsDelivered, N!DeliveryOf, N!Quiet, N!Fault
<1> QED BY <1>7, <1>8

LEMMA FaultyIsFinite ==
    ASSUME schedule \in N!Schedules(MaxFaults, N!Faults)
    PROVE  /\ IsFiniteSet(Faulty) /\ Faulty \subseteq Nat
           /\ Cardinality(Faulty) \in Nat
<1> DEFINE top == Len(N!without_clock_skew(schedule)) - 1
<1>1. Faulty \subseteq 0 .. top
  BY DEF Faulty, N!fault_steps
<1>2. top \in Int
  <2>1. Len(schedule) \in Nat /\ DOMAIN schedule = 1 .. Len(schedule)
    BY SchedulesAreSequences
  <2>2. N!without_clock_skew(schedule) =
            [i \in 1 .. Len(schedule) |-> N!without_clock_skew(schedule)[i]]
    BY <2>1 DEF N!without_clock_skew
  <2> DEFINE any == {N!without_clock_skew(schedule)[i] : i \in 1 .. Len(schedule)}
  <2>3. N!without_clock_skew(schedule) \in Seq(any)
    BY <2>1, <2>2, IsASeq
  <2> QED BY <2>3, LenProperties
<1>3. IsFiniteSet(0 .. top)
  BY <1>2, FS_Interval
<1>4. IsFiniteSet(Faulty)
  BY <1>1, <1>3, FS_Subset
<1> QED BY <1>1, <1>2, <1>4, FS_CardinalityType

LEMMA ConsumedIsFinite ==
    ASSUME schedule \in N!Schedules(MaxFaults, N!Faults), NEW k \in Nat
    PROVE  /\ IsFiniteSet(Consumed(k)) /\ Cardinality(Consumed(k)) \in Nat
           /\ Cardinality(Consumed(k)) <= Cardinality(Faulty)
<1>1. IsFiniteSet(Faulty) /\ Consumed(k) \in SUBSET Faulty
  BY FaultyIsFinite DEF Consumed
<1> QED BY <1>1, FS_Subset, FS_CardinalityType

LEMMA LostIsFinite ==
    ASSUME NEW p, NEW m
    PROVE  IsFiniteSet(Lost(p, m)) /\ Cardinality(Lost(p, m)) \in Nat
<1>1. IsFiniteSet(Callers) /\ Lost(p, m) \in SUBSET Callers
  BY LinkAssumption, SameFinite DEF N!NetworkAssumption, Lost
<1> QED BY <1>1, FS_Subset, FS_CardinalityType

-----------------------------------------------------------------------------
LEMMA LinkInitial == N!Init => LinkInv
<1> SUFFICES ASSUME N!Init PROVE LinkInv
  OBVIOUS
<1>1. LinkTypes
  BY DEF N!Init, LinkTypes
<1>2. UnderWay = {}
  BY DEF N!Init, UnderWay, Lost
<1>3. Cardinality(Faulty) \in Nat /\ Cardinality(Consumed(sends)) \in Nat
  BY <1>1, FaultyIsFinite, ConsumedIsFinite DEF LinkTypes
<1>4. Charged
  BY <1>2, <1>3, FS_EmptySet DEF N!Init, Charged
<1> QED BY <1>1, <1>4 DEF LinkInv

(* A send consumes a step: if it is faulty, one more is under way, and one   *)
(* more is consumed.                                                         *)
LEMMA SendKeeps == ASSUME LinkInv, NEW c \in Callers, N!Send(c) PROVE LinkInv'
<1> USE DEF LinkInv
<1>1. /\ cpc[c] = "sending" /\ schedule' = schedule /\ sends \in Nat
      /\ sends' = sends + 1 /\ failures' = failures /\ resets' = resets
      /\ cpc' = [cpc EXCEPT ![c] = "sent"] /\ mine' = [mine EXCEPT ![c] = sends]
  BY DEF N!Send, LinkTypes
<1>2. LinkTypes'
  BY <1>1 DEF LinkTypes
<1>3. Faulty' = Faulty
  BY <1>1 DEF Faulty, N!fault_steps, N!without_clock_skew
<1>4. UnderWay' = IF sends \in Faulty THEN UnderWay \cup {c} ELSE UnderWay
  BY <1>1, <1>3 DEF UnderWay, Lost, LinkTypes
<1>5. Consumed(sends)' =
        IF sends \in Faulty THEN Consumed(sends) \cup {sends} ELSE Consumed(sends)
  <2>1. Faulty \subseteq Nat
    BY FaultyIsFinite DEF LinkTypes
  <2>2. \A s \in Faulty : s < sends + 1 <=> s < sends \/ s = sends
    BY <1>1, <2>1
  <2>3. Consumed(sends)' = {s \in Faulty : s < sends + 1}
    BY <1>1, <1>3 DEF Consumed
  <2>4. CASE sends \in Faulty
    BY <2>2, <2>3, <2>4 DEF Consumed
  <2>5. CASE sends \notin Faulty
    BY <2>2, <2>3, <2>5 DEF Consumed
  <2> QED BY <2>4, <2>5
<1>6. c \notin UnderWay /\ sends \notin Consumed(sends)
  BY <1>1 DEF UnderWay, Lost, Consumed
<1>7. /\ IsFiniteSet(UnderWay) /\ Cardinality(UnderWay) \in Nat
      /\ IsFiniteSet(Consumed(sends)) /\ Cardinality(Consumed(sends)) \in Nat
  BY <1>1, LostIsFinite, ConsumedIsFinite DEF UnderWay, LinkTypes
<1>8. resets * Cardinality(Faulty) \in Nat
  BY FaultyIsFinite DEF LinkTypes
<1>9. /\ Cardinality(UnderWay') =
            Cardinality(UnderWay) + (IF sends \in Faulty THEN 1 ELSE 0)
      /\ Cardinality(Consumed(sends)') =
            Cardinality(Consumed(sends)) + (IF sends \in Faulty THEN 1 ELSE 0)
  <2>1. /\ Cardinality(UnderWay \cup {c}) = Cardinality(UnderWay) + 1
        /\ Cardinality(Consumed(sends) \cup {sends}) = Cardinality(Consumed(sends)) + 1
    BY <1>6, <1>7, FS_AddElement
  <2>2. CASE sends \in Faulty
    BY <1>4, <1>5, <2>1, <2>2
  <2>3. CASE sends \notin Faulty
    BY <1>4, <1>5, <1>7, <2>3
  <2> QED BY <2>2, <2>3
<1>10. Charged'
  <2> DEFINE product == resets * Cardinality(Faulty)
             u == Cardinality(UnderWay)   u1 == Cardinality(UnderWay')
             k == Cardinality(Consumed(sends))   k1 == Cardinality(Consumed(sends)')
  <2>1. failures + u <= product + k
    BY DEF Charged
  <2>2. failures \in Nat /\ product \in Nat /\ u \in Nat /\ k \in Nat
    BY <1>7, <1>8 DEF LinkTypes
  <2>3. \E n \in {0, 1} : u1 = u + n /\ k1 = k + n
    BY <1>9
  <2> HIDE DEF product, u, u1, k, k1
  <2>4. failures + u1 <= product + k1
    BY <2>1, <2>2, <2>3
  <2> QED BY <2>4, <1>1, <1>3 DEF Charged, product, u1, k1
<1> QED BY <1>2, <1>10

(* The outcome of a send that is not delivered is a failure, and no longer   *)
(* under way.                                                                *)
LEMMA OutcomeKeeps == ASSUME LinkInv, NEW c \in Callers, N!Outcome(c) PROVE LinkInv'
<1> USE DEF LinkInv
<1> DEFINE lost == mine[c] \in Faulty
<1>1. /\ cpc[c] = "sent" /\ mine[c] \in Nat
      /\ schedule' = schedule /\ sends' = sends /\ mine' = mine /\ resets' = resets
  BY DEF N!Outcome, LinkTypes
<1>2. lost <=> ~N!IsDelivered(N!DeliveryOf(N!at(schedule, mine[c])))
  BY <1>1, FaultyIsUndelivered DEF LinkTypes
<1>3. failures' = IF lost THEN failures + 1 ELSE failures
  BY <1>2 DEF N!Outcome
<1>4. PICK q \in {"ok", "sending", "err"} : cpc' = [cpc EXCEPT ![c] = q]
  BY DEF N!Outcome
<1>5. LinkTypes'
  BY <1>1, <1>3, <1>4 DEF LinkTypes
<1>6. Faulty' = Faulty
  BY <1>1 DEF Faulty, N!fault_steps, N!without_clock_skew
<1>7. UnderWay' = UnderWay \ {c}
  BY <1>1, <1>4, <1>6 DEF UnderWay, Lost, LinkTypes
<1>8. c \in UnderWay <=> lost
  BY <1>1 DEF UnderWay, Lost
<1>9. IsFiniteSet(UnderWay) /\ Cardinality(UnderWay) \in Nat
  BY LostIsFinite DEF UnderWay
<1>10. Cardinality(UnderWay') =
            IF lost THEN Cardinality(UnderWay) - 1 ELSE Cardinality(UnderWay)
  BY <1>7, <1>8, <1>9, FS_RemoveElement
<1>11. failures' + Cardinality(UnderWay') = failures + Cardinality(UnderWay)
  BY <1>3, <1>9, <1>10 DEF LinkTypes
<1>12. Consumed(sends)' = Consumed(sends)
  BY <1>1, <1>6 DEF Consumed
<1>13. Charged'
  BY <1>1, <1>6, <1>11, <1>12 DEF Charged
<1> QED BY <1>5, <1>13

(* A rewind starts a new playing: what was consumed is at most all faults.   *)
LEMMA ResetKeeps == ASSUME LinkInv, N!Reset PROVE LinkInv'
<1> USE DEF LinkInv
<1>1. /\ schedule' = schedule /\ sends' = 0 /\ resets' = resets + 1
      /\ cpc' = cpc /\ mine' = mine /\ failures' = failures
  BY DEF N!Reset
<1>2. LinkTypes'
  BY <1>1 DEF LinkTypes
<1>3. Faulty' = Faulty
  BY <1>1 DEF Faulty, N!fault_steps, N!without_clock_skew
<1>4. UnderWay' = UnderWay
  BY <1>1, <1>3 DEF UnderWay, Lost
<1>5. /\ Cardinality(Consumed(sends)) \in Nat
      /\ Cardinality(Consumed(sends)) <= Cardinality(Faulty)
      /\ Cardinality(Faulty) \in Nat
      /\ Cardinality(Consumed(sends)') \in Nat
  <2>1. Consumed(sends)' = Consumed(0)
    BY <1>1, <1>3 DEF Consumed
  <2> QED BY <2>1, ConsumedIsFinite, FaultyIsFinite DEF LinkTypes
<1>6. /\ resets * Cardinality(Faulty) \in Nat
      /\ resets' * Cardinality(Faulty) = resets * Cardinality(Faulty) + Cardinality(Faulty)
  BY <1>1, <1>5 DEF LinkTypes
<1>7. Charged'
  <2> DEFINE product == resets * Cardinality(Faulty)
             product1 == resets' * Cardinality(Faulty)
             faults == Cardinality(Faulty)
             u == Cardinality(UnderWay)
             k == Cardinality(Consumed(sends))   k1 == Cardinality(Consumed(sends)')
  <2>1. failures + u <= product + k
    BY DEF Charged
  <2>2. /\ failures \in Nat /\ product \in Nat /\ u \in Nat /\ k \in Nat /\ k1 \in Nat
        /\ k <= faults /\ faults \in Nat /\ product1 = product + faults
    BY <1>5, <1>6, LostIsFinite DEF LinkTypes, UnderWay
  <2> HIDE DEF product, product1, faults, u, k, k1
  <2>3. failures + u <= product1 + k1
    BY <2>1, <2>2
  <2> QED BY <2>3, <1>1, <1>3, <1>4 DEF Charged, product1, u, k1
<1> QED BY <1>2, <1>7

(* What has failed and what is under way is charged to consumed steps, for   *)
(* however many callers and rewinds.                                         *)
THEOREM LinkInvariance == N!Spec => []LinkInv
<1>1. LinkInv /\ N!Next => LinkInv'
  BY SendKeeps, OutcomeKeeps, ResetKeeps DEF N!Next
<1>2. LinkInv /\ UNCHANGED N!vars => LinkInv'
  BY DEF LinkInv, LinkTypes, Charged, UnderWay, Lost, Consumed, Faulty, N!fault_steps,
         N!without_clock_skew, N!vars
<1> QED BY LinkInitial, <1>1, <1>2, PTL DEF N!Spec

(* Each playing of the schedule fails as many sends as it has faults, at     *)
(* most: no fault hits two of the concurrent sends.                          *)
THEOREM EachFaultOnce == MCSpec => []FaultsHitOnce
<1>1. LinkInv => FaultsHitOnce
  <2> SUFFICES ASSUME LinkInv PROVE FaultsHitOnce
    OBVIOUS
  <2>1. /\ Cardinality(UnderWay) \in Nat /\ Cardinality(Faulty) \in Nat
        /\ Cardinality(Consumed(sends)) \in Nat
        /\ Cardinality(Consumed(sends)) <= Cardinality(Faulty)
        /\ resets \in Nat /\ failures \in Nat
    BY LostIsFinite, FaultyIsFinite, ConsumedIsFinite DEF LinkInv, LinkTypes, UnderWay
  <2>2. /\ resets * Cardinality(Faulty) \in Nat
        /\ (resets + 1) * Cardinality(Faulty)
                = resets * Cardinality(Faulty) + Cardinality(Faulty)
    BY <2>1
  <2>3. failures + Cardinality(UnderWay)
            <= resets * Cardinality(Faulty) + Cardinality(Consumed(sends))
    BY DEF LinkInv, Charged
  <2> DEFINE product == resets * Cardinality(Faulty)
             product1 == (resets + 1) * Cardinality(Faulty)
             faults == Cardinality(Faulty)
             u == Cardinality(UnderWay)   k == Cardinality(Consumed(sends))
  <2>4. /\ failures + u <= product + k /\ product1 = product + faults
        /\ failures \in Nat /\ product \in Nat /\ u \in Nat /\ k \in Nat
        /\ k <= faults /\ faults \in Nat
    BY <2>1, <2>2, <2>3
  <2> HIDE DEF product, product1, faults, u, k
  <2>5. failures <= product1
    BY <2>4
  <2> QED BY <2>5, SameSize DEF product1, FaultsHitOnce, N!FaultsHitOnce, N!fault_count, Faulty
<1> QED BY LinkAlone, LinkInvariance, <1>1, PTL

-----------------------------------------------------------------------------
(* The client looks at an outcome twice: is_retryable() decides whether the  *)
(* link was clear, the match whether to return.                              *)
AgreeInv == LinkInv /\ clear \in [Callers -> BOOLEAN] /\ ClearMeansOk

LEMMA NothingBetween ==
    ASSUME schedule \in N!Schedules(MaxFaults, N!Faults), NEW k \in Nat
    PROVE  ~N!IsRetryable(N!DeliveryOf(N!at(schedule, k))) <=> N!IsDelivered(N!DeliveryOf(N!at(schedule, k)))
<1>1. N!at(schedule, k) \in N!Faults
  <2>1. CASE k < Len(schedule)
    <3>1. Len(schedule) \in Nat /\ \A i \in 1 .. Len(schedule) : schedule[i] \in N!Faults
      BY SchedulesAreSequences
    <3>2. k + 1 \in 1 .. Len(schedule)
      BY <2>1, <3>1
    <3> QED BY <2>1, <3>1, <3>2 DEF N!at
  <2>2. CASE ~(k < Len(schedule))
    BY <2>2 DEF N!at, N!Faults
  <2> QED BY <2>1, <2>2
<1> QED BY <1>1 DEF N!Faults, N!Fault, N!Quiet, N!Transient, N!Crash, N!Skew, N!DeliveryOf,
                    N!IsDelivered, N!IsRetryable

LEMMA AgreementKept ==
    ASSUME AgreeInv, NEW c \in Callers, N!Outcome(c)
    PROVE  clear' \in [Callers -> BOOLEAN] /\ ClearMeansOk'
<1> DEFINE d == N!DeliveryOf(N!at(schedule, mine[c]))
<1>1. /\ cpc \in [Callers -> {"sending", "sent", "ok", "err"}]
      /\ clear \in [Callers -> BOOLEAN] /\ cpc[c] = "sent" /\ mine[c] \in Nat
      /\ schedule \in N!Schedules(MaxFaults, N!Faults)
  BY DEF AgreeInv, LinkInv, LinkTypes, N!Outcome
<1>2. ~N!IsRetryable(d) <=> N!IsDelivered(d)
  BY <1>1, NothingBetween
<1>3. PICK q \in {"ok", "sending", "err"} :
        cpc' = [cpc EXCEPT ![c] = q] /\ (q = "ok" <=> N!IsDelivered(d))
  BY DEF N!Outcome
<1>4. ~clear[c]
  BY <1>1 DEF AgreeInv, ClearMeansOk, N!ClearMeansOk
<1>5. clear' = [clear EXCEPT ![c] = clear[c] \/ ~N!IsRetryable(d)]
  BY DEF N!Outcome
<1>6. clear' \in [Callers -> BOOLEAN]
  BY <1>1, <1>5
<1>7. ASSUME NEW e \in Callers PROVE clear'[e] <=> cpc'[e] = "ok"
  <2>1. CASE e = c
    <3>1. clear'[c] <=> N!IsDelivered(d)
      BY <1>1, <1>2, <1>4, <1>5, Zenon
    <3>2. cpc'[c] = q
      BY <1>1, <1>3
    <3> QED BY <1>3, <2>1, <3>1, <3>2
  <2>2. CASE e # c
    <3>1. clear'[e] = clear[e] /\ cpc'[e] = cpc[e]
      BY <1>1, <1>3, <1>5, <2>2
    <3> QED BY <3>1 DEF AgreeInv, ClearMeansOk, N!ClearMeansOk
  <2> QED BY <2>1, <2>2
<1> QED BY <1>6, <1>7 DEF ClearMeansOk, N!ClearMeansOk

(* "Link ever clear => returned Ok", and the reverse: is_delivered() and     *)
(* is_retryable() leave nothing between them, and a client that has returned *)
(* does not look again.                                                      *)
THEOREM ClearIsReturned == MCSpec => []ClearMeansOk
<1>1. N!Init => AgreeInv
  BY LinkInitial DEF N!Init, AgreeInv, ClearMeansOk, N!ClearMeansOk
<1>2. AgreeInv /\ N!Next => AgreeInv'
  <2> SUFFICES ASSUME AgreeInv, N!Next PROVE clear' \in [Callers -> BOOLEAN] /\ ClearMeansOk'
    BY SendKeeps, OutcomeKeeps, ResetKeeps DEF AgreeInv, N!Next
  <2>1. CASE N!Reset
    BY <2>1 DEF N!Reset, AgreeInv, ClearMeansOk, N!ClearMeansOk
  <2>2. ASSUME NEW c \in Callers, N!Send(c)
        PROVE  clear' \in [Callers -> BOOLEAN] /\ ClearMeansOk'
    <3>1. /\ clear' = clear /\ cpc[c] # "ok"
          /\ cpc' = [cpc EXCEPT ![c] = "sent"]
          /\ cpc \in [Callers -> {"sending", "sent", "ok", "err"}]
      BY <2>2 DEF N!Send, AgreeInv, LinkInv, LinkTypes
    <3> QED BY <3>1 DEF AgreeInv, ClearMeansOk, N!ClearMeansOk
  <2>3. ASSUME NEW c \in Callers, N!Outcome(c)
        PROVE  clear' \in [Callers -> BOOLEAN] /\ ClearMeansOk'
    BY <2>3, AgreementKept
  <2> QED BY <2>1, <2>2, <2>3 DEF N!Next
<1>3. AgreeInv /\ UNCHANGED N!vars => AgreeInv'
  BY DEF AgreeInv, ClearMeansOk, N!ClearMeansOk, N!vars, LinkInv, LinkTypes, Charged, UnderWay, Lost,
         Consumed, Faulty, N!fault_steps, N!without_clock_skew
<1>4. AgreeInv => ClearMeansOk
  BY DEF AgreeInv
<1> QED BY LinkAlone, <1>1, <1>2, <1>3, <1>4, PTL DEF N!Spec

-----------------------------------------------------------------------------
(* `review`: expressions.  What is computed of an expression from its parts  *)
(* exists, and what is true of all is proved by the first that is wrong.     *)

LEMMA Lowest ==
    ASSUME NEW S \in SUBSET Nat, S # {}
    PROVE  \E m \in S : \A n \in S : m <= n
<1>1. PICK m \in S : \A n \in S : ~(<<n, m>> \in OpToRel(<, Nat))
  BY NatLessThanWellFounded, WFMin, Zenon
<1>2. ASSUME NEW n \in Nat, NEW k \in Nat, n < k PROVE <<n, k>> \in OpToRel(<, Nat)
  <2>1. <<n, k>> \in Nat \X Nat /\ <<n, k>>[1] = n /\ <<n, k>>[2] = k
    OBVIOUS
  <2> QED
    BY <1>2, <2>1, Zenon DEF OpToRel
<1>3. ASSUME NEW n \in S PROVE ~(n < m)
  BY <1>1, <1>2, Zenon
<1> QED
  BY <1>3

Size        == Len(Exprs)
KindOf(e)   == Exprs[e].kind
Arity(e)    == Len(Exprs[e].args)
Below(e, f) == [n \in 1 .. Arity(e) |-> f[V!Part(e, n)]]
AllKinds    == V!Simple \cup V!Compound

LEMMA ExprsAre ==
    /\ Size \in Nat /\ DOMAIN Exprs = 1 .. Size
    /\ \A e \in 1 .. Size :
        /\ KindOf(e) \in AllKinds
        /\ Arity(e) \in Nat /\ DOMAIN Exprs[e].args = 1 .. Arity(e)
        /\ \A n \in 1 .. Arity(e) : V!Part(e, n) \in V!Parts(e) /\ V!Part(e, n) \in 1 .. e - 1
        /\ \A p \in V!Parts(e) : \E n \in 1 .. Arity(e) : p = V!Part(e, n)
        /\ KindOf(e) \in {"or", "and"} => Arity(e) = 2
        /\ KindOf(e) = "paren" => Arity(e) = 1
        /\ KindOf(e) = "block" => Arity(e) # 0
<1> DEFINE Rows == [kind : AllKinds, args : Seq(Nat)]
<1>1. Exprs \in Seq(Rows)
  BY ReviewAssumption DEF V!ReviewAssumption, AllKinds
<1>2. Size \in Nat /\ DOMAIN Exprs = 1 .. Size
  BY <1>1, LenProperties DEF Size
<1> SUFFICES ASSUME NEW e \in 1 .. Size
             PROVE
        /\ KindOf(e) \in AllKinds
        /\ Arity(e) \in Nat /\ DOMAIN Exprs[e].args = 1 .. Arity(e)
        /\ \A n \in 1 .. Arity(e) : V!Part(e, n) \in V!Parts(e) /\ V!Part(e, n) \in 1 .. e - 1
        /\ \A p \in V!Parts(e) : \E n \in 1 .. Arity(e) : p = V!Part(e, n)
        /\ KindOf(e) \in {"or", "and"} => Arity(e) = 2
        /\ KindOf(e) = "paren" => Arity(e) = 1
        /\ KindOf(e) = "block" => Arity(e) # 0
  BY <1>2
<1>3. Exprs[e] \in Rows
  BY <1>1, ElementOfSeq DEF Size
<1>4. KindOf(e) \in AllKinds /\ Exprs[e].args \in Seq(Nat)
  BY <1>3 DEF KindOf
<1>5. Arity(e) \in Nat /\ DOMAIN Exprs[e].args = 1 .. Arity(e)
  BY <1>4, LenProperties DEF Arity
<1>6. /\ V!Parts(e) \subseteq 1 .. e - 1
      /\ KindOf(e) \in {"or", "and"} => Arity(e) = 2
      /\ KindOf(e) = "paren" => Arity(e) = 1
      /\ KindOf(e) = "block" => Exprs[e].args # <<>>
  BY <1>2, ReviewAssumption DEF V!ReviewAssumption, KindOf, Arity
<1>7. KindOf(e) = "block" => Arity(e) # 0
  BY <1>4, <1>6, EmptySeq DEF Arity
<1>8. \A n \in 1 .. Arity(e) : V!Part(e, n) \in V!Parts(e)
  BY <1>5 DEF V!Parts
<1>9. \A p \in V!Parts(e) : \E n \in 1 .. Arity(e) : p = V!Part(e, n)
  BY <1>5 DEF V!Parts
<1> QED
  BY <1>4, <1>5, <1>6, <1>7, <1>8, <1>9

(* From expression to expression: there is a function whose value at each is *)
(* what `make` makes of those at its parts.                                  *)
Climbs(f, k, make) == \A e \in 1 .. k : f[e] = make[<<e, Below(e, f)>>]

LEMMA BelowIs ==
    ASSUME NEW S, NEW e \in 1 .. Size, NEW k \in Nat, e <= k + 1, NEW f \in [1 .. k -> S]
    PROVE  Below(e, f) \in Seq(S) /\ Len(Below(e, f)) = Arity(e)
<1>1. Arity(e) \in Nat /\ \A n \in 1 .. Arity(e) : V!Part(e, n) \in 1 .. k
  BY ExprsAre
<1>2. Below(e, f) \in [1 .. Arity(e) -> S]
  BY <1>1 DEF Below
<1> QED
  BY <1>1, <1>2, AsSequence

LEMMA BelowSame ==
    ASSUME NEW e \in 1 .. Size, NEW f, NEW g, \A p \in 1 .. e - 1 : f[p] = g[p]
    PROVE  Below(e, f) = Below(e, g)
BY ExprsAre DEF Below

LEMMA Climbed ==
    ASSUME NEW S, NEW make \in [(1 .. Size) \X Seq(S) -> S]
    PROVE  \E f \in [1 .. Size -> S] : Climbs(f, Size, make)
<1> DEFINE Short == {k \in 0 .. Size : ~\E f \in [1 .. k -> S] : Climbs(f, k, make)}
<1>1. Short = {}
  <2> SUFFICES ASSUME Short # {} PROVE FALSE
    OBVIOUS
  <2>1. PICK k \in Short : \A m \in Short : k <= m
    <3>1. Short \in SUBSET Nat
      BY ExprsAre
    <3> QED
      BY <3>1, Lowest
  <2>2. k \in 0 .. Size /\ k \in Nat /\ ~\E f \in [1 .. k -> S] : Climbs(f, k, make)
    BY ExprsAre
  <2>3. CASE k = 0
    <3>1. [n \in 1 .. 0 |-> n] \in [1 .. 0 -> S] /\ Climbs([n \in 1 .. 0 |-> n], 0, make)
      BY DEF Climbs
    <3> QED
      BY <2>2, <2>3, <3>1
  <2>4. CASE k # 0
    <3>1. k \in 1 .. Size /\ k - 1 \in 0 .. Size /\ k - 1 \in Nat
      BY <2>2, <2>4, ExprsAre
    <3>2. k - 1 \notin Short
      <4> HIDE DEF Short
      <4> QED
        BY <2>1, <3>1
    <3>3. PICK f \in [1 .. k - 1 -> S] : Climbs(f, k - 1, make)
      BY <3>1, <3>2
    <3> HIDE DEF Short
    <3>4. Below(k, f) \in Seq(S)
      <4>1. k <= (k - 1) + 1
        BY <3>1
      <4> QED
        BY <3>1, <4>1, BelowIs
    <3>5. make[<<k, Below(k, f)>>] \in S
      BY <3>1, <3>4
    <3> DEFINE g == [e \in 1 .. k |-> IF e = k THEN make[<<k, Below(k, f)>>] ELSE f[e]]
    <3>6. g \in [1 .. k -> S]
      BY <3>1, <3>5
    <3>7. \A p \in 1 .. k - 1 : g[p] = f[p]
      BY <3>1
    <3>8. g[k] = make[<<k, Below(k, f)>>]
      BY <3>1
    <3> HIDE DEF g
    <3>9. ASSUME NEW e \in 1 .. k PROVE g[e] = make[<<e, Below(e, g)>>]
      <4>1. e \in 1 .. Size /\ \A p \in 1 .. e - 1 : g[p] = f[p]
        <5>1. e \in 1 .. Size /\ \A p \in 1 .. e - 1 : p \in 1 .. k - 1
          BY <3>1, ExprsAre
        <5> QED
          BY <3>7, <5>1
      <4>2. Below(e, g) = Below(e, f)
        BY <4>1, BelowSame
      <4>3. CASE e = k
        BY <3>8, <4>2, <4>3
      <4>4. CASE e # k
        <5>1. e \in 1 .. k - 1
          BY <3>1, <4>4
        <5> QED
          BY <3>3, <3>7, <4>2, <5>1 DEF Climbs
      <4> QED
        BY <4>3, <4>4
    <3> QED
      BY <2>2, <3>6, <3>9 DEF Climbs
  <2> QED
    BY <2>3, <2>4
<1> QED
  BY <1>1, ExprsAre

(* What holds of an expression whenever it holds of its parts holds of all.  *)
LEMMA ByParts ==
    ASSUME NEW Good, \A e \in 1 .. Size :
                        (\A n \in 1 .. Arity(e) : V!Part(e, n) \in Good) => e \in Good
    PROVE  1 .. Size \subseteq Good
<1> DEFINE Bad == {e \in 1 .. Size : e \notin Good}
<1>1. Bad = {}
  <2> SUFFICES ASSUME Bad # {} PROVE FALSE
    OBVIOUS
  <2>1. PICK e \in Bad : \A m \in Bad : e <= m
    <3>1. Bad \in SUBSET Nat
      BY ExprsAre
    <3> QED
      BY <3>1, Lowest
  <2>2. \A n \in 1 .. Arity(e) : V!Part(e, n) \in 1 .. e - 1
    BY ExprsAre
  <2>3. \A p \in 1 .. e - 1 : p \in 1 .. Size /\ ~(e <= p)
    BY <2>1, ExprsAre
  <2> QED
    BY <2>1, <2>2, <2>3
<1> QED
  BY <1>1

(* The kinds of an expression.                                               *)
LEMMA KindsAre ==
    \A e \in 1 .. Size :
        V!Kinds[e] = {KindOf(e)} \cup UNION {V!Kinds[p] : p \in V!Parts(e)}
<1> DEFINE Is(g) == g = [e \in DOMAIN Exprs |->
                            {Exprs[e].kind} \cup UNION {g[p] : p \in V!Parts(e)}]
           make  == [a \in (1 .. Size) \X Seq(SUBSET AllKinds) |->
                            {KindOf(a[1])} \cup UNION {a[2][n] : n \in 1 .. Len(a[2])}]
<1>1. make \in [(1 .. Size) \X Seq(SUBSET AllKinds) -> SUBSET AllKinds]
  <2> SUFFICES ASSUME NEW e \in 1 .. Size, NEW s \in Seq(SUBSET AllKinds)
               PROVE  {KindOf(e)} \cup UNION {s[n] : n \in 1 .. Len(s)} \in SUBSET AllKinds
    OBVIOUS
  <2>1. \A n \in 1 .. Len(s) : s[n] \in SUBSET AllKinds
    BY ElementOfSeq
  <2> QED
    BY <2>1, ExprsAre
<1>2. PICK f \in [1 .. Size -> SUBSET AllKinds] : Climbs(f, Size, make)
  <2> HIDE DEF make
  <2> QED
    BY <1>1, Climbed
<1>3. ASSUME NEW e \in 1 .. Size
      PROVE  f[e] = {KindOf(e)} \cup UNION {f[p] : p \in V!Parts(e)}
  <2>1. Below(e, f) \in Seq(SUBSET AllKinds) /\ Len(Below(e, f)) = Arity(e)
    BY BelowIs, ExprsAre
  <2>2. f[e] = {KindOf(e)} \cup UNION {Below(e, f)[n] : n \in 1 .. Arity(e)}
    <3>1. f[e] = make[<<e, Below(e, f)>>]
      BY <1>2 DEF Climbs
    <3>2. <<e, Below(e, f)>> \in (1 .. Size) \X Seq(SUBSET AllKinds)
      BY <2>1
    <3> QED
      BY <2>1, <3>1, <3>2
  <2>3. \A n \in 1 .. Arity(e) : Below(e, f)[n] = f[V!Part(e, n)]
    BY DEF Below
  <2>4. {Below(e, f)[n] : n \in 1 .. Arity(e)} = {f[p] : p \in V!Parts(e)}
    <3>1. /\ \A n \in 1 .. Arity(e) : V!Part(e, n) \in V!Parts(e)
          /\ \A p \in V!Parts(e) : \E n \in 1 .. Arity(e) : p = V!Part(e, n)
      BY ExprsAre
    <3>2. ASSUME NEW n \in 1 .. Arity(e) PROVE Below(e, f)[n] \in {f[p] : p \in V!Parts(e)}
      BY <2>3, <3>1, <3>2
    <3>3. ASSUME NEW p \in V!Parts(e)
          PROVE  f[p] \in {Below(e, f)[n] : n \in 1 .. Arity(e)}
      <4>1. PICK n \in 1 .. Arity(e) : p = V!Part(e, n)
        BY <3>1
      <4> QED
        BY <2>3, <4>1
    <3> QED
      BY <3>2, <3>3
  <2> QED
    BY <2>2, <2>4
<1>4. Is(f)
  BY <1>2, <1>3, ExprsAre DEF KindOf
<1>5. Is(V!Kinds)
  BY <1>4, Zenon DEF V!Kinds
<1> QED
  BY <1>5, ExprsAre DEF KindOf

(* Which expressions are trivially true.                                     *)
TrueOf(e, parts) ==
    \/ KindOf(e) = "true"
    \/ KindOf(e) = "paren" /\ parts[1]
    \/ KindOf(e) = "block" /\ Arity(e) = 1 /\ parts[1]
    \/ /\ KindOf(e) = "or"
       /\ parts[1] \/ (parts[2] /\ V!is_pure_operand(V!Part(e, 1)))

TrueBy(e, g) ==
    \/ Exprs[e].kind = "true"
    \/ Exprs[e].kind = "paren" /\ g[V!Part(e, 1)]
    \/ /\ Exprs[e].kind = "block" /\ Len(Exprs[e].args) = 1
       /\ g[V!Part(e, 1)]
    \/ /\ Exprs[e].kind = "or"
       /\ \/ g[V!Part(e, 1)]
          \/ g[V!Part(e, 2)] /\ V!is_pure_operand(V!Part(e, 1))

LEMMA TrueSame ==
    ASSUME NEW e \in 1 .. Size, NEW g
    PROVE  TrueOf(e, Below(e, g)) <=> TrueBy(e, g)
<1>1. \A n \in 1 .. Arity(e) : Below(e, g)[n] = g[V!Part(e, n)]
  BY DEF Below
<1>2. KindOf(e) \in {"or", "and"} =>
        Below(e, g)[1] = g[V!Part(e, 1)] /\ Below(e, g)[2] = g[V!Part(e, 2)]
  BY <1>1, ExprsAre
<1>3. KindOf(e) = "paren" \/ Arity(e) = 1 => Below(e, g)[1] = g[V!Part(e, 1)]
  BY <1>1, ExprsAre
<1> QED
  BY <1>2, <1>3, Zenon DEF TrueOf, TrueBy, KindOf, Arity

LEMMA TrueAre ==
    \A e \in 1 .. Size :
        /\ V!is_trivially_true[e] \in BOOLEAN
        /\ V!is_trivially_true[e] <=> TrueBy(e, V!is_trivially_true)
<1> DEFINE Is(g) == g = [e \in DOMAIN Exprs |-> TrueBy(e, g)]
           make  == [a \in (1 .. Size) \X Seq(BOOLEAN) |->
                        IF TrueOf(a[1], a[2]) THEN TRUE ELSE FALSE]
<1>1. make \in [(1 .. Size) \X Seq(BOOLEAN) -> BOOLEAN]
  OBVIOUS
<1>2. PICK f \in [1 .. Size -> BOOLEAN] : Climbs(f, Size, make)
  <2> HIDE DEF make
  <2> QED
    BY <1>1, Climbed
<1>3. ASSUME NEW e \in 1 .. Size PROVE f[e] <=> TrueBy(e, f)
  <2>1. <<e, Below(e, f)>> \in (1 .. Size) \X Seq(BOOLEAN)
    <3>1. Size \in Nat /\ e <= Size + 1
      BY ExprsAre
    <3>2. Below(e, f) \in Seq(BOOLEAN)
      BY <3>1, BelowIs
    <3> QED
      BY <3>2
  <2>2. make[<<e, Below(e, f)>>] = IF TrueOf(e, Below(e, f)) THEN TRUE ELSE FALSE
    BY <2>1
  <2>3. f[e] = make[<<e, Below(e, f)>>]
    BY <1>2 DEF Climbs
  <2> QED
    BY <2>2, <2>3, TrueSame, Zenon
<1>4. \A e \in 1 .. Size : TrueBy(e, f) \in BOOLEAN
  BY Zenon DEF TrueBy
<1>5. \A e \in 1 .. Size : f[e] = TrueBy(e, f)
  BY <1>2, <1>3, <1>4, Zenon
<1>6. Is(f)
  BY <1>2, <1>5, ExprsAre
<1>7. V!is_trivially_true = CHOOSE g : Is(g)
  BY Zenon DEF V!is_trivially_true, TrueBy
<1>8. Is(V!is_trivially_true)
  BY <1>6, <1>7, Zenon
<1> DEFINE t == V!is_trivially_true
<1> HIDE DEF t
<1>9. t = [e \in 1 .. Size |-> TrueBy(e, t)]
  BY <1>8, ExprsAre, Zenon DEF t
<1>10. ASSUME NEW e \in 1 .. Size PROVE t[e] \in BOOLEAN /\ (t[e] <=> TrueBy(e, t))
  <2>1. t[e] = TrueBy(e, t)
    BY <1>9
  <2>2. TrueBy(e, t) \in BOOLEAN
    BY Zenon DEF TrueBy
  <2> QED
    BY <2>1, <2>2, Zenon
<1> QED
  BY <1>10, Zenon DEF t

(* What an expression comes to.                                              *)
Values == {"T", "F", "panic", "()", "return F"}

At(parts, s) == [n \in 1 .. Len(parts) |-> parts[n][s]]

(* The last part of a block that is evaluated is one of them. *)
LEMMA BlockEnds ==
    ASSUME NEW k \in Nat, k # 0, NEW parts, DOMAIN parts = 1 .. k, Len(parts) = k
    PROVE  \E n \in 1 .. k :
              \A s : V!Result("block", parts, s) = parts[n]
<1> DEFINE ends == {n \in DOMAIN parts : parts[n] \in {"panic", "return F"} \/ n = Len(parts)}
<1>1. ends # {} /\ ends \in SUBSET Nat /\ ends \subseteq 1 .. k
  <2>1. k \in ends
    OBVIOUS
  <2>2. ends \subseteq 1 .. k
    OBVIOUS
  <2> HIDE DEF ends
  <2> QED
    BY <2>1, <2>2
<1> HIDE DEF ends
<1>2. V!Min(ends) \in ends
  <2>1. \E m \in ends : \A n \in ends : m <= n
    BY <1>1, Lowest
  <2> QED
    BY <2>1, Zenon DEF V!Min
<1>3. \A s : V!Result("block", parts, s) = parts[V!Min(ends)]
  BY DEF V!Result, ends
<1> QED
  BY <1>1, <1>2, <1>3

LEMMA ResultIs ==
    ASSUME NEW e \in 1 .. Size, NEW parts, DOMAIN parts = 1 .. Arity(e), Len(parts) = Arity(e),
           NEW S, \A n \in 1 .. Arity(e) : parts[n] \in S, NEW s
    PROVE  /\ KindOf(e) \in V!Compound => V!Result(KindOf(e), parts, s) \in S
           /\ KindOf(e) \in V!Simple => V!Result(KindOf(e), parts, s) \in Values
<1>1. CASE KindOf(e) \in V!Simple
  BY <1>1 DEF V!Simple, V!Compound, V!Result, Values
<1>2. CASE KindOf(e) \in {"or", "and"}
  <2>1. parts[1] \in S /\ parts[2] \in S
    BY <1>2, ExprsAre
  <2> QED
    BY <1>2, <2>1 DEF V!Result, V!Simple
<1>3. CASE KindOf(e) = "paren"
  <2>1. parts[1] \in S
    BY <1>3, ExprsAre
  <2> QED
    BY <1>3, <2>1 DEF V!Result, V!Simple
<1>4. CASE KindOf(e) = "block"
  <2>1. Arity(e) \in Nat /\ Arity(e) # 0
    BY <1>4, ExprsAre
  <2>2. PICK n \in 1 .. Arity(e) : V!Result("block", parts, s) = parts[n]
    BY <2>1, BlockEnds
  <2> QED
    BY <1>4, <2>2 DEF V!Simple
<1> QED
  BY <1>1, <1>2, <1>3, <1>4 DEF V!Compound

ValueBy(e, g, s) ==
    V!Result(Exprs[e].kind, [n \in DOMAIN Exprs[e].args |-> g[V!Part(e, n)][s]], s)

LEMMA PartsAt ==
    ASSUME NEW e \in 1 .. Size, NEW g, NEW s
    PROVE  /\ Len(Below(e, g)) = Arity(e) => ValueBy(e, g, s) = V!Result(KindOf(e), At(Below(e, g), s), s)
           /\ DOMAIN [n \in DOMAIN Exprs[e].args |-> g[V!Part(e, n)][s]] = 1 .. Arity(e)
           /\ Len([n \in DOMAIN Exprs[e].args |-> g[V!Part(e, n)][s]]) = Arity(e)
<1> DEFINE parts == [n \in DOMAIN Exprs[e].args |-> g[V!Part(e, n)][s]]
<1>1. Arity(e) \in Nat /\ DOMAIN parts = 1 .. Arity(e)
  BY ExprsAre
<1>2. parts \in [1 .. Arity(e) -> {parts[n] : n \in 1 .. Arity(e)}]
  BY <1>1
<1>3. Len(parts) = Arity(e)
  <2> HIDE DEF parts
  <2> QED
    BY <1>1, <1>2, AsSequence
<1>4. Len(Below(e, g)) = Arity(e) => At(Below(e, g), s) = parts
  BY ExprsAre DEF At, Below
<1> QED
  BY <1>1, <1>3, <1>4, Zenon DEF ValueBy, KindOf

LEMMA ValueTyped ==
    ASSUME NEW e \in 1 .. Size, NEW g,
           \A n \in 1 .. Arity(e) : g[V!Part(e, n)] \in [V!States -> Values]
    PROVE  \A s \in V!States : ValueBy(e, g, s) \in Values
<1> TAKE s \in V!States
<1> DEFINE parts == [n \in DOMAIN Exprs[e].args |-> g[V!Part(e, n)][s]]
<1>1. DOMAIN parts = 1 .. Arity(e) /\ Len(parts) = Arity(e)
  BY PartsAt
<1>2. \A n \in 1 .. Arity(e) : parts[n] \in Values
  BY <1>1
<1> HIDE DEF parts
<1>3. KindOf(e) \in V!Simple \cup V!Compound
  BY ExprsAre DEF AllKinds
<1>4. V!Result(KindOf(e), parts, s) \in Values
  BY <1>1, <1>2, <1>3, ResultIs
<1> QED
  BY <1>4, Zenon DEF parts, ValueBy, KindOf

LEMMA ValuesAre ==
    \A e \in 1 .. Size :
        V!Value[e] \in [V!States -> Values] /\ \A s \in V!States : V!Value[e][s] = ValueBy(e, V!Value, s)
<1> DEFINE Is(g) == g = [e \in DOMAIN Exprs |-> [s \in V!States |-> ValueBy(e, g, s)]]
           of(e, parts) == [s \in V!States |-> V!Result(KindOf(e), At(parts, s), s)]
           S == [V!States -> Values]
           make  == [a \in (1 .. Size) \X Seq(S) |->
                        IF of(a[1], a[2]) \in S THEN of(a[1], a[2]) ELSE [s \in V!States |-> "T"]]
<1>1. make \in [(1 .. Size) \X Seq(S) -> S]
  <2>1. [s \in V!States |-> "T"] \in S
    BY DEF Values
  <2> HIDE DEF of, S
  <2> QED
    BY <2>1
<1>2. PICK f \in [1 .. Size -> S] : Climbs(f, Size, make)
  <2> HIDE DEF make, S
  <2> QED
    BY <1>1, Climbed
<1>3. ASSUME NEW e \in 1 .. Size PROVE f[e] = [s \in V!States |-> ValueBy(e, f, s)]
  <2>1. Below(e, f) \in Seq(S) /\ Len(Below(e, f)) = Arity(e)
    <3> HIDE DEF S
    <3> QED
      BY BelowIs, ExprsAre
  <2>2. make[<<e, Below(e, f)>>] = IF of(e, Below(e, f)) \in S THEN of(e, Below(e, f)) ELSE [s \in V!States |-> "T"]
    <3>1. <<e, Below(e, f)>> \in (1 .. Size) \X Seq(S)
      BY <2>1
    <3> HIDE DEF of, S
    <3> QED
      BY <3>1
  <2>3. f[e] = make[<<e, Below(e, f)>>]
    BY <1>2 DEF Climbs
  <2>4. of(e, Below(e, f)) = [s \in V!States |-> ValueBy(e, f, s)]
    BY <2>1, PartsAt
  <2>5. \A s \in V!States : ValueBy(e, f, s) \in Values
    <3>1. \A n \in 1 .. Arity(e) : V!Part(e, n) \in 1 .. Size
      BY ExprsAre
    <3>2. \A n \in 1 .. Arity(e) : f[V!Part(e, n)] \in [V!States -> Values]
      BY <3>1
    <3> QED
      BY <3>2, ValueTyped
  <2>6. of(e, Below(e, f)) \in S
    BY <2>4, <2>5
  <2> HIDE DEF make, of, S
  <2> QED
    BY <2>2, <2>3, <2>4, <2>6
<1> HIDE DEF make
<1>4. Is(f)
  BY <1>2, <1>3, ExprsAre
<1>5. V!Value = CHOOSE g : Is(g)
  BY Zenon DEF V!Value, ValueBy
<1>6. Is(V!Value)
  BY <1>4, <1>5, Zenon
<1> DEFINE v == V!Value
<1> HIDE DEF v
<1>7. v = [e \in 1 .. Size |-> [s \in V!States |-> ValueBy(e, v, s)]]
  BY <1>6, ExprsAre, Zenon DEF v
<1> DEFINE Good == {e \in 1 .. Size : v[e] \in S}
<1>8. ASSUME NEW e \in 1 .. Size, \A n \in 1 .. Arity(e) : V!Part(e, n) \in Good
      PROVE  e \in Good
  <2>1. \A s \in V!States : ValueBy(e, v, s) \in Values
    BY <1>8, ValueTyped
  <2>2. v[e] = [s \in V!States |-> ValueBy(e, v, s)]
    BY <1>7
  <2> QED
    BY <2>1, <2>2
<1>9. 1 .. Size \subseteq Good
  <2> HIDE DEF Good
  <2> QED
    BY <1>8, ByParts
<1>10. ASSUME NEW e \in 1 .. Size
       PROVE  v[e] \in S /\ \A s \in V!States : v[e][s] = ValueBy(e, v, s)
  <2>1. v[e] = [s \in V!States |-> ValueBy(e, v, s)]
    BY <1>7
  <2> QED
    BY <1>9, <2>1
<1> QED
  BY <1>10, Zenon DEF v

-----------------------------------------------------------------------------
(* `review`: the flags.                                                      *)

LEMMA KindsInside ==
    ASSUME NEW e \in 1 .. Size
    PROVE  /\ KindOf(e) \in V!Kinds[e]
           /\ \A n \in 1 .. Arity(e) : V!Kinds[V!Part(e, n)] \subseteq V!Kinds[e]
<1>1. V!Kinds[e] = {KindOf(e)} \cup UNION {V!Kinds[p] : p \in V!Parts(e)}
  BY KindsAre
<1>2. \A n \in 1 .. Arity(e) : V!Part(e, n) \in V!Parts(e)
  BY ExprsAre
<1> QED
  BY <1>1, <1>2

(* The values of the parts of an expression, and what follows for its own. *)
LEMMA ValueFrom ==
    ASSUME NEW e \in 1 .. Size, NEW s \in V!States
    PROVE  \E parts :
              /\ DOMAIN parts = 1 .. Arity(e) /\ Len(parts) = Arity(e)
              /\ \A n \in 1 .. Arity(e) : parts[n] = V!Value[V!Part(e, n)][s]
              /\ V!Value[e][s] = V!Result(KindOf(e), parts, s)
<1> DEFINE parts == [n \in DOMAIN Exprs[e].args |-> V!Value[V!Part(e, n)][s]]
<1>1. DOMAIN parts = 1 .. Arity(e) /\ Len(parts) = Arity(e)
  BY PartsAt
<1>2. \A n \in 1 .. Arity(e) : parts[n] = V!Value[V!Part(e, n)][s]
  BY <1>1
<1>3. V!Value[e][s] = V!Result(KindOf(e), parts, s)
  BY ValuesAre, Zenon DEF ValueBy, KindOf
<1> QED
  BY <1>1, <1>2, <1>3

(* Whatever holds or does not in every state, and never panics or returns. *)
Plain == {e \in 1 .. Size : \A s \in V!States : V!Value[e][s] \in {"T", "F"}}

NotPlain == {"unwraps", "matches", "inline"} \cup V!Unnoticed

LEMMA PureIsPlain ==
    \A e \in 1 .. Size :
        V!Kinds[e] \cap NotPlain = {} => e \in Plain
<1> DEFINE Good == {e \in 1 .. Size :
                V!Kinds[e] \cap NotPlain = {} => e \in Plain}
<1>1. ASSUME NEW e \in 1 .. Size, \A n \in 1 .. Arity(e) : V!Part(e, n) \in Good
      PROVE  e \in Good
  <2> SUFFICES ASSUME V!Kinds[e] \cap NotPlain = {},
                      NEW s \in V!States
               PROVE  V!Value[e][s] \in {"T", "F"}
    BY DEF Plain
  <2>1. /\ KindOf(e) \notin NotPlain
        /\ \A n \in 1 .. Arity(e) : V!Part(e, n) \in Plain
    BY <1>1, KindsInside
  <2>2. PICK parts :
              /\ DOMAIN parts = 1 .. Arity(e) /\ Len(parts) = Arity(e)
              /\ \A n \in 1 .. Arity(e) : parts[n] = V!Value[V!Part(e, n)][s]
              /\ V!Value[e][s] = V!Result(KindOf(e), parts, s)
    BY ValueFrom
  <2>3. \A n \in 1 .. Arity(e) : parts[n] \in {"T", "F"}
    BY <2>1, <2>2 DEF Plain
  <2>4. CASE KindOf(e) \in V!Compound
    <3> DEFINE S == {"T", "F"}
    <3>1. \A n \in 1 .. Arity(e) : parts[n] \in S
      BY <2>3
    <3> HIDE DEF S
    <3>2. V!Result(KindOf(e), parts, s) \in S
      BY <2>2, <2>4, <3>1, ResultIs, Zenon
    <3> QED
      BY <2>2, <3>2 DEF S
  <2>5. CASE KindOf(e) \in {"true", "false", "const", "reads"}
    BY <2>2, <2>5 DEF V!Result
  <2> QED
    BY <2>1, <2>4, <2>5, ExprsAre DEF AllKinds, V!Simple, NotPlain, V!Unnoticed
<1>2. 1 .. Size \subseteq Good
  <2> HIDE DEF Good
  <2> QED
    BY <1>1, ByParts
<1> QED
  BY <1>2

LEMMA TautologyIsTrue ==
    \A e \in 1 .. Size :
        V!is_trivially_true[e] /\ ~V!Excused(e)
            => \A s \in V!States : V!Value[e][s] = "T"
<1> DEFINE Good == {e \in 1 .. Size :
        V!is_trivially_true[e] /\ ~V!Excused(e)
            => \A s \in V!States : V!Value[e][s] = "T"}
<1>1. ASSUME NEW e \in 1 .. Size, \A n \in 1 .. Arity(e) : V!Part(e, n) \in Good
      PROVE  e \in Good
  <2> SUFFICES ASSUME V!is_trivially_true[e], ~V!Excused(e),
                      NEW s \in V!States
               PROVE  V!Value[e][s] = "T"
    OBVIOUS
  <2>1. \A n \in 1 .. Arity(e) :
            V!is_trivially_true[V!Part(e, n)] => V!Value[V!Part(e, n)][s] = "T"
    BY <1>1, KindsInside DEF V!Excused
  <2>2. PICK parts :
              /\ DOMAIN parts = 1 .. Arity(e) /\ Len(parts) = Arity(e)
              /\ \A n \in 1 .. Arity(e) : parts[n] = V!Value[V!Part(e, n)][s]
              /\ V!Value[e][s] = V!Result(KindOf(e), parts, s)
    BY ValueFrom
  <2> HIDE DEF Good
  <2>3. TrueBy(e, V!is_trivially_true)
    BY TrueAre
  <2>4. CASE KindOf(e) = "true"
    BY <2>2, <2>4 DEF V!Result
  <2>5. CASE KindOf(e) = "paren" /\ V!is_trivially_true[V!Part(e, 1)]
    <3>2. 1 \in 1 .. Arity(e)
      BY <2>5, ExprsAre
    <3>1. parts[1] = "T"
      BY <2>1, <2>2, <2>5, <3>2
    <3> QED
      BY <2>2, <2>5, <3>1 DEF V!Result
  <2>6. CASE KindOf(e) = "block" /\ Arity(e) = 1 /\ V!is_trivially_true[V!Part(e, 1)]
    <3> DEFINE S == {"T"}
    <3>1. \A n \in 1 .. Arity(e) : parts[n] \in S
      BY <2>1, <2>2, <2>6
    <3>2. KindOf(e) \in V!Compound
      BY <2>6 DEF V!Compound
    <3> HIDE DEF S
    <3>3. V!Result(KindOf(e), parts, s) \in S
      BY <2>2, <3>1, <3>2, ResultIs, Zenon
    <3> QED
      BY <2>2, <3>3 DEF S
  <2>7. CASE KindOf(e) = "or" /\ V!is_trivially_true[V!Part(e, 1)]
    <3>2. 1 \in 1 .. Arity(e)
      BY <2>7, ExprsAre
    <3>1. parts[1] = "T"
      BY <2>1, <2>2, <2>7, <3>2
    <3> QED
      BY <2>2, <2>7, <3>1 DEF V!Result
  <2>8. CASE KindOf(e) = "or" /\ V!is_trivially_true[V!Part(e, 2)] /\ V!is_pure_operand(V!Part(e, 1))
    <3>1. 1 \in 1 .. Arity(e) /\ 2 \in 1 .. Arity(e)
      BY <2>8, ExprsAre
    <3>2. parts[2] = "T"
      BY <2>1, <2>2, <2>8, <3>1
    <3>3. V!Part(e, 1) \in 1 .. Size /\ V!Kinds[V!Part(e, 1)] \subseteq V!Kinds[e]
      BY <3>1, KindsInside, ExprsAre
    <3>4. V!Part(e, 1) \in Plain
      <4>1. "or" \in V!Kinds[e]
        BY <2>8, KindsInside
      <4>2. V!Kinds[V!Part(e, 1)] \cap V!Unnoticed = {}
        BY <3>3, <4>1 DEF V!Excused
      <4> QED
        BY <2>8, <3>3, <4>2, PureIsPlain DEF V!is_pure_operand, NotPlain
    <3>5. parts[1] \in {"T", "F"}
      BY <2>2, <3>1, <3>4 DEF Plain
    <3> QED
      BY <2>2, <2>8, <3>2, <3>5 DEF V!Result
  <2> QED
    BY <2>3, <2>4, <2>5, <2>6, <2>7, <2>8, Zenon DEF TrueBy, KindOf, Arity
<1>2. 1 .. Size \subseteq Good
  <2> HIDE DEF Good
  <2> QED
    BY <1>1, ByParts
<1> QED
  BY <1>2

(* An expression that has no use of the state is the same in all states.     *)
Uses == {"reads", "unwraps", "divides", "matches", "guard", "asserts", "inline"}

LEMMA UnusedIsConstant ==
    \A e \in 1 .. Size :
        V!Kinds[e] \cap Uses = {} => \A s, t \in V!States : V!Value[e][s] = V!Value[e][t]
<1> DEFINE Good == {e \in 1 .. Size :
        V!Kinds[e] \cap Uses = {} => \A s, t \in V!States : V!Value[e][s] = V!Value[e][t]}
<1>1. ASSUME NEW e \in 1 .. Size, \A n \in 1 .. Arity(e) : V!Part(e, n) \in Good
      PROVE  e \in Good
  <2> SUFFICES ASSUME V!Kinds[e] \cap Uses = {}, NEW s \in V!States, NEW t \in V!States
               PROVE  V!Value[e][s] = V!Value[e][t]
    OBVIOUS
  <2>1. \A n \in 1 .. Arity(e) : V!Value[V!Part(e, n)][s] = V!Value[V!Part(e, n)][t]
    BY <1>1, KindsInside
  <2>2. KindOf(e) \in {"true", "false", "const", "or", "and", "paren", "block"}
    BY KindsInside, ExprsAre DEF AllKinds, V!Simple, V!Compound, Uses
  <2> HIDE DEF Good
  <2> DEFINE of(r) == [n \in DOMAIN Exprs[e].args |-> V!Value[V!Part(e, n)][r]]
  <2>3. V!Value[e][s] = V!Result(KindOf(e), of(s), s) /\ V!Value[e][t] = V!Result(KindOf(e), of(t), t)
    BY ValuesAre, Zenon DEF ValueBy, KindOf
  <2>4. of(s) = of(t)
    BY <2>1, ExprsAre
  <2> HIDE DEF of
  <2>5. V!Result(KindOf(e), of(t), s) = V!Result(KindOf(e), of(t), t)
    BY <2>2 DEF V!Result
  <2> QED
    BY <2>3, <2>4, <2>5, Zenon
<1>2. 1 .. Size \subseteq Good
  <2> HIDE DEF Good
  <2> QED
    BY <1>1, ByParts
<1> QED
  BY <1>2

(* What is found weak about a predicate is so.                               *)
LEMMA WeaknessIsReal ==
    ASSUME NEW p \in Predicates
    PROVE  /\ V!predicate_weaknesses(p) \subseteq {"Tautology", "IgnoresState"}
           /\ "Tautology" \in V!predicate_weaknesses(p) =>
                (~V!Excused(p.body) => V!AlwaysHolds(p))
           /\ "IgnoresState" \in V!predicate_weaknesses(p) =>
                ("inline" \notin V!Kinds[p.body] => V!Constant(p))
<1>1. /\ p.body \in 1 .. Size
      /\ p.param \in {"nothing", "wild"} => ~V!Mentions(p.body) /\ "inline" \notin V!Kinds[p.body]
  BY ReviewAssumption, ExprsAre DEF V!ReviewAssumption
<1>2. V!predicate_weaknesses(p) \subseteq {"Tautology", "IgnoresState"}
  BY DEF V!predicate_weaknesses
<1>3. "Tautology" \in V!predicate_weaknesses(p) => V!is_trivially_true[p.body]
  BY DEF V!predicate_weaknesses
<1>4. "IgnoresState" \in V!predicate_weaknesses(p) => ~V!Mentions(p.body)
  BY <1>1 DEF V!predicate_weaknesses, V!closure_ignores_state
<1>5. "Tautology" \in V!predicate_weaknesses(p) =>
                (~V!Excused(p.body) => V!AlwaysHolds(p))
  BY <1>1, <1>3, TautologyIsTrue DEF V!AlwaysHolds, V!Holds
<1>6. "IgnoresState" \in V!predicate_weaknesses(p) =>
                ("inline" \notin V!Kinds[p.body] => V!Constant(p))
  <2> SUFFICES ASSUME ~V!Mentions(p.body), "inline" \notin V!Kinds[p.body] PROVE V!Constant(p)
    BY <1>4
  <2>1. V!Kinds[p.body] \cap Uses = {}
    BY DEF V!Mentions, Uses
  <2> QED
    BY <1>1, <2>1, UnusedIsConstant DEF V!Constant, V!Holds
<1> QED
  BY <1>2, <1>5, <1>6

-----------------------------------------------------------------------------
(* `review`: the order of the report.                                        *)

Arranged(s, invs, n) ==
    /\ s \in [1 .. n -> {invs[i] : i \in 1 .. n}]
    /\ \A i \in 1 .. n : \E j \in 1 .. n : s[j] = invs[i]
    /\ \A i, j \in 1 .. n : i < j => V!Before(s[i], s[j])

Lined(invs, k) ==
    /\ \A i \in 1 .. k : invs[i].file \in Nat /\ invs[i].line \in Nat
    /\ \A i, j \in 1 .. k : i # j => invs[i].line # invs[j].line

(* One more is put in its place. *)
LEMMA Inserted ==
    ASSUME NEW n \in Nat \ {0}, NEW invs, Lined(invs, n), NEW s, Arranged(s, invs, n - 1)
    PROVE  \E r : Arranged(r, invs, n)
<1> DEFINE x == invs[n]
           Behind == {j \in 1 .. n : j = n \/ V!Before(x, s[j])}
<1>1. PICK k \in Behind : \A m \in Behind : k <= m
  <2>1. n \in Behind /\ Behind \in SUBSET Nat
    OBVIOUS
  <2> HIDE DEF Behind
  <2> QED
    BY <2>1, Lowest
<1>2. /\ k \in 1 .. n
      /\ k # n => V!Before(x, s[k])
      /\ \A j \in 1 .. k - 1 : ~V!Before(x, s[j])
  <2>1. k \in 1 .. n /\ (k # n => V!Before(x, s[k]))
    BY <1>1
  <2>2. ASSUME NEW j \in 1 .. k - 1 PROVE j \notin Behind
    <3> HIDE DEF Behind
    <3> QED
      BY <1>1, <2>1, <2>2
  <2>3. \A j \in 1 .. k - 1 : j \in 1 .. n
    BY <2>1
  <2> QED
    BY <2>1, <2>2, <2>3
<1>3. \A j \in 1 .. n - 1 : \E i \in 1 .. n - 1 : s[j] = invs[i]
  BY DEF Arranged
<1>4. \A j \in 1 .. n - 1 :
        /\ s[j].file \in Nat /\ s[j].line \in Nat /\ s[j].line # x.line
  <2> TAKE j \in 1 .. n - 1
  <2>1. PICK i \in 1 .. n - 1 : s[j] = invs[i]
    BY <1>3
  <2>2. i \in 1 .. n /\ n \in 1 .. n /\ i # n
    OBVIOUS
  <2> QED
    BY <2>1, <2>2 DEF Lined
<1>5. x.file \in Nat /\ x.line \in Nat
  BY DEF Lined
<1>6. \A j \in 1 .. k - 1 : V!Before(s[j], x)
  <2> TAKE j \in 1 .. k - 1
  <2>1. j \in 1 .. n - 1 /\ ~V!Before(x, s[j])
    BY <1>2
  <2> HIDE DEF x
  <2> QED
    BY <1>4, <1>5, <2>1 DEF V!Before
<1>7. \A j \in k .. n - 1 : V!Before(x, s[j])
  <2> TAKE j \in k .. n - 1
  <2>1. j \in 1 .. n - 1 /\ k \in 1 .. n - 1 /\ k # n
    BY <1>2
  <2>2. V!Before(x, s[k])
    BY <1>2, <2>1
  <2>3. j # k => V!Before(s[k], s[j])
    BY <2>1 DEF Arranged
  <2> HIDE DEF x
  <2> QED
    BY <1>4, <1>5, <2>1, <2>2, <2>3 DEF V!Before
<1>8. \A i, j \in 1 .. n - 1 : i < j => V!Before(s[i], s[j])
  BY DEF Arranged
<1> DEFINE r == [i \in 1 .. n |-> IF i < k THEN s[i] ELSE IF i = k THEN x ELSE s[i - 1]]
<1>9. \A i, j \in 1 .. n : i < j => V!Before(r[i], r[j])
  <2> SUFFICES ASSUME NEW i \in 1 .. n, NEW j \in 1 .. n, i < j PROVE V!Before(r[i], r[j])
    OBVIOUS
  <2>1. /\ r[i] = IF i < k THEN s[i] ELSE IF i = k THEN x ELSE s[i - 1]
        /\ r[j] = IF j < k THEN s[j] ELSE IF j = k THEN x ELSE s[j - 1]
    OBVIOUS
  <2> HIDE DEF r, x
  <2>2. CASE j < k
    <3>1. i \in 1 .. n - 1 /\ j \in 1 .. n - 1
      BY <1>2, <2>2
    <3> QED
      BY <1>2, <1>8, <2>1, <2>2, <3>1
  <2>3. CASE j = k
    <3>1. i \in 1 .. k - 1
      BY <1>2, <2>3
    <3> QED
      BY <1>2, <1>6, <2>1, <2>3, <3>1
  <2>4. CASE i < k /\ k < j
    <3>1. i \in 1 .. n - 1 /\ j - 1 \in 1 .. n - 1 /\ i < j - 1
      BY <1>2, <2>4
    <3> QED
      BY <1>2, <1>8, <2>1, <2>4, <3>1
  <2>5. CASE i = k
    <3>1. j - 1 \in k .. n - 1
      BY <1>2, <2>5
    <3> QED
      BY <1>2, <1>7, <2>1, <2>5, <3>1
  <2>6. CASE k < i
    <3>1. i - 1 \in 1 .. n - 1 /\ j - 1 \in 1 .. n - 1 /\ i - 1 < j - 1
      BY <1>2, <2>6
    <3> QED
      BY <1>2, <1>8, <2>1, <2>6, <3>1
  <2> QED
    BY <1>2, <2>2, <2>3, <2>4, <2>5, <2>6
<1>10. \A i \in 1 .. n : \E j \in 1 .. n : r[j] = invs[i]
  <2> TAKE i \in 1 .. n
  <2>1. CASE i = n
    BY <1>2, <2>1
  <2>2. CASE i # n
    <3>1. i \in 1 .. n - 1
      BY <2>2
    <3>2. PICK m \in 1 .. n - 1 : s[m] = invs[i]
      BY <3>1 DEF Arranged
    <3>3. CASE m < k
      <4>1. m \in 1 .. n /\ r[m] = s[m]
        BY <3>3
      <4> QED
        BY <3>2, <4>1
    <3>4. CASE ~(m < k)
      <4>1. m + 1 \in 1 .. n /\ r[m + 1] = s[m]
        BY <1>2, <3>4
      <4> QED
        BY <3>2, <4>1
    <3> QED
      BY <3>3, <3>4
  <2> QED
    BY <2>1, <2>2
<1>11. \A i \in 1 .. n : r[i] \in {invs[m] : m \in 1 .. n}
  <2> TAKE i \in 1 .. n
  <2>1. CASE i < k
    <3>1. r[i] = s[i] /\ i \in 1 .. n - 1
      BY <1>2, <2>1
    <3> QED
      BY <1>3, <3>1
  <2>2. CASE i = k
    BY <2>2
  <2>3. CASE k < i
    <3>1. r[i] = s[i - 1] /\ i - 1 \in 1 .. n - 1
      BY <1>2, <2>3
    <3> QED
      BY <1>3, <3>1
  <2> QED
    BY <1>2, <2>1, <2>2, <2>3
<1>12. r \in [1 .. n -> {invs[m] : m \in 1 .. n}]
  BY <1>11
<1> QED
  BY <1>9, <1>10, <1>12, Zenon DEF Arranged

LEMMA Sorts ==
    ASSUME NEW k \in Nat, NEW invs, Lined(invs, k)
    PROVE  \E s : Arranged(s, invs, k)
<1> DEFINE Short == {n \in 0 .. k : ~\E s : Arranged(s, invs, n)}
<1>1. Short = {}
  <2> SUFFICES ASSUME Short # {} PROVE FALSE
    OBVIOUS
  <2>1. PICK n \in Short : \A m \in Short : n <= m
    <3>1. Short \in SUBSET Nat
      OBVIOUS
    <3> QED
      BY <3>1, Lowest
  <2>2. CASE n = 0
    <3>1. Arranged([i \in 1 .. 0 |-> i], invs, 0)
      BY DEF Arranged
    <3> QED
      BY <2>1, <2>2, <3>1
  <2>3. CASE n # 0
    <3>1. n - 1 \in 0 .. k /\ n \in Nat \ {0} /\ ~(n <= n - 1)
      BY <2>3
    <3>2. n - 1 \notin Short
      <4> HIDE DEF Short
      <4> QED
        BY <2>1, <3>1
    <3>3. PICK s : Arranged(s, invs, n - 1)
      BY <3>1, <3>2
    <3>4. Lined(invs, n)
      BY DEF Lined
    <3> QED
      BY <3>1, <3>3, <3>4, Inserted
  <2> QED
    BY <2>2, <2>3
<1> QED
  BY <1>1

(* sort_by arranges what it is given. *)
LEMMA SortedIs ==
    ASSUME NEW k \in Nat, NEW invs, DOMAIN invs = 1 .. k, Lined(invs, k)
    PROVE  Arranged(V!sorted(invs), invs, k)
<1> DEFINE Fits(s) == /\ V!ToSet(s) = V!ToSet(invs)
                      /\ \A i, j \in DOMAIN s : i < j => V!Before(s[i], s[j])
<1>1. PICK s : Arranged(s, invs, k)
  BY Sorts
<1>2. V!ToSet(invs) = {invs[i] : i \in 1 .. k}
  BY DEF V!ToSet
<1>3. s \in [DOMAIN invs -> V!ToSet(invs)]
  BY <1>1, <1>2 DEF Arranged
<1>4. V!ToSet(s) = V!ToSet(invs)
  BY <1>1, <1>2 DEF Arranged, V!ToSet
<1>5. Fits(s)
  BY <1>1, <1>3, <1>4 DEF Arranged
<1> DEFINE t == V!sorted(invs)
<1>6. t \in [DOMAIN invs -> V!ToSet(invs)] /\ Fits(t)
  BY <1>3, <1>5, Zenon DEF V!sorted
<1> HIDE DEF t
<1>7. t \in [1 .. k -> {invs[i] : i \in 1 .. k}]
  BY <1>2, <1>6
<1>8. {t[j] : j \in 1 .. k} = {invs[i] : i \in 1 .. k}
  BY <1>2, <1>6, <1>7 DEF V!ToSet
<1>9. \A i \in 1 .. k : \E j \in 1 .. k : t[j] = invs[i]
  BY <1>8
<1>10. Arranged(t, invs, k)
  BY <1>6, <1>7, <1>9 DEF Arranged
<1> QED
  BY <1>10 DEF t

-----------------------------------------------------------------------------
(* `review`: the walk.                                                       *)

Flags    == {"Tautology", "IgnoresState", "Duplicate"}
Around   == [vec : BOOLEAN, nr : Nat]
Written  == [file : Nat, pred : Predicates, macros : Seq(Around), own : BOOLEAN]
Extracted == [file : Nat, line : Nat, pred : Predicates,
              scope : Nat \X {"set", "solo"} \X Nat, weaknesses : SUBSET Flags]

ReviewTyped ==
    /\ files \in SUBSET (1 .. NFiles) /\ file \in 0 .. NFiles /\ local \in BOOLEAN
    /\ set_stack \in Seq(Nat) /\ next_id \in Nat
    /\ out \in Seq(Extracted) /\ walk \in {"walk", "done"}
    /\ macros \in Seq(Around) /\ opened \in Nat
    /\ source \in Seq(Written)

(* The macro that what is reported stands in, or 0. *)
Home(n) == V!Set(out[n])

(* The macros are numbered as they open, and the outer ones that are walked  *)
(* have their sets on the stack.                                             *)
MacrosFit ==
    /\ Len(set_stack) <= Len(macros)
    /\ \A n \in 1 .. Len(macros) :
        /\ n <= Len(set_stack) <=> n <= MaxMacroDepth /\ \A m \in 1 .. n : macros[m].vec
        /\ macros[n].nr \in 1 .. opened
        /\ \A m \in 1 .. n - 1 : macros[m].nr < macros[n].nr

(* The invariants that are to be reported. *)
Counts(l) ==
    /\ ~source[l].own
    /\ Len(source[l].macros) <= MaxMacroDepth
    /\ \A m \in 1 .. Len(source[l].macros) : source[l].macros[m].vec

LinesFit ==
    /\ \A l \in 1 .. Len(source) : (\E n \in 1 .. Len(out) : out[n].line = l) <=> Counts(l)
    /\ \A n \in 1 .. Len(out) : out[n].line \in 1 .. Len(source)
    /\ \A n, m \in 1 .. Len(out) : n # m => out[n].line # out[m].line

(* A file is walked one time. *)
FilesFit ==
    /\ file \notin files
    /\ \A n \in 1 .. Len(out) : out[n].file \notin files /\ out[n].file # 0

(* The sets around are those of the macros around, *)
StackFits ==
    \A n \in 1 .. Len(set_stack) :
        /\ set_stack[n] < next_id
        /\ \A m \in 1 .. n - 1 : set_stack[m] # set_stack[n]

(* and a scope stands for a macro, or for one invariant. *)
ScopeFits(n) ==
    /\ out[n].scope[1] = out[n].file
    /\ out[n].file = file => out[n].scope[3] < next_id
    /\ out[n].scope[2] = "solo" <=> Home(n) = 0
    /\ Home(n) \in 0 .. opened
    /\ \A m \in 1 .. Len(set_stack) :
            Home(n) = macros[m].nr <=> out[n].scope = <<file, "set", set_stack[m]>>

Together(n, m) ==
    n # m => (out[n].scope = out[m].scope <=> Home(n) = Home(m) /\ Home(n) # 0)

ScopesFit ==
    /\ \A n \in 1 .. Len(out) : ScopeFits(n)
    /\ \A n, m \in 1 .. Len(out) : Together(n, m)

FlagsFit ==
    \A n \in 1 .. Len(out) :
        /\ out[n].weaknesses \ {"Duplicate"} = V!predicate_weaknesses(out[n].pred)
        /\ walk = "walk" => "Duplicate" \notin out[n].weaknesses

ReviewInv ==
    /\ ReviewTyped
    /\ walk = "walk" => MacrosFit /\ LinesFit /\ FilesFit /\ StackFits /\ ScopesFit
    /\ FlagsFit
    /\ V!ExtractsExactly /\ V!DuplicatesExact

LEMMA Lengthened ==
    ASSUME NEW S, NEW q \in Seq(S), NEW e \in S
    PROVE  /\ Len(q) \in Nat /\ DOMAIN q = 1 .. Len(q)
           /\ Append(q, e) \in Seq(S) /\ Len(Append(q, e)) = Len(q) + 1
           /\ \A n \in 1 .. Len(q) : Append(q, e)[n] = q[n]
           /\ Append(q, e)[Len(q) + 1] = e
OBVIOUS

LEMMA Shortened ==
    ASSUME NEW S, NEW q \in Seq(S), q # <<>>
    PROVE  /\ Len(q) \in Nat \ {0} /\ V!Front(q) \in Seq(S) /\ Len(V!Front(q)) = Len(q) - 1
           /\ \A n \in 1 .. Len(q) - 1 : V!Front(q)[n] = q[n]
<1>1. Len(q) \in Nat \ {0}
  OBVIOUS
<1>2. /\ SubSeq(q, 1, Len(q) - 1) \in Seq(S) /\ Len(SubSeq(q, 1, Len(q) - 1)) = Len(q) - 1
      /\ \A n \in 1 .. Len(q) - 1 : SubSeq(q, 1, Len(q) - 1)[n] = q[n]
  <2> DEFINE k == Len(q) - 1
  <2>1. k \in Nat /\ 1 \in Int /\ k \in Int /\ \A n \in 1 .. k : q[n] \in S
    BY <1>1, ElementOfSeq
  <2> HIDE DEF k
  <2>2. k = IF 1 <= k THEN k - 1 + 1 ELSE 0
    BY <2>1
  <2>3. k - 1 + 1 = k /\ \A n \in 1 .. k : 1 + n - 1 = n
    BY <2>1
  <2>4. /\ SubSeq(q, 1, k) \in Seq(S)
        /\ Len(SubSeq(q, 1, k)) = IF 1 <= k THEN k - 1 + 1 ELSE 0
        /\ \A n \in 1 .. k - 1 + 1 : SubSeq(q, 1, k)[n] = q[1 + n - 1]
    BY <2>1, SubSeqProperties
  <2>5. /\ SubSeq(q, 1, k) \in Seq(S) /\ Len(SubSeq(q, 1, k)) = k
        /\ \A n \in 1 .. k : SubSeq(q, 1, k)[n] = q[n]
    BY <2>2, <2>3, <2>4
  <2> QED
    BY <2>5, Zenon DEF k
<1> QED
  BY <1>1, <1>2, Zenon DEF V!Front

LEMMA ReviewInitial == V!Init => ReviewInv
<1> SUFFICES ASSUME V!Init PROVE ReviewInv
  OBVIOUS
<1>1. NFiles \in Nat
  BY ReviewAssumption DEF V!ReviewAssumption
<1>2. ReviewTyped
  <2>1. <<>> \in Seq(Nat) /\ <<>> \in Seq(Extracted) /\ <<>> \in Seq(Around) /\ <<>> \in Seq(Written)
    BY EmptySeq
  <2>2. 0 \in 0 .. NFiles /\ 0 \in Nat /\ 1 .. NFiles \in SUBSET (1 .. NFiles)
    BY <1>1
  <2> QED
    BY <2>1, <2>2, Zenon DEF V!Init, ReviewTyped
<1>3. MacrosFit /\ LinesFit /\ FilesFit /\ StackFits /\ ScopesFit /\ FlagsFit
  BY DEF V!Init, MacrosFit, LinesFit, FilesFit, StackFits, ScopesFit, FlagsFit
<1>4. V!ExtractsExactly /\ V!DuplicatesExact
  BY DEF V!Init, V!ExtractsExactly, V!DuplicatesExact
<1> QED
  BY <1>2, <1>3, <1>4 DEF ReviewInv

LEMMA ReviewRests == ReviewInv /\ UNCHANGED review => ReviewInv'
<1> SUFFICES ASSUME UNCHANGED review PROVE ReviewInv' <=> ReviewInv
  OBVIOUS
<1> USE DEF review
<1>1. ReviewTyped' <=> ReviewTyped
  BY Zenon DEF ReviewTyped
<1>2. (MacrosFit' <=> MacrosFit) /\ (FilesFit' <=> FilesFit) /\ (StackFits' <=> StackFits)
  BY Zenon DEF MacrosFit, FilesFit, StackFits
<1>3. (LinesFit' <=> LinesFit) /\ (FlagsFit' <=> FlagsFit)
  BY DEF LinesFit, Counts, FlagsFit
<1>4. ScopesFit' <=> ScopesFit
  BY DEF ScopesFit, ScopeFits, Together, Home, V!Set
<1>5. (V!ExtractsExactly' <=> V!ExtractsExactly) /\ (V!DuplicatesExact' <=> V!DuplicatesExact)
  BY DEF V!ExtractsExactly, V!DuplicatesExact, V!Set, V!Flagged
<1> QED
  BY <1>1, <1>2, <1>3, <1>4, <1>5, Zenon DEF ReviewInv

(* While it walks, nothing is said of the report. *)
LEMMA StillWalking == walk' = "walk" => V!ExtractsExactly' /\ V!DuplicatesExact'
BY DEF V!ExtractsExactly, V!DuplicatesExact

LEMMA OpensFile ==
    ASSUME ReviewInv, NEW f \in files, NEW shadowed \in BOOLEAN, V!OpenFile(f, shadowed)
    PROVE  ReviewInv'
<1> USE DEF ReviewInv, V!OpenFile
<1>1. ReviewTyped'
  BY DEF ReviewTyped
<1>2. MacrosFit' /\ LinesFit' /\ StackFits'
  <2>1. MacrosFit'
    BY DEF MacrosFit
  <2>2. LinesFit'
    BY DEF LinesFit, Counts
  <2>3. StackFits'
    BY DEF StackFits
  <2> QED
    BY <2>1, <2>2, <2>3
<1>3. FilesFit'
  BY DEF FilesFit, ReviewTyped
<1>4. FlagsFit'
  BY DEF FlagsFit
<1>5. ScopesFit'
  <2>1. ASSUME NEW n \in 1 .. Len(out) PROVE ScopeFits(n)'
    <3>1. out[n].file # f
      BY DEF FilesFit
    <3> QED
      BY <3>1 DEF ScopesFit, ScopeFits, Home, V!Set
  <2>2. ASSUME NEW n \in 1 .. Len(out), NEW m \in 1 .. Len(out) PROVE Together(n, m)'
    BY DEF ScopesFit, Together, Home, V!Set
  <2> QED
    BY <2>1, <2>2 DEF ScopesFit
<1> QED
  BY <1>1, <1>2, <1>3, <1>4, <1>5, StillWalking

LEMMA SkipsFile ==
    ASSUME ReviewInv, NEW f \in files, V!SkipFile(f)
    PROVE  ReviewInv'
<1> USE DEF ReviewInv, V!SkipFile
<1>1. ReviewTyped'
  BY ReviewAssumption DEF ReviewTyped, V!ReviewAssumption
<1>2. MacrosFit' /\ LinesFit' /\ StackFits'
  <2>1. MacrosFit'
    BY DEF MacrosFit
  <2>2. LinesFit'
    BY DEF LinesFit, Counts
  <2>3. StackFits'
    BY DEF StackFits
  <2> QED
    BY <2>1, <2>2, <2>3
<1>3. FilesFit'
  BY DEF FilesFit, ReviewTyped
<1>4. FlagsFit'
  BY DEF FlagsFit
<1>5. ScopesFit'
  <2>1. ASSUME NEW n \in 1 .. Len(out) PROVE ScopeFits(n)'
    <3>1. out[n].file # 0 /\ Len(set_stack) = 0
      BY DEF FilesFit, MacrosFit, ReviewTyped
    <3> QED
      BY <3>1 DEF ScopesFit, ScopeFits, Home, V!Set
  <2>2. ASSUME NEW n \in 1 .. Len(out), NEW m \in 1 .. Len(out) PROVE Together(n, m)'
    BY DEF ScopesFit, Together, Home, V!Set
  <2> QED
    BY <2>1, <2>2 DEF ScopesFit
<1> QED
  BY <1>1, <1>2, <1>3, <1>4, <1>5, StillWalking

LEMMA EntersMacro ==
    ASSUME ReviewInv, NEW vec \in BOOLEAN, V!EnterMacro(vec)
    PROVE  ReviewInv'
<1> DEFINE mac == [vec |-> vec, nr |-> opened + 1]
           K == Len(macros)
           D == Len(set_stack)
<1>1. /\ walk = "walk" /\ walk' = "walk" /\ macros' = Append(macros, mac) /\ opened' = opened + 1
      /\ V!Walked(macros') => set_stack' = Append(set_stack, next_id) /\ next_id' = next_id + 1
      /\ ~V!Walked(macros') => set_stack' = set_stack /\ next_id' = next_id
      /\ UNCHANGED <<files, file, local, out, source>>
  BY DEF V!EnterMacro
<1>2. ReviewTyped /\ MacrosFit /\ LinesFit /\ FilesFit /\ StackFits /\ ScopesFit /\ FlagsFit
  BY <1>1 DEF ReviewInv
<1>3. macros \in Seq(Around) /\ mac \in Around /\ opened \in Nat /\ set_stack \in Seq(Nat) /\ next_id \in Nat
  BY <1>2 DEF ReviewTyped, Around
<1>4. /\ K \in Nat /\ macros' \in Seq(Around) /\ Len(macros') = K + 1 /\ DOMAIN macros' = 1 .. K + 1
      /\ \A n \in 1 .. K : macros'[n] = macros[n]
      /\ macros'[K + 1] = mac
  BY <1>1, <1>3, Lengthened
<1>5. D \in Nat /\ D <= K
  BY <1>2, <1>3 DEF MacrosFit
<1>6. V!Walked(macros') <=> K + 1 <= MaxMacroDepth /\ \A m \in 1 .. K + 1 : macros'[m].vec
  BY <1>4 DEF V!Walked
<1>7. /\ V!Walked(macros') =>
            /\ set_stack' \in Seq(Nat) /\ Len(set_stack') = D + 1
            /\ \A n \in 1 .. D : set_stack'[n] = set_stack[n]
            /\ set_stack'[D + 1] = next_id
      /\ ~V!Walked(macros') => set_stack' \in Seq(Nat) /\ Len(set_stack') = D
  <2>1. /\ Append(set_stack, next_id) \in Seq(Nat) /\ Len(Append(set_stack, next_id)) = D + 1
        /\ \A n \in 1 .. D : Append(set_stack, next_id)[n] = set_stack[n]
        /\ Append(set_stack, next_id)[D + 1] = next_id
    BY <1>3, Lengthened
  <2> QED
    BY <1>1, <1>3, <2>1
<1>8. MaxMacroDepth \in Nat
  BY ReviewAssumption DEF V!ReviewAssumption
<1>9. V!Walked(macros') => D = K
  <2> SUFFICES ASSUME V!Walked(macros') PROVE D = K
    OBVIOUS
  <2>1. CASE K = 0
    BY <1>5, <2>1
  <2>2. CASE K # 0
    <3>1. K \in 1 .. K /\ K <= MaxMacroDepth /\ \A m \in 1 .. K : macros[m].vec
      BY <1>4, <1>6, <1>8, <2>2
    <3>2. K <= D
      BY <1>2, <3>1 DEF MacrosFit
    <3> QED
      BY <1>4, <1>5, <3>2
  <2> QED
    BY <2>1, <2>2
<1>10. ReviewTyped'
  <2>1. next_id' \in Nat /\ opened' \in Nat
    BY <1>1, <1>3
  <2> QED
    BY <1>1, <1>2, <1>4, <1>7, <2>1 DEF ReviewTyped
<1> HIDE DEF mac
<1>11. MacrosFit'
  <2>1. Len(set_stack') <= Len(macros')
    BY <1>4, <1>5, <1>7
  <2>2. ASSUME NEW n \in 1 .. K + 1
        PROVE  /\ n <= Len(set_stack') <=> n <= MaxMacroDepth /\ \A m \in 1 .. n : macros'[m].vec
               /\ macros'[n].nr \in 1 .. opened'
               /\ \A m \in 1 .. n - 1 : macros'[m].nr < macros'[n].nr
    <3>1. CASE n = K + 1
      <4>1. n <= Len(set_stack') <=> V!Walked(macros')
        BY <1>4, <1>5, <1>7, <1>9, <3>1
      <4>2. macros'[n].nr = opened + 1 /\ opened + 1 \in 1 .. opened'
        BY <1>1, <1>3, <1>4, <3>1 DEF mac
      <4>3. \A m \in 1 .. n - 1 : macros'[m].nr < macros'[n].nr
        <5> TAKE m \in 1 .. n - 1
        <5>1. m \in 1 .. K /\ macros'[m] = macros[m]
          BY <1>4, <3>1
        <5>2. macros[m].nr \in 1 .. opened
          BY <1>2, <5>1 DEF MacrosFit
        <5> QED
          BY <1>3, <4>2, <5>1, <5>2
      <4> QED
        BY <1>1, <1>6, <3>1, <4>1, <4>2, <4>3
    <3>2. CASE n # K + 1
      <4>1. n \in 1 .. K
        BY <1>4, <3>2
      <4>2. n <= Len(set_stack') <=> n <= D
        BY <1>4, <1>5, <1>7, <1>9, <4>1
      <4>3. \A m \in 1 .. n : m \in 1 .. K /\ macros'[m] = macros[m]
        BY <1>4, <4>1
      <4>4. /\ n <= D <=> n <= MaxMacroDepth /\ \A m \in 1 .. n : macros[m].vec
            /\ macros[n].nr \in 1 .. opened
            /\ \A m \in 1 .. n - 1 : macros[m].nr < macros[n].nr
        BY <1>2, <4>1 DEF MacrosFit
      <4>5. n <= D <=> n <= MaxMacroDepth /\ \A m \in 1 .. n : macros'[m].vec
        BY <4>3, <4>4
      <4>6. macros'[n].nr \in 1 .. opened'
        BY <1>1, <1>3, <4>1, <4>3, <4>4
      <4>7. \A m \in 1 .. n - 1 : m \in 1 .. n /\ macros'[m].nr < macros'[n].nr
        BY <4>1, <4>3, <4>4
      <4> QED
        BY <4>2, <4>5, <4>6, <4>7
    <3> QED
      BY <3>1, <3>2
  <2> QED
    BY <1>4, <2>1, <2>2 DEF MacrosFit
<1>12. LinesFit' /\ FilesFit' /\ FlagsFit'
  BY <1>1, <1>2 DEF LinesFit, Counts, FilesFit, FlagsFit
<1>13. StackFits'
  <2>1. ASSUME NEW n \in 1 .. Len(set_stack')
        PROVE  set_stack'[n] < next_id' /\ \A m \in 1 .. n - 1 : set_stack'[m] # set_stack'[n]
    <3>1. CASE n \in 1 .. D
      <4>4. next_id' \in {next_id, next_id + 1}
        BY <1>1
      <4>5. set_stack'[n] = set_stack[n]
        BY <1>1, <1>7, <3>1
      <4>1. set_stack'[n] = set_stack[n] /\ set_stack[n] \in Nat /\ set_stack[n] < next_id
        BY <1>2, <1>3, <3>1, <4>5 DEF StackFits
      <4>6. \A m \in 1 .. n - 1 : m \in 1 .. D
        BY <1>5, <3>1
      <4>7. \A m \in 1 .. D : set_stack'[m] = set_stack[m]
        BY <1>1, <1>7
      <4>2. \A m \in 1 .. n - 1 : m \in 1 .. D /\ set_stack'[m] = set_stack[m]
        BY <4>6, <4>7
      <4>3. \A m \in 1 .. n - 1 : set_stack[m] # set_stack[n]
        BY <1>2, <3>1 DEF StackFits
      <4> QED
        BY <1>3, <4>1, <4>2, <4>3, <4>4
    <3>2. CASE n \notin 1 .. D
      <4>1. V!Walked(macros') /\ n = D + 1 /\ set_stack'[n] = next_id /\ next_id' = next_id + 1
        BY <1>1, <1>5, <1>7, <3>2
      <4>2. \A m \in 1 .. n - 1 : m \in 1 .. D /\ set_stack'[m] = set_stack[m]
        BY <1>5, <1>7, <4>1
      <4>3. \A m \in 1 .. D : set_stack[m] \in Nat /\ set_stack[m] < next_id
        BY <1>2, <1>3 DEF StackFits
      <4> QED
        BY <1>3, <4>1, <4>2, <4>3
    <3> QED
      BY <3>1, <3>2
  <2> QED
    BY <2>1 DEF StackFits
<1>14. ScopesFit'
  <2>1. ASSUME NEW n \in 1 .. Len(out) PROVE ScopeFits(n)'
    <3>1. out[n] \in Extracted
      BY <1>2 DEF ReviewTyped
    <3>2. ScopeFits(n) /\ Home(n)' = Home(n)
      BY <1>1, <1>2 DEF ScopesFit, Home, V!Set
    <3>3. out[n].file = file => out[n].scope[3] < next_id /\ out[n].scope[3] < next_id + 1
      BY <1>3, <3>1, <3>2 DEF ScopeFits, Extracted
    <3>4. Home(n) \in 0 .. opened /\ Home(n) \in 0 .. opened' /\ Home(n) # opened + 1
      BY <1>1, <1>3, <3>2 DEF ScopeFits
    <3>5. out[n].scope # <<file, "set", next_id>>
      BY <1>3, <3>2, <3>3 DEF ScopeFits
    <3>6. \A m \in 1 .. Len(set_stack)' :
            Home(n) = macros'[m].nr <=> out[n].scope = <<file, "set", set_stack'[m]>>
      <4> TAKE m \in 1 .. Len(set_stack)'
      <4>1. CASE m \in 1 .. D
        <5>1. m \in 1 .. K /\ macros'[m] = macros[m] /\ set_stack'[m] = set_stack[m]
          BY <1>1, <1>4, <1>5, <1>7, <4>1
        <5> QED
          BY <3>2, <4>1, <5>1 DEF ScopeFits
      <4>2. CASE m \notin 1 .. D
        <5>1. V!Walked(macros') /\ m = D + 1
          BY <1>5, <1>7, <4>2
        <5>2. macros'[m].nr = opened + 1 /\ set_stack'[m] = next_id
          BY <1>4, <1>7, <1>9, <5>1 DEF mac
        <5> QED
          BY <3>4, <3>5, <5>2
      <4> QED
        BY <4>1, <4>2
    <3> QED
      BY <1>1, <3>2, <3>3, <3>4, <3>6 DEF ScopeFits
  <2>2. ASSUME NEW n \in 1 .. Len(out), NEW m \in 1 .. Len(out) PROVE Together(n, m)'
    BY <1>1, <1>2 DEF ScopesFit, Together, Home, V!Set
  <2> QED
    BY <1>1, <2>1, <2>2 DEF ScopesFit
<1> QED
  BY <1>1, <1>10, <1>11, <1>12, <1>13, <1>14, StillWalking DEF ReviewInv

LEMMA LeavesMacro ==
    ASSUME ReviewInv, V!LeaveMacro
    PROVE  ReviewInv'
<1> DEFINE K == Len(macros)
           D == Len(set_stack)
<1>1. /\ walk = "walk" /\ walk' = "walk" /\ macros # <<>> /\ macros' = V!Front(macros)
      /\ V!Walked(macros) => set_stack' = V!Front(set_stack)
      /\ ~V!Walked(macros) => set_stack' = set_stack
      /\ UNCHANGED <<files, file, local, next_id, out, opened, source>>
  BY DEF V!LeaveMacro
<1>2. ReviewTyped /\ MacrosFit /\ LinesFit /\ FilesFit /\ StackFits /\ ScopesFit /\ FlagsFit
  BY <1>1 DEF ReviewInv
<1>3. macros \in Seq(Around) /\ set_stack \in Seq(Nat)
  BY <1>2 DEF ReviewTyped
<1>4. /\ K \in Nat \ {0} /\ DOMAIN macros = 1 .. K
      /\ macros' \in Seq(Around) /\ Len(macros') = K - 1
      /\ \A n \in 1 .. K - 1 : macros'[n] = macros[n]
  <2>1. DOMAIN macros = 1 .. K
    BY <1>3, LenProperties
  <2> QED
    BY <1>1, <1>3, <2>1, Shortened
<1>5. D \in Nat /\ D <= K
  BY <1>2, <1>3 DEF MacrosFit
<1>6. V!Walked(macros) <=> K <= D
  <2>1. V!Walked(macros) <=> K <= MaxMacroDepth /\ \A m \in 1 .. K : macros[m].vec
    BY <1>4 DEF V!Walked
  <2>2. K \in 1 .. K
    BY <1>4
  <2> QED
    BY <1>2, <2>1, <2>2 DEF MacrosFit
<1>7. /\ set_stack' \in Seq(Nat) /\ Len(set_stack') \in Nat
      /\ K <= D => Len(set_stack') = K - 1
      /\ ~(K <= D) => Len(set_stack') = D
      /\ \A n \in 1 .. Len(set_stack') : n \in 1 .. D /\ set_stack'[n] = set_stack[n]
  <2>1. CASE K <= D
    <3>1. D = K /\ set_stack # <<>>
      BY <1>4, <1>5, <2>1
    <3>2. /\ V!Front(set_stack) \in Seq(Nat) /\ Len(V!Front(set_stack)) = D - 1
          /\ \A n \in 1 .. D - 1 : V!Front(set_stack)[n] = set_stack[n]
      BY <1>3, <3>1, Shortened
    <3>3. set_stack' = V!Front(set_stack)
      BY <1>1, <1>6, <2>1
    <3>4. /\ set_stack' \in Seq(Nat) /\ Len(set_stack') = K - 1
          /\ \A n \in 1 .. K - 1 : set_stack'[n] = set_stack[n]
      BY <3>1, <3>2, <3>3
    <3>5. K - 1 \in Nat /\ \A n \in 1 .. K - 1 : n \in 1 .. K
      BY <1>4
    <3> QED
      BY <2>1, <3>1, <3>4, <3>5
  <2>2. CASE ~(K <= D)
    <3>1. set_stack' = set_stack
      BY <1>1, <1>6, <2>2
    <3> QED
      BY <1>3, <1>5, <2>2, <3>1
  <2> QED
    BY <2>1, <2>2
<1>8. ReviewTyped'
  BY <1>1, <1>2, <1>4, <1>7 DEF ReviewTyped
<1>13. /\ Len(set_stack') <= K - 1
       /\ \A n \in 1 .. K - 1 : n <= Len(set_stack') <=> n <= D
  <2> DEFINE E == Len(set_stack')
  <2>3. E \in Nat /\ (K <= D => E = K - 1) /\ (~(K <= D) => E = D)
    BY <1>7
  <2>4. K \in Nat \ {0}
    BY <1>4
  <2> HIDE DEF K, D, E
  <2>5. E <= K - 1 /\ \A n \in 1 .. K - 1 : n <= E <=> n <= D
    BY <1>5, <2>3, <2>4
  <2> QED
    BY <2>5 DEF E
<1>9. MacrosFit'
  <2>1. Len(set_stack') <= Len(macros')
    BY <1>4, <1>13
  <2>2. ASSUME NEW n \in 1 .. K - 1
        PROVE  /\ n <= Len(set_stack') <=> n <= MaxMacroDepth /\ \A m \in 1 .. n : macros'[m].vec
               /\ macros'[n].nr \in 1 .. opened'
               /\ \A m \in 1 .. n - 1 : macros'[m].nr < macros'[n].nr
    <3>1. n \in 1 .. K /\ macros'[n] = macros[n]
      BY <1>4
    <3>2. n <= Len(set_stack') <=> n <= D
      BY <1>13
    <3>3. \A m \in 1 .. n : m \in 1 .. K - 1 /\ macros'[m] = macros[m]
      BY <1>4
    <3>4. /\ n <= D <=> n <= MaxMacroDepth /\ \A m \in 1 .. n : macros[m].vec
          /\ macros[n].nr \in 1 .. opened
          /\ \A m \in 1 .. n - 1 : macros[m].nr < macros[n].nr
      BY <1>2, <3>1 DEF MacrosFit
    <3>5. n <= D <=> n <= MaxMacroDepth /\ \A m \in 1 .. n : macros'[m].vec
      BY <3>3, <3>4
    <3>6. \A m \in 1 .. n - 1 : m \in 1 .. n /\ macros'[m].nr < macros'[n].nr
      BY <3>1, <3>3, <3>4
    <3> QED
      BY <1>1, <3>1, <3>2, <3>4, <3>5, <3>6
  <2> QED
    BY <1>4, <2>1, <2>2 DEF MacrosFit
<1>10. LinesFit' /\ FilesFit' /\ FlagsFit'
  BY <1>1, <1>2 DEF LinesFit, Counts, FilesFit, FlagsFit
<1>11. StackFits'
  <2>1. \A n \in 1 .. Len(set_stack') : \A m \in 1 .. n - 1 : m \in 1 .. Len(set_stack')
    BY <1>7
  <2> QED
    BY <1>1, <1>2, <1>7, <2>1 DEF StackFits
<1>12. ScopesFit'
  <2>1. ASSUME NEW n \in 1 .. Len(out) PROVE ScopeFits(n)'
    <3>1. ScopeFits(n) /\ Home(n)' = Home(n)
      BY <1>1, <1>2 DEF ScopesFit, Home, V!Set
    <3>2. \A m \in 1 .. Len(set_stack') :
            m \in 1 .. D /\ macros'[m] = macros[m] /\ set_stack'[m] = set_stack[m]
      <4> TAKE m \in 1 .. Len(set_stack')
      <4>1. m \in 1 .. K - 1
        <5>1. m \in Int /\ 1 <= m /\ m <= Len(set_stack')
          BY <1>7
        <5>2. K - 1 \in Int
          BY <1>4
        <5> QED
          BY <1>7, <1>13, <5>1, <5>2
      <4> QED
        BY <1>4, <1>7, <4>1
    <3> QED
      BY <1>1, <3>1, <3>2 DEF ScopeFits
  <2>2. ASSUME NEW n \in 1 .. Len(out), NEW m \in 1 .. Len(out) PROVE Together(n, m)'
    BY <1>1, <1>2 DEF ScopesFit, Together, Home, V!Set
  <2> QED
    BY <1>1, <2>1, <2>2 DEF ScopesFit
<1> QED
  BY <1>1, <1>8, <1>9, <1>10, <1>11, <1>12, StillWalking DEF ReviewInv

LEMMA Constructs ==
    ASSUME ReviewInv, NEW pred \in Predicates, NEW qualified \in BOOLEAN,
           V!NewInvariant(pred, qualified)
    PROVE  ReviewInv'
<1> DEFINE row == [file |-> file, pred |-> pred, macros |-> macros, own |-> local /\ ~qualified]
           inv == [file |-> file, line |-> Len(source'), pred |-> pred,
                   scope |-> V!next_scope, weaknesses |-> V!predicate_weaknesses(pred)]
           Taken == V!Walked(macros) /\ (qualified \/ ~local)
           L == Len(source)
           M == Len(out)
           K == Len(macros)
           D == Len(set_stack)
<1>1. /\ walk = "walk" /\ walk' = "walk" /\ file # 0 /\ source' = Append(source, row)
      /\ Taken => out' = Append(out, inv) /\ next_id' = IF set_stack = <<>> THEN next_id + 1 ELSE next_id
      /\ ~Taken => out' = out /\ next_id' = next_id
      /\ UNCHANGED <<files, file, local, set_stack, macros, opened>>
  BY DEF V!NewInvariant
<1>2. ReviewTyped /\ MacrosFit /\ LinesFit /\ FilesFit /\ StackFits /\ ScopesFit /\ FlagsFit
  BY <1>1 DEF ReviewInv
<1>3. /\ source \in Seq(Written) /\ out \in Seq(Extracted) /\ macros \in Seq(Around)
      /\ set_stack \in Seq(Nat) /\ next_id \in Nat /\ opened \in Nat /\ file \in Nat /\ local \in BOOLEAN
  BY <1>2, ReviewAssumption DEF ReviewTyped, V!ReviewAssumption
<1>4. row \in Written
  BY <1>3 DEF Written
<1>5. /\ L \in Nat /\ source' \in Seq(Written) /\ Len(source') = L + 1
      /\ \A l \in 1 .. L : source'[l] = source[l]
      /\ source'[L + 1] = row
  <2> HIDE DEF row
  <2> QED
    BY <1>1, <1>3, <1>4, Lengthened
<1>6. K \in Nat /\ DOMAIN macros = 1 .. K /\ D \in Nat /\ D <= K
  BY <1>2, <1>3, LenProperties DEF MacrosFit
<1>7. V!Walked(macros) <=> K <= MaxMacroDepth /\ \A m \in 1 .. K : macros[m].vec
  BY <1>6 DEF V!Walked
<1>8. V!Walked(macros) => D = K
  <2>1. CASE K = 0
    BY <1>6, <2>1
  <2>2. CASE K # 0
    <3>1. K \in 1 .. K
      BY <1>6, <2>2
    <3> QED
      BY <1>2, <1>6, <1>7, <3>1 DEF MacrosFit
  <2> QED
    BY <2>1, <2>2
<1>9. V!next_scope = IF D = 0 THEN <<file, "solo", next_id>> ELSE <<file, "set", set_stack[D]>>
  <2>1. set_stack = <<>> <=> D = 0
    BY <1>3, EmptySeq
  <2> QED
    BY <2>1, Zenon DEF V!next_scope, V!Last
<1>10. V!next_scope \in Nat \X {"set", "solo"} \X Nat
  <2>1. D # 0 => set_stack[D] \in Nat
    BY <1>3, <1>6, ElementOfSeq
  <2> QED
    BY <1>3, <1>9, <2>1
<1>11. V!predicate_weaknesses(pred) \subseteq {"Tautology", "IgnoresState"}
  BY WeaknessIsReal
<1>12. inv \in Extracted
  BY <1>3, <1>5, <1>10, <1>11 DEF Extracted, Flags
<1>13. /\ M \in Nat
       /\ Taken => /\ out' \in Seq(Extracted) /\ Len(out') = M + 1
                   /\ \A n \in 1 .. M : out'[n] = out[n]
                   /\ out'[M + 1] = inv
       /\ ~Taken => out' \in Seq(Extracted) /\ Len(out') = M
  <2> HIDE DEF inv, Taken
  <2>1. /\ Append(out, inv) \in Seq(Extracted) /\ Len(Append(out, inv)) = M + 1
        /\ \A n \in 1 .. M : Append(out, inv)[n] = out[n]
        /\ Append(out, inv)[M + 1] = inv
    BY <1>3, <1>12, Lengthened
  <2>2. M \in Nat
    BY <1>3
  <2> QED
    BY <1>1, <1>3, <2>1, <2>2
<1>14. inv.line = L + 1 /\ inv.file = file /\ inv.pred = pred /\ inv.scope = V!next_scope
       /\ inv.weaknesses = V!predicate_weaknesses(pred)
  BY <1>5
<1>15. row.macros = macros /\ (row.own <=> local /\ ~qualified)
  OBVIOUS
<1>16. Taken <=> V!Walked(macros) /\ ~row.own
  BY <1>3
<1> HIDE DEF row, inv, Taken
<1>17. \A n \in 1 .. Len(out') : n \in 1 .. M \/ (Taken /\ n = M + 1)
  BY <1>13
<1>25. PICK at : at = M + 1
  OBVIOUS
<1>26. PICK end : end = L + 1
  OBVIOUS
<1>18. ReviewTyped'
  <2>1. next_id' \in Nat
    BY <1>1, <1>3
  <2> QED
    BY <1>1, <1>2, <1>5, <1>13, <2>1 DEF ReviewTyped
<1>19. MacrosFit'
  BY <1>1, <1>2 DEF MacrosFit
<1>20. StackFits'
  <2>1. \A n \in 1 .. D : set_stack[n] < next_id => set_stack[n] < next_id'
    BY <1>1, <1>3, ElementOfSeq
  <2> QED
    BY <1>1, <1>2, <2>1 DEF StackFits
<1>21. FilesFit'
  BY <1>1, <1>2, <1>13, <1>14, <1>17 DEF FilesFit
<1>22. FlagsFit'
  <2>1. inv.weaknesses \ {"Duplicate"} = V!predicate_weaknesses(inv.pred) /\ "Duplicate" \notin inv.weaknesses
    BY <1>11, <1>14
  <2>2. \A n \in 1 .. Len(out') : n \in 1 .. M \/ out'[n] = inv
    BY <1>13, <1>17
  <2>3. \A n \in 1 .. M : out'[n] = out[n]
    BY <1>1, <1>13
  <2> QED
    BY <1>1, <1>2, <2>1, <2>2, <2>3 DEF FlagsFit
<1>23. LinesFit'
  <2>1. \A n \in 1 .. M : out'[n] = out[n] /\ out[n].line \in 1 .. L
    BY <1>1, <1>2, <1>13 DEF LinesFit
  <2>2. Counts(end)' <=> Taken
    BY <1>26, <1>5, <1>7, <1>15, <1>16 DEF Counts
  <2>3. \A l \in 1 .. L : (\E n \in 1 .. Len(out') : out'[n].line = l) <=> Counts(l)'
    <3> TAKE l \in 1 .. L
    <3>1. Counts(l)' <=> Counts(l)
      BY <1>5 DEF Counts
    <3>2. (\E n \in 1 .. M : out[n].line = l) <=> Counts(l)
      BY <1>2 DEF LinesFit
    <3>3. (\E n \in 1 .. Len(out') : out'[n].line = l) <=> (\E n \in 1 .. M : out[n].line = l)
      <4>1. CASE Taken
        <5>1. l # L + 1 /\ M + 1 \notin 1 .. M /\ 1 .. Len(out') = (1 .. M) \cup {M + 1}
          BY <1>5, <1>13, <4>1
        <5> QED
          BY <1>13, <1>14, <2>1, <4>1, <5>1
      <4>2. CASE ~Taken
        BY <1>13, <2>1, <4>2
      <4> QED
        BY <4>1, <4>2
    <3> QED
      BY <3>1, <3>2, <3>3
  <2>4. (\E n \in 1 .. Len(out') : out'[n].line = end) <=> Counts(end)'
    <3>1. CASE Taken
      <4>1. M + 1 \in 1 .. Len(out') /\ out'[M + 1].line = end
        BY <1>13, <1>14, <1>26, <3>1
      <4> QED
        BY <2>2, <3>1, <4>1
    <3>2. CASE ~Taken
      <4>1. \A n \in 1 .. Len(out') : n \in 1 .. M
        BY <1>17, <3>2
      <4>2. \A n \in 1 .. Len(out') : out'[n].line # end
        BY <1>5, <1>26, <2>1, <4>1
      <4> QED
        BY <2>2, <3>2, <4>2
    <3> QED
      BY <3>1, <3>2
  <2>5. \A l \in 1 .. Len(source') : l \in 1 .. L \/ l = end
    BY <1>5, <1>26
  <2>6. \A n \in 1 .. Len(out') : out'[n].line \in 1 .. Len(source')
    <3> TAKE n \in 1 .. Len(out')
    <3>1. CASE n \in 1 .. M
      <4>1. out'[n].line \in 1 .. L
        BY <2>1, <3>1
      <4> QED BY <1>5, <4>1
    <3>2. CASE Taken /\ n = M + 1
      <4>1. out'[n].line = L + 1
        BY <1>13, <1>14, <3>2
      <4> QED BY <1>5, <4>1
    <3> QED BY <1>17, <3>1, <3>2
  <2>7. \A n, m \in 1 .. Len(out') : n # m => out'[n].line # out'[m].line
    <3> TAKE n, m \in 1 .. Len(out')
    <3>1. CASE n \in 1 .. M /\ m \in 1 .. M
      BY <1>2, <2>1, <3>1 DEF LinesFit
    <3>2. CASE n \in 1 .. M /\ m = M + 1 /\ Taken
      BY <1>5, <1>13, <1>14, <2>1, <3>2
    <3>3. CASE m \in 1 .. M /\ n = M + 1 /\ Taken
      BY <1>5, <1>13, <1>14, <2>1, <3>3
    <3> QED
      BY <1>17, <3>1, <3>2, <3>3
  <2> QED
    BY <2>3, <2>4, <2>5, <2>6, <2>7 DEF LinesFit
<1>24. ScopesFit'
  <2> DEFINE H == IF macros = <<>> THEN 0 ELSE macros[K].nr
  <2>1. ASSUME NEW n \in 1 .. M
        PROVE  /\ out'[n] = out[n] /\ out[n] \in Extracted
               /\ Home(n)' = Home(n) /\ ScopeFits(n)
    <3>1. out'[n] = out[n] /\ out[n].line \in 1 .. L
      BY <1>1, <1>2, <1>13 DEF LinesFit
    <3>2. source'[out[n].line] = source[out[n].line]
      BY <1>5, <3>1
    <3>3. Home(n)' = Home(n)
      BY <3>1, <3>2, Zenon DEF Home, V!Set
    <3> QED
      BY <1>2, <1>3, <3>1, <3>3, ElementOfSeq DEF ScopesFit
  <2>2. ASSUME NEW n \in 1 .. M PROVE ScopeFits(n)'
    <3>1. next_id' \in {next_id, next_id + 1}
      BY <1>1
    <3>2. out[n].file = file => out[n].scope[3] \in Nat /\ out[n].scope[3] < next_id
      BY <2>1 DEF ScopeFits, Extracted
    <3>3. out[n].file = file => out[n].scope[3] < next_id'
      BY <1>3, <3>1, <3>2
    <3> QED
      BY <1>1, <2>1, <3>3 DEF ScopeFits
  <2>3. ASSUME NEW n \in 1 .. M, NEW m \in 1 .. M PROVE Together(n, m)'
    BY <1>2, <2>1 DEF ScopesFit, Together
  <2>4. Taken => Home(at)' = H
    <3>1. Taken => source'[out'[at].line].macros = macros
      BY <1>5, <1>13, <1>14, <1>15, <1>25
    <3> QED
      BY <3>1, Zenon DEF Home, V!Set, V!Last
  <2>5. Taken => D = K
    BY <1>8, <1>16
  <2>6. macros = <<>> <=> K = 0
    BY <1>3, EmptySeq
  <2>7. K # 0 => macros[K].nr \in 1 .. opened
    BY <1>2, <1>6 DEF MacrosFit
  <2>8. H \in 0 .. opened /\ (H = 0 <=> K = 0)
    BY <1>3, <2>6, <2>7
  <2>9. K # 0 => H = macros[K].nr
    BY <2>6
  <2> HIDE DEF H
  <2>10. Taken => ScopeFits(at)'
    <3> SUFFICES ASSUME Taken PROVE ScopeFits(at)'
      OBVIOUS
    <3>1. out'[at].scope = V!next_scope /\ out'[at].file = file
      BY <1>13, <1>14, <1>25
    <3>2. V!next_scope[1] = file
      BY <1>9
    <3>3. V!next_scope[3] < next_id'
      <4>1. CASE D = 0
        <5>1. next_id' = next_id + 1
          BY <1>1, <2>5, <4>1, <1>3, EmptySeq
        <5> QED
          BY <1>3, <1>9, <4>1, <5>1
      <4>2. CASE D # 0
        <5>1. D \in 1 .. D /\ set_stack # <<>>
          BY <1>6, <4>2
        <5>2. set_stack[D] < next_id /\ next_id' = next_id
          BY <1>1, <1>2, <5>1 DEF StackFits
        <5> QED
          BY <1>9, <4>2, <5>2
      <4> QED
        BY <4>1, <4>2
    <3>4. V!next_scope[2] = "solo" <=> H = 0
      BY <1>9, <2>5, <2>8
    <3>5. ASSUME NEW m \in 1 .. D
          PROVE  H = macros[m].nr <=> V!next_scope = <<file, "set", set_stack[m]>>
      <4>1. D # 0 /\ D \in 1 .. D /\ D \in 1 .. K
        BY <1>6
      <4>2. V!next_scope = <<file, "set", set_stack[D]>> /\ H = macros[D].nr
        BY <1>9, <2>5, <2>9, <4>1
      <4>3. CASE m = D
        BY <4>2, <4>3
      <4>4. CASE m # D
        <5>1. m \in 1 .. D - 1 /\ m \in 1 .. K
          BY <1>6, <4>4
        <5>2. set_stack[m] # set_stack[D]
          BY <1>2, <4>1, <5>1 DEF StackFits
        <5>3. macros[m].nr \in 1 .. opened /\ macros[D].nr \in 1 .. opened /\ macros[m].nr < macros[D].nr
          BY <1>2, <4>1, <5>1 DEF MacrosFit
        <5> QED
          BY <1>3, <4>2, <5>2, <5>3
      <4> QED
        BY <4>3, <4>4
    <3> QED
      BY <1>1, <2>4, <2>8, <3>1, <3>2, <3>3, <3>4, <3>5 DEF ScopeFits
  <2>11. ASSUME Taken, NEW n \in 1 .. M
         PROVE  out[n].scope = V!next_scope <=> Home(n) = H /\ H # 0
    <3>1. CASE D = 0
      <4>1. V!next_scope = <<file, "solo", next_id>> /\ H = 0
        BY <1>9, <2>5, <2>8, <2>11, <3>1
      <4>2. out[n].scope # <<file, "solo", next_id>>
        <5> SUFFICES ASSUME out[n].scope = <<file, "solo", next_id>> PROVE FALSE
          OBVIOUS
        <5>1. out[n].scope[1] = file /\ out[n].scope[3] = next_id
          OBVIOUS
        <5> QED
          <6>1. out[n].file = file /\ next_id < next_id
            BY <2>1, <5>1 DEF ScopeFits
          <6> QED
            BY <1>3, <6>1
      <4> QED
        BY <4>1, <4>2
    <3>2. CASE D # 0
      <4>1. D \in 1 .. D
        BY <1>6, <3>2
      <4>2. V!next_scope = <<file, "set", set_stack[D]>> /\ H = macros[D].nr /\ H # 0
        BY <1>9, <2>5, <2>8, <2>9, <2>11, <3>2
      <4> QED
        BY <2>1, <4>1, <4>2 DEF ScopeFits
    <3> QED
      BY <3>1, <3>2
  <2>12. ASSUME Taken, NEW n \in 1 .. M PROVE Together(n, at)' /\ Together(at, n)'
    <3>1. out'[at].scope = V!next_scope /\ Home(at)' = H /\ out'[n] = out[n] /\ Home(n)' = Home(n)
      BY <1>13, <1>14, <1>25, <2>1, <2>4, <2>12
    <3>2. out[n].scope = V!next_scope <=> Home(n) = H /\ H # 0
      BY <2>11, <2>12
    <3> QED
      BY <3>1, <3>2 DEF Together
  <2>13. \A n \in 1 .. Len(out') : ScopeFits(n)'
    BY <1>17, <1>25, <2>2, <2>10
  <2>14. \A n, m \in 1 .. Len(out') : Together(n, m)'
    <3> TAKE n, m \in 1 .. Len(out')
    <3>1. CASE n = m
      BY <3>1 DEF Together
    <3> QED
      BY <1>17, <1>25, <2>3, <2>12, <3>1
  <2> QED
    BY <2>13, <2>14 DEF ScopesFit
<1> QED
  BY <1>1, <1>18, <1>19, <1>20, <1>21, <1>22, <1>23, <1>24, StillWalking DEF ReviewInv

(* The report is what was extracted, in order, and the second of two that    *)
(* have the scope and the predicate of an earlier one is flagged.            *)
LEMMA Finishes ==
    ASSUME ReviewInv, V!Finish
    PROVE  ReviewInv'
<1> DEFINE M == Len(out)
           t == V!sorted(out)
           again(i) == \E j \in 1 .. i - 1 : t[j].scope = t[i].scope /\ t[j].pred = t[i].pred
<1>1. /\ walk = "walk" /\ walk' = "done" /\ out' = V!mark_duplicates(t)
      /\ UNCHANGED <<files, file, local, set_stack, next_id, macros, opened, source>>
  BY DEF V!Finish
<1>2. ReviewTyped /\ LinesFit /\ ScopesFit /\ FlagsFit
  BY <1>1 DEF ReviewInv
<1>3. M \in Nat /\ DOMAIN out = 1 .. M /\ out \in Seq(Extracted) /\ \A i \in 1 .. M : out[i] \in Extracted
  BY <1>2, LenProperties, ElementOfSeq DEF ReviewTyped
<1>4. Lined(out, M)
  BY <1>2, <1>3 DEF Lined, LinesFit, Extracted
<1>5. Arranged(t, out, M)
  BY <1>3, <1>4, SortedIs
<1> HIDE DEF t
<1>6. /\ DOMAIN t = 1 .. M
      /\ \A i \in 1 .. M : \E n \in 1 .. M : t[i] = out[n]
      /\ \A n \in 1 .. M : \E i \in 1 .. M : t[i] = out[n]
      /\ \A i, j \in 1 .. M : i < j => V!Before(t[i], t[j])
  <2>1. /\ t \in [1 .. M -> {out[n] : n \in 1 .. M}]
        /\ \A n \in 1 .. M : \E i \in 1 .. M : t[i] = out[n]
        /\ \A i, j \in 1 .. M : i < j => V!Before(t[i], t[j])
    BY <1>5, Zenon DEF Arranged
  <2>2. \A i \in 1 .. M : t[i] \in {out[n] : n \in 1 .. M}
    BY <2>1, Zenon
  <2>3. DOMAIN t = 1 .. M
    BY <2>1, Zenon
  <2> QED
    BY <2>1, <2>2, <2>3, Zenon
<1>7. \A i \in 1 .. M : t[i] \in Extracted
  BY <1>3, <1>6
<1>8. \A i \in 1 .. M : <<t[i].scope, t[i].pred>> \in V!seen(t, i - 1) <=> again(i)
  BY DEF V!seen
<1>9. ASSUME NEW i \in 1 .. M
      PROVE  /\ out'[i] \in Extracted
             /\ out'[i].file = t[i].file /\ out'[i].line = t[i].line
             /\ out'[i].pred = t[i].pred /\ out'[i].scope = t[i].scope
             /\ out'[i].weaknesses = t[i].weaknesses \cup (IF again(i) THEN {"Duplicate"} ELSE {})
  <2> HIDE DEF again
  <2>1. out'[i] = IF again(i) THEN [t[i] EXCEPT !.weaknesses = @ \cup {"Duplicate"}] ELSE t[i]
    BY <1>1, <1>6, <1>8 DEF V!mark_duplicates
  <2> QED
    BY <1>7, <2>1 DEF Extracted, Flags
<1>10. DOMAIN out' = 1 .. M /\ out' \in [1 .. M -> Extracted]
  <2>1. out' = [i \in 1 .. M |-> out'[i]]
    BY <1>1, <1>6 DEF V!mark_duplicates
  <2> HIDE DEF again
  <2> QED
    BY <1>9, <2>1
<1>11. out' \in Seq(Extracted) /\ Len(out') = M
  BY <1>3, <1>10, AsSequence
<1>12. ReviewTyped'
  BY <1>1, <1>2, <1>11 DEF ReviewTyped
<1>13. FlagsFit'
  <2> SUFFICES ASSUME NEW i \in 1 .. M
               PROVE  out'[i].weaknesses \ {"Duplicate"} = V!predicate_weaknesses(out'[i].pred)
    BY <1>1, <1>11 DEF FlagsFit
  <2>1. t[i].weaknesses \ {"Duplicate"} = V!predicate_weaknesses(t[i].pred)
    BY <1>2, <1>6 DEF FlagsFit
  <2> HIDE DEF again
  <2> QED
    BY <1>9, <2>1
<1>14. V!ExtractsExactly'
  <2>1. ASSUME NEW l
        PROVE  l \in {out'[i].line : i \in 1 .. M} <=> l \in 1 .. Len(source) /\ Counts(l)
    <3>1. l \in {out'[i].line : i \in 1 .. M} <=> \E i \in 1 .. M : t[i].line = l
      BY <1>9
    <3>2. (\E i \in 1 .. M : t[i].line = l) <=> (\E n \in 1 .. M : out[n].line = l)
      BY <1>6
    <3>3. (\E n \in 1 .. M : out[n].line = l) <=> l \in 1 .. Len(source) /\ Counts(l)
      BY <1>2 DEF LinesFit
    <3> QED
      BY <3>1, <3>2, <3>3
  <2>2. ASSUME NEW l \in 1 .. Len(source)
        PROVE  Counts(l) <=>
                    /\ ~source[l].own
                    /\ Len(source[l].macros) <= MaxMacroDepth
                    /\ \A m \in V!ToSet(source[l].macros) : m.vec
    <3>0. source[l] \in Written
      BY <1>2, ElementOfSeq DEF ReviewTyped
    <3>1. source[l].macros \in Seq(Around)
      BY <3>0 DEF Written
    <3>2. DOMAIN source[l].macros = 1 .. Len(source[l].macros)
      BY <3>1, LenProperties
    <3> QED
      BY <3>2 DEF Counts, V!ToSet
  <2>3. DOMAIN source = 1 .. Len(source)
    BY <1>2, LenProperties DEF ReviewTyped
  <2>4. {out'[i].line : i \in DOMAIN out'} =
            {l \in DOMAIN source :
                /\ ~source[l].own
                /\ Len(source[l].macros) <= MaxMacroDepth
                /\ \A m \in V!ToSet(source[l].macros) : m.vec}
    BY <1>10, <2>1, <2>2, <2>3
  <2>5. \A i, j \in DOMAIN out' : i < j => V!Before(out'[i], out'[j])
    <3> TAKE i, j \in DOMAIN out'
    <3>1. i \in 1 .. M /\ j \in 1 .. M
      BY <1>10
    <3>2. /\ out'[i].file = t[i].file /\ out'[i].line = t[i].line
          /\ out'[j].file = t[j].file /\ out'[j].line = t[j].line
      BY <1>9, <3>1
    <3> QED
      BY <1>6, <3>1, <3>2 DEF V!Before
  <2> QED
    BY <1>1, <2>4, <2>5 DEF V!ExtractsExactly
<1>15. V!DuplicatesExact'
  <2>1. ASSUME NEW i \in 1 .. M, NEW j \in 1 .. M, i < j
        PROVE  t[i].scope = t[j].scope <=> V!Set(t[i]) = V!Set(t[j]) /\ V!Set(t[j]) # 0
    <3>1. PICK a \in 1 .. M, b \in 1 .. M : t[i] = out[a] /\ t[j] = out[b]
      BY <1>6
    <3>2. a # b
      <4>1. V!Before(t[i], t[j]) /\ t[i].file \in Nat /\ t[i].line \in Nat
        BY <1>6, <1>7, <2>1 DEF Extracted
      <4>2. ~V!Before(t[i], t[i])
        BY <4>1 DEF V!Before
      <4> QED
        BY <3>1, <4>1, <4>2
    <3> QED
      BY <1>2, <3>1, <3>2 DEF ScopesFit, Together, Home
  <2>2. ASSUME NEW i \in 1 .. M PROVE Home(i)' = V!Set(t[i])
    BY <1>1, <1>9 DEF Home, V!Set
  <2>3. ASSUME NEW i \in 1 .. M
        PROVE  "Duplicate" \in out'[i].weaknesses <=>
                    \E j \in 1 .. i - 1 :
                        /\ out'[j].pred = out'[i].pred
                        /\ Home(j)' = Home(i)' /\ Home(i)' # 0
    <3>1. "Duplicate" \notin t[i].weaknesses
      BY <1>1, <1>2, <1>6 DEF FlagsFit
    <3>2. "Duplicate" \in out'[i].weaknesses <=> again(i)
      <4> HIDE DEF again
      <4> QED
        BY <1>9, <3>1
    <3>3. ASSUME NEW j \in 1 .. i - 1
          PROVE  t[j].scope = t[i].scope /\ t[j].pred = t[i].pred <=>
                    /\ out'[j].pred = out'[i].pred
                    /\ Home(j)' = Home(i)' /\ Home(i)' # 0
      <4>1. j \in 1 .. M /\ j < i
        BY <1>3
      <4>2. out'[j].pred = t[j].pred /\ out'[i].pred = t[i].pred
        BY <1>9, <4>1
      <4>3. Home(j)' = V!Set(t[j]) /\ Home(i)' = V!Set(t[i])
        BY <2>2, <4>1
      <4>4. t[j].scope = t[i].scope <=> V!Set(t[j]) = V!Set(t[i]) /\ V!Set(t[i]) # 0
        BY <2>1, <4>1
      <4> QED
        BY <4>2, <4>3, <4>4
    <3> QED
      BY <3>2, <3>3
  <2> QED
    BY <1>1, <1>10, <2>3 DEF V!DuplicatesExact, V!Flagged, Home
<1> QED
  BY <1>1, <1>12, <1>13, <1>14, <1>15 DEF ReviewInv

LEMMA ReviewAlone == MCSpec => V!Spec
<1>1. MCInit => V!Init
  BY DEF MCInit
<1>2. [MCNext]_<<part, vars, counter, link, review>> => [V!Next]_V!vars
  <2>1. V!NextOf(Some) => V!Next
    BY ReviewAssumption DEF V!Next, V!NextOf, Some
  <2> QED
    BY <2>1 DEF MCNext, V!vars, review
<1> QED
  BY <1>1, <1>2, PTL DEF MCSpec, V!Spec

THEOREM ReviewInvariance == V!Spec => []ReviewInv
<1>1. ReviewInv /\ V!Next => ReviewInv'
  <2> SUFFICES ASSUME ReviewInv, V!Next PROVE ReviewInv'
    OBVIOUS
  <2>1. \/ \E f \in files : V!SkipFile(f) \/ \E shadowed \in BOOLEAN : V!OpenFile(f, shadowed)
        \/ \E vec \in BOOLEAN : V!EnterMacro(vec)
        \/ V!LeaveMacro
        \/ \E pred \in Predicates, qualified \in BOOLEAN : V!NewInvariant(pred, qualified)
        \/ V!Finish
    BY Zenon DEF V!Next, V!NextOf
  <2> QED
    BY <2>1, OpensFile, SkipsFile, EntersMacro, LeavesMacro, Constructs, Finishes
<1>2. ReviewInv /\ UNCHANGED V!vars => ReviewInv'
  BY ReviewRests, Zenon DEF V!vars, review
<1> QED
  BY ReviewInitial, <1>1, <1>2, PTL DEF V!Spec

(* `review` reports the invariants that are constructed, one time each and   *)
(* in order, whatever the tree; what it calls a tautology cannot be false,   *)
(* and what it says ignores the state is the same in every state, but for    *)
(* what the analyses do not look for; and it flags a duplicate exactly if an *)
(* earlier invariant of the same vec! has its predicate.                     *)
THEOREM ReviewsExactly == MCSpec => []ReviewExact
<1>1. ReviewInv => ReviewExact
  <2> SUFFICES ASSUME ReviewInv PROVE V!FlagsAreSound
    BY DEF ReviewInv, ReviewExact
  <2>1. ASSUME NEW n \in DOMAIN out
        PROVE  /\ out[n].pred \in Predicates
               /\ out[n].weaknesses \ {"Duplicate"} = V!predicate_weaknesses(out[n].pred)
    <3>1. n \in 1 .. Len(out) /\ out[n] \in Extracted
      BY LenProperties, ElementOfSeq DEF ReviewInv, ReviewTyped
    <3> QED
      BY <3>1 DEF ReviewInv, FlagsFit, Extracted
  <2> QED
    BY <2>1, WeaknessIsReal DEF V!FlagsAreSound, V!Flagged
<1> QED
  BY ReviewAlone, ReviewInvariance, <1>1, PTL
=============================================================================
