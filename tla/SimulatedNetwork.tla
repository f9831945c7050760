---------------------------- MODULE SimulatedNetwork ----------------------------
(*****************************************************************************)
(* The fault-injectable link (crates/navian-dst/src/network.rs) over a       *)
(* FaultSchedule, shared by callers that each run the retrying client of     *)
(* examples/hello_retry.rs, while the harness may rewind the link.           *)
(*****************************************************************************)
EXTENDS Delivery

CONSTANTS
    Callers,
    Limits,      \* the values of max_attempts the clients are run with
    MaxSteps,    \* bound: the length of the schedule
    MaxResets    \* bound: how often the harness rewinds the link

(* What the constants are assumed to be. *)
NetworkAssumption ==
    /\ IsFiniteSet(Callers)
    /\ Limits \subseteq Nat \ {0}
    /\ MaxSteps \in Nat
    /\ MaxResets \in Nat

Faults == {Quiet, Transient, Crash, Skew(-5)}

VARIABLES
    schedule,   \* the faults
    max_attempts,
    step,       \* the atomic step counter
    pc,         \* pc[c]: where caller c is; "ok" and "err" are its results
    attempt,    \* attempt[c]: the attempts c has made
    mine,       \* mine[c]: the step c's send has consumed
    clear,      \* link_was_ever_clear[c]
    resets,     \* how many resets there were, for their bound
    failures    \* history: how many sends were not delivered

vars == <<schedule, max_attempts, step, pc, attempt, mine, clear, resets, failures>>

-----------------------------------------------------------------------------
Init ==
    /\ schedule \in Schedules(MaxSteps, Faults)
    /\ max_attempts \in Limits
    /\ step = 0
    /\ pc = [c \in Callers |-> "sending"]
    /\ attempt = [c \in Callers |-> 0]
    /\ mine = [c \in Callers |-> 0]
    /\ clear = [c \in Callers |-> FALSE]
    /\ resets = 0
    /\ failures = 0

\* Mutation: two concurrent sends read the same counter.
SendRacing(c) ==
    /\ pc[c] = "sending"
    /\ mine' = [mine EXCEPT ![c] = step]
    /\ step' = IF \E d \in Callers \ {c} : pc[d] = "sent" THEN step ELSE step + 1
    /\ pc' = [pc EXCEPT ![c] = "sent"]
    /\ attempt' = [attempt EXCEPT ![c] = @ + 1]
    /\ UNCHANGED <<schedule, max_attempts, clear, resets, failures>>

(* The client's next attempt, and in send() the fetch_add on the counter ... *)
Send(c) ==
    /\ pc[c] = "sending"
    /\ mine' = [mine EXCEPT ![c] = step]
    /\ step' = step + 1
    /\ pc' = [pc EXCEPT ![c] = "sent"]
    /\ attempt' = [attempt EXCEPT ![c] = @ + 1]
    /\ UNCHANGED <<schedule, max_attempts, clear, resets, failures>>

\* Mutation: after a drop the caller waits for an answer, without a timeout.
OutcomeWaits(c) ==
    LET d == DeliveryOf(at(schedule, mine[c]))
    IN  /\ pc[c] = "sent" /\ d # "Dropped"
        /\ clear' = [clear EXCEPT ![c] = @ \/ ~IsRetryable(d)]
        /\ pc' = [pc EXCEPT ![c] =
                IF IsDelivered(d) THEN "ok"
                ELSE IF attempt[c] < max_attempts THEN "sending" ELSE "err"]
        /\ failures' = IF IsDelivered(d) THEN failures ELSE failures + 1
        /\ UNCHANGED <<schedule, max_attempts, step, attempt, mine, resets>>

(* ... then the outcome of that step.  The client returns on a delivery, and *)
(* otherwise tries again as long as it has attempts left.                    *)
Outcome(c) ==
    LET d == DeliveryOf(at(schedule, mine[c]))
    IN  /\ pc[c] = "sent"
        /\ clear' = [clear EXCEPT ![c] = @ \/ ~IsRetryable(d)]
        /\ pc' = [pc EXCEPT ![c] =
                IF IsDelivered(d) THEN "ok"
                ELSE IF attempt[c] < max_attempts THEN "sending" ELSE "err"]
        /\ failures' = IF IsDelivered(d) THEN failures ELSE failures + 1
        /\ UNCHANGED <<schedule, max_attempts, step, attempt, mine, resets>>

(* reset(), by the harness, whatever the callers are doing. *)
Reset ==
    /\ resets < MaxResets
    /\ resets' = resets + 1
    /\ step' = 0
    /\ UNCHANGED <<schedule, max_attempts, pc, attempt, mine, clear, failures>>

Next == Reset \/ \E c \in Callers : Send(c) \/ Outcome(c)

Spec == Init /\ [][Next]_vars

-----------------------------------------------------------------------------
TypeOK ==
    /\ schedule \in Schedules(MaxSteps, Faults)
    /\ max_attempts \in Limits
    /\ step \in Nat
    /\ pc \in [Callers -> {"sending", "sent", "ok", "err"}]
    /\ attempt \in [Callers -> 0 .. max_attempts]
    /\ mine \in [Callers -> Nat]
    /\ clear \in [Callers -> BOOLEAN]
    /\ resets \in 0 .. MaxResets
    /\ failures \in Nat

(* "Each send consumes the next step": a fault of the schedule hits at most  *)
(* one send each time the schedule is played, however concurrent callers and *)
(* rewinds interleave with the two halves of a send.                         *)
FaultsHitOnce ==
    failures <= (resets + 1) * fault_count(without_clock_skew(schedule))

(* hello_retry's invariant, "link ever clear => returned Ok": the two        *)
(* classifications of an outcome, and the order in which the client consults *)
(* them, agree on when there is nothing left to retry.                       *)
ClearMeansOk == \A c \in Callers : clear[c] <=> pc[c] = "ok"

(* Any limit ends the call, and "a retry loop that outlasts the schedule     *)
(* always eventually gets through": with more attempts than the playings of  *)
(* the schedule have steps.                                                  *)
Outlasts == max_attempts > (MaxResets + 1) * MaxSteps
EveryoneGetsThrough ==
    \A c \in Callers :
        <>(pc[c] \in {"ok", "err"}) /\ (Outlasts => <>(pc[c] = "ok"))
=============================================================================
