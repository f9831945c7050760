------------------------------ MODULE MCProviders ------------------------------
(*****************************************************************************)
(* Model-checking instance of the providers of time and randomness.  They    *)
(* share no state, so each behaviour is one of either, with the other at     *)
(* rest.                                                                     *)
(*****************************************************************************)
EXTENDS SimulatedRandom

CONSTANTS Tasks, MaxI, StartMs, MaxInstant, Durations, MaxChanges

VARIABLES
    part,   \* the provider that is used: "random" or "time"
    clock, version, hwm, tpc, wakeAt, seen, fut, raw, returned, floor

T == INSTANCE SimulatedTime WITH pc <- tpc

ASSUME ProvidersAssumption == T!TimeAssumption

BelowZero == -1

tvars == <<clock, version, hwm, tpc, wakeAt, seen, fut, raw, returned, floor>>

MCInit ==
    /\ part \in {"random", "time"}
    /\ Init
    /\ part = "time" => stream = [k \in Draws |-> CHOOSE w \in Words : TRUE]
    /\ T!Init

MCNext ==
    \/ part = "random" /\ Next /\ UNCHANGED <<part, tvars>>
    \/ part = "time" /\ T!Next /\ UNCHANGED <<part, vars>>

MCSpec == /\ MCInit
          /\ [][MCNext]_<<part, vars, tvars>>
          /\ \A t \in Tasks : WF_tvars(T!TaskStep(t))

-----------------------------------------------------------------------------
(* instant_now() is monotonic across threads: see SimulatedTime. *)
InstantMonotonic == T!InstantMonotonic

(* sleep() and timeout() return: no step misses a change, a sleeper whose    *)
(* deadline stays behind the clock wakes up, and a future that is ready ends *)
(* the timeout() around it although the clock stands still.                  *)
SleepersReturn ==
    /\ []T!TypeOK
    /\ [][T!NoMissedChange']_tvars
    /\ T!SleeperWakes
    /\ T!TimeoutReturns
=============================================================================
