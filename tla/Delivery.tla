-------------------------------- MODULE Delivery --------------------------------
(*****************************************************************************)
(* Outcomes of one send over a faulty link (crates/navian-dst/src/network.rs)*)
(*****************************************************************************)
EXTENDS FaultSchedule

(* What send() makes of the fault of the step it consumed.  The delay of a   *)
(* late delivery, the skew's magnitude, is left out.                         *)
DeliveryOf(f) ==
    CASE f.kind = "None"           -> "Delivered"
      [] f.kind = "TransientError" -> "Failed"
      [] f.kind = "CrashRestart"   -> "Dropped"
      [] f.kind = "ClockSkew"      -> "Delayed"

(* is_delivered() and is_retryable(), which are written down independently.  *)
\* Mutation: a delayed payload is not recognised as one that arrived.
OnlyPrompt(d)  == d = "Delivered"
IsDelivered(d) == d \in {"Delivered", "Delayed"}
IsRetryable(d) == d \in {"Failed", "Dropped"}
=============================================================================
