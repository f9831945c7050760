---------------------------- MODULE MCPlantedLedger ----------------------------
(* Model-checking instance of Ddmin and PlantedLedger.                       *)
EXTENDS PlantedLedger

LedgerFaults == {Transient, Crash}
=============================================================================
