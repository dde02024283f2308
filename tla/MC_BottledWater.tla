-------------------------- MODULE MC_BottledWater --------------------------
(* Small instances of BottledWater for TLC.                                *)
EXTENDS BottledWater

CONSTANTS r1

(* All external failures.                                                  *)
MCAllFaults == FaultKinds

(* Only a delivery may fail.                                               *)
MCDeliverFault == {"deliver"}

(* A produce may fail.                                                     *)
MCProduceFault == {"produce"}

MCRels == {r1}
=============================================================================
