----------------------- MODULE MC_BottledWaterRestart -----------------------
(* Small instances of BottledWaterRestart for TLC.                          *)
EXTENDS BottledWaterRestart, MC_BottledWater
=============================================================================
