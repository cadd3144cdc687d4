-------------------------------- MODULE MCSweep --------------------------------
(* Sweep for TLC: one worker, two, and one again.                          *)
EXTENDS Sweep

MCLevels == <<1, 2, 1>>
=============================================================================
