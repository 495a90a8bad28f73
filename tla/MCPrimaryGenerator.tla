------------------------- MODULE MCPrimaryGenerator -------------------------
(* A calibration source with exact intervals and a random background.      *)
EXTENDS PrimaryGenerator

CONSTANTS led, background
MCGens == {led, background}
MCKind == [g \in MCGens |-> IF g = led THEN "uniform" ELSE "poisson"]
MCPeriods == {1, 3}
MCWindows == {1, 2}
MCWallTimes == {0, 2}
=============================================================================
