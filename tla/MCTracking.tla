----------------------------- MODULE MCTracking -----------------------------
(* An electron, its light, and two PMTs of which one is off.               *)
EXTENDS Tracking

CONSTANTS on, off
MCPMTs == {on, off}
MCOnline == {on}
MCTimes == {0, 1}
MCMaxPEs == {0, 1}
MCNamed == {"opticalphoton"}
MCLight == {"Cerenkov", "Scintillation"}
=============================================================================
