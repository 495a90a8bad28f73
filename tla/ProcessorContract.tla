-------------------------- MODULE ProcessorContract --------------------------
(***************************************************************************)
(* What the event loop promises one processor: after it is created it is   *)
(* told the beginning of a run, then given events of that run only, then   *)
(* told the end of that run; runs do not nest, no event arrives outside a  *)
(* run, and nothing is called after the destructor.  A null run (an input  *)
(* file with no record of the run) is begun like any other, but the loop   *)
(* never ends it.                                                          *)
(***************************************************************************)
EXTENDS Naturals

CONSTANTS Runs, NoRun, NullRun

VARIABLES
  open,    \* the run the processor was last told to begin and not to end
  served,  \* DSEvent calls so far
  alive    \* the destructor has not run

vars == <<open, served, alive>>

Init == open = NoRun /\ served = 0 /\ alive = TRUE

BeginOfRun(r) ==
  /\ alive /\ open \in {NoRun, NullRun}
  /\ open' = r
  /\ UNCHANGED <<served, alive>>

Event ==
  /\ alive /\ open # NoRun
  /\ served' = served + 1
  /\ UNCHANGED <<open, alive>>

EndOfRun ==
  /\ alive /\ open \in Runs
  /\ open' = NoRun
  /\ UNCHANGED <<served, alive>>

Destroy ==
  /\ alive /\ open \in {NoRun, NullRun}
  /\ alive' = FALSE
  /\ UNCHANGED <<open, served>>

Next ==
  \/ \E r \in Runs \cup {NullRun} : BeginOfRun(r)
  \/ Event
  \/ EndOfRun
  \/ Destroy

Spec == Init /\ [][Next]_vars

=============================================================================
