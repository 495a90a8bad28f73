---------------------------- MODULE MCEventLoop ----------------------------
(* Instances of EventLoop for TLC: a plain processor, one that needs the   *)
(* current run, and outroot; two runs; files with one and with two runs,   *)
(* which they record, and an older file without a run tree.                *)
EXTENDS EventLoop

CONSTANTS r1, r2, good, brief, old, plain, needsRun, outroot, outroot2

MCContent ==
  [f \in InFiles |->
     CASE f = good -> [events |-> <<r1, r2>>, hasRunT |-> TRUE, runT |-> {r1, r2}]
       [] f = brief -> [events |-> <<r1, r1>>, hasRunT |-> TRUE, runT |-> {r1}]
       [] f = old -> [events |-> <<r2, r1>>, hasRunT |-> FALSE, runT |-> {}]]

\* outroot and the waveform analyses always return OK.
MCOutcomes == [p \in Procs |-> IF p = plain THEN Results ELSE {"OK"}]

=============================================================================
