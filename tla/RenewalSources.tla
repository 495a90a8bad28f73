--------------------------- MODULE RenewalSources ---------------------------
(***************************************************************************)
(* What the primary generator promises its users, without events, windows  *)
(* or relative times: a set of independent sources on one absolute time    *)
(* axis, each with a time at which it is due, and always the one that is   *)
(* due first fires.  A source that fired is due again one of its own       *)
(* intervals later.  A change of the set of sources draws all times anew.  *)
(***************************************************************************)
EXTENDS Integers

CONSTANTS
  Sources,    \* generators
  Periods,    \* mean intervals a source can be given, in ticks
  MaxDraw,    \* bound: longest interval a poisson source draws
  Kind        \* "uniform" or "poisson" for each source

VARIABLES
  on,       \* the sources in use
  drawn,    \* their times are drawn
  period,   \* mean interval of each source
  due,      \* absolute time at which each source in use fires next
  now       \* absolute time of the last firing

sourceVars == <<on, drawn, period, due, now>>

\* The intervals source s can draw: exactly its period, or any up to the bound.
Interval(s, p) == IF Kind[s] = "uniform" THEN {p} ELSE 1..MaxDraw

SourcesInit ==
  /\ on = {} /\ drawn = FALSE /\ now = 0
  /\ period \in [Sources -> Periods]
  /\ due \in [on -> Int]

Change ==
  /\ on' \subseteq Sources /\ drawn' = FALSE
  /\ due' \in [on' -> Int]
  /\ UNCHANGED <<period, now>>

SetPeriod(s, p) ==
  /\ period' = [period EXCEPT ![s] = p]
  /\ UNCHANGED <<on, drawn, due, now>>

\* A fresh draw starts from some moment that has passed, the same for all.
Draw ==
  /\ ~drawn /\ drawn' = TRUE
  /\ \E base \in 0..now :
       /\ due' \in [on -> Int]
       /\ \A s \in on : due'[s] - base \in Interval(s, period[s])
  /\ UNCHANGED <<on, period, now>>

Fire(s) ==
  /\ drawn
  /\ \A r \in on : due[s] <= due[r]
  /\ now' = due[s]
  /\ due' \in [on -> Int]
  /\ due'[s] - due[s] \in Interval(s, period[s])
  /\ \A r \in on \ {s} : due'[r] = due[r]
  /\ UNCHANGED <<on, drawn, period>>

SourcesNext ==
  \/ Change
  \/ \E s \in Sources, p \in Periods : SetPeriod(s, p)
  \/ Draw
  \/ \E s \in on : Fire(s)

SourcesSpec == SourcesInit /\ [][SourcesNext]_sourceVars
=============================================================================
