-------------------------- MODULE PrimaryGenerator --------------------------
(***************************************************************************)
(* GLG4PrimaryGeneratorAction and the /generator commands: several         *)
(* generators share a priority queue, ordered by the time to their next    *)
(* vertex relative to the current event.  An event takes the first one,    *)
(* makes it time zero, and then everything up to the event window.         *)
(*                                                                         *)
(* Times are ticks.  The generators are combos of time, vertex and         *)
(* position parts, the kind that is repeatable; the one-shot generator of  *)
(* deferred tracks is never made, as no physics list registers its process.*)
(***************************************************************************)
EXTENDS Integers, Sequences

CONSTANTS
  Gens,       \* generator objects /generator/add can make
  NoGen,      \* null lastGen
  Periods,    \* values of /generator/rate/set, as mean intervals
  DefaultPeriod, \* mean interval of a time part that was given none
  MaxDraw,    \* bound: longest interval a poisson time part draws
  Kind,       \* time part of each generator: "uniform" or "poisson"
  Windows,    \* values of /generator/event_window
  WallTimes,  \* what the clock can say at the start of a run
  MaxEvents,  \* bound: events of one /run/beamOn
  MaxRuns     \* bound: /run/beamOn commands

ASSUME GeneratorAssumption ==
  /\ NoGen \notin Gens
  /\ Periods \subseteq Nat \ {0} /\ DefaultPeriod \in Periods
  /\ MaxDraw \in Nat \ {0}
  /\ Kind \in [Gens -> {"uniform", "poisson"}]
  /\ Windows \subseteq Nat \ {0} /\ WallTimes \subseteq Nat
  /\ MaxEvents \in Nat /\ MaxRuns \in Nat

VARIABLES
  pc,            \* "command", "run", "pileup", or how the job ended
  made,          \* generator objects that exist
  genList,       \* those in myGenList
  missing,       \* parts of each generator that are null
  period,        \* mean interval of each time part
  nextTime,      \* nextTime of each generator, relative to the current event
  needReset,     \* needReset
  lastGen,       \* the messenger's lastGen
  window,        \* myEventWindow
  universalTime, \* myUniversalTime
  runUTC,        \* runUTC
  todo,          \* events left in the run
  runs,          \* runs started
  event,         \* the G4Event being filled, or the last one
  start,         \* history: true time of that event, in universal time
  begunAt,       \* history: universal time at the start of the run
  end,           \* history: end of the last event's window
  fired          \* history: absolute time of the last vertex

commandVars == <<made, missing, period, lastGen, window>>
runVars == <<runUTC, todo, runs, begunAt>>
clockVars == <<universalTime, start, end, fired>>
vars == <<pc, commandVars, genList, nextTime, needReset, runVars, event, clockVars>>

Parts == {"time", "vertex", "position"}
Ticks == 1..MaxDraw \cup Periods
Interval(g) == IF Kind[g] = "uniform" THEN {period[g]} ELSE 1..MaxDraw
Vertex == [gen : Gens, time : Nat]

\* Mutant of First: the queue's comparison is the other way round.
LastOf(nt, g) == g \in genList /\ \A h \in genList : nt[g] >= nt[h]

\* The top of the priority queue.
First(nt, g) == g \in genList /\ \A h \in genList : nt[g] <= nt[h]

TypeOK ==
  /\ pc \in {"command", "run", "pileup", "fatal", "crashed"}
  /\ made \subseteq Gens /\ genList \subseteq made
  /\ missing \in [Gens -> SUBSET Parts]
  /\ period \in [Gens -> Periods]
  /\ nextTime \in [Gens -> Nat]
  /\ needReset \in BOOLEAN
  /\ lastGen \in made \cup {NoGen}
  /\ window \in Nat
  /\ universalTime \in Nat /\ runUTC \in Nat
  /\ todo \in Nat /\ runs \in Nat
  /\ event \in [utc : Nat, vertices : Seq(Vertex)]
  /\ start \in Nat /\ begunAt \in Nat /\ end \in Nat /\ fired \in Nat

Init ==
  /\ pc = "command"
  /\ made = {} /\ genList = {} /\ lastGen = NoGen /\ window = 0
  /\ missing = [g \in Gens |-> {}]
  /\ period = [g \in Gens |-> DefaultPeriod]
  /\ nextTime = [g \in Gens |-> 0] /\ needReset = TRUE
  /\ universalTime = 0 /\ runUTC = 0 /\ todo = 0 /\ runs = 0
  /\ event = [utc |-> 0, vertices |-> <<>>]
  /\ start = 0 /\ begunAt = 0 /\ end = 0 /\ fired = 0

-----------------------------------------------------------------------------
(* The commands, between runs.                                             *)

\* GLG4Gen_Combo::SetState makes the parts in the order time, vertex,
\* position, and returns at the first one no factory knows, with the rest null.
Missing(unknown) ==
  CASE unknown = "none" -> {}
    [] unknown = "time" -> Parts
    [] unknown = "vertex" -> {"vertex", "position"}
    [] unknown = "position" -> {"position"}

\* /generator/add: SetState only warns about an unknown part, so the
\* generator is added whatever it lacks.  Its nextTime is not initialised,
\* and not read before needReset has it drawn.
Add(g, unknown) ==
  /\ pc = "command" /\ g \notin made
  /\ made' = made \cup {g} /\ genList' = genList \cup {g} /\ lastGen' = g
  /\ missing' = [missing EXCEPT ![g] = Missing(unknown)]
  /\ needReset' = TRUE
  /\ UNCHANGED <<pc, period, window, nextTime, runVars, event, clockVars>>

\* /generator/rate/set goes to the generator added last, in the list or not.
SetRate(p) ==
  /\ pc = "command"
  /\ IF lastGen = NoGen
     THEN pc' = "fatal" /\ UNCHANGED period
     ELSE /\ "time" \notin missing[lastGen]
          /\ period' = [period EXCEPT ![lastGen] = p]
          /\ UNCHANGED pc
  /\ UNCHANGED <<made, missing, lastGen, window, genList, nextTime, needReset,
                 runVars, event, clockVars>>

SetWindow(w) ==
  /\ pc = "command" /\ w > 0
  /\ window' = w
  /\ UNCHANGED <<pc, made, missing, period, lastGen, genList, nextTime, needReset,
                 runVars, event, clockVars>>

\* /generator/clear forgets the list, and neither the objects nor lastGen.
Clear ==
  /\ pc = "command"
  /\ genList' = {} /\ needReset' = TRUE
  /\ UNCHANGED <<pc, commandVars, nextTime, runVars, event, clockVars>>

\* Mutant of BeamOn: the universal time starts again with every run.
BeamOnFromZero(n, t) ==
  /\ pc = "command" /\ runs < MaxRuns /\ t >= runUTC
  /\ pc' = "run" /\ todo' = n /\ runs' = runs + 1
  /\ runUTC' = t /\ universalTime' = 0 /\ begunAt' = 0
  /\ UNCHANGED <<commandVars, genList, nextTime, needReset, event, start, end, fired>>

\* /run/beamOn: the run starts at the time the clock says; the universal
\* time goes on from the run before.
BeamOn(n, t) ==
  /\ pc = "command" /\ runs < MaxRuns /\ t >= runUTC
  /\ pc' = "run" /\ todo' = n /\ runs' = runs + 1
  /\ runUTC' = t /\ begunAt' = universalTime
  /\ UNCHANGED <<commandVars, genList, nextTime, needReset, event, clockVars>>

-----------------------------------------------------------------------------
(* GeneratePrimaries.                                                      *)

\* The times from which the event starts: as left by the event before, or
\* all drawn anew, relative to the start of that event.
StartTimes ==
  IF ~needReset THEN {nextTime}
  ELSE {[g \in Gens |-> IF g \in genList THEN d[g] ELSE nextTime[g]] :
          d \in {f \in [genList -> Ticks] : \A g \in genList : f[g] \in Interval(g)}}

\* Mutant of Advance: the queue keeps its old times when the clock advances.
AdvanceOnly(nt, dt) ==
  /\ universalTime' = universalTime + dt
  /\ nextTime' = nt

\* The clock moves to the first vertex, and with it the origin of all times.
Advance(nt, dt) ==
  /\ universalTime' = universalTime + dt
  /\ nextTime' = [g \in Gens |-> IF g \in genList THEN nt[g] - dt ELSE nt[g]]

\* Up to the event's first vertex.  The event gets its UTC before the clock
\* advances.
StartEvent(g, nt) ==
  /\ pc = "run" /\ todo > 0
  /\ needReset => \A h \in genList : "time" \notin missing[h]
  /\ First(nt, g)
  /\ Advance(nt, nt[g])
  /\ needReset' = FALSE
  /\ event' = [utc |-> runUTC + universalTime, vertices |-> <<>>]
  /\ start' = universalTime + nt[g]
  /\ end' = universalTime + nt[g] + window
  /\ pc' = "pileup"
  /\ UNCHANGED <<commandVars, genList, runVars, fired>>

\* A combo without time part is asked for its next time.
CrashOnReset ==
  /\ pc = "run" /\ todo > 0 /\ needReset
  /\ \E g \in genList : "time" \in missing[g]
  /\ pc' = "crashed"
  /\ UNCHANGED <<commandVars, genList, nextTime, needReset, runVars, event, clockVars>>

NoGenerator ==
  /\ pc = "run" /\ todo > 0 /\ genList = {}
  /\ pc' = "fatal"
  /\ UNCHANGED <<commandVars, genList, nextTime, needReset, runVars, event, clockVars>>

\* Mutant of Due: a vertex exactly at the end of the window is left out.
DueBefore(g) == First(nextTime, g) /\ nextTime[g] < window

\* The top of the queue falls into the event.
Due(g) == First(nextTime, g) /\ nextTime[g] <= window

\* Mutant of ResetFrom: the time is drawn from the start of the event.
ResetFromStart(g) ==
  \E d \in Interval(g) : nextTime' = [nextTime EXCEPT ![g] = d]

\* ResetTime(vertexTime): the next vertex is one interval after this one.
ResetFrom(g) ==
  \E d \in Interval(g) : nextTime' = [nextTime EXCEPT ![g] = @ + d]

Generate(g) ==
  /\ pc = "pileup" /\ Due(g) /\ missing[g] \cap {"vertex", "position"} = {}
  /\ event' = [event EXCEPT !.vertices = Append(@, [gen |-> g, time |-> nextTime[g]])]
  /\ ResetFrom(g)
  /\ fired' = universalTime + nextTime[g]
  /\ UNCHANGED <<pc, commandVars, genList, needReset, runVars, universalTime, start, end>>

CrashOnGenerate(g) ==
  /\ pc = "pileup" /\ Due(g) /\ missing[g] \cap {"vertex", "position"} # {}
  /\ pc' = "crashed"
  /\ UNCHANGED <<commandVars, genList, nextTime, needReset, runVars, event, clockVars>>

\* Mutant of EndEvent: the loop only ends with the list.
EndEventWhenEmpty ==
  /\ pc = "pileup" /\ genList = {}
  /\ pc' = "run" /\ todo' = todo - 1
  /\ UNCHANGED <<commandVars, genList, nextTime, needReset, runUTC, runs, begunAt, event, clockVars>>

EndEvent ==
  /\ pc = "pileup" /\ \A g \in genList : ~Due(g)
  /\ pc' = "run" /\ todo' = todo - 1
  /\ UNCHANGED <<commandVars, genList, nextTime, needReset, runUTC, runs, begunAt, event, clockVars>>

\* The soft abort of EndOfEventAction, for Ctrl-C or MaxWallTime.
AbortRun ==
  /\ pc = "run" /\ todo > 0 /\ universalTime > begunAt
  /\ todo' = 0
  /\ UNCHANGED <<pc, commandVars, genList, nextTime, needReset, runUTC, runs, begunAt, event, clockVars>>

EndRun ==
  /\ pc = "run" /\ todo = 0
  /\ pc' = "command"
  /\ UNCHANGED <<commandVars, genList, nextTime, needReset, runVars, event, clockVars>>

Primaries ==
  \/ \E g \in genList : \E nt \in StartTimes : StartEvent(g, nt)
  \/ CrashOnReset \/ NoGenerator
  \/ \E g \in genList : Generate(g)
  \/ \E g \in genList : CrashOnGenerate(g)
  \/ EndEvent

Commands ==
  \/ \E g \in Gens, unknown \in Parts \cup {"none"} : Add(g, unknown)
  \/ \E p \in Periods : SetRate(p)
  \/ \E w \in Windows : SetWindow(w)
  \/ Clear
  \/ \E n \in 1..MaxEvents, t \in WallTimes : BeamOn(n, t)

Next == Commands \/ Primaries \/ AbortRun \/ EndRun

Spec == Init /\ [][Next]_vars
\* The run manager's loop calls GeneratePrimaries, and GeneratePrimaries runs on.
FairSpec == Spec /\ WF_vars(Primaries)

-----------------------------------------------------------------------------
(* Properties.                                                             *)

\* When an event is over, every generator is due after the end of its window:
\* no vertex of the window is left behind, and the next event starts after
\* this one's window, also when that event is in a later run with another
\* window.  A generator added or cleared in between draws all times anew from
\* the start of the last event, and only then can events overlap.
NothingDueLeft ==
  pc \in {"run", "command"} /\ ~needReset => \A g \in genList : universalTime + nextTime[g] > end

\* The vertices of an event are in time order, begin at the event's time
\* zero, and lie in its window, whatever the generators' times were before
\* (the UTC of pile-up and the DAQ's windows rely on it).
VerticesInOrder ==
  LET v == event.vertices IN
  v # <<>> => /\ v[1].time = 0
              /\ \A i \in 1..Len(v) - 1 : v[i].time <= v[i + 1].time
              /\ start + v[Len(v)].time <= end

\* The events, windows and relative times implement independent sources on
\* one absolute time axis: always the one due first fires, and it is due
\* again one of its own intervals after the vertex it made.
Schedule == INSTANCE RenewalSources WITH
  Sources <- Gens, on <- genList, drawn <- ~needReset, now <- fired,
  due <- [g \in genList |-> universalTime + nextTime[g]]
KeepsTheSchedule == Schedule!SourcesSpec

\* From event to event, also over runs, the UTC never goes back: the
\* after-pulse processor subtracts the UTCs of successive events.
UTCNeverGoesBack == [][event'.utc >= event.utc]_vars

\* An event is not filled for ever: the job goes on, or crashes on a
\* generator that lacks a part.
EventsAreFilled == pc = "pileup" ~> pc # "pileup"
=============================================================================
