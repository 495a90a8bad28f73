----------------------------- MODULE Gsim_proofs -----------------------------
(***************************************************************************)
(* Proofs about the two parts that a simulation (Gsim) sets up: the        *)
(* primary generators, for any generators, rates, windows and bounds, and  *)
(* the detector, for any tables, in any order of names, with any entries.  *)
(***************************************************************************)
EXTENDS PrimaryGenerator, GeoBuilder, SequenceTheorems, WellFoundedInduction, TLAPS

-----------------------------------------------------------------------------
(* The generators: their types, the content of events, the times of events *)
(* and that events, windows and relative times implement independent       *)
(* sources on one absolute time axis.                                      *)

(* Every interval is a positive whole number of ticks.                     *)
LEMMA IntervalPositive ==
  ASSUME TypeOK, NEW g \in Gens
  PROVE  Interval(g) \subseteq Nat \ {0}
<1>1. period[g] \in Nat \ {0}
  BY GeneratorAssumption DEF TypeOK
<1>2. 1..MaxDraw \subseteq Nat \ {0}
  OBVIOUS
<1> QED BY <1>1, <1>2 DEF Interval

LEMMA StartTimesType ==
  ASSUME TypeOK, NEW nt \in StartTimes
  PROVE  /\ nt \in [Gens -> Nat]
         /\ ~needReset => nt = nextTime
         /\ needReset => \A g \in genList : nt[g] \in Interval(g)
<1>1. CASE ~needReset
  BY <1>1 DEF StartTimes, TypeOK
<1>2. CASE needReset
  <2>1. PICK d \in {f \in [genList -> Ticks] : \A g \in genList : f[g] \in Interval(g)} :
          nt = [g \in Gens |-> IF g \in genList THEN d[g] ELSE nextTime[g]]
    BY <1>2 DEF StartTimes
  <2>2. \A g \in genList : nt[g] = d[g] /\ d[g] \in Interval(g) /\ g \in Gens
    BY <2>1 DEF TypeOK
  <2>3. \A g \in Gens : nt[g] \in Nat
    BY <2>1, <2>2, IntervalPositive DEF TypeOK
  <2> QED BY <1>2, <2>1, <2>2, <2>3
<1> QED BY <1>1, <1>2

-----------------------------------------------------------------------------
(* Types.                                                                  *)

LEMMA InitTypeOK == Init => TypeOK
<1> SUFFICES ASSUME Init PROVE TypeOK
  OBVIOUS
<1>1. event \in [utc : Nat, vertices : Seq(Vertex)]
  BY DEF Init
<1> QED BY <1>1, GeneratorAssumption DEF Init, TypeOK, Parts

LEMMA CommandsType ==
  ASSUME TypeOK, Commands
  PROVE  TypeOK'
<1>1. ASSUME NEW g \in Gens, NEW unknown \in Parts \cup {"none"}, Add(g, unknown)
      PROVE  TypeOK'
  <2>1. Missing(unknown) \in SUBSET Parts
    BY DEF Missing, Parts
  <2> QED BY <1>1, <2>1 DEF TypeOK, Add, runVars, clockVars
<1>2. ASSUME NEW p \in Periods, SetRate(p) PROVE TypeOK'
  BY <1>2 DEF TypeOK, SetRate, runVars, clockVars
<1>3. ASSUME NEW w \in Windows, SetWindow(w) PROVE TypeOK'
  BY <1>3, GeneratorAssumption DEF TypeOK, SetWindow, runVars, clockVars
<1>4. CASE Clear
  BY <1>4 DEF TypeOK, Clear, commandVars, runVars, clockVars
<1>5. ASSUME NEW n \in 1..MaxEvents, NEW t \in WallTimes, BeamOn(n, t) PROVE TypeOK'
  BY <1>5, GeneratorAssumption DEF TypeOK, BeamOn, commandVars, clockVars
<1> QED BY <1>1, <1>2, <1>3, <1>4, <1>5 DEF Commands

LEMMA StartEventType ==
  ASSUME TypeOK, NEW g \in genList, NEW nt \in StartTimes, StartEvent(g, nt)
  PROVE  TypeOK'
<1>1. nt \in [Gens -> Nat] /\ g \in Gens /\ \A h \in genList : nt[g] <= nt[h]
  BY StartTimesType DEF StartEvent, First, TypeOK
<1>2. nextTime' \in [Gens -> Nat] /\ universalTime' \in Nat
  <2>1. nextTime' = [h \in Gens |-> IF h \in genList THEN nt[h] - nt[g] ELSE nt[h]]
    BY DEF StartEvent, Advance
  <2>2. \A h \in Gens : (IF h \in genList THEN nt[h] - nt[g] ELSE nt[h]) \in Nat
    BY <1>1
  <2>3. universalTime' \in Nat
    BY <1>1 DEF StartEvent, Advance, TypeOK
  <2> QED BY <2>1, <2>2, <2>3
<1>3. event' \in [utc : Nat, vertices : Seq(Vertex)]
  BY DEF StartEvent, TypeOK
<1>4. start' \in Nat /\ end' \in Nat
  BY <1>1 DEF StartEvent, TypeOK
<1> QED BY <1>1, <1>2, <1>3, <1>4 DEF TypeOK, StartEvent, commandVars, runVars

LEMMA GenerateType ==
  ASSUME TypeOK, NEW g \in genList, Generate(g)
  PROVE  TypeOK'
<1>1. g \in Gens /\ Interval(g) \subseteq Nat
  BY IntervalPositive DEF TypeOK
<1>2. nextTime' \in [Gens -> Nat]
  <2>1. PICK d \in Interval(g) : nextTime' = [nextTime EXCEPT ![g] = nextTime[g] + d]
    BY DEF Generate, ResetFrom
  <2>2. nextTime \in [Gens -> Nat] /\ nextTime[g] + d \in Nat
    BY <1>1 DEF TypeOK
  <2> QED BY <2>1, <2>2
<1>3. [gen |-> g, time |-> nextTime[g]] \in Vertex
  BY <1>1 DEF TypeOK, Vertex
<1>4. Append(event.vertices, [gen |-> g, time |-> nextTime[g]]) \in Seq(Vertex)
  BY <1>3 DEF TypeOK
<1>5. event' \in [utc : Nat, vertices : Seq(Vertex)]
  BY <1>4 DEF Generate, TypeOK
<1>6. fired' \in Nat
  BY <1>1 DEF Generate, TypeOK
<1> QED BY <1>2, <1>5, <1>6 DEF TypeOK, Generate, commandVars, runVars

(* Types, with the fact that makes them inductive: an event is only filled *)
(* while the run has events left.                                          *)
Typed == TypeOK /\ (pc = "pileup" => todo > 0)

LEMMA StepTodo == Typed /\ [Next]_vars => (pc' = "pileup" => todo' > 0)
<1> SUFFICES ASSUME Typed, [Next]_vars, pc' = "pileup" PROVE todo' > 0
  OBVIOUS
<1>1. CASE pc = "pileup"
  BY <1>1 DEF Typed, Next, Commands, Primaries, Add, SetRate, SetWindow, Clear, BeamOn,
     StartEvent, CrashOnReset, NoGenerator, Generate, CrashOnGenerate, EndEvent, AbortRun,
     EndRun, vars, runVars
<1>2. CASE pc # "pileup"
  BY <1>2 DEF Typed, Next, Commands, Primaries, Add, SetRate, SetWindow, Clear, BeamOn,
     StartEvent, CrashOnReset, NoGenerator, Generate, CrashOnGenerate, EndEvent, AbortRun,
     EndRun, vars, runVars
<1> QED BY <1>1, <1>2

LEMMA StepTypeOK == Typed /\ [Next]_vars => TypeOK'
<1> SUFFICES ASSUME Typed, [Next]_vars PROVE TypeOK'
  OBVIOUS
<1> USE DEF Typed
<1>1. CASE Commands
  BY <1>1, CommandsType
<1>2. ASSUME NEW g \in genList, NEW nt \in StartTimes, StartEvent(g, nt) PROVE TypeOK'
  BY <1>2, StartEventType
<1>3. CASE CrashOnReset
  BY <1>3 DEF TypeOK, CrashOnReset, commandVars, runVars, clockVars
<1>4. CASE NoGenerator
  BY <1>4 DEF TypeOK, NoGenerator, commandVars, runVars, clockVars
<1>5. ASSUME NEW g \in genList, Generate(g) PROVE TypeOK'
  BY <1>5, GenerateType
<1>6. ASSUME NEW g \in genList, CrashOnGenerate(g) PROVE TypeOK'
  BY <1>6 DEF TypeOK, CrashOnGenerate, commandVars, runVars, clockVars
<1>7. CASE EndEvent
  <2>1. todo' \in Nat
    BY <1>7 DEF EndEvent, TypeOK
  <2> QED BY <1>7, <2>1 DEF TypeOK, EndEvent, commandVars, clockVars
<1>8. CASE AbortRun
  BY <1>8 DEF TypeOK, AbortRun, commandVars, clockVars
<1>9. CASE EndRun
  BY <1>9 DEF TypeOK, EndRun, commandVars, runVars, clockVars
<1>10. CASE UNCHANGED vars
  BY <1>10 DEF TypeOK, vars, commandVars, runVars, clockVars
<1> QED BY <1>1, <1>2, <1>3, <1>4, <1>5, <1>6, <1>7, <1>8, <1>9, <1>10 DEF Next, Primaries

LEMMA InitTyped == Init => Typed
  BY InitTypeOK DEF Init, Typed

LEMMA StepTyped == Typed /\ [Next]_vars => Typed'
  BY StepTypeOK, StepTodo DEF Typed

(* The variables of the primary generator keep their types: in particular  *)
(* no generator's time to its next vertex becomes negative.                *)
THEOREM TypeCorrect == Spec => []TypeOK
<1>1. Typed => TypeOK
  BY DEF Typed
<1> QED BY <1>1, InitTyped, StepTyped, PTL DEF Spec

-----------------------------------------------------------------------------
(* The content of events.                                                  *)

(* While an event is filled, the origin of the generators' times is its    *)
(* start, some vertex is due at that origin, and no generator is due       *)
(* before the vertex made last.                                            *)
FillingInv ==
  pc = "pileup" =>
    /\ ~needReset /\ start = universalTime /\ end = start + window
    /\ event.vertices = <<>> => \E g \in genList : nextTime[g] = 0
    /\ LET v == event.vertices IN
       v # <<>> => /\ fired = universalTime + v[Len(v)].time
                   /\ \A g \in genList : v[Len(v)].time <= nextTime[g]

\* Between events, a moment that has passed is the origin of new times.
OriginInv == pc \in {"run", "command"} => universalTime <= fired

EventInv == Typed /\ FillingInv /\ OriginInv /\ VerticesInOrder /\ NothingDueLeft

LEMMA InitEventInv == Init => EventInv
<1> SUFFICES ASSUME Init PROVE EventInv
  OBVIOUS
<1>1. Typed
  BY InitTyped
<1>2. FillingInv /\ OriginInv /\ NothingDueLeft
  BY DEF Init, FillingInv, OriginInv, NothingDueLeft
<1>3. VerticesInOrder
  BY DEF Init, VerticesInOrder
<1> QED BY <1>1, <1>2, <1>3 DEF EventInv

(* A list of vertices that grows by one.                                   *)
LEMMA AppendVertex ==
  ASSUME NEW v \in Seq(Vertex), NEW x \in Vertex
  PROVE  /\ Append(v, x) # <<>>
         /\ Len(v) \in Nat /\ Len(Append(v, x)) = Len(v) + 1
         /\ Append(v, x)[Len(v) + 1] = x
         /\ \A i \in 1..Len(v) : Append(v, x)[i] = v[i]
         /\ v # <<>> => Len(v) >= 1 /\ v[Len(v)] \in Vertex
<1>1. /\ Append(v, x) \in Seq(Vertex) /\ Len(Append(v, x)) = Len(v) + 1
      /\ \A i \in 1..Len(v) : Append(v, x)[i] = v[i]
      /\ Append(v, x)[Len(v) + 1] = x
  BY AppendProperties
<1>2. v # <<>> => Len(v) >= 1 /\ v[Len(v)] \in Vertex
  BY EmptySeq
<1> QED BY <1>1, <1>2

(* A new vertex comes after the others, and inside the window.             *)
LEMMA GenerateEventInv ==
  ASSUME EventInv, NEW g \in genList, Generate(g)
  PROVE  FillingInv' /\ OriginInv' /\ VerticesInOrder' /\ NothingDueLeft'
<1> DEFINE v == event.vertices
           x == [gen |-> g, time |-> nextTime[g]]
<1>1. /\ g \in Gens /\ nextTime \in [Gens -> Nat] /\ genList \subseteq Gens
      /\ window \in Nat /\ start \in Nat /\ end \in Nat /\ universalTime \in Nat
      /\ event \in [utc : Nat, vertices : Seq(Vertex)]
  BY DEF EventInv, Typed, TypeOK
<1>2. v \in Seq(Vertex) /\ x \in Vertex
  BY <1>1 DEF Vertex
<1>3. event'.vertices = Append(v, x) /\ pc = "pileup" /\ pc' = "pileup"
  BY <1>1 DEF Generate
<1>4. /\ \A h \in genList : nextTime[g] <= nextTime[h]
      /\ nextTime[g] <= window /\ start = universalTime /\ end = start + window
      /\ ~needReset
  BY <1>3 DEF Generate, Due, First, EventInv, FillingInv
<1>5. \A h \in genList : nextTime[g] <= nextTime'[h]
  <2>1. PICK d \in Interval(g) : nextTime' = [nextTime EXCEPT ![g] = @ + d]
    BY DEF Generate, ResetFrom
  <2>2. d \in Nat
    BY <1>1, IntervalPositive DEF EventInv, Typed
  <2> QED BY <1>1, <1>4, <2>1, <2>2
<1>6. FillingInv'
  <2>1. /\ Append(v, x) # <<>> /\ Len(Append(v, x)) = Len(v) + 1
        /\ Append(v, x)[Len(Append(v, x))].time = nextTime[g]
    BY <1>2, AppendVertex
  <2>2. fired' = universalTime' + nextTime[g] /\ UNCHANGED <<genList, start, end, window, needReset, universalTime>>
    BY DEF Generate, commandVars
  <2> QED BY <1>3, <1>4, <1>5, <2>1, <2>2 DEF FillingInv
<1>7. VerticesInOrder'
  <2> DEFINE w == Append(v, x)
  <2>1. /\ Len(w) = Len(v) + 1 /\ Len(v) \in Nat /\ w[Len(v) + 1] = x
        /\ \A i \in 1..Len(v) : w[i] = v[i]
        /\ v # <<>> => Len(v) >= 1
        /\ v = <<>> => Len(v) = 0
    BY <1>2, AppendVertex
  <2>2. w[1].time = 0
    <3>1. CASE v = <<>>
      <4>1. nextTime[g] = 0
        BY <1>1, <1>3, <1>4, <3>1 DEF EventInv, FillingInv
      <4> QED BY <2>1, <3>1, <4>1
    <3>2. CASE v # <<>>
      BY <2>1, <3>2 DEF EventInv, VerticesInOrder
    <3> QED BY <3>1, <3>2
  <2>3. ASSUME NEW i \in 1..Len(w) - 1 PROVE w[i].time <= w[i + 1].time
    <3>1. i \in 1..Len(v) /\ v # <<>>
      BY <2>1, <2>3
    <3>2. CASE i = Len(v)
      <4>1. v[Len(v)].time <= nextTime[g]
        BY <1>3, <3>1 DEF EventInv, FillingInv
      <4> QED BY <2>1, <3>1, <3>2, <4>1
    <3>3. CASE i # Len(v)
      <4>1. i \in 1..Len(v) - 1 /\ i + 1 \in 1..Len(v)
        BY <2>1, <3>1, <3>3
      <4>2. v[i].time <= v[i + 1].time
        BY <3>1, <4>1 DEF EventInv, VerticesInOrder
      <4> QED BY <2>1, <3>1, <4>1, <4>2
    <3> QED BY <3>2, <3>3
  <2>4. start + w[Len(w)].time <= end
    BY <1>1, <1>4, <2>1
  <2>5. UNCHANGED <<start, end>>
    BY DEF Generate
  <2> QED BY <1>3, <2>2, <2>3, <2>4, <2>5 DEF VerticesInOrder
<1> QED BY <1>3, <1>6, <1>7 DEF OriginInv, NothingDueLeft

(* An event starts empty, with a vertex due at its origin.                 *)
LEMMA StartEventInv ==
  ASSUME EventInv, NEW g \in genList, NEW nt \in StartTimes, StartEvent(g, nt)
  PROVE  FillingInv' /\ OriginInv' /\ VerticesInOrder' /\ NothingDueLeft'
<1>1. /\ pc' = "pileup" /\ event'.vertices = <<>> /\ ~needReset'
      /\ start' = universalTime' /\ end' = start' + window'
  BY DEF StartEvent, Advance, commandVars
<1>2. nextTime'[g] = 0 /\ g \in genList'
  <2>1. nt[g] \in Nat /\ g \in Gens
    BY StartTimesType DEF EventInv, Typed, TypeOK
  <2> QED BY <2>1 DEF StartEvent, Advance
<1> QED BY <1>1, <1>2 DEF FillingInv, OriginInv, VerticesInOrder, NothingDueLeft

(* The comparison of the priority queue always finds a first element.      *)
LEMMA SmallestOfNats ==
  ASSUME NEW T, T \subseteq Nat, T # {}
  PROVE  \E t \in T : \A u \in T : t <= u
<1> DEFINE R == OpToRel(<, Nat)
<1>1. IsWellFoundedOn(R, Nat)
  BY NatLessThanWellFounded, Zenon DEF OpToRel
<1>2. \A x, y \in Nat : <<y, x>> \in R <=> y < x
  BY DEF OpToRel
<1> HIDE DEF R
<1>3. PICK t \in T : \A u \in T : ~ (<<u, t>> \in R)
  BY <1>1, WFMin
<1>4. \A u \in T : ~ (u < t)
  BY <1>2, <1>3, Zenon
<1>5. t \in Nat /\ T \subseteq Nat
  BY <1>3
<1>6. \A u \in T : t <= u
  BY <1>4, <1>5
<1> QED BY <1>3, <1>6

(* When the event ends, every generator is due after its window.           *)
LEMMA EndEventInv ==
  ASSUME EventInv, EndEvent
  PROVE  FillingInv' /\ OriginInv' /\ VerticesInOrder' /\ NothingDueLeft'
<1>1. /\ pc = "pileup" /\ pc' = "run"
      /\ UNCHANGED <<genList, nextTime, event, universalTime, start, end, fired, needReset>>
  BY DEF EndEvent, clockVars
<1>2. /\ genList \subseteq Gens /\ nextTime \in [Gens -> Nat] /\ window \in Nat
      /\ universalTime \in Nat /\ end \in Nat
      /\ event.vertices \in Seq(Vertex)
  BY DEF EventInv, Typed, TypeOK
<1>3. end = universalTime + window
  BY <1>1 DEF EventInv, FillingInv
<1>4. \A g \in genList : nextTime[g] > window
  <2> SUFFICES ASSUME NEW g \in genList, nextTime[g] <= window PROVE FALSE
    BY <1>2
  <2> DEFINE Times == {nextTime[h] : h \in genList}
  <2>1. PICK t \in Times : \A u \in Times : t <= u
    <3>1. Times \subseteq Nat /\ nextTime[g] \in Times
      BY <1>2
    <3> HIDE DEF Times
    <3> QED BY <3>1, SmallestOfNats
  <2>2. PICK h \in genList : t = nextTime[h]
    BY <2>1
  <2>3. t <= nextTime[g] /\ \A k \in genList : t <= nextTime[k]
    BY <2>1
  <2>4. h \in Gens /\ nextTime[h] \in Nat /\ nextTime[g] \in Nat
    BY <1>2
  <2>5. First(nextTime, h)
    BY <2>2, <2>3 DEF First
  <2>6. Due(h)
    BY <1>2, <2>2, <2>3, <2>4, <2>5 DEF Due
  <2> QED BY <2>6 DEF EndEvent
<1>5. event.vertices # <<>>
  BY <1>1, <1>2, <1>4 DEF EventInv, FillingInv
<1>6. universalTime <= fired
  <2>1. event.vertices[Len(event.vertices)] \in Vertex
    BY <1>2, <1>5, EmptySeq
  <2>2. fired = universalTime + event.vertices[Len(event.vertices)].time
    BY <1>1, <1>5 DEF EventInv, FillingInv
  <2> QED BY <1>2, <2>1, <2>2 DEF Vertex
<1>7. NothingDueLeft'
  BY <1>1, <1>2, <1>3, <1>4 DEF NothingDueLeft
<1> QED BY <1>1, <1>6, <1>7 DEF EventInv, FillingInv, OriginInv, VerticesInOrder

LEMMA StepEventInv == EventInv /\ [Next]_vars => EventInv'
<1> SUFFICES ASSUME EventInv, [Next]_vars
             PROVE  FillingInv' /\ OriginInv' /\ VerticesInOrder' /\ NothingDueLeft'
  BY StepTyped DEF EventInv
<1> USE DEF EventInv, FillingInv, OriginInv, VerticesInOrder, NothingDueLeft,
            commandVars, runVars, clockVars
<1>1. ASSUME NEW g \in Gens, NEW unknown \in Parts \cup {"none"}, Add(g, unknown)
      PROVE  FillingInv' /\ OriginInv' /\ VerticesInOrder' /\ NothingDueLeft'
  BY <1>1 DEF Add
<1>2. ASSUME NEW p \in Periods, SetRate(p)
      PROVE  FillingInv' /\ OriginInv' /\ VerticesInOrder' /\ NothingDueLeft'
  BY <1>2 DEF SetRate
<1>3. ASSUME NEW w \in Windows, SetWindow(w)
      PROVE  FillingInv' /\ OriginInv' /\ VerticesInOrder' /\ NothingDueLeft'
  BY <1>3 DEF SetWindow
<1>4. CASE Clear
  BY <1>4 DEF Clear
<1>5. ASSUME NEW n \in 1..MaxEvents, NEW t \in WallTimes, BeamOn(n, t)
      PROVE  FillingInv' /\ OriginInv' /\ VerticesInOrder' /\ NothingDueLeft'
  BY <1>5 DEF BeamOn
<1>6. CASE CrashOnReset
  BY <1>6 DEF CrashOnReset
<1>7. CASE NoGenerator
  BY <1>7 DEF NoGenerator
<1>8. ASSUME NEW g \in genList, CrashOnGenerate(g)
      PROVE  FillingInv' /\ OriginInv' /\ VerticesInOrder' /\ NothingDueLeft'
  BY <1>8 DEF CrashOnGenerate
<1>9. CASE AbortRun
  BY <1>9 DEF AbortRun
<1>10. CASE EndRun
  BY <1>10 DEF EndRun
<1>11. CASE UNCHANGED vars
  BY <1>11 DEF vars
<1> QED
  BY <1>1, <1>2, <1>3, <1>4, <1>5, <1>6, <1>7, <1>8, <1>9, <1>10, <1>11,
     StartEventInv, GenerateEventInv, EndEventInv DEF Next, Commands, Primaries

LEMMA AlwaysEventInv == Spec => []EventInv
  BY InitEventInv, StepEventInv, PTL DEF Spec

(* No vertex of an event's window is left for a later event: when an event *)
(* is over, every generator is due after its window.                       *)
THEOREM NothingLeft == Spec => []NothingDueLeft
<1>1. EventInv => NothingDueLeft
  BY DEF EventInv
<1> QED BY <1>1, AlwaysEventInv, PTL

(* The vertices of every event are in time order, start at zero and lie in *)
(* its window.                                                             *)
THEOREM InOrder == Spec => []VerticesInOrder
<1>1. EventInv => VerticesInOrder
  BY DEF EventInv
<1> QED BY <1>1, AlwaysEventInv, PTL

-----------------------------------------------------------------------------
(* Events, windows and relative times implement the abstract sources.      *)

dueTimes == [g \in genList |-> universalTime + nextTime[g]]

LEMMA DueTimes ==
  ASSUME TypeOK
  PROVE  /\ dueTimes \in [genList -> Int]
         /\ \A g \in genList : dueTimes[g] = universalTime + nextTime[g]
BY DEF dueTimes, TypeOK

\* A step that leaves alone what the abstract sources see.
LEMMA SameSchedule ==
  ASSUME UNCHANGED <<genList, needReset, period, universalTime, nextTime, fired>>
  PROVE  UNCHANGED Schedule!sourceVars
BY DEF Schedule!sourceVars

LEMMA InitSchedule == Init => Schedule!SourcesInit
<1> SUFFICES ASSUME Init PROVE Schedule!SourcesInit
  OBVIOUS
<1>1. TypeOK /\ genList = {} /\ needReset = TRUE /\ fired = 0
  BY InitTypeOK DEF Init
<1>2. dueTimes \in [genList -> Int]
  BY <1>1, DueTimes
<1> QED BY <1>1, <1>2 DEF Schedule!SourcesInit, dueTimes, TypeOK

(* Adding generators and forgetting them asks for a new draw.              *)
LEMMA ChangeSchedule ==
  ASSUME TypeOK', genList' \subseteq Gens, needReset', UNCHANGED <<period, fired>>
  PROVE  Schedule!Change
<1>1. [g \in genList |-> universalTime + nextTime[g]]' \in [genList' -> Int]
  BY DEF TypeOK
<1> QED BY <1>1 DEF Schedule!Change

(* The first event after a change draws all times, from the start of the   *)
(* event before; any other event only moves the origin of the times.       *)
LEMMA StartSchedule ==
  ASSUME EventInv, TypeOK', NEW g \in genList, NEW nt \in StartTimes, StartEvent(g, nt)
  PROVE  Schedule!Draw \/ UNCHANGED Schedule!sourceVars
<1>1. /\ TypeOK /\ nt \in [Gens -> Nat] /\ g \in Gens /\ genList \subseteq Gens
      /\ ~needReset => nt = nextTime
      /\ needReset => \A h \in genList : nt[h] \in Interval(h)
      /\ universalTime \in Nat /\ fired \in Nat
  BY StartTimesType DEF EventInv, Typed, TypeOK
<1>2. /\ genList' = genList /\ needReset' = FALSE /\ period' = period /\ fired' = fired
      /\ universalTime' = universalTime + nt[g]
      /\ \A h \in genList : nextTime'[h] = nt[h] - nt[g]
  BY <1>1 DEF StartEvent, Advance, commandVars
<1>3. \A h \in genList : universalTime' + nextTime'[h] = universalTime + nt[h]
  BY <1>1, <1>2
<1>4. CASE needReset
  <2>1. universalTime \in 0..fired
    BY <1>1 DEF StartEvent, EventInv, OriginInv
  <2>2. dueTimes' \in [genList -> Int]
    BY <1>2, DueTimes DEF dueTimes, TypeOK
  <2>3. \A h \in genList : dueTimes'[h] - universalTime \in Interval(h)
    <3> SUFFICES ASSUME NEW h \in genList PROVE dueTimes'[h] - universalTime \in Interval(h)
      OBVIOUS
    <3>1. dueTimes'[h] = universalTime + nt[h]
      BY <1>2, <1>3 DEF dueTimes
    <3>2. nt[h] \in Nat /\ nt[h] \in Interval(h)
      BY <1>1, <1>4
    <3>3. dueTimes'[h] - universalTime = nt[h]
      BY <1>1, <3>1, <3>2
    <3> QED BY <3>2, <3>3
  <2>4. \A h \in genList : Schedule!Interval(h, period[h]) = Interval(h)
    BY DEF Schedule!Interval, Interval
  <2> QED BY <1>2, <1>4, <2>1, <2>2, <2>3, <2>4 DEF Schedule!Draw, dueTimes
<1>5. CASE ~needReset
  <2>1. dueTimes' = dueTimes
    <3>1. \A h \in genList : universalTime' + nextTime'[h] = universalTime + nextTime[h]
      BY <1>1, <1>3, <1>5
    <3> QED BY <1>2, <3>1 DEF dueTimes
  <2> QED BY <1>2, <1>5, <2>1 DEF Schedule!sourceVars, dueTimes
<1> QED BY <1>4, <1>5

(* A vertex is made by the generator that is due first on the absolute     *)
(* axis, at the time it is due.                                            *)
LEMMA GenerateSchedule ==
  ASSUME EventInv, TypeOK', NEW g \in genList, Generate(g)
  PROVE  Schedule!Fire(g)
<1>1. /\ TypeOK /\ g \in Gens /\ genList \subseteq Gens /\ nextTime \in [Gens -> Nat]
      /\ universalTime \in Nat /\ ~needReset
      /\ \A h \in genList : nextTime[g] <= nextTime[h]
  BY DEF EventInv, Typed, TypeOK, FillingInv, Generate, Due, First
<1>2. UNCHANGED <<genList, needReset, period, universalTime>>
      /\ fired' = universalTime + nextTime[g]
  BY DEF Generate, commandVars
<1>3. PICK d \in Interval(g) : nextTime' = [nextTime EXCEPT ![g] = @ + d]
  BY DEF Generate, ResetFrom
<1>4. d \in Nat
  BY <1>1, IntervalPositive
<1>5. /\ dueTimes' \in [genList -> Int]
      /\ dueTimes[g] = universalTime + nextTime[g]
      /\ dueTimes'[g] = universalTime + nextTime[g] + d
      /\ \A h \in genList \ {g} : dueTimes'[h] = dueTimes[h]
      /\ \A h \in genList : dueTimes[g] <= dueTimes[h]
  BY <1>1, <1>2, <1>3, <1>4 DEF dueTimes
<1>6. dueTimes'[g] - dueTimes[g] = d
  BY <1>1, <1>4, <1>5
<1>7. Schedule!Interval(g, period[g]) = Interval(g)
  BY DEF Schedule!Interval, Interval
<1> QED BY <1>1, <1>2, <1>3, <1>5, <1>6, <1>7 DEF Schedule!Fire, dueTimes

LEMMA StepSchedule ==
  EventInv /\ EventInv' /\ [Next]_vars => [Schedule!SourcesNext]_Schedule!sourceVars
<1> SUFFICES ASSUME EventInv, EventInv', [Next]_vars
             PROVE  Schedule!SourcesNext \/ UNCHANGED Schedule!sourceVars
  OBVIOUS
<1>0. TypeOK /\ TypeOK'
  BY DEF EventInv, Typed
<1>1. ASSUME NEW g \in Gens, NEW unknown \in Parts \cup {"none"}, Add(g, unknown)
      PROVE  Schedule!Change
  BY <1>0, <1>1, ChangeSchedule DEF Add, clockVars, TypeOK
<1>2. ASSUME NEW p \in Periods, SetRate(p)
      PROVE  Schedule!SourcesNext \/ UNCHANGED Schedule!sourceVars
  <2>1. UNCHANGED <<genList, needReset, universalTime, nextTime, fired>>
    BY <1>2 DEF SetRate, clockVars
  <2>2. CASE lastGen = NoGen
    BY <1>2, <2>1, <2>2, SameSchedule DEF SetRate
  <2>3. CASE lastGen # NoGen
    <3>1. lastGen \in Gens /\ period' = [period EXCEPT ![lastGen] = p]
      BY <1>0, <1>2, <2>3 DEF SetRate, TypeOK
    <3>2. Schedule!SetPeriod(lastGen, p)
      BY <2>1, <3>1 DEF Schedule!SetPeriod
    <3> QED BY <3>1, <3>2 DEF Schedule!SourcesNext
  <2> QED BY <2>2, <2>3
<1>3. ASSUME NEW w \in Windows, SetWindow(w) PROVE UNCHANGED Schedule!sourceVars
  BY <1>3, SameSchedule DEF SetWindow, clockVars
<1>4. CASE Clear
  <2>1. Schedule!Change
    BY <1>0, <1>4, ChangeSchedule DEF Clear, commandVars, clockVars
  <2> QED BY <2>1 DEF Schedule!SourcesNext
<1>5. ASSUME NEW n \in 1..MaxEvents, NEW t \in WallTimes, BeamOn(n, t)
      PROVE  UNCHANGED Schedule!sourceVars
  BY <1>5, SameSchedule DEF BeamOn, commandVars, clockVars
<1>6. ASSUME NEW g \in genList, NEW nt \in StartTimes, StartEvent(g, nt)
      PROVE  Schedule!SourcesNext \/ UNCHANGED Schedule!sourceVars
  BY <1>0, <1>6, StartSchedule DEF Schedule!SourcesNext
<1>7. ASSUME NEW g \in genList, Generate(g) PROVE Schedule!SourcesNext
  BY <1>0, <1>7, GenerateSchedule DEF Schedule!SourcesNext
<1>8. CASE CrashOnReset
  BY <1>8, SameSchedule DEF CrashOnReset, commandVars, clockVars
<1>9. CASE NoGenerator
  BY <1>9, SameSchedule DEF NoGenerator, commandVars, clockVars
<1>10. ASSUME NEW g \in genList, CrashOnGenerate(g) PROVE UNCHANGED Schedule!sourceVars
  BY <1>10, SameSchedule DEF CrashOnGenerate, commandVars, clockVars
<1>11. CASE EndEvent
  BY <1>11, SameSchedule DEF EndEvent, commandVars, clockVars
<1>12. CASE AbortRun
  BY <1>12, SameSchedule DEF AbortRun, commandVars, clockVars
<1>13. CASE EndRun
  BY <1>13, SameSchedule DEF EndRun, commandVars, clockVars
<1>14. CASE UNCHANGED vars
  BY <1>14, SameSchedule DEF vars, commandVars, clockVars
<1>15. (\E g \in Gens, unknown \in Parts \cup {"none"} : Add(g, unknown)) => Schedule!SourcesNext
  BY <1>1 DEF Schedule!SourcesNext
<1> QED
  BY <1>2, <1>3, <1>4, <1>5, <1>6, <1>7, <1>8, <1>9, <1>10, <1>11, <1>12, <1>13,
     <1>14, <1>15 DEF Next, Commands, Primaries

(* Events, windows and relative times implement independent sources on one *)
(* absolute time axis: which event a vertex falls into changes nothing     *)
(* about when it happens.                                                  *)
THEOREM ScheduleKept == Spec => KeepsTheSchedule
  BY InitSchedule, AlwaysEventInv, StepSchedule, PTL
     DEF Spec, KeepsTheSchedule, Schedule!SourcesSpec

-----------------------------------------------------------------------------
(* The UTC of events.                                                      *)

(* The last event's UTC is not after the clock: the start of the run and   *)
(* the universal time, neither of which goes back.                         *)
ClockInv == TypeOK /\ event.utc <= runUTC + universalTime

LEMMA InitClockInv == Init => ClockInv
<1>1. Init => event.utc = 0 /\ runUTC = 0 /\ universalTime = 0
  BY DEF Init
<1> QED BY <1>1, InitTypeOK DEF ClockInv

LEMMA StepClock ==
  ASSUME EventInv, TypeOK', ClockInv, [Next]_vars
  PROVE  ClockInv' /\ event'.utc >= event.utc
<1>1. /\ event.utc \in Nat /\ runUTC \in Nat /\ universalTime \in Nat
      /\ runUTC' \in Nat /\ universalTime' \in Nat
  BY DEF ClockInv, TypeOK
<1>2. SUFFICES event'.utc \in {event.utc, runUTC + universalTime} /\ runUTC' >= runUTC
               /\ universalTime' >= universalTime
  BY <1>1 DEF ClockInv
<1>3. ASSUME NEW g \in genList, NEW nt \in StartTimes, StartEvent(g, nt)
      PROVE  event'.utc = runUTC + universalTime /\ runUTC' = runUTC /\ universalTime' >= universalTime
  <2>1. nt[g] \in Nat
    BY StartTimesType DEF ClockInv, TypeOK
  <2> QED BY <1>1, <1>3, <2>1 DEF StartEvent, Advance, runVars
<1>4. ASSUME NEW g \in genList, Generate(g)
      PROVE  event'.utc = event.utc /\ runUTC' = runUTC /\ universalTime' = universalTime
  <2>1. event \in [utc : Nat, vertices : Seq(Vertex)]
    BY DEF ClockInv, TypeOK
  <2> QED BY <1>4, <2>1 DEF Generate, runVars
<1>5. ASSUME NEW n \in 1..MaxEvents, NEW t \in WallTimes, BeamOn(n, t)
      PROVE  event' = event /\ runUTC' >= runUTC /\ universalTime' = universalTime
  BY <1>5 DEF BeamOn, clockVars
<1>6. CASE UNCHANGED <<event, runUTC, universalTime>>
  BY <1>1, <1>6
<1>7. CASE UNCHANGED vars
  BY <1>6, <1>7 DEF vars, runVars, clockVars
<1>8. CASE \/ \E g \in Gens, unknown \in Parts \cup {"none"} : Add(g, unknown)
           \/ \E p \in Periods : SetRate(p)
           \/ \E w \in Windows : SetWindow(w)
           \/ Clear
  BY <1>6, <1>8 DEF Add, SetRate, SetWindow, Clear, runVars, clockVars
<1>9. CASE \/ CrashOnReset \/ NoGenerator \/ EndEvent \/ AbortRun \/ EndRun
           \/ \E g \in genList : CrashOnGenerate(g)
  BY <1>6, <1>9 DEF CrashOnReset, NoGenerator, EndEvent, AbortRun, EndRun, CrashOnGenerate,
                    runVars, clockVars
<1>10. CASE Commands
  BY <1>1, <1>5, <1>8, <1>10 DEF Commands
<1>11. CASE Primaries
  BY <1>1, <1>3, <1>4, <1>9, <1>11 DEF Primaries
<1> QED BY <1>7, <1>9, <1>10, <1>11 DEF Next

(* From event to event, also over runs, the UTC never goes back.           *)
THEOREM UTCKept == Spec => UTCNeverGoesBack
<1>1. EventInv /\ EventInv' => TypeOK'
  BY DEF EventInv, Typed
<1>2. EventInv /\ EventInv' /\ ClockInv /\ [Next]_vars => ClockInv' /\ event'.utc >= event.utc
  BY <1>1, StepClock
<1>3. Spec => []ClockInv
  BY <1>2, AlwaysEventInv, InitClockInv, PTL DEF Spec
<1>4. EventInv /\ EventInv' /\ ClockInv /\ [Next]_vars => [event'.utc >= event.utc]_vars
  BY <1>2
<1> QED BY <1>3, <1>4, AlwaysEventInv, PTL DEF Spec, UTCNeverGoesBack

-----------------------------------------------------------------------------
(* The detector.  BuiltWhole and GivesUpWithReason speak of the end of the *)
(* loop; BuilderInv says what every turn of it keeps.                      *)

BuiltSet == {built[i] : i \in 1..Len(built)}

\* The volumes there are those of the tables built, which are the enabled
\* ones that have left the list.
Accounted ==
  /\ BuiltSet \subseteq Enabled /\ BuiltSet \cap geo = {}
  /\ Enabled \subseteq geo \cup BuiltSet
  /\ store = UNION {Makes(built[i], entry[built[i]].type) : i \in 1..Len(built)}

\* What was built was possible, and built once.
BuiltInOrder ==
  /\ \A i \in 1..Len(built) : Needs(built[i]) \subseteq MadeBefore(i)
  /\ \A i, j \in 1..Len(built) : i # j => built[i] # built[j]

\* What a scan has passed over still lacks something: nothing was built since.
CheckedLack == \A t \in checked : t \in Enabled /\ \E n \in Needs(t) : n \notin store

WorldBuilt == world # NoWorld => world \in BuiltSet /\ entry[world].mother = Outside

\* Why the loop ended.
Reasons ==
  /\ status = "built" => geo = {} /\ world # NoWorld
  /\ status = "circular" => geo # {} /\ checked = geo
  /\ status \in {"no mother volume", "no border volume"} => \E t \in Enabled : Hopeless(t)

BuilderInv == BuilderTypes /\ Accounted /\ BuiltInOrder /\ CheckedLack /\ WorldBuilt /\ Reasons

-----------------------------------------------------------------------------
\* Every name a factory uses is one of the volumes.
LEMMA MakesVolumes ==
  ASSUME NEW t \in Tables, NEW type
  PROVE  Makes(t, type) \subseteq Volumes
BY DEF Makes, Volumes

\* What depends on the entries and on what was built stays with them.
LEMMA SameBuilt ==
  ASSUME UNCHANGED <<entry, built>>
  PROVE  /\ Enabled' = Enabled /\ BuiltSet' = BuiltSet
         /\ \A t : Needs(t)' = Needs(t)
         /\ (UNION {Makes(built[i], entry[built[i]].type) : i \in 1..Len(built)})'
              = UNION {Makes(built[i], entry[built[i]].type) : i \in 1..Len(built)}
         /\ BuiltInOrder => BuiltInOrder'
<1>1. entry' = entry /\ built' = built
  OBVIOUS
<1>2. Enabled' = Enabled /\ BuiltSet' = BuiltSet
  BY <1>1 DEF Enabled, BuiltSet
<1>3. \A t : Needs(t)' = Needs(t)
  BY <1>1 DEF Needs, IsBorder
<1>4. (UNION {Makes(built[i], entry[built[i]].type) : i \in 1..Len(built)})'
         = UNION {Makes(built[i], entry[built[i]].type) : i \in 1..Len(built)}
  BY <1>1
<1>5. ASSUME BuiltInOrder PROVE BuiltInOrder'
  <2>1. ASSUME NEW i \in 1..Len(built)' PROVE Needs(built[i])' \subseteq MadeBefore(i)'
    <3>1. MadeBefore(i)' = MadeBefore(i)
      BY <1>1 DEF MadeBefore
    <3>2. Needs(built[i])' = Needs(built[i])
      BY <1>1 DEF Needs, IsBorder
    <3> QED BY <1>1, <1>5, <2>1, <3>1, <3>2 DEF BuiltInOrder
  <2>2. ASSUME NEW i \in 1..Len(built)', NEW j \in 1..Len(built)', i # j
        PROVE  (built[i] # built[j])'
    BY <1>1, <1>5, <2>2 DEF BuiltInOrder
  <2> QED BY <2>1, <2>2 DEF BuiltInOrder
<1> QED BY <1>2, <1>3, <1>4, <1>5

\* The initial state satisfies the invariant.
LEMMA BuilderInitInv == BuilderInit => BuilderInv
<1>1. SUFFICES ASSUME BuilderInit PROVE BuilderInv
  OBVIOUS
<1>2. BuilderTypes
  BY <1>1, GeoAssumption DEF BuilderInit, BuilderTypes
<1>3. BuiltSet = {} /\ Len(built) = 0
  BY <1>1 DEF BuilderInit, BuiltSet
<1>4. Accounted
  BY <1>1, <1>3 DEF BuilderInit, Accounted, Enabled
<1>5. BuiltInOrder /\ CheckedLack /\ WorldBuilt /\ Reasons
  BY <1>1, <1>3 DEF BuilderInit, BuiltInOrder, CheckedLack, WorldBuilt, Reasons
<1> QED BY <1>2, <1>4, <1>5 DEF BuilderInv

\* Ending the program keeps it, if the reason is right.
LEMMA DieInv ==
  ASSUME BuilderInv, NEW why \in Deaths, Die(why),
         why = "circular" => geo # {} /\ checked = geo,
         why \in {"no mother volume", "no border volume"} => \E t \in Enabled : Hopeless(t)
  PROVE  BuilderInv'
<1>1. UNCHANGED <<entry, geo, checked, store, built, world>> /\ status' = why
  BY DEF Die
<1>2. BuilderTypes'
  BY <1>1 DEF BuilderInv, BuilderTypes
<1>3. Accounted' /\ BuiltInOrder' /\ CheckedLack' /\ WorldBuilt'
  BY <1>1, SameBuilt DEF BuilderInv, Accounted, CheckedLack, WorldBuilt
<1>4. Reasons'
  BY <1>1 DEF Reasons, Deaths, Hopeless, Enabled, Needs, IsBorder
<1> QED BY <1>2, <1>3, <1>4 DEF BuilderInv

\* What appending a table to those built does.
LEMMA BuiltAppend ==
  ASSUME BuilderInv, NEW t \in Tables, built' = Append(built, t), UNCHANGED entry
  PROVE  /\ built' \in Seq(Tables) /\ Len(built') = Len(built) + 1 /\ Len(built) \in Nat
         /\ built'[Len(built) + 1] = t
         /\ \A i \in 1..Len(built) : built'[i] = built[i]
         /\ BuiltSet' = BuiltSet \cup {t}
         /\ \A i \in 1..Len(built) + 1 :
              MadeBefore(i)' = UNION {Makes(built[j], entry[built[j]].type) : j \in 1..i - 1}
<1>1. built \in Seq(Tables)
  BY DEF BuilderInv, BuilderTypes
<1>2. /\ built' \in Seq(Tables) /\ Len(built') = Len(built) + 1 /\ Len(built) \in Nat
      /\ built'[Len(built) + 1] = t
      /\ \A i \in 1..Len(built) : built'[i] = built[i]
  BY <1>1
<1>3. 1..Len(built') = 1..Len(built) \cup {Len(built) + 1}
  BY <1>2
<1>4. BuiltSet' = BuiltSet \cup {t}
  BY <1>2, <1>3 DEF BuiltSet
<1>5. ASSUME NEW i \in 1..Len(built) + 1
      PROVE  MadeBefore(i)' = UNION {Makes(built[j], entry[built[j]].type) : j \in 1..i - 1}
  <2>1. \A j \in 1..i - 1 : j \in 1..Len(built) /\ built'[j] = built[j]
    BY <1>2
  <2>2. MadeBefore(i)' = UNION {Makes(built'[j], entry[built'[j]].type) : j \in 1..i - 1}
    BY DEF MadeBefore
  <2> QED BY <2>1, <2>2
<1> QED BY <1>2, <1>4, <1>5

\* Building a table whose volumes are there keeps the invariant.
LEMMA BuildInv ==
  ASSUME BuilderInv, NEW t \in geo, t \in Enabled, Ready(t), Removed(t),
         built' = Append(built, t), store' = store \cup Makes(t, entry[t].type),
         world' = world \/ (world' = t /\ entry[t].mother = Outside),
         status = "building", UNCHANGED <<entry, status>>
  PROVE  BuilderInv'
<1>1. t \in Tables /\ t \notin BuiltSet
  BY DEF BuilderInv, BuilderTypes, Accounted
<1>2. /\ built' \in Seq(Tables) /\ Len(built') = Len(built) + 1 /\ Len(built) \in Nat
      /\ built'[Len(built) + 1] = t
      /\ \A i \in 1..Len(built) : built'[i] = built[i]
      /\ BuiltSet' = BuiltSet \cup {t}
      /\ \A i \in 1..Len(built) + 1 :
           MadeBefore(i)' = UNION {Makes(built[j], entry[built[j]].type) : j \in 1..i - 1}
  BY <1>1, BuiltAppend
<1>3. BuilderTypes'
  <2>1. Makes(t, entry[t].type) \subseteq Volumes
    BY <1>1, MakesVolumes
  <2> QED BY <1>1, <1>2, <2>1 DEF BuilderInv, BuilderTypes, Removed
<1>4. Accounted'
  <2>1. Enabled' = Enabled
    BY DEF Enabled
  <2>2. BuiltSet' \subseteq Enabled' /\ BuiltSet' \cap geo' = {} /\ Enabled' \subseteq geo' \cup BuiltSet'
    BY <1>1, <1>2, <2>1 DEF BuilderInv, Accounted, Removed
  <2>3. 1..Len(built') = 1..Len(built) \cup {Len(built) + 1}
    BY <1>2
  <2>4. UNION {Makes(built'[i], entry'[built'[i]].type) : i \in 1..Len(built')}
          = (UNION {Makes(built[i], entry[built[i]].type) : i \in 1..Len(built)}) \cup Makes(t, entry[t].type)
    BY <1>2, <2>3
  <2> QED BY <2>2, <2>4 DEF BuilderInv, Accounted
<1>5. BuiltInOrder'
  <2>1. ASSUME NEW i \in 1..Len(built')
        PROVE  Needs(built[i])' \subseteq MadeBefore(i)'
    <3>1. CASE i = Len(built) + 1
      <4>1. i - 1 = Len(built) /\ i \in 1..Len(built) + 1
        BY <1>2, <3>1
      <4>2. MadeBefore(i)' = store
        BY <1>2, <4>1 DEF BuilderInv, Accounted
      <4>3. built'[i] = t
        BY <1>2, <3>1
      <4>4. Needs(built[i])' = Needs(t)
        BY <4>3 DEF Needs, IsBorder
      <4> QED BY <4>2, <4>4 DEF Ready
    <3>2. CASE i \in 1..Len(built)
      <4>1. built'[i] = built[i] /\ Needs(built[i]) \subseteq MadeBefore(i)
        BY <1>2, <3>2 DEF BuilderInv, BuiltInOrder
      <4>2. MadeBefore(i)' = MadeBefore(i)
        BY <1>2, <3>2 DEF MadeBefore
      <4>3. Needs(built[i])' = Needs(built[i])
        BY <4>1 DEF Needs, IsBorder
      <4> QED BY <4>1, <4>2, <4>3
    <3> QED BY <1>2, <3>1, <3>2
  <2>2. ASSUME NEW i \in 1..Len(built'), NEW j \in 1..Len(built'), i # j
        PROVE  built'[i] # built'[j]
    BY <1>1, <1>2, <2>2 DEF BuilderInv, BuiltInOrder, BuiltSet
  <2> QED BY <2>1, <2>2 DEF BuiltInOrder
<1>6. CheckedLack'
  BY DEF Removed, CheckedLack
<1>7. WorldBuilt'
  BY <1>1, <1>2 DEF BuilderInv, WorldBuilt
<1>8. Reasons'
  BY DEF Reasons
<1> QED BY <1>3, <1>4, <1>5, <1>6, <1>7, <1>8 DEF BuilderInv

\* One turn of the loop keeps the invariant.
LEMMA CheckInv ==
  ASSUME BuilderInv, NEW t \in Tables, Check(t)
  PROVE  BuilderInv'
<1> USE DEF Deaths
<1>1. CASE FieldMissing(t)
  BY <1>1, DieInv DEF FieldMissing
<1>2. CASE SkipDisabled(t)
  <2>1. t \in geo /\ t \notin Enabled /\ geo' = geo \ {t} /\ checked' = {} /\ status = "building"
        /\ UNCHANGED <<entry, store, built, world, status>>
    BY <1>2 DEF SkipDisabled, At, Removed, Enabled
  <2>2. BuilderTypes'
    BY <2>1 DEF BuilderInv, BuilderTypes
  <2>3. Accounted'
    BY <2>1 DEF BuilderInv, Accounted, BuiltSet, Enabled
  <2>4. BuiltInOrder' /\ WorldBuilt'
    BY <2>1, SameBuilt DEF BuilderInv, WorldBuilt
  <2>5. CheckedLack' /\ Reasons'
    BY <2>1 DEF CheckedLack, Reasons
  <2> QED BY <2>2, <2>3, <2>4, <2>5 DEF BuilderInv
<1>3. CASE BuildVolume(t)
  <2>1. t \in geo /\ t \in Enabled /\ status = "building" /\ Ready(t)
    BY <1>3 DEF BuildVolume, AtVolume, At, Enabled
  <2>2. /\ Removed(t) /\ store' = store \cup Makes(t, entry[t].type)
        /\ built' = Append(built, t) /\ UNCHANGED <<entry, status>>
        /\ world' = world \/ (world' = t /\ entry[t].mother = Outside)
    BY <1>3 DEF BuildVolume
  <2> QED BY <2>1, <2>2, BuildInv
<1>9. CASE FactoryMissing(t)
  BY <1>9, DieInv DEF FactoryMissing
<1>10. CASE MotherNotPlaced(t)
  BY <1>10, DieInv DEF MotherNotPlaced
<1>4. CASE VolumeHopeless(t)
  <2>1. t \in Enabled /\ Hopeless(t)
    BY <1>4 DEF VolumeHopeless, AtVolume, Enabled
  <2> QED BY <1>4, <2>1, DieInv DEF VolumeHopeless
<1>5. CASE BuildBorder(t)
  <2>1. t \in geo /\ t \in Enabled /\ status = "building" /\ Ready(t) /\ entry[t].type = "border"
    BY <1>5 DEF BuildBorder, AtBorder, At, Enabled, IsBorder
  <2>2. CASE Die("border not found")
    BY <2>2, DieInv
  <2>3. CASE Removed(t) /\ built' = Append(built, t) /\ UNCHANGED <<entry, store, world, status>>
    <3>1. store' = store \cup Makes(t, entry[t].type)
      BY <2>1, <2>3 DEF Makes
    <3> QED BY <2>1, <2>3, <3>1, BuildInv
  <2> QED BY <1>5, <2>2, <2>3 DEF BuildBorder
<1>6. CASE BorderFieldMissing(t)
  BY <1>6, DieInv DEF BorderFieldMissing
<1>7. CASE BorderHopeless(t)
  <2>1. t \in Enabled /\ Hopeless(t)
    BY <1>7 DEF BorderHopeless, AtBorder, Enabled
  <2> QED BY <1>7, <2>1, DieInv DEF BorderHopeless
<1>8. CASE PassOver(t)
  <2>1. /\ t \in geo /\ t \in Enabled /\ status = "building" /\ checked' = checked \cup {t}
        /\ UNCHANGED <<entry, geo, store, built, world, status>>
        /\ \E n \in Needs(t) : n \notin store
    BY <1>8 DEF PassOver, AtVolume, AtBorder, At, Enabled, Ready
  <2>2. BuilderTypes'
    BY <2>1 DEF BuilderInv, BuilderTypes
  <2>3. Accounted' /\ BuiltInOrder' /\ WorldBuilt'
    BY <2>1, SameBuilt DEF BuilderInv, Accounted, WorldBuilt
  <2>4. CheckedLack'
    BY <2>1 DEF BuilderInv, CheckedLack, Enabled, Needs, IsBorder
  <2>5. Reasons'
    BY <2>1 DEF Reasons
  <2> QED BY <2>2, <2>3, <2>4, <2>5 DEF BuilderInv
<1> QED BY <1>1, <1>2, <1>3, <1>4, <1>5, <1>6, <1>7, <1>8, <1>9, <1>10 DEF Check

\* Every step keeps the invariant.
LEMMA BuilderNextInv == BuilderInv /\ [BuilderNext]_builderVars => BuilderInv'
<1>1. SUFFICES ASSUME BuilderInv, [BuilderNext]_builderVars PROVE BuilderInv'
  OBVIOUS
<1>2. CASE \E t \in Tables : Check(t)
  BY <1>1, <1>2, CheckInv
<1>3. CASE ScanWithoutEffect
  BY <1>1, <1>3, DieInv DEF ScanWithoutEffect, Deaths
<1>4. CASE Finish
  <2>1. /\ geo = {} /\ UNCHANGED <<entry, geo, checked, store, built, world>>
        /\ status' = IF world = NoWorld THEN "no world" ELSE "built"
    BY <1>4 DEF Finish
  <2>2. BuilderTypes'
    BY <1>1, <2>1 DEF BuilderInv, BuilderTypes, Deaths
  <2>3. Accounted' /\ BuiltInOrder' /\ CheckedLack' /\ WorldBuilt'
    BY <1>1, <2>1, SameBuilt DEF BuilderInv, Accounted, CheckedLack, WorldBuilt
  <2>4. Reasons'
    BY <2>1 DEF Reasons
  <2> QED BY <2>2, <2>3, <2>4 DEF BuilderInv
<1>5. CASE UNCHANGED builderVars
  <2>1. UNCHANGED <<entry, geo, checked, store, built, world, status>>
    BY <1>5 DEF builderVars
  <2>2. BuilderTypes'
    BY <1>1, <2>1 DEF BuilderInv, BuilderTypes
  <2>3. Accounted' /\ BuiltInOrder' /\ CheckedLack' /\ WorldBuilt'
    BY <1>1, <2>1, SameBuilt DEF BuilderInv, Accounted, CheckedLack, WorldBuilt
  <2>4. Reasons'
    BY <1>1, <2>1, SameBuilt DEF BuilderInv, Reasons, Hopeless
  <2> QED BY <2>2, <2>3, <2>4 DEF BuilderInv
<1> QED BY <1>1, <1>2, <1>3, <1>4, <1>5 DEF BuilderNext

\* The invariant of the loop.
THEOREM BuilderInvariant == BuilderSpec => []BuilderInv
BY BuilderInitInv, BuilderNextInv, PTL DEF BuilderSpec

\* The types of the builder's state.
THEOREM BuilderTypeCorrect == BuilderSpec => []BuilderTypes
<1>1. BuilderInv => BuilderTypes
  BY DEF BuilderInv
<1> QED BY <1>1, BuilderInvariant, PTL

\* A detector that ConstructAll returns is whole: every enabled table was
\* built, once and after what it needs, and the world is there.
THEOREM WholeDetector == BuilderSpec => []BuiltWhole
<1>1. BuilderInv => BuiltWhole
  <2>1. SUFFICES ASSUME BuilderInv PROVE BuiltWhole
    OBVIOUS
  <2>2. ASSUME status = "built"
        PROVE  BuiltSet = Enabled /\ \E t \in Enabled : entry[t].mother = Outside /\ world = t
    BY <2>1, <2>2 DEF BuilderInv, Reasons, Accounted, WorldBuilt
  <2> QED BY <2>1, <2>2 DEF BuilderInv, BuiltInOrder, BuiltWhole, BuiltSet
<1> QED BY <1>1, BuilderInvariant, PTL

\* What has left the list has its volumes in the store.
LEMMA LeftIsInStore ==
  ASSUME BuilderInv, NEW u \in Enabled, u \notin geo
  PROVE  Makes(u, entry[u].type) \subseteq store
<1>1. PICK i \in 1..Len(built) : built[i] = u
  BY DEF BuilderInv, Accounted, BuiltSet
<1> QED BY <1>1 DEF BuilderInv, Accounted

\* When the builder gives up for lack of a volume there is no order in which
\* the detector could have been built.
THEOREM NoOrderWouldDo == BuilderSpec => []GivesUpWithReason
<1>1. ASSUME BuilderInv, status = "circular"
      PROVE  Stuck(geo)
  <2>1. geo # {} /\ \A t \in geo : t \in Enabled /\ \E n \in Needs(t) : n \notin store
    BY <1>1 DEF BuilderInv, Reasons, CheckedLack
  <2>2. \A u \in Enabled \ geo : Makes(u, entry[u].type) \subseteq store
    BY <1>1, LeftIsInStore
  <2> QED BY <2>1, <2>2 DEF Stuck
<1>2. ASSUME BuilderInv, status \in {"no mother volume", "no border volume"}, OwnNamesOnly
      PROVE  \E t \in Enabled : Stuck({t})
  <2>1. PICK t \in Enabled : Hopeless(t)
    BY <1>2 DEF BuilderInv, Reasons
  <2>2. PICK n \in Needs(t) : n \notin store /\ n \notin geo
    BY <2>1 DEF Hopeless
  <2>3. ASSUME NEW u \in Enabled
        PROVE  n \notin Makes(u, entry[u].type)
    <3>1. CASE u \in geo
      BY <1>2, <2>2, <3>1 DEF OwnNamesOnly
    <3>2. CASE u \notin geo
      BY <1>2, <2>2, <3>2, LeftIsInStore
    <3> QED BY <3>1, <3>2
  <2> QED BY <2>2, <2>3 DEF Stuck
<1>3. BuilderInv => GivesUpWithReason
  BY <1>1, <1>2 DEF GivesUpWithReason
<1> QED BY <1>3, BuilderInvariant, PTL
=============================================================================
