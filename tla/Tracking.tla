------------------------------ MODULE Tracking ------------------------------
(***************************************************************************)
(* One simulated event, as Gsim's callbacks see it: Geant4 takes tracks    *)
(* from its stack, steps them, puts suspended ones back below their        *)
(* secondaries, and calls Gsim before and after each stretch of a track,   *)
(* GLG4SteppingAction at each step and GLG4HitPMTCollection for each hit.  *)
(* Gsim keeps counts, energies and trajectories over these calls, may      *)
(* abort the event at a limit of photoelectrons, and makes the event from  *)
(* what they left.                                                         *)
(*                                                                         *)
(* Geant4 is external: its stack, track identities and trajectories are    *)
(* modelled from how it calls these classes, its physics is a choice.      *)
(* Each step of a charged track that has a length deposits one unit, there *)
(* is one volume, and optical photons deposit nothing.                     *)
(***************************************************************************)
EXTENDS Integers, Sequences, SequencesExt, FiniteSetsExt

CONSTANTS
  PMTs,          \* PMTs with a sensitive photocathode
  Online,        \* those whose channel is online
  NoPMT,         \* a step that makes no hit
  Times,         \* hit times
  Processes,     \* what can make secondaries in a step of a charged track
  Named,         \* particles the trajectory commands name
  MaxPEs,        \* values of max_pe; 0 is no limit
  ZeroStepLimit, \* zero steps in a row that end a track (4 in the code)
  MaxStepNumber, \* GLG4SteppingAction_MaxStepNumber (100000 in the code)
  MaxTracks,     \* bound: tracks of an event
  MaxHits,       \* bound: hits of an event
  MaxEvents,     \* bound: events of the job
  MaxCommands    \* bound: /tracking commands of the job

ASSUME TrackingAssumption ==
  /\ Online \subseteq PMTs /\ NoPMT \notin PMTs
  /\ Times \subseteq Nat /\ MaxPEs \subseteq Nat
  /\ Processes \subseteq {"Cerenkov", "Scintillation", "eIoni"}
  /\ Named \subseteq {"opticalphoton", "e-"}
  /\ {ZeroStepLimit, MaxStepNumber, MaxTracks, MaxHits} \subseteq Nat \ {0}
  /\ {MaxEvents, MaxCommands} \subseteq Nat

VARIABLES
  pc,              \* "command", "run", "stack", "tracking" or "post"
  storeTrajectory, \* the tracking manager's flag
  asked,           \* history: what /tracking/storeTrajectory set last
  storeSet,        \* fStoreParticleTraj
  discardSet,      \* fDiscardParticleTraj
  initialStore,    \* fInitialStoreTrajectoryState
  maxpe,           \* maxpe
  nabort,          \* nabort
  aborted,         \* history: events of the run that were aborted
  zeroSteps,       \* the static num_zero_steps_in_a_row
  stack,           \* urgent stack: tracks with the trajectory pushed along
  tracks,          \* tracks of the event by ID, with their TrackInfo
  cur,             \* track in hand
  info,            \* EventInfo
  hits,            \* theHitPMTCollection
  seen,            \* history: hits on online channels in this event
  trajs,           \* trajectory container of the event
  ds,              \* the event made last, or NoEvent
  events,          \* events so far
  commands         \* commands so far

settings == <<asked, storeSet, discardSet, commands>>
runVars == <<initialStore, maxpe>>
vars == <<pc, storeTrajectory, settings, runVars, nabort, aborted, zeroSteps, stack,
          tracks, cur, info, hits, seen, trajs, ds, events>>

Kinds == {"opticalphoton", "e-"}
Creators == {"start", "Cerenkov", "Scintillation", "Reemission", "eIoni"}
Photonic == {"Cerenkov", "Scintillation", "Reemission"}
NoTraj == <<>>  \* null trajectory: a real one starts with its initial point
NoEvent == [tracks |-> <<>>, pmts |-> <<>>, numPE |-> 0, count |-> [c \in Photonic |-> 0],
            energyLoss |-> 0, centroid |-> 0, aborted |-> FALSE, made |-> FALSE]

\* TrackInfo, and of the track itself what the callbacks ask for.
NewTrack(creator) ==
  [kind |-> IF creator \in Photonic THEN "opticalphoton" ELSE "e-", creator |-> creator,
   steps |-> 0, done |-> FALSE, energyLoss |-> 0, centroid |-> 0, stretches |-> 0, zeros |-> 0]
NoTrack == [id |-> 0, previous |-> NoTraj, traj |-> NoTraj, status |-> "alive", secondaries |-> <<>>]

TypeOK ==
  /\ pc \in {"command", "run", "stack", "tracking", "post"}
  /\ {storeTrajectory, asked, initialStore} \subseteq BOOLEAN
  /\ storeSet \subseteq Kinds /\ discardSet \subseteq Kinds
  /\ maxpe \in MaxPEs \cup {0} /\ nabort \in Nat /\ aborted \in Nat
  /\ zeroSteps \in 0..ZeroStepLimit - 1
  /\ \A i \in 1..Len(stack) : stack[i].id \in 1..Len(tracks) /\ stack[i].traj \in Seq(Nat)
  /\ \A i \in 1..Len(tracks) : /\ tracks[i].kind \in Kinds /\ tracks[i].creator \in Creators
                               /\ tracks[i].steps \in 0..MaxStepNumber + 1
  /\ cur.id \in 0..Len(tracks) /\ cur.status \in {"alive", "suspend", "dead"}
  /\ \A i \in 1..Len(hits) : hits[i].pmt \in Online /\ hits[i].times \in Seq(Times) \ {<<>>}
  /\ info.count \in [Photonic -> 0..Len(tracks)]
  /\ commands \in 0..MaxCommands /\ events \in 0..MaxEvents

EmptyInfo == [count |-> [c \in Photonic |-> 0], energyLoss |-> 0, centroid |-> 0, deposited |-> 0]

Init ==
  /\ pc = "command" /\ commands = 0 /\ events = 0
  /\ storeTrajectory = FALSE /\ asked = FALSE /\ initialStore = FALSE
  /\ storeSet = {} /\ discardSet = {}
  /\ maxpe = 0 /\ nabort = 0 /\ aborted = 0 /\ zeroSteps = 0
  /\ stack = <<>> /\ tracks = <<>> /\ cur = NoTrack /\ info = EmptyInfo
  /\ hits = <<>> /\ seen = <<>> /\ trajs = <<>> /\ ds = NoEvent

-----------------------------------------------------------------------------
(* Commands, those that change something, and runs.                        *)

Command ==
  /\ pc = "command" /\ commands < MaxCommands /\ commands' = commands + 1
  /\ UNCHANGED <<pc, runVars, nabort, aborted, zeroSteps, stack, tracks, cur, info, hits,
                 seen, trajs, ds, events>>

\* Geant4's own /tracking/storeTrajectory.
StoreTrajectory(b) ==
  /\ Command /\ b # storeTrajectory
  /\ storeTrajectory' = b /\ asked' = b
  /\ UNCHANGED <<storeSet, discardSet>>

SetStoreParticleTraj(k, store) ==
  /\ Command /\ k \notin IF store THEN storeSet ELSE discardSet
  /\ storeSet' = IF store THEN storeSet \cup {k} ELSE storeSet
  /\ discardSet' = IF store THEN discardSet ELSE discardSet \cup {k}
  /\ UNCHANGED <<storeTrajectory, asked>>

BeginOfRunAction(limit) ==
  /\ pc = "command" /\ events < MaxEvents
  /\ pc' = "run" /\ ds' = NoEvent
  /\ initialStore' = storeTrajectory /\ maxpe' = limit /\ nabort' = 0 /\ aborted' = 0
  /\ UNCHANGED <<storeTrajectory, settings, zeroSteps, stack, tracks, cur, info, hits,
                 seen, trajs, events>>

EndOfRunAction ==
  /\ pc = "run" /\ ds.made
  /\ pc' = "command" /\ ds' = NoEvent
  /\ UNCHANGED <<storeTrajectory, settings, runVars, nabort, aborted, zeroSteps, stack,
                 tracks, cur, info, hits, seen, trajs, events>>

-----------------------------------------------------------------------------
(* One event.                                                              *)

\* GLG4HitPMTCollection::Clear.
Cleared(collection) == <<>>

BeginOfEventAction ==
  /\ pc = "run" /\ events < MaxEvents
  /\ pc' = "stack" /\ events' = events + 1 /\ ds' = NoEvent
  /\ hits' = Cleared(hits) /\ seen' = <<>> /\ trajs' = <<>> /\ info' = EmptyInfo
  /\ tracks' = <<NewTrack("start")>>
  /\ stack' = <<[id |-> 1, traj |-> NoTraj]>>
  /\ UNCHANGED <<storeTrajectory, settings, runVars, nabort, aborted, zeroSteps, cur>>

\* GetStoreParticleTraj.
GetStoreParticleTraj(k) == IF initialStore THEN k \notin discardSet ELSE k \in storeSet

\* Mutant of FirstCall: the photon is counted whenever it is taken up.
EveryCall(t) == t.kind = "opticalphoton"

\* Only the first of several calls for one photon counts it.
FirstCall(t) == t.kind = "opticalphoton" /\ ~t.done

\* Geant4 takes the top of the stack; PreUserTrackingAction decides whether
\* to store it and counts photons.
PreUserTrackingAction ==
  /\ pc = "stack" /\ stack # <<>>
  /\ LET top == Last(stack)  t == tracks[top.id] IN
     /\ pc' = "tracking" /\ stack' = Front(stack)
     /\ cur' = [NoTrack EXCEPT !.id = top.id, !.previous = top.traj]
     /\ storeTrajectory' = GetStoreParticleTraj(t.kind)
     /\ info' = IF FirstCall(t) THEN [info EXCEPT !.count[t.creator] = @ + 1] ELSE info
     /\ tracks' = [tracks EXCEPT ![top.id].done = TRUE, ![top.id].stretches = @ + 1]
  /\ UNCHANGED <<settings, runVars, nabort, aborted, zeroSteps, hits, seen, trajs, ds, events>>

\* DetectPhoton: into the PMT's own entry, made at its first hit.
DetectPhoton(collection, p, t) ==
  IF \E i \in 1..Len(collection) : collection[i].pmt = p
  THEN [i \in 1..Len(collection) |->
          IF collection[i].pmt = p
          THEN [collection[i] EXCEPT !.times = Append(@, t)] ELSE collection[i]]
  ELSE Append(collection, [pmt |-> p, times |-> <<t>>])

\* Into time order; which of two equal times is first makes no difference.
SortTimeAscending(times) ==
  LET p == CHOOSE f \in Bijection(1..Len(times), 1..Len(times)) :
             \A i, j \in 1..Len(times) : i < j => times[f[i]] <= times[f[j]]
  IN  [i \in 1..Len(times) |-> times[p[i]]]

\* AppendStep: the initial point, numbered by the steps made before, comes
\* with the first step of each stretch.
AppendStep(traj, n) == IF traj = NoTraj THEN <<n - 1, n>> ELSE Append(traj, n)

\* What the physics can do in one step of a track of kind k.
StepChoice(k) ==
  [zero : BOOLEAN, status : {"alive", "dead"}, pmt : {NoPMT}, time : {Min(Times)},
   creator : {"none"} \cup IF k = "e-" THEN Processes ELSE {"Reemission"}]
  \cup IF k = "e-" THEN {}
       ELSE [zero : {FALSE}, status : {"suspend"}, pmt : {NoPMT}, time : {Min(Times)}, creator : {"none"}]
            \cup [zero : {FALSE}, status : {"alive", "dead"}, pmt : Online, time : Times, creator : {"none"}]
            \cup [zero : {FALSE}, status : {"alive", "dead"}, pmt : PMTs \ Online, time : {Min(Times)},
                  creator : {"none"}]

\* A step without length makes nothing; reemission ends the photon it absorbs.
Physical(c) ==
  /\ c.zero => c.creator = "none"
  /\ c.creator = "Reemission" => c.status = "dead"
  /\ c.pmt # NoPMT => Len(seen) < MaxHits
  /\ c.creator # "none" => Len(tracks) + Len(cur.secondaries) < MaxTracks

\* Only charged tracks deposit energy, wherever they get on.
Deposit(c) == IF tracks[cur.id].kind = "e-" /\ ~c.zero THEN 1 ELSE 0

\* Mutant of ZeroRow: a track's first step does not start the count anew.
ZeroRowGoesOn(c, n) == IF c.zero THEN zeroSteps + 1 ELSE 0

\* The counter of steps without length, one for all tracks of the job.
ZeroRow(c, n) == IF c.zero /\ n > 1 THEN zeroSteps + 1 ELSE 0

\* Mutant of Killed: one step more than allowed.
KilledLate(c, n) == ZeroRow(c, n) >= ZeroStepLimit \/ n > MaxStepNumber + 1

Killed(c, n) == ZeroRow(c, n) >= ZeroStepLimit \/ n > MaxStepNumber

\* A Cerenkov step suspends the track, unless it ends with that step.
StatusAfter(c, n) ==
  IF Killed(c, n) THEN "dead"
  ELSE IF c.creator = "Cerenkov" /\ c.status = "alive" THEN "suspend" ELSE c.status

\* One step: the physics, UserSteppingAction and AppendStep.
UserSteppingAction(c) ==
  LET t == tracks[cur.id]  n == t.steps + 1 IN
  /\ pc = "tracking" /\ cur.status = "alive" /\ Physical(c)
  /\ zeroSteps' = IF ZeroRow(c, n) >= ZeroStepLimit THEN 0 ELSE ZeroRow(c, n)
  /\ cur' = [cur EXCEPT !.status = StatusAfter(c, n),
                        !.traj = IF storeTrajectory THEN AppendStep(@, n) ELSE @,
                        !.secondaries = IF c.creator = "none" THEN @ ELSE Append(@, c.creator)]
  /\ tracks' = [tracks EXCEPT ![cur.id].steps = n,
                              ![cur.id].zeros = IF c.zero /\ n > 1 /\ StatusAfter(c, n) = "alive" THEN @ + 1 ELSE 0,
                              ![cur.id].energyLoss = @ + Deposit(c),
                              ![cur.id].centroid = @ + Deposit(c)]
  /\ info' = [info EXCEPT !.deposited = @ + Deposit(c)]
  /\ IF c.pmt \in Online
     THEN /\ hits' = DetectPhoton(hits, c.pmt, c.time)
          /\ seen' = Append(seen, <<c.pmt, c.time>>)
     ELSE UNCHANGED <<hits, seen>>
  /\ pc' = IF StatusAfter(c, n) = "alive" THEN "tracking" ELSE "post"
  /\ UNCHANGED <<storeTrajectory, settings, runVars, nabort, aborted, stack, trajs, ds, events>>

\* MergeTrajectory leaves out the initial point of the second stretch, which
\* is the last of the first.
MergeTrajectory(first, second) ==
  IF second = NoTraj THEN first ELSE IF first = NoTraj THEN second ELSE first \o Tail(second)

NumPE(collection) == FoldSeq(LAMBDA h, n : n + Len(h.times), 0, collection)

\* Mutant of OverLimit: an event at the limit is aborted as well.
AtLimit == maxpe > 0 /\ NumPE(hits) >= maxpe

OverLimit == maxpe > 0 /\ NumPE(hits) > maxpe

\* The event's centroid gets all that the track's has by now.
NewCentroid(t) == info.centroid + t.centroid

\* PostUserTrackingAction, and what Geant4 does with the track: the end of
\* the event if aborted, back on the stack below its secondaries if
\* suspended, and else gone with its trajectory stored.
PostUserTrackingAction ==
  LET t == tracks[cur.id]
      merged == MergeTrajectory(cur.previous, cur.traj)
      new == cur.secondaries
      push == [i \in 1..Len(new) |-> [id |-> Len(tracks) + i, traj |-> NoTraj]]
      back == IF cur.status = "suspend" THEN <<[id |-> cur.id, traj |-> merged]>> ELSE <<>>
  IN
  /\ pc = "post" /\ pc' = "stack"
  /\ info' = [info EXCEPT !.energyLoss = IF t.steps > 0 THEN t.energyLoss ELSE @,
                          !.centroid = NewCentroid(t)]
  /\ IF OverLimit
     THEN /\ nabort' = nabort + 1
          /\ ds' = [ds EXCEPT !.aborted = TRUE]
          /\ stack' = <<>> /\ UNCHANGED tracks
     ELSE /\ stack' = stack \o back \o push
          /\ tracks' = tracks \o [i \in 1..Len(new) |-> NewTrack(new[i])]
          /\ UNCHANGED <<nabort, ds>>
  /\ trajs' = IF merged # NoTraj /\ (OverLimit \/ cur.status = "dead")
              THEN Append(trajs, [id |-> cur.id, points |-> merged]) ELSE trajs
  /\ cur' = NoTrack
  /\ UNCHANGED <<storeTrajectory, settings, runVars, aborted, zeroSteps, hits, seen, events>>

\* Mutant of Restored: the flag stays as the last track left it.
NotRestored == storeTrajectory

\* The user's setting comes back after each event.
Restored == initialStore

\* EndOfEventAction with MakeEvent: the event without PMTs if aborted.
EndOfEventAction ==
  /\ pc = "stack" /\ stack = <<>>
  /\ pc' = "run"
  /\ ds' = IF ds.aborted THEN [ds EXCEPT !.tracks = trajs, !.made = TRUE]
           ELSE [tracks |-> trajs, count |-> info.count, numPE |-> NumPE(hits),
                 pmts |-> [i \in 1..Len(hits) |->
                             [hits[i] EXCEPT !.times = SortTimeAscending(@)]],
                 energyLoss |-> info.energyLoss, centroid |-> info.centroid,
                 aborted |-> FALSE, made |-> TRUE]
  /\ aborted' = aborted + (IF ds.aborted THEN 1 ELSE 0)
  /\ storeTrajectory' = Restored
  /\ UNCHANGED <<settings, runVars, nabort, zeroSteps, stack, tracks, cur, info, hits, seen,
                 trajs, events>>

Next ==
  \/ \E b \in BOOLEAN : StoreTrajectory(b)
  \/ \E k \in Named, store \in BOOLEAN : SetStoreParticleTraj(k, store)
  \/ \E limit \in MaxPEs : BeginOfRunAction(limit)
  \/ EndOfRunAction
  \/ BeginOfEventAction
  \/ PreUserTrackingAction
  \/ pc = "tracking" /\ \E c \in StepChoice(tracks[cur.id].kind) : UserSteppingAction(c)
  \/ PostUserTrackingAction
  \/ EndOfEventAction

Spec == Init /\ [][Next]_vars

-----------------------------------------------------------------------------
(* Properties.                                                             *)

Kept == ds.made /\ ~ds.aborted

\* Each photon of a kept event is counted once, under the process that made
\* it, however often Geant4 takes it up: reconstruction studies divide by
\* these counts.
PhotonsCountedOnce ==
  Kept => \A c \in Photonic :
    ds.count[c] = Cardinality({i \in 1..Len(tracks) : tracks[i].creator = c})

\* The PMTs of a kept event hold this event's hits of online channels, each
\* once, one entry for each PMT, in time order; nothing of the event before.
HitsAreThisEvents ==
  Kept =>
    /\ ds.numPE = Len(seen)
    /\ \A i, j \in 1..Len(ds.pmts) : i # j => ds.pmts[i].pmt # ds.pmts[j].pmt
    /\ \A i \in 1..Len(ds.pmts) :
         LET p == ds.pmts[i] IN
         /\ \A j \in 1..Len(p.times) - 1 : p.times[j] <= p.times[j + 1]
         /\ \A t \in Times : Cardinality({j \in 1..Len(p.times) : p.times[j] = t})
                             = Cardinality({j \in 1..Len(seen) : seen[j] = <<p.pmt, t>>})

\* Exactly the events with more photoelectrons than max_pe lose their PMTs,
\* and the run reports how many those were: an event that passes the limit
\* does so at the end of some track, and is aborted only once.
KeptWithinLimit ==
  /\ ds.made /\ maxpe > 0 => (ds.aborted <=> Len(seen) > maxpe)
  /\ pc = "run" => nabort = aborted

\* The tracks of a kept event are those of the particles the user asked for,
\* in every event and run: flipping the tracking manager's flag for each track
\* does not leak into later decisions.  Each is stored once, with its start and
\* then each of its steps once and in order, also if suspended in between.
TracksAsRequested ==
  Kept =>
    LET wanted == {i \in 1..Len(tracks) : IF asked THEN tracks[i].kind \notin discardSet
                                          ELSE tracks[i].kind \in storeSet}
    IN  /\ Len(ds.tracks) = Cardinality(wanted)
        /\ \A i \in wanted : \E j \in 1..Len(ds.tracks) :
             ds.tracks[j] = [id |-> i, points |-> [k \in 1..tracks[i].steps + 1 |-> k - 1]]

\* While no track is taken up twice, the centroid weighs each deposit once.
CentroidWithoutSuspension ==
  Kept /\ (\A i \in 1..Len(tracks) : tracks[i].stretches = 1) => ds.centroid = info.deposited

\* Counts and centroid, which the callbacks add up piece by piece, are those
\* of the event's photons and deposits.
SummaryAddsUp == PhotonsCountedOnce /\ CentroidWithoutSuspension

\* What is kept is decided by, and consists of, the hits of this event.
HitsOfKeptEvents == HitsAreThisEvents /\ KeptWithinLimit

\* A track that is not taken up a second time is only ended for zero steps of
\* its own, although the count of zero steps is one variable for all tracks.
ZeroStepsAreItsOwn ==
  pc = "tracking" /\ tracks[cur.id].stretches = 1 /\ tracks[cur.id].steps > 0
    => zeroSteps = tracks[cur.id].zeros
=============================================================================
