------------------------------ MODULE NoiseProc ------------------------------
(***************************************************************************)
(* NoiseProc: adds dark hits to an event, either around the real hits      *)
(* (noise_nearhits) or over one window that spans them all.                *)
(***************************************************************************)
EXTENDS MCHits, FiniteSetsExt

CONSTANTS
  Lookback, Lookforward,  \* noise_lookback, noise_lookforward
  MaxTime,                \* noise_maxtime
  NearHits,               \* values noise_nearhits may have
  MaxDark,                \* bound: the Poisson draw of one window
  DarkTimes               \* bound: the times at which dark hits may fall

ASSUME NoiseAssumption ==
  Lookback \in Nat /\ Lookforward \in Nat /\ MaxTime \in Nat /\ NearHits \subseteq BOOLEAN

VARIABLES
  fNearHits,
  noisy,     \* DSEvent is running
  windows,   \* time windows still to fill, the first one being filled
  objects0,  \* mcpmtObjects of DSEvent: index in mc of each PMT, 0 if none
  objects,   \* the copy GenerateNoiseInWindow works with
  hits,      \* totalNoiseHits so far
  inWindow,  \* hits of the window being filled
  numDark    \* MC::numDarkHits, which the constructor leaves uninitialised

noiseVars == <<fNearHits, noisy, windows, objects0, objects, hits, inWindow, numDark>>

Uninitialised == -1

NoiseInit ==
  /\ fNearHits \in NearHits
  /\ noisy = FALSE /\ windows = <<>> /\ hits = 0 /\ inWindow = 0
  /\ numDark = Uninitialised
  /\ objects0 = [p \in PMTs |-> 0] /\ objects = [p \in PMTs |-> 0]

WindowGap == Max({Lookback, Lookforward})

\* Mutant of FindWindows: the windows are never cut.
OneWindow(times, gap) == IF times = <<>> THEN <<>> ELSE <<<<Head(times), Last(times)>>>>

\* FindWindows: cut the sorted hit times where two follow each other by more than gap.
FindWindows(times, gap) ==
  LET Step(acc, t) ==
        IF acc # <<>> /\ t - Last(acc)[2] <= gap
          THEN [acc EXCEPT ![Len(acc)][2] = t]
          ELSE Append(acc, <<t, t>>)
  IN FoldLeft(Step, <<>>, times)

\* The times of all hits that are not dark, sorted.
RealHitTimes(m) ==
  LET Times(i) == LET real == Prune(m[i].photons, "dark") IN [k \in DOMAIN real |-> real[k].hit]
      times == FlattenSeq([i \in DOMAIN m |-> Times(i)])
      at == InOrder(times)
  IN [k \in DOMAIN times |-> times[at[k]]]

\* One window over all hits, capped to noise_maxtime; around 0 when there is none
\* or when the caps cross.  The last hit time starts at the smallest positive
\* double, so that it is never negative.
SpanWindow(times) ==
  LET first == IF times = <<>> THEN 0 ELSE Max({Head(times), -MaxTime})
      last == IF times = <<>> THEN 0 ELSE Min({Max({Last(times), 0}), MaxTime})
  IN IF first > last THEN <<0, 0>> ELSE <<first, last>>

\* The map of windows that DSEvent generates noise for, in the order of their starts.
NoiseWindows(times) ==
  LET spans == IF fNearHits THEN FindWindows(times, WindowGap) ELSE <<SpanWindow(times)>>
  IN [i \in DOMAIN spans |-> <<spans[i][1] - Lookback, spans[i][2] + Lookforward>>]

\* mcpmtObjects: a later MCPMT with the same ID replaces an earlier one.
MCPMTObjects(m) ==
  [p \in PMTs |-> Max({0} \cup {i \in DOMAIN m : m[i].id = p})]

PruneNoise == PruneAll("dark")

\* DSEvent up to the windows.
StartNoise ==
  /\ ~noisy /\ noisy' = TRUE
  /\ mc' = PruneNoise
  /\ windows' = NoiseWindows(RealHitTimes(PruneNoise))
  /\ objects0' = MCPMTObjects(mc) /\ objects' = MCPMTObjects(mc)
  /\ hits' = 0 /\ inWindow' = 0
  /\ UNCHANGED <<fNearHits, numDark>>

\* One dark hit of GenerateNoiseInWindow, and AddNoiseHit.
AddNoiseHit(p, t, jitter) ==
  /\ noisy /\ windows # <<>> /\ inWindow < MaxDark
  /\ t \in windows[1][1] .. windows[1][2]
  /\ LET ph == NewPhoton(t, jitter, "dark") IN
     IF objects[p] = 0
       THEN /\ mc' = Append(mc, [id |-> p, photons |-> <<ph>>])
            /\ objects' = [objects EXCEPT ![p] = Len(mc) + 1]
       ELSE /\ mc' = [mc EXCEPT ![objects[p]].photons = SortMCPhotons(Append(@, ph))]
            /\ UNCHANGED objects
  /\ hits' = hits + 1 /\ inWindow' = inWindow + 1
  /\ UNCHANGED <<fNearHits, noisy, windows, objects0, numDark>>

\* GenerateNoiseInWindow returns: its copy of the map is gone.
LeaveWindow ==
  /\ noisy /\ windows # <<>>
  /\ windows' = Tail(windows)
  /\ objects' = objects0 /\ inWindow' = 0
  /\ UNCHANGED <<mc, fNearHits, noisy, objects0, hits, numDark>>

\* The end of DSEvent; its locals are gone.
FinishNoise ==
  /\ noisy /\ windows = <<>>
  /\ noisy' = FALSE /\ numDark' = hits
  /\ hits' = 0 /\ inWindow' = 0
  /\ objects0' = [p \in PMTs |-> 0] /\ objects' = [p \in PMTs |-> 0]
  /\ UNCHANGED <<mc, fNearHits, windows>>

NoiseTypeOK ==
  /\ fNearHits \in NearHits /\ noisy \in BOOLEAN /\ hits \in Nat /\ inWindow \in Nat /\ numDark \in Nat \cup {Uninitialised}
  /\ \A i \in DOMAIN windows : windows[i][1] <= windows[i][2]
  /\ \A p \in PMTs : objects0[p] \in 0 .. Len(mc) /\ objects[p] \in 0 .. Len(mc)

=============================================================================
