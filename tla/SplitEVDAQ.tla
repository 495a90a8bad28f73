----------------------------- MODULE SplitEVDAQ -----------------------------
(***************************************************************************)
(* SplitEVDAQProc: sums a square pulse per hit PMT into a trigger signal,  *)
(* and builds one triggered event (DS::EV) each time the signal is over    *)
(* threshold outside the dead time.                                        *)
(***************************************************************************)
EXTENDS MCHits, FiniteSetsExt

CONSTANTS
  DAQs,        \* the DAQ[SplitEVDAQ] tables considered, but for the threshold
  Thresholds   \* values of trigger_threshold the user may ask for

ASSUME DAQAssumption == \A DAQ \in DAQs :
  /\ \A f \in {"pulse_width", "trigger_window", "pmt_lockout", "trigger_lockout", "lookback"} :
       DAQ[f] \in Nat
  /\ DAQ["trigger_resolution"] \in Nat \ {0}
  /\ DAQ["max_hit_time"] \in Int /\ DAQ["max_hit_duration"] \in Int
  /\ DAQ["trigger_on_noise"] \in BOOLEAN
  /\ Thresholds \subseteq Int

VARIABLES
  DAQ,                \* the parameters, which stay as the table has them
  dbThreshold,        \* trigger_threshold of the table, as /rat/db/set left it
  fTriggerThreshold,  \* the member
  fEventCounter,
  evs                 \* the triggered events of the event in progress

daqVars == <<DAQ, dbThreshold, fTriggerThreshold, fEventCounter, evs>>

Resolution == DAQ["trigger_resolution"]
DeadTime == DAQ["trigger_window"] + DAQ["trigger_lockout"]
Floor(t) == (t \div Resolution) * Resolution

\* Hits that may contribute to the trigger.
Triggering(ph) ==
  /\ DAQ["trigger_on_noise"] \/ ph.kind # "dark"
  /\ DAQ["max_hit_time"] > 0 => ph.fet <= DAQ["max_hit_time"]

\* Mutant of PMTPulses: no lockout.
PulsePerHit(photons) ==
  LET hits == SelectSeq(photons, Triggering) IN [k \in DOMAIN hits |-> hits[k].fet]

\* The trigger pulses of one PMT: after each, hits within pmt_lockout give none.
PMTPulses(photons) ==
  LET Step(acc, ph) ==
        IF ~Triggering(ph) \/ (acc # <<>> /\ ph.fet <= Last(acc) + DAQ["pmt_lockout"])
          THEN acc ELSE Append(acc, ph.fet)
  IN FoldLeft(Step, <<>>, photons)

TrigPulses(m) == FlattenSeq([i \in DOMAIN m |-> PMTPulses(m[i].photons)])

\* The binned trigger signal: its first and last times and the height of each bin.
Start(pulses) == Floor(Min(ToSet(pulses)))
End(pulses) ==
  LET end == Floor(Max(ToSet(pulses))) + Resolution
      longest == Start(pulses) + DAQ["max_hit_duration"]
  IN IF DAQ["max_hit_duration"] > 0 THEN Min({end, longest}) ELSE end
Bin(pulses, t) == (t - Start(pulses)) \div Resolution
NBins(pulses) == Bin(pulses, End(pulses)) + 1

\* Mutant of PulseBins: a pulse covers one bin too many.
PulseBinsPlusOne == DAQ["pulse_width"] \div Resolution + 1

\* Bins a pulse covers: at least its own.
PulseBins == Max({1, DAQ["pulse_width"] \div Resolution})

TriggerHistogram(pulses) ==
  [b \in 0 .. NBins(pulses) - 1 |->
     Cardinality({k \in DOMAIN pulses :
       /\ pulses[k] <= End(pulses)
       /\ b - PulseBins < Bin(pulses, pulses[k]) /\ Bin(pulses, pulses[k]) <= b})]

\* Mutant of Armed: the trigger lockout is left out.
ArmedAfterWindow(times, t) == times = <<>> \/ t > Last(times) + DAQ["trigger_window"]

Armed(times, t) == times = <<>> \/ t > Last(times) + DeadTime

\* The discriminator.
TriggerTimes(pulses) ==
  LET hist == TriggerHistogram(pulses)
      Time(b) == b * Resolution + Start(pulses)
      Step(times, b) ==
        IF hist[b] >= fTriggerThreshold /\ Armed(times, Time(b))
          THEN Append(times, Time(b)) ELSE times
  IN FoldLeft(Step, <<>>, [k \in 1 .. NBins(pulses) |-> k - 1])

\* Mutant of InWindow: the window is closed on the left.
InClosedWindow(t, tt) == tt - DAQ["lookback"] <= t /\ t < tt + DAQ["trigger_window"]

InWindow(t, tt) == tt - DAQ["lookback"] < t /\ t < tt + DAQ["trigger_window"]

\* Front-end times of an MCPMT's photoelectrons in the window of a trigger.
WindowHits(mcpmt, tt) ==
  LET own == Kept(mcpmt.photons,
                  {k \in DOMAIN mcpmt.photons : InWindow(mcpmt.photons[k].fet, tt)})
  IN [k \in DOMAIN own |-> own[k].fet]

\* The greatest trigger sum of the bins from the start to the end of the window.
TriggerPeak(pulses, tt) ==
  LET hist == TriggerHistogram(pulses)
      ceil(t) == -((-t) \div Resolution)
      bins == {b \in DOMAIN hist :
                 /\ b >= ceil(tt - DAQ["lookback"] - Start(pulses))
                 /\ b <= Bin(pulses, tt + DAQ["trigger_window"])}
  IN Max({0} \cup {hist[b] : b \in bins})

\* One EV: a later MCPMT with the same ID overwrites the time and charge of
\* the PMT, while the event's charge adds up.
BuildEV(m, pulses, tt, last, id) ==
  LET Hits(i) == WindowHits(m[i], tt)
      hit == {i \in DOMAIN m : Hits(i) # <<>>}
      ids == {m[i].id : i \in hit}
      \* the MCPMT that wrote a PMT last
      writer(p) == Max({i \in hit : m[i].id = p})
  IN [id |-> id, time |-> tt, deltaT |-> tt - last,
      peak |-> TriggerPeak(pulses, tt),
      pmts |-> [p \in ids |-> [time |-> Min(ToSet(Hits(writer(p)))) - tt,
                               charge |-> Len(Hits(writer(p)))]],
      charge |-> MapThenSumSet(LAMBDA i : Len(Hits(i)), hit)]

BuildEVs(m) ==
  LET pulses == TrigPulses(m)
      times == IF pulses = <<>> THEN <<>> ELSE TriggerTimes(pulses)
  IN [k \in DOMAIN times |->
        BuildEV(m, pulses, times[k], IF k = 1 THEN 0 ELSE times[k - 1], fEventCounter + k - 1)]

\* DSEvent: the EVs of an earlier pass are pruned first.
SplitDSEvent ==
  /\ evs' = BuildEVs(mc)
  /\ fEventCounter' = fEventCounter + Len(evs')
  /\ UNCHANGED <<mc, DAQ, dbThreshold, fTriggerThreshold>>

\* /rat/procset trigger_threshold, and /rat/db/set before initialisation.
SetTriggerThreshold(v) ==
  /\ fTriggerThreshold' = v
  /\ UNCHANGED <<DAQ, dbThreshold, fEventCounter, evs>>

\* BeginOfRun loads every parameter from the table.
SplitBeginOfRun ==
  /\ fTriggerThreshold' = dbThreshold
  /\ fEventCounter' = 0
  /\ UNCHANGED <<DAQ, dbThreshold, evs>>

=============================================================================
