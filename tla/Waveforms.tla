------------------------------ MODULE Waveforms ------------------------------
(***************************************************************************)
(* Waveforms of the hit PMTs: a DAQ processor digitizes the photons of     *)
(* each EV (RAT::Digitizer), WaveformPrep turns the samples into a         *)
(* DigitPMT, and analyses (LucyDDM stands for them) add photoelectrons.    *)
(* An event may also come from a detector, with any samples.               *)
(*                                                                         *)
(* One sample is 1 ns and one ADC count 1 mV; times and charges of         *)
(* photoelectrons are in sixths, so that means and shares are integers.    *)
(***************************************************************************)
EXTENDS WaveformUtil, Sequences, SequencesExt

CONSTANTS
  PMTs,
  Online,         \* PMTs whose channel is online
  Cable,          \* cable_offset of each PMT, in samples
  NSamples, MaxADC,
  Baseline,       \* the ADC count of no voltage
  Early, Late,    \* samples before and after its time that a photon's pulse reaches
  Pulses,         \* the pulses that a photon may give at each PMT: its model's shapes,
                  \* of any width that may be drawn, scaled for the channel
  Noise,          \* electronic noise that may be drawn for the samples of a waveform
  Prep,           \* WaveformPrep's settings
  EVLookback, TriggerWindow,   \* of SplitEVDAQ
  TriggerTimes,   \* sequences of trigger times
  MinTotal, MaxTotal,  \* min_total_charge and max_total_charge of the analysis
  MinDistance,    \* min_peak_distance, in sixths
  ChargeThreshold,     \* charge_threshold, in sixths
  EstimateNPE(_), \* photoelectrons of a charge
  Packets,        \* what the fit of a deconvolved waveform may find
  Simulated,      \* MCPMTs of simulated events
  Recorded,       \* EVs of a detector's events
  MaxSteps        \* bound: processors run on the event

Sixths == 6
Samples == 0 .. NSamples - 1
Reach == -Early .. Late

NoChannels == [p \in {} |-> <<>>]

\* An EV before any WaveformPrep, an MCPMT and a packet of charge.
IsNewEV(ev) ==
  /\ DOMAIN ev.waveforms \subseteq PMTs
  /\ ev.waveforms \in [DOMAIN ev.waveforms -> [Samples -> Int]]
  /\ ev \in [trigger : Int, pmts : SUBSET PMTs, digitized : BOOLEAN, waveforms : {ev.waveforms},
             digits : {NoChannels}, prepared : {FALSE}, charge : Int]
MCPMT == [id : PMTs, photons : Seq([fet : Int, charge : Int])]
Packet == [time : Int, charge : Nat]

\* The charge of a list of photons, packets or photoelectrons.
ChargeOf(s) == Total([k \in DOMAIN s |-> s[k].charge])

\* A sample's number is no INVALID, WaveformUtil::CalculatePedestal accepts the
\* window, the constant fraction is one, a pulse goes down, a fit's packets are in
\* order of time, and the unit of charge is fine enough for shares of it.
ASSUME WaveformAssumption ==
  /\ IsFiniteSet(PMTs) /\ Online \subseteq PMTs /\ Cable \in [PMTs -> Int]
  /\ NSamples \in 1 .. INVALID /\ MaxADC \in Nat /\ Baseline \in Int
  /\ {Early, Late} \subseteq Nat /\ Noise \subseteq [Samples -> Int]
  /\ DOMAIN Pulses = PMTs /\ \A p \in PMTs : Pulses[p] \subseteq [Reach -> Int]
  /\ Prep.low \in Samples /\ Prep.high \in 1 .. NSamples /\ Prep.low < Prep.high
  /\ {Prep.num, Prep.den, Prep.lookback, Prep.before, Prep.after} \subseteq Nat
  /\ 0 < Prep.num /\ Prep.num < Prep.den /\ Prep.width \in Nat \ {0}
  /\ {Prep.threshold, Prep.slidingThreshold} \subseteq Int /\ Prep.threshold < 0
  /\ TriggerTimes \subseteq Seq(Int)
  /\ {MinDistance, ChargeThreshold} \subseteq Int
  /\ Simulated \subseteq Seq(MCPMT) /\ \A ev \in Recorded : IsNewEV(ev)
  /\ \A p \in Packets :
       /\ p \in Seq(Packet)
       /\ \A i, j \in DOMAIN p : i <= j => p[i].time <= p[j].time
       /\ \A i, j \in DOMAIN p : i <= j =>
            LET charge == ChargeOf(SubSeq(p, i, j))
            IN EstimateNPE(charge) \in Nat \ {0} /\ charge % EstimateNPE(charge) = 0

VARIABLES
  mc,        \* MCPMTs: id and photons with their front-end time and charge
  fDigitWaveForm,  \* the DAQ's digitizer
  evs,
  fZeroSuppress, fApplyCableOffset,
  steps

vars == <<mc, fDigitWaveForm, evs, fZeroSuppress, fApplyCableOffset, steps>>
settings == <<fZeroSuppress, fApplyCableOffset>>

-----------------------------------------------------------------------------
(* Digitization.                                                           *)

\* The sample at which a photon comes to the digitizer, and PMTWaveform::GetHeight
\* when the photons have the pulses.
Arrival(m, k, trigger) == m.photons[k].fet - trigger + Cable[m.id]
Height(m, trigger, pulses, s) ==
  LET age(k) == s - Arrival(m, k, trigger)
  IN -Total([k \in DOMAIN m.photons |->
               IF age(k) \in Reach THEN m.photons[k].charge * pulses[k][age(k)] ELSE 0])

\* The digitizer saturates.
Clamp(adc) == Max({0, Min({MaxADC, adc})})

Waveform(m, trigger, pulses, noise) ==
  [s \in Samples |-> Clamp(Baseline + Height(m, trigger, pulses, s) + noise[s])]

\* What Digitizer::DigitizePMT may give: pulses and noise are drawn anew.
Drawn(m, trigger) ==
  {Waveform(m, trigger, pulses, noise) :
     pulses \in [DOMAIN m.photons -> Pulses[m.id]], noise \in Noise}

\* Digitizer::AddChannel replaces what the PMT had.
AddChannel(digitizer, p, waveform) ==
  [q \in DOMAIN digitizer \cup {p} |-> IF q = p THEN waveform ELSE digitizer[q]]

DigitizePMT(digitizers, m, trigger) ==
  {AddChannel(d, m.id, w) : d \in digitizers, w \in Drawn(m, trigger)}

\* Mutant of ClearWaveforms: the channels stay for the next EV.
KeepWaveforms(digitizer) == digitizer

ClearWaveforms(digitizer) == NoChannels

\* What the digitizer may hold after the MCPMTs that are taken.
Filled(digitizer, trigger, taken) ==
  FoldLeftDomain(LAMBDA ds, i : IF i \in taken THEN DigitizePMT(ds, mc[i], trigger) ELSE ds,
                 {digitizer}, mc)

\* An EV of the MCPMTs that are taken, before Digitizer::WriteToEvent and after it.
NewEV(trigger, taken, charge) ==
  [trigger |-> trigger, pmts |-> {mc[i].id : i \in taken}, digitized |-> FALSE,
   waveforms |-> NoChannels, digits |-> NoChannels, prepared |-> FALSE, charge |-> charge]

WriteToEvent(ev, filled) == [ev EXCEPT !.digitized = TRUE, !.waveforms = filled]

AddEV(daq, trigger, taken, charge) ==
  {[digitizer |-> ClearWaveforms(filled),
    evs |-> Append(daq.evs, WriteToEvent(NewEV(trigger, taken, charge), filled))] :
     filled \in Filled(daq.digitizer, trigger, taken)}

\* Photons that SplitEVDAQ takes for an EV, and their charge.
InWindow(m, trigger) ==
  {k \in DOMAIN m.photons :
     trigger - EVLookback < m.photons[k].fet /\ m.photons[k].fet < trigger + TriggerWindow}
Taken(trigger) == {i \in DOMAIN mc : InWindow(mc[i], trigger) # {}}
TakenCharge(trigger) ==
  Total([i \in Taken(trigger) |->
           Total([k \in InWindow(mc[i], trigger) |-> mc[i].photons[k].charge])])

\* The charge of all photons of some MCPMTs.
AllCharge(taken) == Total([i \in taken |-> ChargeOf(mc[i].photons)])

-----------------------------------------------------------------------------
(* WaveformPrep.                                                           *)

Voltage(adc) == ADCtoVoltage(adc, Prep.low, Prep.high)
Threshold == (Prep.high - Prep.low) * Prep.threshold

\* Mutant of TimeOffset: the setting is not looked at.
NoTimeOffset(p) == 0

TimeOffset(p) == IF fApplyCableOffset THEN Cable[p] ELSE 0

NoResult == [offset |-> 0, pes |-> <<>>, found |-> <<>>, exists |-> FALSE]

\* DoAnalysis, into the DigitPMT that the EV has or a new one.
DoAnalysis(p, adc, result) ==
  LET v == Voltage(adc)
      peak == FindHighestPeak(v)
      crossings == GetNCrossings(v, Threshold)
  IN [time |-> IF crossings = 0 THEN InvalidTime
               ELSE CalculateTimeCFD(v, peak, Prep.num, Prep.den, Prep.lookback),
      offset |-> TimeOffset(p),
      charge |-> IntegratePeak(v, peak, Prep.before, Prep.after),
      total |-> IntegrateSliding(v, Prep.width, Prep.slidingThreshold),
      crossings |-> crossings,
      over |-> <<TimeOverThreshold(v, Threshold), VoltageOverThreshold(v, Threshold)>>,
      peak |-> v[peak], result |-> result]

\* Mutant of Counted: every channel's charge goes into the EV's.
CountedAll(digits) == DOMAIN digits

\* Channels whose charge goes into the EV's.
Counted(digits) == {p \in DOMAIN digits : digits[p].crossings > 0}

\* WaveformPrep::Event
PrepEvent(ev) ==
  LET ids == DOMAIN ev.waveforms \cap Online
      new == [p \in ids |->
                DoAnalysis(p, ev.waveforms[p],
                           IF p \in DOMAIN ev.digits THEN ev.digits[p].result ELSE NoResult)]
      erased == IF fZeroSuppress THEN {p \in ids : new[p].crossings = 0} ELSE {}
  IN IF ~ev.digitized \/ ids = {} THEN ev
     ELSE [ev EXCEPT
             !.digits = [p \in (DOMAIN @ \cup ids) \ erased |->
                           IF p \in ids THEN new[p] ELSE @[p]],
             !.charge = Total([p \in Counted(new) |-> new[p].charge]),
             !.prepared = TRUE]

\* DigitPMT::GetDigitizedTime
GetDigitizedTime(digit) ==
  IF digit.time = InvalidTime THEN digit.time
  ELSE <<digit.time[1] - digit.offset * digit.time[2], digit.time[2]>>

-----------------------------------------------------------------------------
(* The analyses.                                                           *)

\* Mutant of Grows: a cluster ends too far from its first packet.
GrowsFromStart(cluster, packet) == packet.time - Head(cluster).time <= MinDistance

\* MergeClosePeaks: a packet joins the cluster whose last packet it is close to.
Grows(cluster, packet) == packet.time - Last(cluster).time <= MinDistance

Clusters(packets) ==
  FoldLeft(LAMBDA cs, packet :
             IF cs # <<>> /\ MinDistance > 0 /\ Grows(Last(cs), packet)
               THEN Front(cs) \o <<Append(Last(cs), packet)>>
               ELSE Append(cs, <<packet>>),
           <<>>, packets)

Merged(cluster) ==
  [time |-> Total([k \in DOMAIN cluster |-> cluster[k].time]) \div Len(cluster),
   charge |-> ChargeOf(cluster)]

\* WaveformAnalysisResult::AddPE keeps the photoelectrons in order of time.
AddPE(pes, pe) ==
  InsertAt(pes, Cardinality({k \in DOMAIN pes : pes[k].time <= pe.time}) + 1, pe)

\* The end of LucyDDM's DoAnalysis: the photoelectrons of a peak, none if it is low.
Shares(m, offset) ==
  IF m.charge < ChargeThreshold THEN <<>>
  ELSE [k \in 1 .. EstimateNPE(m.charge) |->
          [time |-> m.time - Sixths * offset, charge |-> m.charge \div EstimateNPE(m.charge)]]

AddPackets(result, packets) ==
  LET cs == Clusters(packets)
      new == [k \in DOMAIN cs |-> Shares(Merged(cs[k]), result.offset)]
  IN [result EXCEPT !.pes = FoldLeft(AddPE, @, FlattenSeq(new)), !.found = Append(@, packets)]

\* GetOrCreateWaveformAnalysisResult
GetOrCreateResult(digit) ==
  IF digit.result.exists THEN digit.result
  ELSE [NoResult EXCEPT !.offset = digit.offset, !.exists = TRUE]

\* WaveformAnalyzerBase::Event
AnalyseEvent(ev, fit) ==
  IF ~ev.digitized THEN ev
  ELSE [ev EXCEPT !.digits = [p \in DOMAIN @ |->
          [@[p] EXCEPT !.result =
             LET result == GetOrCreateResult(ev.digits[p]) IN
             IF ev.digits[p].total < MinTotal \/ ev.digits[p].total > MaxTotal
               THEN result ELSE AddPackets(result, fit[p])]]]

-----------------------------------------------------------------------------
Init ==
  /\ fDigitWaveForm = NoChannels
  /\ \/ mc \in Simulated /\ evs = <<>>
     \/ mc = <<>> /\ \E ev \in Recorded : evs = <<ev>>
  /\ fZeroSuppress \in BOOLEAN /\ fApplyCableOffset \in BOOLEAN
  /\ steps = 0

Step == steps < MaxSteps /\ steps' = steps + 1 /\ UNCHANGED <<mc, settings>>

\* The DAQ processors put their EVs in place of those that are there.
DAQ(built) == Step /\ mc # <<>> /\ evs' = built.evs /\ fDigitWaveForm' = built.digitizer

NoEVs == [digitizer |-> fDigitWaveForm, evs |-> <<>>]

SplitEVDAQ(triggers) ==
  \E built \in FoldLeft(LAMBDA daqs, t : UNION {AddEV(daq, t, Taken(t), TakenCharge(t)) :
                                                daq \in daqs},
                       {NoEVs}, triggers) : DAQ(built)

ForcedTrigger ==
  LET all == DOMAIN mc
  IN \E built \in AddEV(NoEVs, 0, all, AllCharge(all)) : DAQ(built)

\* SimpleDAQ does not digitize, and drops MCPMTs without photons.
SimpleDAQ ==
  LET hit == {i \in DOMAIN mc : mc[i].photons # <<>>}
  IN DAQ([NoEVs EXCEPT !.evs = <<NewEV(0, hit, AllCharge(hit))>>])

WaveformPrep ==
  /\ Step /\ evs # <<>>
  /\ evs' = [k \in DOMAIN evs |-> PrepEvent(evs[k])]
  /\ UNCHANGED fDigitWaveForm

WaveformAnalysis(fit) ==
  /\ Step /\ evs # <<>>
  /\ evs' = [k \in DOMAIN evs |-> AnalyseEvent(evs[k], fit)]
  /\ UNCHANGED fDigitWaveForm

Next ==
  \/ \E triggers \in TriggerTimes : SplitEVDAQ(triggers)
  \/ ForcedTrigger
  \/ SimpleDAQ
  \/ WaveformPrep
  \/ \E fit \in [PMTs -> Packets] : WaveformAnalysis(fit)

Spec == Init /\ [][Next]_vars

-----------------------------------------------------------------------------
(* Properties.                                                             *)

MCPMTsOf(p) == {i \in DOMAIN mc : mc[i].id = p}
Digitized(ev) == mc # <<>> /\ ev.digitized

\* A pulse of a photon of the PMT reaches sample s of the EV.
Reached(ev, p, s) ==
  \E i \in MCPMTsOf(p) : \E k \in DOMAIN mc[i].photons :
    s - Arrival(mc[i], k, ev.trigger) \in Reach

\* The ADC counts of noise alone at sample s.
Quiet(s) == {Clamp(Baseline + noise[s]) : noise \in Noise}

(* An EV has waveforms of exactly its PMTs, and their samples show no more *)
(* than noise wherever no photon of the PMT, at its distance from this     *)
(* EV's trigger, reaches: no channel, and no time, of another EV           *)
(* (Digitizer::AddChannel, and ClearWaveforms between EVs).                *)
EVsHaveTheirSamples ==
  \A k \in DOMAIN evs : Digitized(evs[k]) =>
    /\ DOMAIN evs[k].waveforms = evs[k].pmts
    /\ \A p \in evs[k].pmts : \A s \in Samples :
         Reached(evs[k], p, s) \/ evs[k].waveforms[p][s] \in Quiet(s)

(* The hit time of a channel is where the last rise to the first of the    *)
(* lowest samples crosses the constant fraction, inside the lookback; it   *)
(* is missing only if the channel never crosses the threshold, or if the   *)
(* lookback, whole within the waveform, holds no sample above the fraction *)
(* ("This should not happen" of CalculateTimeCFD does not happen).         *)
HitTimeIsTheRise ==
  \A k \in DOMAIN evs : \A p \in DOMAIN evs[k].digits :
    LET v == Voltage(evs[k].waveforms[p])
        d == evs[k].digits[p]
        peak == Min({i \in DOMAIN v : \A j \in DOMAIN v : v[i] <= v[j]})
        above == {i \in DOMAIN v : Prep.den * v[i] > Prep.num * v[peak]
                                   /\ peak - Prep.lookback <= i /\ i <= peak}
    IN /\ d.crossings = Cardinality({i \in DOMAIN v : v[i] < Threshold
             /\ \A j \in 0 .. i - 1 : v[j] < Threshold =>
                  \E l \in j .. i : v[l] > Threshold})
       /\ d.crossings > 0 /\ above # {} =>
            /\ Max(above) * d.time[2] <= d.time[1]
            /\ d.time[1] <= (Max(above) + 1) * d.time[2]
       /\ d.time = InvalidTime <=>
            d.crossings = 0 \/ (above = {} /\ peak >= Prep.lookback)

(* After WaveformPrep the EV's charge is that of its channels which cross  *)
(* the threshold, and with zero suppression these are the online channels  *)
(* that have a DigitPMT (WaveformPrep::Event sums before it erases).       *)
ChargesAddUp ==
  \A k \in DOMAIN evs : evs[k].prepared =>
    LET digits == evs[k].digits
        over == {p \in DOMAIN evs[k].waveforms \cap Online :
                   \E s \in Samples : Voltage(evs[k].waveforms[p])[s] < Threshold}
    IN /\ over \subseteq DOMAIN digits
       /\ fZeroSuppress => DOMAIN digits = over
       /\ evs[k].charge = Total([p \in over |-> digits[p].charge])

(* A hit time is that of a photon of the PMT, by its front-end time from   *)
(* the EV's trigger, up to what a pulse reaches and one sample of          *)
(* interpolation, whatever the cable delays, if WaveformPrep takes the     *)
(* delay off, and late by the delay if not, as long as noise alone does    *)
(* not get down to the constant fraction (PMTWaveformGenerator adds the    *)
(* delay, DigitPMT::GetDigitizedTime subtracts it).                        *)
HitTimeIsAPhotons ==
  \A k \in DOMAIN evs : Digitized(evs[k]) => \A p \in DOMAIN evs[k].digits :
    LET d == evs[k].digits[p]
        t == GetDigitizedTime(d)
        pedestal == SumOf(evs[k].waveforms[p], Prep.low .. Prep.high - 1)
        delay == IF fApplyCableOffset THEN 0 ELSE Cable[p]
        Near(u) == (u - Early - 1) * t[2] <= t[1] /\ t[1] <= (u + Late) * t[2]
    IN /\ d.time # InvalidTime
       /\ \A s \in Samples : \A adc \in Quiet(s) :
            Prep.den * ((Prep.high - Prep.low) * adc - pedestal) > Prep.num * d.peak
       => \E i \in MCPMTsOf(p) : \E n \in DOMAIN mc[i].photons :
            Near(mc[i].photons[n].fet - evs[k].trigger + delay)

(* The photoelectrons of an analysis are in order of time, and their       *)
(* charge is that of the packets found, but for clusters under the charge  *)
(* threshold; after one pass, those of different clusters are further      *)
(* apart than min_peak_distance (MergeClosePeaks, AddPE).                  *)
PacketsAreAccounted ==
  \A k \in DOMAIN evs : \A p \in DOMAIN evs[k].digits :
    LET result == evs[k].digits[p].result
        pes == result.pes
        packets == FlattenSeq(result.found)
        lost == ChargeOf(packets) - ChargeOf(pes)
    IN /\ \A m, n \in DOMAIN pes : m < n => pes[m].time <= pes[n].time
       /\ lost = 0 \/ (0 < lost /\ lost < ChargeThreshold * Len(packets))
       /\ Len(result.found) = 1 =>
            \A m, n \in DOMAIN pes : pes[m].time < pes[n].time =>
              pes[n].time - pes[m].time > MinDistance

=============================================================================
