---------------------------- MODULE MCWaveforms ----------------------------
(* Instances of Waveforms for TLC: six samples of two bits, two PMTs whose *)
(* cables differ, and every recorded waveform of one channel that begins   *)
(* without a pulse.                                                        *)
EXTENDS Waveforms

MCCable == [p \in PMTs |-> 3 * p]

\* PMT 0's model has one pulse, after the photon's time; that of PMT 1 is drawn.
\* No noise, or some in the pedestal and behind it.
MCPulse(before, at, after) ==
  [a \in Reach |-> IF a < 0 THEN before ELSE IF a = 0 THEN at ELSE after]
MCPulses ==
  [p \in PMTs |-> {MCPulse(0, 1, 2)} \cup IF p = 0 THEN {} ELSE {MCPulse(1, 2, 1)}]
MCNoise == {[s \in Samples |-> 0], [s \in Samples |-> IF s \in {1, 2} THEN -1 ELSE 0]}

MCPrep ==
  [low |-> 0, high |-> 2, threshold |-> -1, num |-> 2, den |-> 5, lookback |-> 2,
   before |-> 1, after |-> 2, width |-> 3, slidingThreshold |-> 0]

MCEstimateNPE(charge) == IF charge < 12 THEN 1 ELSE 2

P(time, charge) == [time |-> time, charge |-> charge]
MCPackets ==
  {<<P(6, 6)>>, <<P(0, 6), P(36, 6), P(42, 12)>>, <<P(0, 6), P(42, 2), P(84, 12)>>}

Photon(t, q) == [fet |-> t, charge |-> q]
M(p, photons) == [id |-> p, photons |-> photons]

\* One or two photons in each of two PMTs, early and late; the third event has a
\* second MCPMT, the last one that is not hit.
MCSimulated ==
  {<<M(0, <<Photon(3, 2)>>), M(1, <<Photon(1, 2)>>)>>,
   <<M(0, <<Photon(1, 1), Photon(3, 1)>>), M(1, <<Photon(2, 2)>>)>>,
   <<M(0, <<Photon(2, 1)>>), M(1, <<Photon(3, 1)>>), M(0, <<Photon(4, 2)>>)>>,
   <<M(0, <<Photon(2, 1)>>), M(1, <<>>)>>}

MCTriggerTimes == {<<0>>, <<0, 2>>}

\* Samples 0 and 1 are the pedestal's; PMT 0 is in the EV too, with a flat waveform.
MCRecorded ==
  {[trigger |-> 0, pmts |-> {0, 1}, digitized |-> TRUE,
    waveforms |-> [p \in {0, 1} |-> IF p = 0 THEN [s \in Samples |-> 3] ELSE w],
    digits |-> [p \in {} |-> <<>>], prepared |-> FALSE, charge |-> 1] :
   w \in {u \in [Samples -> 0 .. MaxADC] : u[0] = 3 /\ u[1] \in {2, 3}}}

=============================================================================
