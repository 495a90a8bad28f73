---------------------------- MODULE WaveformUtil ----------------------------
(***************************************************************************)
(* The waveform tools (RAT::WaveformUtil).  A waveform is a function on    *)
(* its samples 0 .. n - 1, and a pulse goes down.  Times are in samples,   *)
(* as fractions <<numerator, denominator>>.                                *)
(***************************************************************************)
EXTENDS Integers, FiniteSetsExt

INVALID == 9999
InvalidTime == <<INVALID, 1>>

SumOf(w, S) == MapThenSumSet(LAMBDA i : w[i], S)
Total(w) == SumOf(w, DOMAIN w)
Size(w) == Cardinality(DOMAIN w)

\* ADCtoVoltage less CalculatePedestal, the mean of the samples from low to high:
\* in units of the voltage resolution over the width of that window.
ADCtoVoltage(adc, low, high) ==
  [i \in DOMAIN adc |-> (high - low) * adc[i] - SumOf(adc, low .. high - 1)]

\* The first of the lowest samples.
FindHighestPeak(v) ==
  CHOOSE i \in DOMAIN v : /\ \A j \in DOMAIN v : v[i] <= v[j]
                          /\ \A j \in DOMAIN v : j < i => v[i] < v[j]

\* GetCrossingsInfo: a sample at the threshold neither begins nor ends a crossing.
GetNCrossings(v, threshold) ==
  LET crossed[i \in {-1} \cup DOMAIN v] ==
        i >= 0 /\ (v[i] < threshold \/ (v[i] = threshold /\ crossed[i - 1]))
  IN Cardinality({i \in DOMAIN v : v[i] < threshold /\ ~crossed[i - 1]})

TimeOverThreshold(v, threshold) == Cardinality({i \in DOMAIN v : v[i] < threshold})
VoltageOverThreshold(v, threshold) == SumOf(v, {i \in DOMAIN v : v[i] < threshold})

\* Mutant of ThresholdCrossing: the scan begins at the start of the window.
CrossingFromStart(v, peak, num, den, lookback) ==
  LET above == {i \in Max({peak - lookback, 0}) .. peak : den * v[i] > num * v[peak]} IN
  IF above = {} THEN INVALID ELSE Min(above)

\* GetThresholdCrossingBeforePeak, for the threshold num / den of the peak's voltage:
\* from the peak backwards to the first sample above it.
ThresholdCrossing(v, peak, num, den, lookback) ==
  LET above == {i \in Max({peak - lookback, 0}) .. peak : den * v[i] > num * v[peak]} IN
  IF den * v[peak] > num * v[peak] \/ above = {} THEN INVALID ELSE Max(above)

\* CalculateTimeCFD: the crossing, interpolated to the sample after it; the start of
\* the waveform if the scan ran into it.
CalculateTimeCFD(v, peak, num, den, lookback) ==
  LET t == ThresholdCrossing(v, peak, num, den, lookback)
      deltav == v[t + 1] - v[t]
      toThreshold == num * v[peak] - den * v[t]
  IN
  IF t = INVALID THEN IF peak - lookback < 0 THEN <<0, 1>> ELSE InvalidTime
  ELSE IF t + 1 = Size(v) \/ deltav = 0 THEN <<t, 1>>
  ELSE IF toThreshold * deltav < 0 THEN InvalidTime
  ELSE <<t * den * (-deltav) - toThreshold, den * (-deltav)>>

\* IntegratePeak; VoltagetoCharge is a change of sign here.
IntegratePeak(v, peak, low, high) ==
  -SumOf(v, Max({peak - low, 0}) .. Min({peak + high, Size(v)}) - 1)

\* IntegrateSliding: whole windows, one after the other, that hold more than thresh.
IntegrateSliding(v, width, thresh) ==
  LET charge == [k \in 0 .. (Size(v) \div width) - 1 |-> -SumOf(v, k * width .. (k + 1) * width - 1)]
  IN SumOf(charge, {k \in DOMAIN charge : charge[k] > thresh})

=============================================================================
