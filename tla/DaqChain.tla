------------------------------ MODULE DaqChain ------------------------------
(***************************************************************************)
(* The detector side of a job: simulated events pass through the noise,    *)
(* after-pulse and trigger processors in the order the macro lists them,   *)
(* and a saved event may pass through them again in a later job.           *)
(***************************************************************************)
EXTENDS NoiseProc, AfterPulseProc, SplitEVDAQ

CONSTANTS
  Chains,     \* processor lists
  Simulated,  \* hits that Gsim may make: sorted by hit time, not by front-end time
  FirstTime,  \* UTC of the run's start
  Gaps,       \* time between events
  MaxEvents,  \* bound: events simulated
  MaxRereads  \* bound: later jobs

\* Each processor is declared at most once: there is one of each here.  UTC in
\* ns is far greater than any hit time.
ASSUME ChainAssumption ==
  /\ Chains \subseteq Seq({"noise", "afterpulse", "splitevdaq"})
  /\ \A c \in Chains : \A k, l \in DOMAIN c : c[k] = c[l] => k = l
  /\ FirstTime \in Nat /\ Gaps \subseteq Nat /\ {MaxEvents, MaxRereads} \subseteq Nat
  /\ \A m \in Simulated :
       /\ m \in Seq(MCPMT)
       /\ \A ik \in Photons(m) : LET ph == PhotonAt(m, ik) IN
            ph.kind = "real" /\ ph.fet - ph.hit \in Jitter /\ FirstTime + ph.fet \in Nat

VARIABLES
  chain,    \* fProcessorList
  phase,    \* "macro", "idle" inside a run, "chain" inside the block
  at,       \* the processor that is running
  events,   \* events simulated so far
  rereads   \* jobs that read the last event again

chainVars == <<chain, phase, at, events, rereads>>
vars == <<mc, noiseVars, apVars, daqVars, chainVars>>

IsEV(ev) ==
  /\ {ev.id, ev.peak, ev.charge} \subseteq Nat /\ {ev.time, ev.deltaT} \subseteq Int
  /\ DOMAIN ev.pmts \subseteq PMTs
  /\ ev.pmts \in [DOMAIN ev.pmts -> [time : Int, charge : Nat]]

TypeOK ==
  /\ MCTypeOK /\ NoiseTypeOK
  /\ eventTime \in Nat /\ saturates \in BOOLEAN
  /\ memory \in [PMTs -> Seq(Nat)]
  /\ DAQ \in DAQs /\ {dbThreshold, fTriggerThreshold} \subseteq Thresholds
  /\ fEventCounter \in Nat
  /\ \A k \in DOMAIN evs : IsEV(evs[k])
  /\ chain \in Chains /\ phase \in {"macro", "idle", "chain"}
  /\ at \in 1 .. Len(chain) + 1 /\ events \in 0 .. MaxEvents /\ rereads \in 0 .. MaxRereads

Init ==
  /\ mc = <<>> /\ NoiseInit
  /\ eventTime = FirstTime /\ memory = [p \in PMTs |-> <<>>] /\ saturates \in BOOLEAN
  /\ DAQ \in DAQs
  /\ dbThreshold \in Thresholds /\ fTriggerThreshold = dbThreshold
  /\ fEventCounter = 0 /\ evs = <<>>
  /\ chain \in Chains /\ phase = "macro" /\ at = 1 /\ events = 0 /\ rereads = 0

-----------------------------------------------------------------------------
\* The macro configures the trigger and begins a run.
ProcSet(v) ==
  /\ phase = "macro" /\ SetTriggerThreshold(v)
  /\ UNCHANGED <<mc, noiseVars, apVars, chainVars>>

BeginOfRun ==
  /\ phase = "macro" /\ phase' = "idle"
  /\ SplitBeginOfRun
  /\ UNCHANGED <<mc, noiseVars, apVars, chain, at, events, rereads>>

EndOfRun ==
  /\ phase = "idle" /\ phase' = "macro"
  /\ UNCHANGED <<mc, noiseVars, apVars, daqVars, chain, at, events, rereads>>

\* Gsim makes a new event and hands it to the block.
Simulate(m, gap) ==
  /\ phase = "idle" /\ events < MaxEvents /\ rereads = 0
  /\ phase' = "chain" /\ at' = 1 /\ events' = events + 1
  /\ mc' = m /\ eventTime' = eventTime + gap
  /\ evs' = <<>> /\ numDark' = Uninitialised
  /\ UNCHANGED <<fNearHits, noisy, windows, objects0, objects, hits, inWindow, memory, saturates,
                 DAQ, dbThreshold, fTriggerThreshold, fEventCounter, chain, rereads>>

\* A new job, which simulates nothing, reads the last event back and processes
\* it again.
Reread ==
  /\ phase = "idle" /\ events > 0 /\ rereads < MaxRereads
  /\ phase' = "chain" /\ at' = 1 /\ rereads' = rereads + 1
  /\ memory' = [p \in PMTs |-> <<>>]
  /\ fTriggerThreshold' = dbThreshold /\ fEventCounter' = 0
  /\ UNCHANGED <<mc, noiseVars, eventTime, saturates, DAQ, dbThreshold, evs, chain, events>>

Running(proc) == phase = "chain" /\ at <= Len(chain) /\ chain[at] = proc
NextProcessor == at' = at + 1 /\ UNCHANGED <<chain, phase, events, rereads>>

BeginNoise ==
  /\ Running("noise") /\ StartNoise
  /\ UNCHANGED <<apVars, daqVars, chainVars>>

DarkHit(p, t, jitter) ==
  /\ AddNoiseHit(p, t, jitter)
  /\ UNCHANGED <<apVars, daqVars, chainVars>>

WindowDone ==
  /\ LeaveWindow
  /\ UNCHANGED <<apVars, daqVars, chainVars>>

NoiseDone ==
  /\ FinishNoise /\ NextProcessor
  /\ UNCHANGED <<apVars, daqVars>>

AfterPulse ==
  /\ Running("afterpulse") /\ AfterPulseDSEvent /\ NextProcessor
  /\ UNCHANGED <<noiseVars, daqVars>>

Trigger ==
  /\ Running("splitevdaq") /\ SplitDSEvent /\ NextProcessor
  /\ UNCHANGED <<noiseVars, apVars>>

EndOfEvent ==
  /\ phase = "chain" /\ at > Len(chain)
  /\ phase' = "idle"
  /\ UNCHANGED <<mc, noiseVars, apVars, daqVars, chain, at, events, rereads>>

Next ==
  \/ \E v \in Thresholds : ProcSet(v)
  \/ BeginOfRun
  \/ EndOfRun
  \/ \E m \in Simulated, gap \in Gaps : Simulate(m, gap)
  \/ Reread
  \/ BeginNoise
  \/ \E p \in PMTs, t \in DarkTimes, jitter \in Jitter : DarkHit(p, t, jitter)
  \/ WindowDone
  \/ NoiseDone
  \/ AfterPulse
  \/ Trigger
  \/ EndOfEvent

Spec == Init /\ [][Next]_vars

-----------------------------------------------------------------------------
(* Properties.                                                             *)

\* The processor has just returned, and the next one has not begun.
Done(proc) == phase = "chain" /\ at > 1 /\ chain[at - 1] = proc /\ ~noisy
Ran(proc) == \E k \in 1 .. at - 1 : chain[k] = proc

(* Once the noise processor has run, MC::numDarkHits is the number of dark *)
(* hits in the event, whatever processors follow, also after the event was *)
(* read back and its noise redone (NoiseProc::DSEvent prunes before it     *)
(* adds).                                                                  *)
DarkHitsCounted == Ran("noise") => numDark = CountKind("dark")

(* While noise is added, every dark hit, in whichever window it was drawn, *)
(* is no further from a hit that is not dark than the greater of the two   *)
(* look times (NoiseProc::FindWindows).                                    *)
NoiseNearHits ==
  noisy /\ fNearHits =>
    \A ik \in Photons(mc) : PhotonAt(mc, ik).kind = "dark" =>
      \E jl \in Photons(mc) :
        /\ PhotonAt(mc, jl).kind # "dark"
        /\ PhotonAt(mc, ik).hit - PhotonAt(mc, jl).hit \in -WindowGap .. WindowGap

(* Noise is where it was asked for, each dark hit once and counted.        *)
NoiseAsAsked == DarkHitsCounted /\ NoiseNearHits

(* Every after-pulse of the event is one the processor remembers, from     *)
(* this event or an earlier one, and every remembered one near a hit of    *)
(* its PMT is in the event (AfterPulseProc::DetectAfterPulses).            *)
AfterPulsesDetected ==
  Done("afterpulse") =>
    \A p \in PMTs :
      LET own(after) == {ik \in Photons(mc) : /\ mc[ik[1]].id = p
                                              /\ (PhotonAt(mc, ik).kind = "after") = after}
          seen == {PhotonAt(mc, ik).hit + eventTime : ik \in own(TRUE)}
      IN seen = {ap \in ToSet(memory[p]) : \E ik \in own(FALSE) : Near(ap, PhotonAt(mc, ik))}

(* Once the after-pulse processor has run, whatever order Gsim and the     *)
(* noise processor left the hits in, each hit that counts for the trigger  *)
(* falls inside the lockout after a trigger pulse of its MCPMT, and pulses *)
(* of one MCPMT are further apart than the lockout (SortMCPhotons in       *)
(* DetectAfterPulses, and the first loop of SplitEVDAQProc::DSEvent).      *)
LockoutCoversHits ==
  phase = "chain" /\ Ran("afterpulse") =>
    \A i \in DOMAIN mc :
      LET pulses == ToSet(PMTPulses(mc[i].photons)) IN
      /\ \A k \in DOMAIN mc[i].photons : Triggering(mc[i].photons[k]) =>
           \E t \in pulses : t <= mc[i].photons[k].fet
                             /\ mc[i].photons[k].fet <= t + DAQ["pmt_lockout"]
      /\ \A t, u \in pulses : t < u => t + DAQ["pmt_lockout"] < u

(* The trigger sum of a time, from the pulses themselves.                  *)
SumAt(pulses, t) ==
  Cardinality({k \in DOMAIN pulses :
    /\ pulses[k] <= End(pulses)
    /\ Floor(pulses[k]) <= t
    /\ t < Floor(pulses[k]) + Max({Resolution, Floor(DAQ["pulse_width"])})})

(* The triggers are exactly the times over threshold outside the dead time *)
(* of the trigger before: each EV's time is over threshold and later than  *)
(* the previous one's dead time, and each time over threshold is an EV's   *)
(* or in the dead time of one (SplitEVDAQProc::DSEvent).                   *)
TriggersJustified ==
  Done("splitevdaq") =>
    LET pulses == TrigPulses(mc)
        over == IF pulses = <<>> THEN {}
                ELSE {t \in Start(pulses) .. End(pulses) :
                        /\ Floor(t) = t
                        /\ SumAt(pulses, t) >= fTriggerThreshold}
    IN /\ \A k \in DOMAIN evs : evs[k].time \in over
       /\ \A k \in DOMAIN evs : k > 1 => evs[k].time - evs[k - 1].time > DeadTime
       /\ \A t \in over : \E k \in DOMAIN evs :
            evs[k].time <= t /\ t <= evs[k].time + DeadTime

(* An EV holds a PMT exactly if the PMT has a hit strictly inside the      *)
(* window, at the time of the PMT's earliest such hit when it is one       *)
(* MCPMT, and no hit is in two EVs as long as the lookback is no longer    *)
(* than the trigger lockout.                                               *)
EventContents ==
  Done("splitevdaq") =>
    /\ \A k \in DOMAIN evs :
         LET inside == {ik \in Photons(mc) :
                          /\ evs[k].time - DAQ["lookback"] < PhotonAt(mc, ik).fet
                          /\ PhotonAt(mc, ik).fet < evs[k].time + DAQ["trigger_window"]}
             of(p) == {ik \in inside : mc[ik[1]].id = p}
         IN /\ DOMAIN evs[k].pmts = {p \in PMTs : of(p) # {}}
            /\ evs[k].charge = Cardinality(inside)
            /\ \A p \in DOMAIN evs[k].pmts :
                 Cardinality({i \in DOMAIN mc : mc[i].id = p}) = 1 =>
                   /\ evs[k].pmts[p].charge = Cardinality(of(p))
                   /\ evs[k].pmts[p].time =
                        Min({PhotonAt(mc, ik).fet : ik \in of(p)}) - evs[k].time
    /\ DAQ["lookback"] <= DAQ["trigger_lockout"] =>
         \A ik \in Photons(mc) :
           Cardinality({k \in DOMAIN evs : InWindow(PhotonAt(mc, ik).fet, evs[k].time)}) <= 1

(* The EVs of an event continue the numbering of the run, so that the      *)
(* counter is one beyond the last, and the deltaTs up to an EV add up to   *)
(* its time (SplitEVDAQProc::DSEvent).                                     *)
EventsNumbered ==
  Done("splitevdaq") =>
    /\ \A k \in DOMAIN evs : evs[k].id = fEventCounter - Len(evs) + k - 1
    /\ \A k \in DOMAIN evs :
         evs[k].time = MapThenSumSet(LAMBDA n : evs[n].deltaT, 1 .. k)

(* An event is split into the EVs its trigger sum calls for, in order.     *)
EventsSplitRight == TriggersJustified /\ EventsNumbered

(* "Don't double count, erase the PE from after-pulsing vector"            *)
(* (AfterPulseProc.cc): the event has no more after-pulses of a PMT than   *)
(* the processor remembered for it.                                        *)
NoDoubleCount ==
  Done("afterpulse") =>
    \A p \in PMTs :
      Cardinality({ik \in Photons(mc) : /\ mc[ik[1]].id = p
                                        /\ PhotonAt(mc, ik).kind = "after"})
        <= Len(memory[p])

=============================================================================
