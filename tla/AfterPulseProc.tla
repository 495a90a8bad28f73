--------------------------- MODULE AfterPulseProc ---------------------------
(***************************************************************************)
(* AfterPulseProc: remembers when the photoelectrons of this and earlier   *)
(* events will cause after-pulses, and adds those that fall near a hit of  *)
(* the same PMT.                                                           *)
(***************************************************************************)
EXTENDS MCHits

CONSTANTS
  TriggerWindow,  \* trigger_window of the DAQ table
  Delays          \* what CalculateAfterPulseTime may return

ASSUME AfterPulseAssumption == TriggerWindow \in Nat /\ Delays \subseteq Nat \ {0}

VARIABLES
  eventTime,  \* the event's UTC in ns
  memory,     \* fAfterPulseTime: global times, per PMT
  saturates   \* the build's conversion of a negative double to uint64_t:
              \* 0 (TRUE), or the value that wraps to the right sum (FALSE)

apVars == <<eventTime, memory, saturates>>

\* uint64_t frontEndTime = mcphoton->GetFrontEndTime()
ToUInt64(t) == IF t < 0 /\ saturates THEN 0 ELSE t

\* GenerateAfterPulses: draw[ik] is the delay of the after-pulse of a
\* photoelectron, or 0 when the draw says there is none.
GenerateAfterPulses(m, draw) ==
  LET Pulses(i) ==
        LET own == {k \in DOMAIN m[i].photons : <<i, k>> \in DOMAIN draw /\ draw[<<i, k>>] # 0}
        IN Kept([k \in own |-> eventTime + ToUInt64(m[i].photons[k].fet) + draw[<<i, k>>]], own)
  IN [p \in PMTs |->
        memory[p] \o FlattenSeq([i \in DOMAIN m |-> IF m[i].id = p THEN Pulses(i) ELSE <<>>])]

\* The strict window around a photoelectron.
Near(ap, ph) ==
  LET t == eventTime + ToUInt64(ph.fet) IN
  t - 2 * TriggerWindow < ap /\ ap < t + 2 * TriggerWindow

\* The remembered times that are near a photoelectron.
NearOnes(aps, ph) == Kept(aps, {n \in DOMAIN aps : Near(aps[n], ph)})

\* Mutant of Detected: only the first photoelectron of a PMT looks.
DetectedByFirst(mcpmt, mem) ==
  IF mcpmt.photons = <<>> THEN <<>>
  ELSE NearOnes(mem[mcpmt.id], mcpmt.photons[1])

\* The times DetectAfterPulses adds to an MCPMT.  Every photoelectron scans a
\* copy of fAfterPulseTime[pmtid]; what it erases, it erases from the copy.
Detected(mcpmt, mem) ==
  FlattenSeq([k \in DOMAIN mcpmt.photons |-> NearOnes(mem[mcpmt.id], mcpmt.photons[k])])

\* Mutants: a remembered time is relative to the event; the photons stay unsorted.
RelativeHit(ap) == ap
AppendUnsorted(s, new) == s \o new

AfterPulseHit(ap) == ap - eventTime
AppendSorted(s, new) == SortMCPhotons(s \o new)

\* DSEvent: prune the after-pulses of an earlier pass, generate, detect.
\* Bound: PickTime gives the same delay to all the after-pulses of one MCPMT.
AfterPulseDSEvent ==
  LET pruned == PruneAll("after")
      parents == {ik \in Photons(pruned) : PhotonAt(pruned, ik).kind # "dark"}
  IN \E draw \in [parents -> Delays \cup {0}], jitter \in [DOMAIN pruned -> Jitter] :
       LET mem == GenerateAfterPulses(pruned, draw)
           New(i) == LET aps == Detected(pruned[i], mem) IN
             [k \in DOMAIN aps |-> NewPhoton(AfterPulseHit(aps[k]), jitter[i], "after")]
       IN /\ memory' = mem
          /\ mc' = [i \in DOMAIN pruned |->
                      [pruned[i] EXCEPT !.photons = AppendSorted(@, New(i))]]
          /\ UNCHANGED <<eventTime, saturates>>

=============================================================================
