------------------------------- MODULE MCHits -------------------------------
(***************************************************************************)
(* The hits of one Monte Carlo event (DS::MC, DS::MCPMT, DS::MCPhoton) as  *)
(* the noise, after-pulse and DAQ processors see them: a list of hit PMTs, *)
(* each with its list of photoelectrons.                                   *)
(*                                                                         *)
(* Times are integers (a tick is the trigger resolution or more); every    *)
(* photoelectron has charge 1, so that charges count photoelectrons.       *)
(***************************************************************************)
EXTENDS Integers, Sequences, SequencesExt

CONSTANTS
  PMTs,    \* IDs of the detector's PMTs
  Jitter   \* what PMTTime::PickTime may add to a hit time

ASSUME HitsAssumption == Jitter \subseteq Int

VARIABLE mc   \* the list of DS::MCPMT

Kinds == {"real", "dark", "after"}
MCPhoton == [hit : Int, fet : Int, kind : Kinds]
MCPMT == [id : PMTs, photons : Seq(MCPhoton)]

\* The indices of key in the order of their keys, equal ones in their own order.
InOrder(key) ==
  [n \in 1 .. Cardinality(DOMAIN key) |->
     CHOOSE i \in DOMAIN key :
       n = Cardinality({j \in DOMAIN key : key[j] < key[i] \/ (key[j] = key[i] /\ j <= i)})]

\* The entries of s at the indices K, in their order.
Kept(s, K) == LET at == InOrder([k \in K |-> k]) IN [n \in DOMAIN at |-> s[at[n]]]

\* Mutant of NewPhoton: the hit time is not passed to PickTime.
NewPhotonAtZero(hit, jitter, kind) == [hit |-> hit, fet |-> jitter, kind |-> kind]

\* AddNewMCPhoton and its setters; the front-end time is the smeared hit time.
NewPhoton(hit, jitter, kind) == [hit |-> hit, fet |-> hit + jitter, kind |-> kind]

\* SortMCPhotons, by operator< of DS::MCPhoton.
SortMCPhotons(s) ==
  LET at == InOrder([k \in DOMAIN s |-> s[k].fet]) IN [k \in DOMAIN s |-> s[at[k]]]

\* PruneNoiseMCPhotons and PruneAfterPulseMCPhotons.
Prune(s, kind) == Kept(s, {k \in DOMAIN s : s[k].kind # kind})
PruneAll(kind) == [i \in DOMAIN mc |-> [mc[i] EXCEPT !.photons = Prune(@, kind)]]

\* Where the photoelectrons of an event are in its lists.
Photons(m) == UNION {{<<i, k>> : k \in DOMAIN m[i].photons} : i \in DOMAIN m}
PhotonAt(m, ik) == m[ik[1]].photons[ik[2]]
CountKind(kind) == Cardinality({ik \in Photons(mc) : PhotonAt(mc, ik).kind = kind})

MCTypeOK ==
  /\ mc \in Seq(MCPMT)
  /\ \A ik \in Photons(mc) : PhotonAt(mc, ik).fet - PhotonAt(mc, ik).hit \in Jitter

=============================================================================
