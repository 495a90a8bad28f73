--------------------------- MODULE Tracking_proofs ---------------------------
(***************************************************************************)
(* Proofs about Tracking, for any PMTs, hit times and limits, any number   *)
(* of tracks, hits and events: the invariants that the run checks hold in  *)
(* every state.  TrackingInv says what the callbacks keep between calls.   *)
(***************************************************************************)
EXTENDS Tracking, Induction

-----------------------------------------------------------------------------
(* The inductive invariant.                                                *)

TrackRecord ==
  [kind : Kinds, creator : Creators, steps : Nat, done : BOOLEAN, energyLoss : Nat,
   centroid : Nat, stretches : Nat, zeros : Nat]
StackRecord == [id : Nat, traj : Seq(Nat)]
CurRecord ==
  [id : Nat, previous : Seq(Nat), traj : Seq(Nat), status : {"alive", "suspend", "dead"},
   secondaries : Seq(Creators)]
HitRecord == [pmt : Online, times : Seq(Times) \ {<<>>}]
TrajRecord == [id : Nat, points : Seq(Nat)]
EventRecord ==
  [tracks : Seq(TrajRecord), pmts : Seq([pmt : Online, times : Seq(Times)]), numPE : Nat,
   count : [Photonic -> Nat], energyLoss : Nat, centroid : Nat, aborted : BOOLEAN, made : BOOLEAN]
InfoRecord == [count : [Photonic -> Nat], energyLoss : Nat, centroid : Nat, deposited : Nat]

\* The type of the state, with what an entry of a sequence is.
Types ==
  /\ pc \in {"command", "run", "stack", "tracking", "post"}
  /\ storeTrajectory \in BOOLEAN /\ asked \in BOOLEAN /\ initialStore \in BOOLEAN
  /\ storeSet \subseteq Kinds /\ discardSet \subseteq Kinds
  /\ maxpe \in MaxPEs \cup {0} /\ nabort \in Nat /\ aborted \in Nat
  /\ zeroSteps \in 0..ZeroStepLimit - 1
  /\ stack \in Seq(StackRecord) /\ tracks \in Seq(TrackRecord) /\ cur \in CurRecord
  /\ info \in InfoRecord /\ hits \in Seq(HitRecord) /\ seen \in Seq(Online \X Times)
  /\ trajs \in Seq(TrajRecord)
  /\ ds \in EventRecord
  /\ commands \in 0..MaxCommands /\ events \in 0..MaxEvents

InEvent == pc \in {"stack", "tracking", "post"}
InTrack == pc \in {"tracking", "post"}

\* A track of the event is on the stack once, or in hand, or finished.
Places ==
  /\ InTrack => cur.id \in 1..Len(tracks)
  /\ ~InTrack => cur = NoTrack
  /\ pc = "tracking" => cur.status = "alive"
  /\ pc = "post" => cur.status \in {"suspend", "dead"}
  /\ \A k \in 1..Len(stack) : stack[k].id \in 1..Len(tracks) /\ stack[k].id # cur.id
  /\ \A k, l \in 1..Len(stack) : k # l => stack[k].id # stack[l].id
  /\ ~InEvent => stack = <<>>

OnStack(i) == \E k \in 1..Len(stack) : stack[k].id = i
Finished(i) == i # cur.id /\ ~OnStack(i)

\* What a track has been through, as far as its place tells.
Histories ==
  \A i \in 1..Len(tracks) :
    LET t == tracks[i] IN
    /\ t.kind = IF t.creator \in Photonic THEN "opticalphoton" ELSE "e-"
    /\ t.done <=> t.stretches > 0
    /\ ~t.done => t.steps = 0 /\ t.centroid = 0
    /\ ~t.done /\ InEvent /\ ~ds.aborted => OnStack(i)
    /\ t.steps \in 0..MaxStepNumber + 1
    /\ OnStack(i) \/ (i = cur.id /\ cur.status # "dead") => t.steps <= MaxStepNumber

\* The flag is the user's between events, and the decision on the track within.
Wanted(i) == IF asked THEN tracks[i].kind \notin discardSet ELSE tracks[i].kind \in storeSet
Flags ==
  /\ pc \in {"command", "run"} => storeTrajectory = asked
  /\ pc # "command" => initialStore = asked
  /\ InTrack => (storeTrajectory <=> Wanted(cur.id))

\* The trajectory of a track after steps a to b, and after all of n.
Points(a, b) == [k \in 1..b - a + 1 |-> a + k - 1]
Stored(i, n) == IF Wanted(i) /\ n > 0 THEN Points(0, n) ELSE NoTraj
ThisStretch(a) ==
  /\ cur.previous = Stored(cur.id, a)
  /\ cur.traj = IF Wanted(cur.id) /\ a < tracks[cur.id].steps
                THEN Points(a, tracks[cur.id].steps) ELSE NoTraj
  /\ pc = "post" => a < tracks[cur.id].steps

\* The trajectories of the tracks so far.
Paths ==
  InEvent /\ ~ds.aborted =>
    /\ \A k \in 1..Len(stack) : stack[k].traj = Stored(stack[k].id, tracks[stack[k].id].steps)
    /\ InTrack => \E a \in 0..tracks[cur.id].steps : ThisStretch(a)
    /\ \A j \in 1..Len(trajs) :
         LET i == trajs[j].id IN
         /\ i \in 1..Len(tracks) /\ Finished(i) /\ Wanted(i)
         /\ trajs[j].points = Points(0, tracks[i].steps)
    /\ \A i \in 1..Len(tracks) : Finished(i) /\ Wanted(i) => \E j \in 1..Len(trajs) : trajs[j].id = i
    /\ \A j, k \in 1..Len(trajs) : j # k => trajs[j].id # trajs[k].id

\* Photons are counted when first taken up.
Counts ==
  \A c \in Photonic :
    info.count[c] = Cardinality({i \in 1..Len(tracks) : tracks[i].creator = c /\ tracks[i].done})

\* What the centroid weighs, as long as no track was taken up twice.
Weights ==
  InEvent /\ ~ds.aborted /\ (\A i \in 1..Len(tracks) : tracks[i].stretches <= 1) =>
    info.deposited = info.centroid + IF InTrack THEN tracks[cur.id].centroid ELSE 0

\* The collection holds the hits seen.
HitCounts ==
  /\ NumPE(hits) = Len(seen)
  /\ \A i, j \in 1..Len(hits) : i # j => hits[i].pmt # hits[j].pmt
  /\ \A j \in 1..Len(seen) : \E i \in 1..Len(hits) : hits[i].pmt = seen[j][1]
  /\ \A i \in 1..Len(hits), t \in Times :
       Count(hits[i].times, t) = Count(seen, <<hits[i].pmt, t>>)

\* The limit is looked at after each track.
Limit ==
  /\ pc = "stack" => (ds.aborted <=> OverLimit)
  /\ InEvent => ~ds.made /\ nabort = aborted + IF ds.aborted THEN 1 ELSE 0
  /\ InTrack => ~ds.aborted
  /\ pc = "stack" /\ ds.aborted => stack = <<>>

\* The event made last is the one between events.
Made ==
  /\ pc = "command" => ~ds.made
  /\ pc = "run" => nabort = aborted
  /\ ds.made => 
       /\ pc = "run"
       /\ ds.aborted <=> OverLimit

EventKept == SummaryAddsUp /\ HitsAreThisEvents /\ TracksAsRequested

TrackingInv ==
  /\ Types /\ Places /\ Histories /\ Flags /\ Paths /\ Counts /\ Weights /\ HitCounts
  /\ Limit /\ Made /\ EventKept /\ ZeroStepsAreItsOwn
-----------------------------------------------------------------------------
(* The collection of hits.                                                 *)

\* What NumPE adds up.
PEs(c) == [i \in 1..Len(c) |-> Len(c[i].times)]

\* NumPE is the sum over all entries.
LEMMA NumPEIsSum ==
  ASSUME NEW c \in Seq(HitRecord)
  PROVE  \E g : IsSum(g, 1..Len(c), PEs(c)) /\ NumPE(c) = g[1..Len(c)]
<1> DEFINE n == Len(c)
           w == PEs(c)
           Step(g) == [s \in SUBSET DOMAIN c |->
                        IF s = {} THEN 0
                        ELSE LET x == CHOOSE y \in s : TRUE IN g[s \ {x}] + Len(c[x].times)]
           it == CHOOSE g : g = Step(g)
<1>1. n \in Nat /\ DOMAIN c = 1..n
  OBVIOUS
<1>2. IsFiniteSet(1..n)
  <2> HIDE DEF n
  <2> QED BY <1>1, FS_Interval
<1>3. PEs(c) \in [1..n -> Nat]
  BY DEF PEs, HitRecord
<1>4. PICK g : SumOver(g, 1..n, w)
  <2> HIDE DEF n, w
  <2> QED BY <1>2, SumExists
<1>5. ASSUME NEW h PROVE h = Step(h) <=> SumOver(h, 1..n, w)
  <2>1. \A s \in SUBSET (1..n) : s # {} => (CHOOSE y \in s : TRUE) \in s
    OBVIOUS
  <2>2. \A x \in 1..n : w[x] = Len(c[x].times)
    BY DEF PEs
  <2> HIDE DEF w, n
  <2>4. ASSUME NEW s \in SUBSET (1..n), s # {}
        PROVE  h[s \ {CHOOSE y \in s : TRUE}] + Len(c[CHOOSE y \in s : TRUE].times)
                 = h[s \ {CHOOSE y \in s : TRUE}] + w[CHOOSE y \in s : TRUE]
    <3>1. (CHOOSE y \in s : TRUE) \in 1..n
      BY <2>1, <2>4
    <3> QED BY <2>2, <3>1
  <2>3. Step(h) = [s \in SUBSET (1..n) |->
                     IF s = {} THEN 0 ELSE LET x == CHOOSE y \in s : TRUE IN h[s \ {x}] + w[x]]
    BY <1>1, <2>4
  <2> QED BY <2>3 DEF SumOver
<1>6. it = Step(it)
  <2> HIDE DEF Step, n, w
  <2>1. g = Step(g)
    BY <1>4, <1>5
  <2> QED BY <2>1
<1>7. IsSum(it, 1..n, w)
  <2> HIDE DEF it, n
  <2> QED BY <1>2, <1>3, <1>5, <1>6 DEF IsSum
<1>8. NumPE(c) = it[1..n]
  <2>1. NumPE(c) = it[DOMAIN c]
    BY DEF NumPE, FoldSeq, FoldFunction, FoldFunctionOnSet, MapThenFoldSet
  <2> HIDE DEF it
  <2> QED BY <1>1, <2>1
<1> HIDE DEF it, w, n
<1> QED BY <1>7, <1>8 DEF w, n

\* No entries, no photoelectrons.
LEMMA NumPEOfNone == NumPE(<<>>) = 0
<1>1. <<>> \in Seq(HitRecord) /\ 1..Len(<<>>) = {}
  OBVIOUS
<1>2. PICK g : IsSum(g, {}, PEs(<<>>)) /\ NumPE(<<>>) = g[{}]
  BY <1>1, NumPEIsSum
<1> QED BY <1>2 DEF IsSum, SumOver

\* A PMT's first photon is one more.
LEMMA NumPEOfAppend ==
  ASSUME NEW c \in Seq(HitRecord), NEW e \in HitRecord
  PROVE  NumPE(c) \in Nat /\ NumPE(Append(c, e)) = NumPE(c) + Len(e.times)
<1> DEFINE d == Append(c, e)
           n == Len(c)
<1>1. /\ n \in Nat /\ d \in Seq(HitRecord) /\ Len(d) = n + 1 /\ d[n + 1] = e
      /\ \A i \in 1..n : d[i] = c[i]
  OBVIOUS
<1> HIDE DEF d, n
<1> DEFINE N == 1..n
           y == n + 1
           M == 1..y
           w == PEs(c)
           v == PEs(d)
<1>2. PICK g : IsSum(g, N, w) /\ NumPE(c) = g[N]
  BY NumPEIsSum DEF n
<1>3. PICK h : IsSum(h, M, v) /\ NumPE(d) = h[M]
  BY <1>1, NumPEIsSum
<1>5. M = N \cup {y} /\ y \notin N
  BY <1>1
<1>6. (\A i \in N : w[i] = v[i]) /\ v[y] = Len(e.times)
  BY <1>1 DEF PEs, n
<1> HIDE DEF N, M, w, v, y
<1>7. g[N] \in Nat /\ h[M] = g[N] + v[y]
  BY <1>2, <1>3, <1>5, <1>6, SumExtends
<1> QED BY <1>2, <1>3, <1>6, <1>7 DEF d

\* A photon of a PMT with an entry is one more.
LEMMA NumPEOfAnother ==
  ASSUME NEW c \in Seq(HitRecord), NEW d \in Seq(HitRecord), Len(d) = Len(c),
         NEW i \in 1..Len(c), Len(d[i].times) = Len(c[i].times) + 1,
         \A j \in 1..Len(c) : j # i => d[j] = c[j]
  PROVE  NumPE(d) = NumPE(c) + 1
<1> DEFINE D == 1..Len(c)
           w == PEs(c)
           v == PEs(d)
<1>1. PICK g : IsSum(g, D, w) /\ NumPE(c) = g[D]
  BY NumPEIsSum
<1>2. PICK h : IsSum(h, D, v) /\ NumPE(d) = h[D]
  BY NumPEIsSum
<1> DEFINE y == i
<1>4. v[y] = w[y] + 1 /\ \A j \in D \ {y} : w[j] = v[j]
  BY DEF PEs
<1>5. y \in D
  OBVIOUS
<1> HIDE DEF D, w, v, y
<1>6. g[D] \in Nat /\ h[D] \in Nat /\ h[D] + w[y] = g[D] + v[y]
  BY <1>1, <1>2, <1>4, <1>5, SumChanges
<1>7. w[y] \in Nat
  BY <1>1, <1>5 DEF IsSum
<1>8. PICK m \in Nat, n \in Nat, k \in Nat : m = g[D] /\ n = h[D] /\ k = w[y]
  BY <1>6, <1>7
<1>9. n + k = m + (k + 1)
  BY ONLY <1>4, <1>6, <1>8
<1>10. n = m + 1
  BY ONLY <1>9
<1> QED BY ONLY <1>1, <1>2, <1>8, <1>10

\* The collection d is c with one more photon, of PMT p at time t.
HasOneMore(d, c, p, t) ==
  /\ d \in Seq(HitRecord) /\ NumPE(c) \in Nat /\ NumPE(d) = NumPE(c) + 1
  /\ Len(d) >= Len(c)
  /\ \A i \in 1..Len(c) : d[i].pmt = c[i].pmt
  /\ \A i \in 1..Len(c) : d[i].times = IF c[i].pmt = p THEN Append(c[i].times, t) ELSE c[i].times
  /\ \A i \in 1..Len(d) : i \notin 1..Len(c) =>
       d[i] = [pmt |-> p, times |-> <<t>>] /\ \A j \in 1..Len(c) : c[j].pmt # p
  /\ \A i, j \in 1..Len(d) : i # j => d[i].pmt # d[j].pmt
  /\ \E i \in 1..Len(d) : d[i].pmt = p

\* A new hit changes the collection in one place.
LEMMA DetectPhotonAdds ==
  ASSUME NEW c \in Seq(HitRecord), NEW p \in Online, NEW t \in Times,
         \A i, j \in 1..Len(c) : i # j => c[i].pmt # c[j].pmt
  PROVE  HasOneMore(DetectPhoton(c, p, t), c, p, t)
<1> DEFINE d == DetectPhoton(c, p, t)
           n == Len(c)
<1>1. n \in Nat /\ \A i \in 1..n : /\ c[i] \in HitRecord /\ c[i].pmt \in Online
                                     /\ c[i].times \in Seq(Times) /\ c[i].times # <<>>
  <2>1. n \in Nat /\ \A i \in 1..n : c[i] \in HitRecord
    OBVIOUS
  <2>2. \A e \in HitRecord : e.pmt \in Online /\ e.times \in Seq(Times) /\ e.times # <<>>
    BY DEF HitRecord
  <2> QED BY <2>1, <2>2
<1>2. CASE \E i \in 1..n : c[i].pmt = p
  <2>1. PICK i \in 1..n : c[i].pmt = p
    BY <1>2
  <2>2. \A j \in 1..n : c[j].pmt = p <=> j = i
    BY <2>1
  <2>3. d = [j \in 1..n |-> IF c[j].pmt = p THEN [c[j] EXCEPT !.times = Append(@, t)] ELSE c[j]]
    BY <1>2 DEF DetectPhoton
  <2>4. ASSUME NEW j \in 1..n
        PROVE  /\ [c[j] EXCEPT !.times = Append(@, t)] = [pmt |-> c[j].pmt, times |-> Append(c[j].times, t)]
               /\ Append(c[j].times, t) \in Seq(Times) \ {<<>>}
               /\ Len(Append(c[j].times, t)) = Len(c[j].times) + 1
    <3>1. c[j].times \in Seq(Times)
      BY <1>1
    <3>2. /\ Append(c[j].times, t) \in Seq(Times) /\ Len(Append(c[j].times, t)) = Len(c[j].times) + 1
          /\ Len(c[j].times) \in Nat
      BY <3>1
    <3>3. Append(c[j].times, t) # <<>>
      BY <3>2
    <3>4. \A e \in HitRecord : \A x : [e EXCEPT !.times = x] = [pmt |-> e.pmt, times |-> x]
      BY DEF HitRecord
    <3>5. [c[j] EXCEPT !.times = Append(@, t)] = [pmt |-> c[j].pmt, times |-> Append(c[j].times, t)]
      BY <1>1, <3>4
    <3> QED BY <3>2, <3>3, <3>5
  <2>5. \A j \in 1..n : d[j] \in HitRecord
    BY <1>1, <2>3, <2>4 DEF HitRecord
  <2>6. d \in Seq(HitRecord) /\ Len(d) = n
    <3>1. DOMAIN d = 1..n /\ d = [j \in 1..n |-> d[j]]
      BY <2>3
    <3> HIDE DEF d, n
    <3> QED BY <1>1, <2>5, <3>1
  <2>7. d[i].pmt = p /\ d[i].times = Append(c[i].times, t)
    BY <2>1, <2>3, <2>4
  <2>8. \A j \in 1..n : j # i => d[j] = c[j]
    BY <2>2, <2>3
  <2> HIDE DEF d
  <2>9. NumPE(d) = NumPE(c) + 1 /\ NumPE(c) \in Nat
    <3>1. Len(d[i].times) = Len(c[i].times) + 1
      BY <2>4, <2>7
    <3>2. NumPE(d) = NumPE(c) + 1
      BY <2>6, <2>8, <3>1, NumPEOfAnother
    <3>3. NumPE(c) \in Nat
      <4>1. c[i] \in HitRecord
        BY <1>1
      <4> QED BY <4>1, NumPEOfAppend
    <3> QED BY <3>2, <3>3
  <2>10. /\ \A j \in 1..n : d[j].pmt = c[j].pmt
         /\ \A j \in 1..n : d[j].times = IF c[j].pmt = p THEN Append(c[j].times, t) ELSE c[j].times
    BY <2>1, <2>2, <2>7, <2>8
  <2>11. \A j, k \in 1..n : j # k => d[j].pmt # d[k].pmt
    BY <2>10
  <2>12. \E j \in 1..n : d[j].pmt = p
    BY <2>7
  <2> QED BY <1>1, <2>6, <2>9, <2>10, <2>11, <2>12 DEF d, HasOneMore
<1>3. CASE ~\E i \in 1..n : c[i].pmt = p
  <2> DEFINE e == [pmt |-> p, times |-> <<t>>]
  <2>1. d = Append(c, e)
    BY <1>3 DEF DetectPhoton
  <2>2. e \in HitRecord /\ Len(e.times) = 1
    BY DEF HitRecord
  <2> HIDE DEF e
  <2>3. /\ d \in Seq(HitRecord) /\ Len(d) = n + 1 /\ d[n + 1] = e
        /\ \A j \in 1..n : d[j] = c[j]
    BY <2>1, <2>2
  <2>4. NumPE(d) = NumPE(c) + 1 /\ NumPE(c) \in Nat
    BY <2>1, <2>2, NumPEOfAppend
  <2>5. e.pmt = p
    BY DEF e
  <2> HIDE DEF d
  <2>6. \A j \in 1..Len(d) : j \notin 1..n => j = n + 1
    BY <1>1, <2>3
  <2>7. n + 1 \in 1..Len(d)
    BY <1>1, <2>3
  <2>8. \A i, j \in 1..Len(d) : i # j => d[i].pmt # d[j].pmt
    <3>1. \A i, j \in 1..n : i # j => d[i].pmt # d[j].pmt
      BY <2>3
    <3>2. \A i \in 1..n : d[i].pmt # p /\ d[n + 1].pmt = p
      BY <1>3, <2>3, <2>5
    <3> QED BY <2>6, <3>1, <3>2
  <2>9. /\ \A j \in 1..n : d[j].pmt = c[j].pmt
        /\ \A j \in 1..n : d[j].times = IF c[j].pmt = p THEN Append(c[j].times, t) ELSE c[j].times
    BY <1>3, <2>3
  <2>10. \A i \in 1..Len(d) : i \notin 1..n =>
           d[i] = [pmt |-> p, times |-> <<t>>] /\ \A j \in 1..n : c[j].pmt # p
    BY <1>3, <2>3, <2>6 DEF e
  <2>11. (\E i \in 1..Len(d) : d[i].pmt = p) /\ Len(d) >= n
    BY <1>1, <2>3, <2>5, <2>7
  <2> QED BY <2>3, <2>4, <2>8, <2>9, <2>10, <2>11 DEF d, HasOneMore
<1> QED BY <1>2, <1>3

\* What SortTimeAscending returns.
LEMMA SortTimeAscendingSorts ==
  ASSUME NEW s \in Seq(Times)
  PROVE  LET d == SortTimeAscending(s) IN
         /\ d \in Seq(Times) /\ Len(d) = Len(s)
         /\ \A j \in 1..Len(d) - 1 : d[j] <= d[j + 1]
         /\ \A t : Count(d, t) = Count(s, t)
<1> DEFINE D == 1..Len(s)
           Sorts(f) == \A i, j \in D : i < j => s[f[i]] <= s[f[j]]
           p == CHOOSE f \in Bijection(D, D) : Sorts(f)
           d == [i \in D |-> s[p[i]]]
<1>1. s \in Seq(Int) /\ Len(s) \in Nat
  <2>1. Times \subseteq Int /\ Len(s) \in Nat /\ s = [i \in 1..Len(s) |-> s[i]]
    BY TrackingAssumption
  <2>2. \A i \in 1..Len(s) : s[i] \in Int
    BY <2>1
  <2> QED BY <2>1, <2>2
<1>2. \E f \in Bijection(D, D) : Sorts(f)
  BY <1>1, CanBeSorted
<1>3. p \in Bijection(D, D) /\ Sorts(p)
  <2> HIDE DEF Sorts, D
  <2> QED BY <1>2
<1>4. SortTimeAscending(s) = d
  BY DEF SortTimeAscending
<1> HIDE DEF p
<1>5. p \in [D -> D]
  BY <1>3 DEF Bijection, Injection
<1>6. d \in Seq(Times) /\ Len(d) = Len(s)
  <2>1. d \in [D -> Times]
    BY <1>5
  <2> HIDE DEF d
  <2> QED BY <1>1, <2>1
<1>7. \A j \in 1..Len(s) - 1 : d[j] <= d[j + 1]
  <2>1. ASSUME NEW j \in 1..Len(s) - 1 PROVE d[j] <= d[j + 1]
    <3>1. j \in D /\ j + 1 \in D /\ j < j + 1
      BY <1>1
    <3>2. s[p[j]] <= s[p[j + 1]]
      BY <1>3, <3>1
    <3> QED BY <3>1, <3>2
  <2> QED BY <2>1
<1>8. \A t : Count(d, t) = Count(s, t)
  BY <1>3, CountOfRearranged
<1> HIDE DEF d
<1> QED BY <1>4, <1>6, <1>7, <1>8

-----------------------------------------------------------------------------
(* The initial state, commands and runs.                                   *)

\* As long as no event is made, nothing is said of one.
LEMMA NotMade ==
  ASSUME ds'.made = FALSE
  PROVE  EventKept'
BY DEF EventKept, SummaryAddsUp, PhotonsCountedOnce, CentroidWithoutSuspension, HitsAreThisEvents,
       TracksAsRequested, Kept

\* The assumption on the constants, in parts that the provers find.
LEMMA BoundsAreNumbers ==
  /\ Times \subseteq Nat /\ MaxPEs \subseteq Nat
  /\ ZeroStepLimit \in Nat \ {0} /\ MaxStepNumber \in Nat \ {0} /\ MaxTracks \in Nat \ {0}
  /\ MaxHits \in Nat \ {0} /\ MaxEvents \in Nat /\ MaxCommands \in Nat
  /\ Online \subseteq PMTs /\ NoPMT \notin Online
BY TrackingAssumption

\* The records that stand for no track, no sums and no event are records.
LEMMA NothingIsTyped ==
  /\ NoTrack \in CurRecord /\ EmptyInfo \in InfoRecord /\ NoEvent \in EventRecord
  /\ NoEvent.made = FALSE /\ NoEvent.aborted = FALSE
<1>1. NoTrack \in CurRecord
  BY DEF NoTrack, CurRecord, NoTraj
<1>2. [c \in Photonic |-> 0] \in [Photonic -> Nat]
  OBVIOUS
<1>3. EmptyInfo \in InfoRecord
  BY <1>2 DEF EmptyInfo, InfoRecord
<1>4. NoEvent \in EventRecord
  BY <1>2 DEF NoEvent, EventRecord
<1> QED BY <1>1, <1>3, <1>4 DEF NoEvent

\* The initial state satisfies the invariant.
LEMMA InitInv == Init => TrackingInv
<1>1. SUFFICES ASSUME Init PROVE TrackingInv
  OBVIOUS
<1>2. ds = NoEvent /\ ds.made = FALSE /\ ds.aborted = FALSE
  BY <1>1, NothingIsTyped DEF Init
<1>3. Types
  <2>1. /\ stack = <<>> /\ tracks = <<>> /\ hits = <<>> /\ seen = <<>> /\ trajs = <<>>
        /\ cur = NoTrack /\ info = EmptyInfo /\ pc = "command" /\ maxpe = 0 /\ zeroSteps = 0
        /\ nabort = 0 /\ aborted = 0 /\ storeSet = {} /\ discardSet = {}
        /\ commands = 0 /\ events = 0
        /\ storeTrajectory = FALSE /\ asked = FALSE /\ initialStore = FALSE
    BY <1>1 DEF Init
  <2>2. \A S : <<>> \in Seq(S)
    OBVIOUS
  <2>3. 0 \in 0..ZeroStepLimit - 1 /\ 0 \in 0..MaxCommands /\ 0 \in 0..MaxEvents /\ 0 \in MaxPEs \cup {0}
    BY BoundsAreNumbers
  <2> QED BY <1>2, <2>1, <2>2, <2>3, NothingIsTyped DEF Types
<1>4. Places
  BY <1>1 DEF Init, Places, InTrack, InEvent
<1>5. Histories
  BY <1>1 DEF Init, Histories
<1>6. Flags /\ Paths /\ Weights
  BY <1>1 DEF Init, Flags, Paths, Weights, InTrack, InEvent
<1>7. Counts
  <2>1. ASSUME NEW c \in Photonic
        PROVE  info.count[c] = Cardinality({i \in 1..Len(tracks) : tracks[i].creator = c /\ tracks[i].done})
    <3>1. {i \in 1..Len(tracks) : tracks[i].creator = c /\ tracks[i].done} = {}
      BY <1>1 DEF Init
    <3>2. info.count[c] = 0
      BY <1>1 DEF Init, EmptyInfo
    <3> QED BY <3>1, <3>2, FS_EmptySet
  <2> QED BY <2>1 DEF Counts
<1>8. HitCounts
  <2>1. hits = <<>> /\ seen = <<>>
    BY <1>1 DEF Init
  <2> QED BY <2>1, NumPEOfNone DEF HitCounts
<1>9. Limit /\ Made
  BY <1>1, <1>2 DEF Init, Limit, Made, InTrack, InEvent
<1>10. EventKept
  BY <1>2 DEF EventKept, SummaryAddsUp, PhotonsCountedOnce, CentroidWithoutSuspension,
              HitsAreThisEvents, TracksAsRequested, Kept
<1>11. ZeroStepsAreItsOwn
  BY <1>1 DEF Init, ZeroStepsAreItsOwn
<1> QED BY <1>3, <1>4, <1>5, <1>6, <1>7, <1>8, <1>9, <1>10, <1>11 DEF TrackingInv

\* What holds of the event's state stays, between events, with that state.
LEMMA BetweenEvents ==
  ASSUME TrackingInv, pc \in {"command", "run"}, pc' \in {"command", "run"},
         UNCHANGED <<stack, tracks, cur, info, hits, seen>>
  PROVE  Places' /\ Histories' /\ Paths' /\ Counts' /\ Weights' /\ HitCounts' /\ ZeroStepsAreItsOwn'
<1>1. Places'
  BY DEF TrackingInv, Places, InTrack, InEvent
<1>2. Histories'
  BY DEF TrackingInv, Histories, OnStack, InEvent
<1>3. Paths' /\ Weights' /\ ZeroStepsAreItsOwn'
  BY DEF Paths, Weights, ZeroStepsAreItsOwn, InEvent
<1>4. Counts'
  BY DEF TrackingInv, Counts
<1>5. HitCounts'
  BY DEF TrackingInv, HitCounts
<1> QED BY <1>1, <1>2, <1>3, <1>4, <1>5

\* Commands come between runs.
LEMMA CommandInv ==
  ASSUME TrackingInv, Command, storeTrajectory' = asked',
         storeTrajectory' \in BOOLEAN, storeSet' \subseteq Kinds, discardSet' \subseteq Kinds
  PROVE  TrackingInv'
<1>1. /\ pc = "command" /\ pc' = "command" /\ ds'.made = FALSE
      /\ commands \in Nat /\ commands < MaxCommands /\ commands' = commands + 1
      /\ UNCHANGED <<runVars, nabort, aborted, zeroSteps, stack, tracks, cur, info, hits, seen,
                     trajs, ds, events>>
  BY BoundsAreNumbers DEF Command, TrackingInv, Made, Types
<1>2. Types'
  BY <1>1, BoundsAreNumbers DEF TrackingInv, Types, runVars
<1>3. Places' /\ Histories' /\ Paths' /\ Counts' /\ Weights' /\ HitCounts' /\ ZeroStepsAreItsOwn'
  BY <1>1, BetweenEvents
<1>4. Flags'
  BY <1>1 DEF Flags, InTrack
<1>5. Limit' /\ Made'
  BY <1>1 DEF Limit, Made, InEvent, InTrack
<1> QED BY <1>1, <1>2, <1>3, <1>4, <1>5, NotMade DEF TrackingInv

\* /tracking/storeTrajectory sets the flag and what was asked for.
LEMMA StoreTrajectoryInv ==
  ASSUME TrackingInv, NEW b \in BOOLEAN, StoreTrajectory(b)
  PROVE  TrackingInv'
BY CommandInv DEF StoreTrajectory, TrackingInv, Types

\* storeParticleTrajectory and discardParticleTrajectory change the two sets.
LEMMA SetStoreParticleTrajInv ==
  ASSUME TrackingInv, NEW k \in Named, NEW store \in BOOLEAN, SetStoreParticleTraj(k, store)
  PROVE  TrackingInv'
<1>1. k \in Kinds
  BY TrackingAssumption DEF Kinds
<1>2. Command /\ storeTrajectory' = asked' /\ storeTrajectory' \in BOOLEAN
  BY DEF SetStoreParticleTraj, Command, TrackingInv, Types, Flags
<1>3. storeSet' \subseteq Kinds /\ discardSet' \subseteq Kinds
  BY <1>1 DEF SetStoreParticleTraj, TrackingInv, Types
<1> QED BY <1>2, <1>3, CommandInv

\* BeginOfRunAction saves the flag, and starts the counts of aborted events.
LEMMA BeginOfRunInv ==
  ASSUME TrackingInv, NEW limit \in MaxPEs, BeginOfRunAction(limit)
  PROVE  TrackingInv'
<1>1. /\ pc = "command" /\ pc' = "run" /\ ds' = NoEvent /\ ds'.made = FALSE /\ ds'.aborted = FALSE
      /\ initialStore' = storeTrajectory /\ maxpe' = limit /\ nabort' = 0 /\ aborted' = 0
      /\ UNCHANGED <<storeTrajectory, asked, storeSet, discardSet, commands, zeroSteps, stack,
                     tracks, cur, info, hits, seen, trajs, events>>
  BY NothingIsTyped DEF BeginOfRunAction, settings
<1>2. Types'
  BY <1>1, NothingIsTyped DEF TrackingInv, Types
<1>3. Places' /\ Histories' /\ Paths' /\ Counts' /\ Weights' /\ HitCounts' /\ ZeroStepsAreItsOwn'
  BY <1>1, BetweenEvents
<1>4. Flags'
  BY <1>1 DEF TrackingInv, Flags, InTrack
<1>5. Limit' /\ Made'
  BY <1>1 DEF Limit, Made, InEvent, InTrack
<1> QED BY <1>1, <1>2, <1>3, <1>4, <1>5, NotMade DEF TrackingInv

\* EndOfRunAction leaves everything but the event made last.
LEMMA EndOfRunInv ==
  ASSUME TrackingInv, EndOfRunAction
  PROVE  TrackingInv'
<1>1. /\ pc = "run" /\ pc' = "command" /\ ds' = NoEvent /\ ds'.made = FALSE /\ ds'.aborted = FALSE
      /\ UNCHANGED <<storeTrajectory, asked, storeSet, discardSet, commands, initialStore, maxpe,
                     nabort, aborted, zeroSteps, stack, tracks, cur, info, hits, seen, trajs, events>>
  BY NothingIsTyped DEF EndOfRunAction, settings, runVars
<1>2. Types'
  BY <1>1, NothingIsTyped DEF TrackingInv, Types
<1>3. Places' /\ Histories' /\ Paths' /\ Counts' /\ Weights' /\ HitCounts' /\ ZeroStepsAreItsOwn'
  BY <1>1, BetweenEvents
<1>4. Flags'
  BY <1>1 DEF TrackingInv, Flags, InTrack
<1>5. Limit' /\ Made'
  BY <1>1 DEF Limit, Made, InEvent, InTrack
<1> QED BY <1>1, <1>2, <1>3, <1>4, <1>5, NotMade DEF TrackingInv

\* A new event starts with one track on the stack and nothing seen.
LEMMA BeginOfEventInv ==
  ASSUME TrackingInv, BeginOfEventAction
  PROVE  TrackingInv'
<1>1. /\ pc = "run" /\ pc' = "stack" /\ ds' = NoEvent /\ ds'.made = FALSE /\ ds'.aborted = FALSE
      /\ events < MaxEvents /\ events' = events + 1
      /\ hits' = <<>> /\ seen' = <<>> /\ trajs' = <<>> /\ info' = EmptyInfo
      /\ tracks' = <<NewTrack("start")>> /\ stack' = <<[id |-> 1, traj |-> NoTraj]>>
      /\ UNCHANGED <<storeTrajectory, asked, storeSet, discardSet, commands, initialStore, maxpe,
                     nabort, aborted, zeroSteps, cur>>
  BY NothingIsTyped DEF BeginOfEventAction, settings, runVars, Cleared
<1>2. /\ NewTrack("start") = [kind |-> "e-", creator |-> "start", steps |-> 0, done |-> FALSE,
                              energyLoss |-> 0, centroid |-> 0, stretches |-> 0, zeros |-> 0]
      /\ NewTrack("start") \in TrackRecord
  BY DEF NewTrack, TrackRecord, Photonic, Kinds, Creators
<1>3. /\ Len(tracks') = 1 /\ tracks'[1] = NewTrack("start") /\ tracks' \in Seq(TrackRecord)
      /\ Len(stack') = 1 /\ stack'[1].id = 1 /\ stack'[1].traj = NoTraj /\ stack' \in Seq(StackRecord)
  <2>1. [id |-> 1, traj |-> NoTraj] \in StackRecord
    BY DEF StackRecord, NoTraj
  <2> QED BY <1>1, <1>2, <2>1
<1>4. cur' = NoTrack /\ NoTrack.id = 0
  BY <1>1 DEF TrackingInv, Places, InTrack, NoTrack
<1>5. Types'
  BY <1>1, <1>3, NothingIsTyped, BoundsAreNumbers DEF TrackingInv, Types
<1>6. Places'
  BY <1>1, <1>3, <1>4 DEF Places, InTrack, InEvent
<1>7. OnStack(1)'
  BY <1>3 DEF OnStack
<1>8. Histories'
  BY <1>1, <1>2, <1>3, <1>4, <1>7, BoundsAreNumbers DEF Histories, Photonic
<1>9. Flags'
  BY <1>1 DEF TrackingInv, Flags, InTrack
<1>10. Paths'
  <2>1. Stored(1, 0)' = NoTraj
    BY DEF Stored
  <2>2. Len(trajs') = 0
    BY <1>1
  <2> QED BY <1>1, <1>2, <1>3, <1>7, <2>1, <2>2 DEF Paths, Finished, InTrack
<1>11. Counts'
  <2>1. ASSUME NEW c \in Photonic
        PROVE  (info.count[c] = Cardinality({i \in 1..Len(tracks) : tracks[i].creator = c /\ tracks[i].done}))'
    <3>1. {i \in 1..Len(tracks') : tracks'[i].creator = c /\ tracks'[i].done} = {}
      BY <1>2, <1>3
    <3>2. info'.count[c] = 0
      BY <1>1 DEF EmptyInfo
    <3> QED BY <3>1, <3>2, FS_EmptySet
  <2> QED BY <2>1 DEF Counts
<1>12. Weights'
  BY <1>1 DEF Weights, InTrack, EmptyInfo
<1>13. HitCounts'
  BY <1>1, NumPEOfNone DEF HitCounts
<1>14. Limit'
  <2>1. ~OverLimit'
    BY <1>1, NumPEOfNone, BoundsAreNumbers DEF OverLimit, TrackingInv, Types
  <2>2. nabort' = aborted' /\ nabort' \in Nat
    BY <1>1 DEF TrackingInv, Made, Types
  <2> QED BY <1>1, <2>1, <2>2 DEF Limit, InEvent, InTrack
<1>15. Made' /\ ZeroStepsAreItsOwn'
  BY <1>1 DEF Made, ZeroStepsAreItsOwn
<1> QED BY <1>1, <1>5, <1>6, <1>8, <1>9, <1>10, <1>11, <1>12, <1>13, <1>14, <1>15, NotMade
        DEF TrackingInv

-----------------------------------------------------------------------------
(* The callbacks before, in and after a stretch of a track.                *)

\* What is left of a sequence when its last element is taken.
LEMMA TakeLast ==
  ASSUME NEW S, NEW s \in Seq(S), s # <<>>
  PROVE  /\ Len(s) \in Nat \ {0} /\ Front(s) \in Seq(S) /\ Len(Front(s)) = Len(s) - 1
         /\ \A k \in 1..Len(s) - 1 : Front(s)[k] = s[k]
         /\ Last(s) = s[Len(s)] /\ Last(s) \in S
<1>1. Len(s) \in Nat \ {0} /\ \A k \in 1..Len(s) : s[k] \in S
  OBVIOUS
<1>2. Front(s) = [k \in 1..Len(s) - 1 |-> s[k]]
  BY <1>1 DEF Front
<1>3. Last(s) = s[Len(s)]
  BY DEF Last
<1>4. Len(s) - 1 \in Nat /\ \A k \in 1..Len(s) - 1 : k \in 1..Len(s)
  BY <1>1
<1> QED BY <1>1, <1>2, <1>3, <1>4

\* The flag that the decision on a track sets is a flag.
LEMMA DecisionIsBoolean == \A k : GetStoreParticleTraj(k) \in BOOLEAN
<1>1. \A k : (k \notin discardSet) \in BOOLEAN /\ (k \in storeSet) \in BOOLEAN
  OBVIOUS
<1>2. CASE initialStore
  BY <1>1, <1>2 DEF GetStoreParticleTraj
<1>3. CASE ~initialStore
  BY <1>1, <1>3 DEF GetStoreParticleTraj
<1> QED BY <1>2, <1>3

\* The tracks when one is taken up, and the counts when its photon is counted.
TakeUp(s, i) == [s EXCEPT ![i].done = TRUE, ![i].stretches = @ + 1]
CountUp(e, c) == [e EXCEPT !.count[c] = @ + 1]

\* Only what says that it was taken up changes of a track that is taken up.
LEMMA TakenUp ==
  ASSUME NEW s \in Seq(TrackRecord), NEW i \in 1..Len(s)
  PROVE  LET d == TakeUp(s, i) IN
         /\ d \in Seq(TrackRecord) /\ Len(d) = Len(s)
         /\ \A j \in 1..Len(s) : j # i => d[j] = s[j]
         /\ d[i].done /\ d[i].stretches = s[i].stretches + 1
         /\ d[i].kind = s[i].kind /\ d[i].creator = s[i].creator /\ d[i].steps = s[i].steps
         /\ d[i].centroid = s[i].centroid
<1> DEFINE e == s[i]
           g == [e EXCEPT !.done = TRUE]
           f == [g EXCEPT !.stretches = e.stretches + 1]
           d == TakeUp(s, i)
<1>1. e \in TrackRecord
  OBVIOUS
<1>2. e.stretches + 1 \in Nat
  <2>1. \A r \in TrackRecord : r.stretches \in Nat
    BY DEF TrackRecord
  <2> QED BY <1>1, <2>1
<1>3. \A r \in TrackRecord : [r EXCEPT !.done = TRUE] \in TrackRecord
  BY DEF TrackRecord
<1>4. \A r \in TrackRecord, x \in Nat : [r EXCEPT !.stretches = x] \in TrackRecord
  BY DEF TrackRecord
<1>5. g \in TrackRecord
  BY <1>1, <1>3
<1>6. f \in TrackRecord
  <2> HIDE DEF g
  <2> QED BY <1>2, <1>4, <1>5
<1>7. d = [s EXCEPT ![i] = f]
  BY DEF TakeUp, TrackRecord
<1>8. /\ f.done /\ f.stretches = e.stretches + 1
      /\ f.kind = e.kind /\ f.creator = e.creator /\ f.steps = e.steps /\ f.centroid = e.centroid
  BY <1>1 DEF TrackRecord
<1> HIDE DEF d, f
<1>9. d \in Seq(TrackRecord) /\ Len(d) = Len(s) /\ d[i] = f /\ \A j \in 1..Len(s) : j # i => d[j] = s[j]
  BY <1>6, <1>7
<1> QED BY <1>8, <1>9 DEF d

\* Only one count changes when a photon is counted.
LEMMA CountedUp ==
  ASSUME NEW e \in InfoRecord, NEW c \in Photonic
  PROVE  LET f == CountUp(e, c) IN
         /\ f \in InfoRecord /\ f.deposited = e.deposited /\ f.centroid = e.centroid
         /\ \A x \in Photonic : f.count[x] = IF x = c THEN e.count[x] + 1 ELSE e.count[x]
<1> DEFINE f == CountUp(e, c)
<1>1. f \in InfoRecord
  BY DEF InfoRecord, CountUp
<1>2. /\ f.count = [e.count EXCEPT ![c] = @ + 1] /\ f.deposited = e.deposited
      /\ f.centroid = e.centroid /\ e.count \in [Photonic -> Nat]
  BY DEF InfoRecord, CountUp
<1> HIDE DEF f
<1>3. \A x \in Photonic : f.count[x] = IF x = c THEN e.count[x] + 1 ELSE e.count[x]
  BY <1>2
<1> QED BY <1>1, <1>2, <1>3 DEF f

\* A track taken from the stack is in hand, counted if it is a new photon,
\* and stored if it is of a kind that is wanted.
LEMMA PreUserTrackingInv ==
  ASSUME TrackingInv, PreUserTrackingAction
  PROVE  TrackingInv'
<1>0. PICK n, N, top, i0, t : /\ n = Len(stack) /\ N = Len(tracks) /\ top = Last(stack)
                              /\ i0 = top.id /\ t = tracks[i0]
  OBVIOUS
<1>1. /\ pc = "stack" /\ pc' = "tracking" /\ stack # <<>> /\ stack' = Front(stack)
      /\ cur' = [NoTrack EXCEPT !.id = i0, !.previous = top.traj]
      /\ storeTrajectory' = GetStoreParticleTraj(t.kind)
      /\ info' = IF FirstCall(t) THEN CountUp(info, t.creator) ELSE info
      /\ tracks' = TakeUp(tracks, i0)
      /\ UNCHANGED <<asked, storeSet, discardSet, commands, initialStore, maxpe, nabort, aborted,
                     zeroSteps, hits, seen, trajs, ds, events>>
  BY <1>0, <1>0 DEF PreUserTrackingAction, settings, runVars, CountUp, TakeUp
<1>2. stack \in Seq(StackRecord) /\ tracks \in Seq(TrackRecord) /\ N \in Nat
  BY <1>0, <1>0 DEF TrackingInv, Types
<1>3. /\ n \in Nat \ {0} /\ stack' \in Seq(StackRecord) /\ Len(stack') = n - 1
      /\ \A k \in 1..n - 1 : stack'[k] = stack[k]
      /\ top = stack[n] /\ top \in StackRecord
  BY <1>0, <1>1, <1>2, TakeLast
<1>4. ~ds.aborted /\ ds.made = FALSE /\ cur = NoTrack /\ NoTrack.id = 0 /\ nabort = aborted
  <2>1. ds.made \in BOOLEAN /\ aborted \in Nat
    BY <1>0, <1>0 DEF TrackingInv, Types, EventRecord
  <2> QED BY <1>0, <1>1, <2>1 DEF TrackingInv, Limit, Places, InTrack, InEvent, NoTrack
<1>5. i0 \in 1..N /\ \A k \in 1..n - 1 : stack'[k].id # i0 /\ stack'[k].id \in 1..N
  BY <1>0, <1>3 DEF TrackingInv, Places
<1>6. /\ cur' = [id |-> i0, previous |-> top.traj, traj |-> NoTraj, status |-> "alive", secondaries |-> <<>>]
      /\ cur' \in CurRecord
  <2>1. [NoTrack EXCEPT !.id = i0] = [id |-> i0, previous |-> NoTraj, traj |-> NoTraj, status |-> "alive",
                                      secondaries |-> <<>>]
    BY <1>0, <1>0 DEF NoTrack
  <2>2. cur' = [[NoTrack EXCEPT !.id = i0] EXCEPT !.previous = top.traj]
    BY <1>0, <1>1 DEF NoTrack
  <2>3. top.traj \in Seq(Nat) /\ i0 \in Nat
    BY <1>0, <1>3 DEF StackRecord
  <2>4. cur' = [id |-> i0, previous |-> top.traj, traj |-> NoTraj, status |-> "alive", secondaries |-> <<>>]
    BY <1>0, <2>1, <2>2
  <2> QED BY <1>0, <2>3, <2>4 DEF CurRecord, NoTraj
<1>7. \A i \in 1..N : tracks[i] \in TrackRecord
  BY <1>0, <1>2
<1>8. /\ Len(tracks') = N /\ tracks' \in Seq(TrackRecord)
      /\ \A i \in 1..N : i # i0 => tracks'[i] = tracks[i]
  BY <1>0, <1>1, <1>2, <1>5, TakenUp
<1>9. /\ tracks'[i0].done /\ tracks'[i0].stretches = t.stretches + 1
      /\ \A i \in 1..N : /\ tracks'[i].kind = tracks[i].kind /\ tracks'[i].creator = tracks[i].creator
                         /\ tracks'[i].steps = tracks[i].steps /\ tracks'[i].centroid = tracks[i].centroid
                         /\ tracks[i].stretches \in Nat /\ tracks[i].done \in BOOLEAN
                         /\ tracks[i].kind \in Kinds /\ tracks[i].creator \in Creators
                         /\ tracks[i].steps \in Nat
  <2>1. \A e \in TrackRecord :
          /\ e.stretches \in Nat /\ e.done \in BOOLEAN /\ e.kind \in Kinds /\ e.creator \in Creators
          /\ e.steps \in Nat
    BY DEF TrackRecord
  <2> DEFINE u == tracks'[i0]
  <2>2. /\ u.done /\ u.stretches = t.stretches + 1
        /\ u.kind = t.kind /\ u.creator = t.creator /\ u.steps = t.steps /\ u.centroid = t.centroid
    BY <1>0, <1>1, <1>2, <1>5, TakenUp
  <2> QED BY <1>0, <1>5, <1>7, <1>8, <2>1, <2>2
<1>10. \A i : OnStack(i)' <=> OnStack(i) /\ i # i0
  <2>1. \A i : OnStack(i)' <=> \E k \in 1..n - 1 : stack[k].id = i
    BY <1>0, <1>3 DEF OnStack
  <2>2. 1..n = (1..n - 1) \cup {n}
    BY <1>0, <1>3
  <2> QED BY <1>0, <1>3, <1>5, <2>1, <2>2 DEF OnStack
<1>11. \A i \in 1..N : (Finished(i)' <=> Finished(i)) /\ (Wanted(i)' <=> Wanted(i))
  <2>1. \A i \in 1..N : OnStack(i)' <=> OnStack(i) /\ i # i0
    BY <1>0, <1>10
  <2>2. cur'.id = i0 /\ OnStack(i0) /\ cur.id \notin 1..N
    <3>1. n \in 1..n /\ stack[n].id = i0
      BY <1>0, <1>3
    <3>2. cur'.id = i0 /\ cur.id = 0
      BY <1>4, <1>6
    <3> QED BY <1>0, <3>1, <3>2 DEF OnStack
  <2>3. \A i \in 1..N : Finished(i)' <=> Finished(i)
    BY <1>0, <2>1, <2>2 DEF Finished
  <2> QED BY <1>0, <1>1, <1>9, <2>3 DEF Wanted
<1>12. Histories /\ t.steps \in Nat
  BY <1>0, <1>5, <1>9 DEF TrackingInv
<1>13. FirstCall(t) <=> t.creator \in Photonic /\ ~t.done
  BY <1>0, <1>5, <1>12 DEF FirstCall, Histories
<1>14. /\ info' \in InfoRecord /\ info'.deposited = info.deposited /\ info'.centroid = info.centroid
       /\ \A c \in Photonic : info'.count[c] = IF FirstCall(t) /\ c = t.creator THEN info.count[c] + 1
                                              ELSE info.count[c]
  <2>1. info \in InfoRecord
    BY DEF TrackingInv, Types
  <2>2. CASE FirstCall(t)
    <3>1. t.creator \in Photonic
      BY <1>13, <2>2
    <3> QED BY <1>1, <2>1, <2>2, <3>1, CountedUp
  <2>3. CASE ~FirstCall(t)
    BY <1>1, <2>1, <2>3
  <2> QED BY <2>2, <2>3
<1>15. Types'
  <2>1. storeTrajectory' \in BOOLEAN
    BY <1>1, DecisionIsBoolean
  <2> QED BY <1>1, <1>3, <1>6, <1>8, <1>14, <2>1 DEF TrackingInv, Types
<1>16. Places'
  <2>1. Len(stack') = n - 1 /\ \A k, l \in 1..n - 1 : k # l => stack'[k].id # stack'[l].id
    <3>1. \A k, l \in 1..n - 1 : k # l => stack[k].id # stack[l].id
      BY <1>0, <1>3 DEF TrackingInv, Places
    <3> QED BY <1>3, <3>1
  <2>2. cur'.id = i0 /\ cur'.status = "alive"
    BY <1>6
  <2> QED BY <1>0, <1>1, <1>5, <1>8, <2>1, <2>2 DEF Places, InTrack, InEvent
<1>17. Histories'
  <2>1. ASSUME NEW i \in 1..N
        PROVE  LET u == tracks'[i] IN
               /\ u.kind = IF u.creator \in Photonic THEN "opticalphoton" ELSE "e-"
               /\ u.done <=> u.stretches > 0
               /\ ~u.done => u.steps = 0 /\ u.centroid = 0
               /\ ~u.done => OnStack(i)'
               /\ u.steps \in 0..MaxStepNumber + 1
               /\ OnStack(i)' \/ i = i0 => u.steps <= MaxStepNumber
    <3>1. LET u == tracks[i] IN
          /\ u.kind = IF u.creator \in Photonic THEN "opticalphoton" ELSE "e-"
          /\ u.done <=> u.stretches > 0
          /\ ~u.done => u.steps = 0 /\ u.centroid = 0
          /\ ~u.done => OnStack(i)
          /\ u.steps \in 0..MaxStepNumber + 1
          /\ OnStack(i) => u.steps <= MaxStepNumber
      BY <1>0, <1>1, <1>4, <1>12 DEF Histories, InEvent
    <3>2. OnStack(i0)
      BY <1>0, <1>3 DEF OnStack
    <3>3. OnStack(i)' <=> OnStack(i) /\ i # i0
      BY <1>10
    <3>4. CASE i = i0
      <4>1. tracks'[i].stretches > 0
        BY <1>0, <1>5, <1>9, <3>4
      <4> QED BY <1>9, <3>1, <3>2, <3>3, <3>4, <4>1
    <3>5. CASE i # i0
      BY <1>8, <3>1, <3>3, <3>5
    <3> QED BY <3>4, <3>5
  <2> QED BY <1>1, <1>4, <1>6, <1>8, <2>1 DEF Histories
<1>18. Flags'
  <2>1. GetStoreParticleTraj(t.kind) <=> Wanted(i0)
    BY <1>0, <1>1 DEF TrackingInv, Flags, GetStoreParticleTraj, Wanted
  <2>2. Wanted(cur.id)' <=> Wanted(i0)
    <3>1. Wanted(cur.id)' <=> Wanted(i0)'
      BY <1>6 DEF Wanted
    <3> QED BY <1>5, <1>11, <3>1
  <2>3. initialStore' = asked'
    BY <1>1 DEF TrackingInv, Flags
  <2> QED BY <1>1, <2>1, <2>2, <2>3 DEF Flags
<1>19. \A i \in 1..N : \A m : (IF Wanted(i)' /\ m > 0 THEN Points(0, m) ELSE NoTraj) = Stored(i, m)
  BY <1>11 DEF Stored
<1>20. Paths'
  <2>1. /\ \A k \in 1..n : stack[k].traj = Stored(stack[k].id, tracks[stack[k].id].steps)
        /\ \A j \in 1..Len(trajs) :
             LET i == trajs[j].id IN
             /\ i \in 1..N /\ Finished(i) /\ Wanted(i)
             /\ trajs[j].points = Points(0, tracks[i].steps)
        /\ \A i \in 1..N : Finished(i) /\ Wanted(i) => \E j \in 1..Len(trajs) : trajs[j].id = i
        /\ \A j, k \in 1..Len(trajs) : j # k => trajs[j].id # trajs[k].id
    BY <1>0, <1>1, <1>4 DEF TrackingInv, Paths, InEvent
  <2>2. (\A k \in 1..Len(stack) : stack[k].traj = Stored(stack[k].id, tracks[stack[k].id].steps))'
    <3>1. ASSUME NEW k \in 1..n - 1, NEW i, i = stack[k].id
          PROVE  (stack[k].id = i /\ stack[k].traj = Stored(i, tracks[i].steps))'
      <4>1. i \in 1..N /\ stack'[k] = stack[k] /\ k \in 1..n
        BY <1>3, <1>5, <3>1
      <4>2. tracks'[i].steps = tracks[i].steps
        BY <1>9, <4>1
      <4>3. stack[k].traj = Stored(i, tracks[i].steps)
        BY <2>1, <3>1, <4>1
      <4> QED BY <1>19, <3>1, <4>1, <4>2, <4>3 DEF Stored
    <3> QED BY <1>3, <3>1
  <2>3. ThisStretch(t.steps)'
    <3>1. cur.previous' = Stored(i0, t.steps) /\ cur.traj' = NoTraj /\ cur.id' = i0
      <4>1. n \in 1..n /\ stack[n] = top
        BY <1>0, <1>3
      <4>2. top.traj = Stored(i0, t.steps)
        BY <1>0, <2>1, <4>1
      <4> QED BY <1>6, <4>2
    <3>2. tracks'[i0].steps = t.steps /\ t.steps \in Nat
      BY <1>0, <1>5, <1>9
    <3>3. cur.previous' = Stored(cur.id, t.steps)'
      <4>1. Stored(i0, t.steps)' = Stored(i0, t.steps)
        BY <1>5, <1>19 DEF Stored
      <4>2. Stored(cur.id, t.steps)' = Stored(i0, t.steps)'
        BY <3>1 DEF Stored, Wanted
      <4> QED BY <3>1, <4>1, <4>2
    <3> QED BY <1>1, <3>1, <3>2, <3>3 DEF ThisStretch
  <2>4. t.steps \in 0..tracks'[cur'.id].steps
    BY <1>0, <1>5, <1>6, <1>9
  <2>5. (\A j \in 1..Len(trajs) :
           LET i == trajs[j].id IN
           /\ i \in 1..N /\ Finished(i) /\ Wanted(i)
           /\ trajs[j].points = Points(0, tracks[i].steps))'
    <3>1. ASSUME NEW j \in 1..Len(trajs), NEW i, i = trajs[j].id
          PROVE  i \in 1..N /\ Finished(i)' /\ Wanted(i)' /\ trajs[j].points = Points(0, tracks'[i].steps)
      <4>1. i \in 1..N /\ Finished(i) /\ Wanted(i) /\ trajs[j].points = Points(0, tracks[i].steps)
        BY <2>1, <3>1
      <4> QED BY <1>9, <1>11, <4>1
    <3>2. trajs' = trajs
      BY <1>1
    <3> QED BY <3>1, <3>2
  <2>6. \A i \in 1..N : (Finished(i) /\ Wanted(i))' => \E j \in 1..Len(trajs') : trajs'[j].id = i
    BY <1>1, <1>11, <2>1
  <2> QED BY <1>1, <1>8, <2>1, <2>2, <2>3, <2>4, <2>5, <2>6 DEF Paths
<1>21. Counts'
  <2>1. ASSUME NEW c \in Photonic
        PROVE  info'.count[c] = Cardinality({i \in 1..N : tracks'[i].creator = c /\ tracks'[i].done})
    <3> DEFINE K == {i \in 1..N : tracks[i].creator = c /\ tracks[i].done}
               L == {i \in 1..N : tracks'[i].creator = c /\ tracks'[i].done}
    <3>1. info.count[c] = Cardinality(K)
      BY <1>0 DEF TrackingInv, Counts
    <3>2. IsFiniteSet(K)
      <4>1. K \subseteq 1..N /\ IsFiniteSet(1..N)
        BY <1>0, <1>2, FS_Interval
      <4> HIDE DEF K
      <4> QED BY <4>1, FS_Subset
    <3>a. /\ \A i \in 1..N : tracks'[i].creator = tracks[i].creator
          /\ \A i \in 1..N : i # i0 => tracks'[i].done = tracks[i].done
          /\ tracks'[i0].done /\ i0 \in 1..N /\ t = tracks[i0]
      BY <1>0, <1>5, <1>8, <1>9
    <3>3. CASE FirstCall(t) /\ c = t.creator
      <4>1. L = K \cup {i0} /\ i0 \notin K
        BY <1>13, <3>3, <3>a
      <4> HIDE DEF K, L
      <4>2. Cardinality(L) = Cardinality(K) + 1
        BY <3>2, <4>1, FS_AddElement
      <4> QED BY <1>14, <3>1, <3>3, <4>2 DEF L
    <3>4. CASE ~(FirstCall(t) /\ c = t.creator)
      <4>1. L = K
        BY <1>13, <3>4, <3>a
      <4> HIDE DEF K, L
      <4> QED BY <1>14, <3>1, <3>4, <4>1 DEF L
    <3> QED BY <3>3, <3>4
  <2> QED BY <1>8, <2>1 DEF Counts
<1>22. Weights'
  <2>1. SUFFICES ASSUME \A i \in 1..N : tracks'[i].stretches <= 1
                 PROVE  info'.deposited = info'.centroid + tracks'[i0].centroid
    BY <1>1, <1>6, <1>8 DEF Weights, InTrack
  <2>2. t.stretches = 0 /\ t.stretches \in Nat
    BY <1>0, <1>5, <1>9, <2>1
  <2>3. t.centroid = 0 /\ tracks'[i0].centroid = 0
    BY <1>0, <1>5, <1>9, <1>12, <2>2 DEF Histories
  <2>4. \A i \in 1..N : tracks[i].stretches <= 1
    BY <1>0, <1>8, <2>1, <2>2
  <2>5. info.deposited = info.centroid + 0
    BY <1>0, <1>1, <1>4, <2>4 DEF TrackingInv, Weights, InEvent, InTrack
  <2> QED BY <1>14, <2>3, <2>5
<1>23. HitCounts'
  BY <1>1 DEF TrackingInv, HitCounts
<1>24. Limit' /\ Made'
  <2>1. nabort' = aborted' + 0 /\ ds' = ds /\ pc' = "tracking" /\ ~ds.made /\ ~ds.aborted
    BY <1>1, <1>4 DEF TrackingInv, Types
  <2> QED BY <2>1 DEF Limit, Made, InEvent, InTrack
<1>25. ZeroStepsAreItsOwn'
  <2>1. SUFFICES ASSUME tracks'[i0].stretches = 1, tracks'[i0].steps > 0 PROVE FALSE
    BY <1>6 DEF ZeroStepsAreItsOwn
  <2>2. t.stretches = 0 /\ t.steps # 0
    BY <1>0, <1>5, <1>9, <2>1
  <2> QED BY <1>0, <1>5, <1>9, <1>12, <2>2 DEF Histories
<1>26. EventKept'
  BY <1>1, <1>4, NotMade
<1> QED BY <1>15, <1>16, <1>17, <1>18, <1>20, <1>21, <1>22, <1>23, <1>24, <1>25, <1>26 DEF TrackingInv

\* The tracks and what is in hand after a step, and the sum of deposits.
StepOn(s, i, m, go, x) ==
  [s EXCEPT ![i].steps = m, ![i].zeros = IF go THEN @ + 1 ELSE 0,
            ![i].energyLoss = @ + x, ![i].centroid = @ + x]
StepInHand(e, status, traj, secondaries) ==
  [e EXCEPT !.status = status, !.traj = traj, !.secondaries = secondaries]
DepositIn(e, x) == [e EXCEPT !.deposited = @ + x]

\* The tracks d are s after step m of track i, with a deposit of x.
HasStepped(d, s, i, m, go, x) ==
  /\ d \in Seq(TrackRecord) /\ Len(d) = Len(s)
  /\ \A j \in 1..Len(s) : j # i => d[j] = s[j]
  /\ d[i].steps = m /\ d[i].zeros = IF go THEN s[i].zeros + 1 ELSE 0
  /\ d[i].centroid = s[i].centroid + x
  /\ d[i].kind = s[i].kind /\ d[i].creator = s[i].creator /\ d[i].done = s[i].done
  /\ d[i].stretches = s[i].stretches

\* A step changes steps, zero steps and energies of the track in hand.
LEMMA SteppedOn ==
  ASSUME NEW s \in Seq(TrackRecord), NEW i \in 1..Len(s), NEW m \in Nat, NEW go \in BOOLEAN,
         NEW x \in Nat
  PROVE  HasStepped(StepOn(s, i, m, go, x), s, i, m, go, x)
<1> DEFINE e == s[i]
           z == IF go THEN e.zeros + 1 ELSE 0
           d == StepOn(s, i, m, go, x)
           f == [[[[e EXCEPT !.steps = m] EXCEPT !.zeros = z] EXCEPT !.energyLoss = e.energyLoss + x]
                 EXCEPT !.centroid = e.centroid + x]
<1>1. e \in TrackRecord
  OBVIOUS
<1>2. z \in Nat /\ e.energyLoss + x \in Nat /\ e.centroid + x \in Nat
  <2>1. e.zeros \in Nat /\ e.energyLoss \in Nat /\ e.centroid \in Nat
    BY <1>1 DEF TrackRecord
  <2> QED BY <2>1
<1>3. \A r \in TrackRecord, y \in Nat :
        /\ [r EXCEPT !.steps = y] \in TrackRecord /\ [r EXCEPT !.zeros = y] \in TrackRecord
        /\ [r EXCEPT !.energyLoss = y] \in TrackRecord /\ [r EXCEPT !.centroid = y] \in TrackRecord
  <2>1. \A r \in TrackRecord, y \in Nat : [r EXCEPT !.steps = y] \in TrackRecord
    BY DEF TrackRecord
  <2>2. \A r \in TrackRecord, y \in Nat : [r EXCEPT !.zeros = y] \in TrackRecord
    BY DEF TrackRecord
  <2>3. \A r \in TrackRecord, y \in Nat : [r EXCEPT !.energyLoss = y] \in TrackRecord
    BY DEF TrackRecord
  <2>4. \A r \in TrackRecord, y \in Nat : [r EXCEPT !.centroid = y] \in TrackRecord
    BY DEF TrackRecord
  <2> QED BY <2>1, <2>2, <2>3, <2>4
<1>4. f \in TrackRecord
  <2> DEFINE f1 == [e EXCEPT !.steps = m]
             f2 == [f1 EXCEPT !.zeros = z]
             f3 == [f2 EXCEPT !.energyLoss = e.energyLoss + x]
  <2>1. f1 \in TrackRecord
    BY <1>1, <1>3
  <2> HIDE DEF f1
  <2>2. f2 \in TrackRecord
    BY <2>1, <1>2, <1>3
  <2> HIDE DEF f2
  <2>3. f3 \in TrackRecord
    BY <2>2, <1>2, <1>3
  <2> HIDE DEF f3
  <2>4. [f3 EXCEPT !.centroid = e.centroid + x] \in TrackRecord
    BY <2>3, <1>2, <1>3
  <2> QED BY <2>4 DEF f1, f2, f3
<1>5. d = [s EXCEPT ![i] = f]
  BY DEF StepOn, TrackRecord
<1>6. /\ f.steps = m /\ f.zeros = z /\ f.centroid = e.centroid + x
      /\ f.kind = e.kind /\ f.creator = e.creator /\ f.done = e.done /\ f.stretches = e.stretches
  BY <1>1 DEF TrackRecord
<1> HIDE DEF d, f
<1>7. d \in Seq(TrackRecord) /\ Len(d) = Len(s) /\ d[i] = f /\ \A j \in 1..Len(s) : j # i => d[j] = s[j]
  BY <1>4, <1>5
<1> QED BY <1>6, <1>7 DEF d, HasStepped

\* What is in hand after a step.
LEMMA SteppedInHand ==
  ASSUME NEW e \in CurRecord, NEW status \in {"alive", "suspend", "dead"}, NEW traj \in Seq(Nat),
         NEW secondaries \in Seq(Creators)
  PROVE  LET f == StepInHand(e, status, traj, secondaries) IN
         /\ f \in CurRecord /\ f.id = e.id /\ f.previous = e.previous
         /\ f.status = status /\ f.traj = traj /\ f.secondaries = secondaries
BY DEF CurRecord, StepInHand

\* Only the sum of deposits changes by a deposit.
LEMMA DepositedIn ==
  ASSUME NEW e \in InfoRecord, NEW x \in Nat
  PROVE  LET f == DepositIn(e, x) IN
         /\ f \in InfoRecord /\ f.deposited = e.deposited + x /\ f.centroid = e.centroid
         /\ f.count = e.count
BY DEF InfoRecord, DepositIn

\* AppendStep puts the next point behind those of the stretch, or starts it.
LEMMA AppendStepExtends ==
  ASSUME NEW a \in Nat, NEW n \in Nat, a < n
  PROVE  /\ AppendStep(IF a < n - 1 THEN Points(a, n - 1) ELSE NoTraj, n) = Points(a, n)
         /\ Points(a, n) \in Seq(Nat)
<1>1. Points(a, n) \in Seq(Nat)
  <2>1. \A k \in 1..n - a + 1 : a + k - 1 \in Nat
    OBVIOUS
  <2>2. n - a + 1 \in Nat
    OBVIOUS
  <2> QED BY <2>1, <2>2 DEF Points
<1>2. CASE a < n - 1
  <2> DEFINE s == Points(a, n - 1)
             u == Append(s, n)
             l == n - a
  <2>1. l \in Nat /\ l > 1 /\ l + 1 = n - a + 1 /\ n - 1 - a + 1 = l
    BY <1>2
  <2>2. s = [k \in 1..l |-> a + k - 1]
    BY <2>1 DEF Points
  <2>3. Points(a, n) = [k \in 1..l + 1 |-> a + k - 1]
    BY <2>1 DEF Points
  <2>4. \A k \in 1..l : a + k - 1 \in Nat
    OBVIOUS
  <2>5. s \in Seq(Nat) /\ Len(s) = l
    <3> HIDE DEF s, l
    <3> QED BY <2>1, <2>2, <2>4
  <2>6. s # NoTraj
    <3> HIDE DEF s, l
    <3> QED BY <2>1, <2>5 DEF NoTraj
  <2>7. u \in Seq(Nat) /\ Len(u) = l + 1 /\ u[l + 1] = n /\ \A k \in 1..l : u[k] = s[k]
    <3> HIDE DEF s, l
    <3> QED BY <2>5
  <2>8. \A k \in 1..l + 1 : u[k] = a + k - 1
    <3>1. a + (l + 1) - 1 = n
      OBVIOUS
    <3>2. \A k \in 1..l : s[k] = a + k - 1
      BY <2>2
    <3>3. \A k \in 1..l + 1 : k = l + 1 \/ k \in 1..l
      BY <2>1
    <3> HIDE DEF s, l, u
    <3> QED BY <2>7, <3>1, <3>2, <3>3
  <2>9. u = Points(a, n)
    <3> HIDE DEF u, s, l
    <3>1. u = [k \in 1..l + 1 |-> u[k]]
      BY <2>7
    <3> QED BY <2>3, <2>8, <3>1
  <2> QED BY <1>1, <1>2, <2>6, <2>9 DEF AppendStep
<1>3. CASE ~(a < n - 1)
  <2>1. a = n - 1
    BY <1>3
  <2>2. Points(a, n) = [k \in 1..2 |-> n - 1 + k - 1]
    BY <2>1 DEF Points
  <2>3. <<n - 1, n>> = [k \in 1..2 |-> n - 1 + k - 1]
    OBVIOUS
  <2> QED BY <1>1, <1>3, <2>2, <2>3 DEF AppendStep, NoTraj
<1> QED BY <1>2, <1>3

\* A hit is counted in the collection where it was seen.
LEMMA HitCountsStep ==
  ASSUME HitCounts, hits \in Seq(HitRecord), seen \in Seq(Online \X Times),
         NEW p \in Online, NEW t \in Times,
         hits' = DetectPhoton(hits, p, t), seen' = Append(seen, <<p, t>>)
  PROVE  HitCounts' /\ hits' \in Seq(HitRecord) /\ seen' \in Seq(Online \X Times)
<1>0. PICK n, m : n = Len(hits) /\ m = Len(seen)
  OBVIOUS
<1>1. /\ hits' \in Seq(HitRecord) /\ NumPE(hits') = NumPE(hits) + 1
      /\ Len(hits') \in Nat /\ Len(hits') >= n /\ n \in Nat
      /\ \A i \in 1..n : hits'[i].pmt = hits[i].pmt
      /\ \A i \in 1..n : hits'[i].times = IF hits[i].pmt = p THEN Append(hits[i].times, t) ELSE hits[i].times
      /\ \A i \in 1..Len(hits') : i \notin 1..n =>
           hits'[i] = [pmt |-> p, times |-> <<t>>] /\ \A j \in 1..n : hits[j].pmt # p
      /\ \A i, j \in 1..Len(hits') : i # j => hits'[i].pmt # hits'[j].pmt
      /\ \E i \in 1..Len(hits') : hits'[i].pmt = p
  <2>1. \A i, j \in 1..Len(hits) : i # j => hits[i].pmt # hits[j].pmt
    BY DEF HitCounts
  <2>2. HasOneMore(hits', hits, p, t)
    BY <2>1, DetectPhotonAdds
  <2>3. Len(hits') \in Nat /\ Len(hits) \in Nat
    BY <2>2 DEF HasOneMore
  <2> QED BY <1>0, <2>2, <2>3 DEF HasOneMore
<1>2. /\ seen' \in Seq(Online \X Times) /\ m \in Nat /\ Len(seen') = m + 1 /\ seen'[m + 1] = <<p, t>>
      /\ \A j \in 1..m : seen'[j] = seen[j]
  BY <1>0
<1>3. NumPE(hits') = Len(seen')
  BY <1>0, <1>1, <1>2 DEF HitCounts
<1>4. \A j \in 1..Len(seen') : \E i \in 1..Len(hits') : hits'[i].pmt = seen'[j][1]
  <2>1. ASSUME NEW j \in 1..m PROVE \E i \in 1..Len(hits') : hits'[i].pmt = seen'[j][1]
    <3>1. PICK i \in 1..n : hits[i].pmt = seen[j][1]
      BY <1>0 DEF HitCounts
    <3>2. i \in 1..Len(hits') /\ hits'[i].pmt = seen'[j][1]
      BY <1>1, <1>2, <3>1
    <3> QED BY <3>2
  <2>2. \E i \in 1..Len(hits') : hits'[i].pmt = seen'[m + 1][1]
    BY <1>1, <1>2
  <2>3. \A j \in 1..Len(seen') : j \in 1..m \/ j = m + 1
    BY <1>2
  <2> QED BY <2>1, <2>2, <2>3
<1>5. ASSUME NEW i \in 1..Len(hits'), NEW x \in Times
      PROVE  Count(hits'[i].times, x) = Count(seen', <<hits'[i].pmt, x>>)
  <2>0. PICK q : q = hits'[i].pmt
    OBVIOUS
  <2>1. \A y : Count(seen', y) = IF <<p, t>> = y THEN Count(seen, y) + 1 ELSE Count(seen, y)
    BY CountOfAppend
  <2>2. CASE i \in 1..n
    <3>1. q = hits[i].pmt /\ Count(hits[i].times, x) = Count(seen, <<q, x>>) /\ hits[i].times \in Seq(Times)
      <4>1. hits[i] \in HitRecord
        BY <1>0, <2>2
      <4>2. \A e \in HitRecord : e.times \in Seq(Times)
        BY DEF HitRecord
      <4> QED BY <1>0, <1>1, <2>0, <2>2, <4>1, <4>2 DEF HitCounts
    <3>2. CASE q = p
      <4>1. hits'[i].times = Append(hits[i].times, t)
        BY <1>1, <2>2, <3>1, <3>2
      <4>2. Count(hits'[i].times, x) = IF t = x THEN Count(hits[i].times, x) + 1 ELSE Count(hits[i].times, x)
        BY <3>1, <4>1, CountOfAppend
      <4>3. <<p, t>> = <<q, x>> <=> t = x
        BY <3>2
      <4> QED BY <2>0, <2>1, <3>1, <4>2, <4>3
    <3>3. CASE q # p
      <4>1. hits'[i].times = hits[i].times
        BY <1>1, <2>2, <3>1, <3>3
      <4>2. <<p, t>> # <<q, x>>
        BY <3>3
      <4> QED BY <2>0, <2>1, <3>1, <4>1, <4>2
    <3> QED BY <3>2, <3>3
  <2>3. CASE i \notin 1..n
    <3>1. q = p /\ hits'[i].times = <<t>> /\ \A j \in 1..n : hits[j].pmt # p
      <4>1. hits'[i] = [pmt |-> p, times |-> <<t>>] /\ \A j \in 1..n : hits[j].pmt # p
        BY <1>1, <2>3
      <4> QED BY <2>0, <4>1
    <3>2. \A j \in 1..m : seen[j] # <<p, x>>
      <4>1. ASSUME NEW j \in 1..m PROVE seen[j][1] # p
        <5>1. PICK k \in 1..n : hits[k].pmt = seen[j][1]
          BY <1>0 DEF HitCounts
        <5> QED BY <3>1, <5>1
      <4>2. (<<p, x>>)[1] = p
        OBVIOUS
      <4> QED BY <4>1, <4>2
    <3>3. Count(seen, <<p, x>>) = 0
      <4>1. {j \in 1..Len(seen) : seen[j] = <<p, x>>} = {}
        BY <1>0, <3>2
      <4> QED BY <4>1, FS_EmptySet DEF Count
    <3>4. Count(<<>>, x) = 0
      <4>1. {j \in 1..Len(<<>>) : (<<>>)[j] = x} = {}
        OBVIOUS
      <4> QED BY <4>1, FS_EmptySet DEF Count
    <3>6. Count(<<t>>, x) = IF t = x THEN 1 ELSE 0
      <4>1. PICK s : s = <<>>
        OBVIOUS
      <4>2. s \in Seq(Times)
        BY <4>1
      <4>3. Count(Append(s, t), x) = IF t = x THEN Count(s, x) + 1 ELSE Count(s, x)
        BY <4>2, CountOfAppend
      <4>4. Append(s, t) = <<t>> /\ Count(s, x) = 0
        BY <3>4, <4>1
      <4> QED BY <4>3, <4>4
    <3>7. <<p, t>> = <<q, x>> <=> t = x
      BY <3>1
    <3>8. Count(seen', <<q, x>>) = IF t = x THEN 1 ELSE 0
      <4>1. Count(seen, <<q, x>>) = 0
        BY <3>1, <3>3
      <4>2. Count(seen', <<q, x>>) = IF <<p, t>> = <<q, x>> THEN 0 + 1 ELSE 0
        BY <2>1, <4>1
      <4> QED BY <3>7, <4>2
    <3> QED BY <2>0, <3>1, <3>6, <3>8
  <2> QED BY <2>2, <2>3
<1>6. (\A i \in 1..Len(hits), x \in Times : Count(hits[i].times, x) = Count(seen, <<hits[i].pmt, x>>))'
  BY <1>5
<1> QED BY <1>1, <1>2, <1>3, <1>4, <1>6 DEF HitCounts

\* What the physics can do is of the kinds that the callbacks know.
LEMMA ChoiceIsTyped ==
  ASSUME NEW k \in Kinds, NEW c \in StepChoice(k)
  PROVE  /\ c.zero \in BOOLEAN /\ c.status \in {"alive", "suspend", "dead"}
         /\ c.creator \in {"none"} \cup Creators
         /\ c.pmt \in Online => c.time \in Times
<1>1. Processes \subseteq Creators /\ NoPMT \notin Online
  BY TrackingAssumption DEF Creators
<1> DEFINE A == [zero : BOOLEAN, status : {"alive", "dead"}, pmt : {NoPMT}, time : {Min(Times)},
                 creator : {"none"} \cup IF k = "e-" THEN Processes ELSE {"Reemission"}]
           B == [zero : {FALSE}, status : {"suspend"}, pmt : {NoPMT}, time : {Min(Times)}, creator : {"none"}]
           C == [zero : {FALSE}, status : {"alive", "dead"}, pmt : Online, time : Times, creator : {"none"}]
           D == [zero : {FALSE}, status : {"alive", "dead"}, pmt : PMTs \ Online, time : {Min(Times)},
                 creator : {"none"}]
<1>2. c \in A \/ c \in B \/ c \in C \/ c \in D
  BY DEF StepChoice
<1>3. CASE c \in A
  <2>1. c.zero \in BOOLEAN /\ c.status \in {"alive", "dead"} /\ c.pmt = NoPMT
        /\ c.creator \in {"none"} \cup IF k = "e-" THEN Processes ELSE {"Reemission"}
    BY <1>3
  <2> QED BY <1>1, <2>1 DEF Creators
<1>4. CASE c \in B
  <2>1. c.zero = FALSE /\ c.status = "suspend" /\ c.pmt = NoPMT /\ c.creator = "none"
    BY <1>4
  <2> QED BY <1>1, <2>1
<1>5. CASE c \in C
  <2>1. c.zero = FALSE /\ c.status \in {"alive", "dead"} /\ c.time \in Times /\ c.creator = "none"
    BY <1>5
  <2> QED BY <2>1
<1>6. CASE c \in D
  <2>1. c.zero = FALSE /\ c.status \in {"alive", "dead"} /\ c.pmt \notin Online /\ c.creator = "none"
    BY <1>6
  <2> QED BY <2>1
<1> QED BY <1>2, <1>3, <1>4, <1>5, <1>6

\* A step adds a point to the trajectory in hand, a deposit to the sums of
\* its track and of the event, and a hit to the collection.
LEMMA UserSteppingInv ==
  ASSUME TrackingInv, NEW c \in StepChoice(tracks[cur.id].kind), UserSteppingAction(c)
  PROVE  TrackingInv'
<1>0. PICK i0, N, t, n, k, x, row :
        /\ i0 = cur.id /\ N = Len(tracks) /\ t = tracks[i0] /\ n = t.steps + 1
        /\ k = StatusAfter(c, n) /\ x = Deposit(c) /\ row = ZeroRow(c, n)
  OBVIOUS
<1> DEFINE go == c.zero /\ n > 1 /\ k = "alive"
           traj == IF storeTrajectory THEN AppendStep(cur.traj, n) ELSE cur.traj
           secondaries == IF c.creator = "none" THEN cur.secondaries ELSE Append(cur.secondaries, c.creator)
<1>1. /\ pc = "tracking" /\ cur.status = "alive"
      /\ pc' = IF k = "alive" THEN "tracking" ELSE "post"
      /\ zeroSteps' = IF row >= ZeroStepLimit THEN 0 ELSE row
      /\ cur' = StepInHand(cur, k, traj, secondaries)
      /\ tracks' = StepOn(tracks, i0, n, go, x)
      /\ info' = DepositIn(info, x)
      /\ IF c.pmt \in Online
         THEN hits' = DetectPhoton(hits, c.pmt, c.time) /\ seen' = Append(seen, <<c.pmt, c.time>>)
         ELSE hits' = hits /\ seen' = seen
      /\ UNCHANGED <<storeTrajectory, asked, storeSet, discardSet, commands, initialStore, maxpe,
                     nabort, aborted, stack, trajs, ds, events>>
  BY <1>0 DEF UserSteppingAction, settings, runVars, StepInHand, StepOn, DepositIn
<1>2. /\ tracks \in Seq(TrackRecord) /\ N \in Nat /\ i0 \in 1..N /\ t \in TrackRecord
      /\ cur \in CurRecord /\ info \in InfoRecord
  <2>1. tracks \in Seq(TrackRecord) /\ i0 \in 1..N /\ cur \in CurRecord /\ info \in InfoRecord
    BY <1>0, <1>1 DEF TrackingInv, Types, Places, InTrack
  <2> QED BY <1>0, <2>1
<1>3. /\ t.kind \in Kinds /\ t.steps \in Nat /\ t.zeros \in Nat /\ t.stretches \in Nat
      /\ t.centroid \in Nat /\ n \in Nat /\ n > 0
  <2>1. t.kind \in Kinds /\ t.steps \in Nat /\ t.zeros \in Nat /\ t.stretches \in Nat /\ t.centroid \in Nat
    BY <1>2 DEF TrackRecord
  <2> QED BY <1>0, <2>1
<1>4. /\ c.zero \in BOOLEAN /\ c.status \in {"alive", "suspend", "dead"}
      /\ c.creator \in {"none"} \cup Creators /\ (c.pmt \in Online => c.time \in Times)
  BY <1>0, <1>3, ChoiceIsTyped
<1>5. zeroSteps \in Nat /\ row \in Nat /\ x \in Nat /\ k \in {"alive", "suspend", "dead"}
  <2>1. zeroSteps \in Nat
    BY BoundsAreNumbers DEF TrackingInv, Types
  <2> QED BY <1>0, <1>4, <2>1 DEF ZeroRow, Deposit, StatusAfter
<1>6. n <= MaxStepNumber + 1 /\ (k # "dead" => n <= MaxStepNumber /\ row < ZeroStepLimit)
  <2>1. t.steps <= MaxStepNumber
    BY <1>0, <1>1, <1>2 DEF TrackingInv, Histories
  <2>2. k # "dead" => ~(row >= ZeroStepLimit) /\ ~(n > MaxStepNumber)
    BY <1>0 DEF StatusAfter, Killed
  <2> QED BY <1>0, <1>3, <1>5, <2>1, <2>2, BoundsAreNumbers
<1>7. go \in BOOLEAN
  BY <1>4
<1>8. /\ tracks' \in Seq(TrackRecord) /\ Len(tracks') = N
      /\ \A j \in 1..N : j # i0 => tracks'[j] = tracks[j]
      /\ tracks'[i0].steps = n /\ tracks'[i0].zeros = IF go THEN t.zeros + 1 ELSE 0
      /\ tracks'[i0].centroid = t.centroid + x
      /\ tracks'[i0].kind = t.kind /\ tracks'[i0].creator = t.creator /\ tracks'[i0].done = t.done
      /\ tracks'[i0].stretches = t.stretches
  <2> HIDE DEF go
  <2>1. HasStepped(StepOn(tracks, i0, n, go, x), tracks, i0, n, go, x)
    BY <1>0, <1>2, <1>3, <1>5, <1>7, SteppedOn
  <2> QED BY <1>0, <1>1, <2>1 DEF HasStepped
<1>9. PICK a \in 0..t.steps : ThisStretch(a)
  BY <1>0, <1>1 DEF TrackingInv, Limit, Paths, InTrack, InEvent
<1>10. ~ds.aborted /\ ds.made = FALSE /\ (storeTrajectory <=> Wanted(i0))
  <2>1. ds.made \in BOOLEAN
    BY DEF TrackingInv, Types, EventRecord
  <2> QED BY <1>0, <1>1, <2>1 DEF TrackingInv, Limit, Flags, InTrack, InEvent
<1>11. /\ traj = IF Wanted(i0) THEN Points(a, n) ELSE NoTraj
       /\ traj \in Seq(Nat)
  <2>1. cur.traj = IF Wanted(i0) /\ a < t.steps THEN Points(a, t.steps) ELSE NoTraj
    BY <1>0, <1>9 DEF ThisStretch
  <2>2. a \in Nat /\ a < n /\ n - 1 = t.steps
    BY <1>0, <1>3
  <2>3. /\ AppendStep(IF a < n - 1 THEN Points(a, n - 1) ELSE NoTraj, n) = Points(a, n)
        /\ Points(a, n) \in Seq(Nat)
    BY <1>3, <2>2, AppendStepExtends
  <2>4. NoTraj \in Seq(Nat)
    BY DEF NoTraj
  <2> QED BY <1>10, <2>1, <2>2, <2>3, <2>4
<1>12. /\ cur' \in CurRecord /\ cur'.id = i0 /\ cur'.previous = cur.previous /\ cur'.status = k
       /\ cur'.traj = traj
  <2>1. secondaries \in Seq(Creators)
    <3>1. cur.secondaries \in Seq(Creators)
      BY <1>2 DEF CurRecord
    <3> QED BY <1>4, <3>1
  <2> HIDE DEF traj, secondaries
  <2> QED BY <1>0, <1>1, <1>2, <1>5, <1>11, <2>1, SteppedInHand
<1>13. info' \in InfoRecord /\ info'.deposited = info.deposited + x /\ info'.centroid = info.centroid
       /\ info'.count = info.count
  BY <1>1, <1>2, <1>5, DepositedIn
<1> HIDE DEF traj, secondaries
<1>14. HitCounts' /\ hits' \in Seq(HitRecord) /\ seen' \in Seq(Online \X Times)
  <2>1. HitCounts /\ hits \in Seq(HitRecord) /\ seen \in Seq(Online \X Times)
    BY DEF TrackingInv, Types
  <2>2. CASE c.pmt \in Online
    BY <1>1, <1>4, <2>1, <2>2, HitCountsStep
  <2>3. CASE c.pmt \notin Online
    BY <1>1, <2>1, <2>3 DEF HitCounts
  <2> QED BY <2>2, <2>3
<1>15. Types'
  <2>1. zeroSteps' \in 0..ZeroStepLimit - 1
    BY <1>1, <1>5, BoundsAreNumbers
  <2> QED BY <1>1, <1>5, <1>8, <1>12, <1>13, <1>14, <2>1 DEF TrackingInv, Types
<1>16. \A i : (OnStack(i)' <=> OnStack(i)) /\ (Finished(i)' <=> Finished(i))
  BY <1>0, <1>1, <1>12 DEF OnStack, Finished
<1>17. \A i \in 1..N : tracks'[i].kind = tracks[i].kind /\ (Wanted(i)' <=> Wanted(i))
  <2>1. \A i \in 1..N : tracks'[i].kind = tracks[i].kind
    BY <1>0, <1>8
  <2> QED BY <1>1, <2>1 DEF Wanted
<1>18. ~OnStack(i0)
  BY <1>0 DEF TrackingInv, Places, OnStack
<1>19. Places'
  <2>1. stack' = stack /\ cur'.id = cur.id /\ cur.id \in 1..N /\ Len(tracks') = N /\ N = Len(tracks)
    BY <1>0, <1>1, <1>2, <1>8, <1>12
  <2>2. /\ \A j \in 1..Len(stack) : stack[j].id \in 1..N /\ stack[j].id # cur.id
        /\ \A j, l \in 1..Len(stack) : j # l => stack[j].id # stack[l].id
    BY <2>1 DEF TrackingInv, Places
  <2>3. /\ pc' = "tracking" => cur'.status = "alive"
        /\ pc' = "post" => cur'.status \in {"suspend", "dead"}
        /\ pc' \in {"tracking", "post"}
    BY <1>1, <1>5, <1>12
  <2> QED BY <2>1, <2>2, <2>3 DEF Places, InTrack, InEvent
<1>20. Histories'
  <2>1. ASSUME NEW i \in 1..N
        PROVE  LET u == tracks'[i] IN
               /\ u.kind = IF u.creator \in Photonic THEN "opticalphoton" ELSE "e-"
               /\ u.done <=> u.stretches > 0
               /\ ~u.done => u.steps = 0 /\ u.centroid = 0
               /\ ~u.done => OnStack(i)'
               /\ u.steps \in 0..MaxStepNumber + 1
               /\ OnStack(i)' \/ (i = i0 /\ k # "dead") => u.steps <= MaxStepNumber
    <3>1. LET u == tracks[i] IN
          /\ u.kind = IF u.creator \in Photonic THEN "opticalphoton" ELSE "e-"
          /\ u.done <=> u.stretches > 0
          /\ ~u.done => u.steps = 0 /\ u.centroid = 0
          /\ ~u.done => OnStack(i)
          /\ u.steps \in 0..MaxStepNumber + 1
          /\ OnStack(i) => u.steps <= MaxStepNumber
      BY <1>0, <1>1, <1>10 DEF TrackingInv, Histories, InEvent
    <3>2. CASE i = i0
      <4>1. n \in 0..MaxStepNumber + 1 /\ t.done /\ ~OnStack(i)' /\ t = tracks[i]
        BY <1>0, <1>3, <1>6, <1>16, <1>18, <3>1, <3>2, BoundsAreNumbers
      <4> QED BY <1>6, <1>8, <3>1, <3>2, <4>1
    <3>3. CASE i # i0
      <4>1. tracks'[i] = tracks[i] /\ (OnStack(i)' <=> OnStack(i))
        BY <1>8, <1>16, <3>3
      <4> QED BY <3>1, <3>3, <4>1
    <3> QED BY <3>2, <3>3
  <2>2. cur'.id = i0 /\ cur'.status = k
    BY <1>12
  <2> QED BY <1>8, <2>1, <2>2 DEF Histories
<1>21. Flags'
  <2>1. Wanted(cur.id)' <=> Wanted(i0)
    <3>1. Wanted(cur.id)' <=> Wanted(i0)'
      BY <1>12 DEF Wanted
    <3> QED BY <1>2, <1>17, <3>1
  <2> QED BY <1>1, <1>10, <2>1 DEF TrackingInv, Flags, InTrack
<1>22. \A i \in 1..N : \A m : (IF Wanted(i)' /\ m > 0 THEN Points(0, m) ELSE NoTraj) = Stored(i, m)
  BY <1>17 DEF Stored
<1>23. Paths'
  <2>1. /\ \A j \in 1..Len(stack) : stack[j].traj = Stored(stack[j].id, tracks[stack[j].id].steps)
        /\ \A j \in 1..Len(trajs) :
             LET i == trajs[j].id IN
             /\ i \in 1..N /\ Finished(i) /\ Wanted(i)
             /\ trajs[j].points = Points(0, tracks[i].steps)
        /\ \A i \in 1..N : Finished(i) /\ Wanted(i) => \E j \in 1..Len(trajs) : trajs[j].id = i
        /\ \A j, l \in 1..Len(trajs) : j # l => trajs[j].id # trajs[l].id
    BY <1>0, <1>1, <1>10 DEF TrackingInv, Paths, InEvent
  <2>2. (\A j \in 1..Len(stack) : stack[j].traj = Stored(stack[j].id, tracks[stack[j].id].steps))'
    <3>1. ASSUME NEW j \in 1..Len(stack), NEW i, i = stack[j].id
          PROVE  (stack[j].id = i /\ stack[j].traj = Stored(i, tracks[i].steps))'
      <4>1. i \in 1..N /\ i # i0
        BY <1>0, <3>1 DEF TrackingInv, Places
      <4>2. tracks'[i].steps = tracks[i].steps
        BY <1>8, <4>1
      <4>3. stack[j].traj = Stored(i, tracks[i].steps)
        BY <2>1, <3>1
      <4> QED BY <1>1, <1>22, <3>1, <4>1, <4>2, <4>3 DEF Stored
    <3> QED BY <1>1, <3>1
  <2>3. ThisStretch(a)'
    <3>1. cur.previous' = Stored(cur.id, a)'
      <4>1. cur.previous = Stored(i0, a)
        BY <1>0, <1>9 DEF ThisStretch
      <4>2. Stored(i0, a)' = Stored(i0, a)
        BY <1>2, <1>22 DEF Stored
      <4>3. Stored(cur.id, a)' = Stored(i0, a)'
        BY <1>12 DEF Stored, Wanted
      <4> QED BY <1>12, <4>1, <4>2, <4>3
    <3>2. cur'.traj = IF Wanted(cur.id)' THEN Points(a, n) ELSE NoTraj
      <4>1. Wanted(cur.id)' <=> Wanted(i0)'
        BY <1>12 DEF Wanted
      <4> QED BY <1>2, <1>11, <1>12, <1>17, <4>1
    <3>3. tracks'[cur'.id].steps = n /\ a < n
      BY <1>0, <1>3, <1>8, <1>12
    <3> QED BY <3>1, <3>2, <3>3 DEF ThisStretch
  <2>4. a \in 0..tracks'[cur'.id].steps
    BY <1>0, <1>3, <1>8, <1>12
  <2>5. (\A j \in 1..Len(trajs) :
           LET i == trajs[j].id IN
           /\ i \in 1..N /\ Finished(i) /\ Wanted(i)
           /\ trajs[j].points = Points(0, tracks[i].steps))'
    <3>1. ASSUME NEW j \in 1..Len(trajs), NEW i, i = trajs[j].id
          PROVE  i \in 1..N /\ Finished(i)' /\ Wanted(i)' /\ trajs[j].points = Points(0, tracks'[i].steps)
      <4>1. i \in 1..N /\ Finished(i) /\ Wanted(i) /\ trajs[j].points = Points(0, tracks[i].steps)
        BY <2>1, <3>1
      <4>2. i # i0
        BY <1>0, <4>1 DEF Finished
      <4> QED BY <1>8, <1>16, <1>17, <4>1, <4>2
    <3>2. trajs' = trajs
      BY <1>1
    <3> QED BY <3>1, <3>2
  <2>6. \A i \in 1..N : (Finished(i) /\ Wanted(i))' => \E j \in 1..Len(trajs') : trajs'[j].id = i
    BY <1>1, <1>16, <1>17, <2>1
  <2>7. trajs' = trajs
    BY <1>1
  <2> QED BY <1>8, <2>1, <2>2, <2>3, <2>4, <2>5, <2>6, <2>7 DEF Paths
<1>24. Counts'
  <2>1. \A i \in 1..N : tracks'[i].creator = tracks[i].creator /\ tracks'[i].done = tracks[i].done
    BY <1>0, <1>8
  <2>2. ASSUME NEW d \in Photonic
        PROVE  info'.count[d] = Cardinality({i \in 1..N : tracks'[i].creator = d /\ tracks'[i].done})
    <3>1. info.count[d] = Cardinality({i \in 1..N : tracks[i].creator = d /\ tracks[i].done})
      BY <1>0 DEF TrackingInv, Counts
    <3>2. {i \in 1..N : tracks'[i].creator = d /\ tracks'[i].done}
            = {i \in 1..N : tracks[i].creator = d /\ tracks[i].done}
      BY <2>1
    <3> QED BY <1>13, <3>1, <3>2
  <2> QED BY <1>8, <2>2 DEF Counts
<1>25. Weights'
  <2>1. SUFFICES ASSUME \A i \in 1..N : tracks'[i].stretches <= 1
                 PROVE  info'.deposited = info'.centroid + tracks'[i0].centroid
    BY <1>1, <1>8, <1>12 DEF Weights, InTrack
  <2>2. \A i \in 1..N : tracks[i].stretches <= 1
    BY <1>0, <1>8, <2>1
  <2>3. info.deposited = info.centroid + t.centroid
    BY <1>0, <1>1, <1>10, <2>2 DEF TrackingInv, Weights, InEvent, InTrack
  <2>4. info.deposited \in Nat /\ info.centroid \in Nat
    BY <1>2 DEF InfoRecord
  <2> QED BY <1>3, <1>5, <1>8, <1>13, <2>3, <2>4
<1>26. Limit' /\ Made'
  <2>1. ds' = ds /\ nabort' = nabort /\ aborted' = aborted /\ pc' \in {"tracking", "post"}
    BY <1>1
  <2>2. nabort = aborted + 0
    BY <1>1, <1>10 DEF TrackingInv, Limit, InEvent
  <2> QED BY <1>10, <2>1, <2>2 DEF Limit, Made, InEvent, InTrack
<1>27. ZeroStepsAreItsOwn'
  <2>1. SUFFICES ASSUME pc' = "tracking", tracks'[i0].stretches = 1 PROVE zeroSteps' = tracks'[i0].zeros
    BY <1>12 DEF ZeroStepsAreItsOwn
  <2>2. k = "alive" /\ row < ZeroStepLimit /\ zeroSteps' = row /\ t.stretches = 1
    BY <1>1, <1>5, <1>6, <1>8, <2>1, BoundsAreNumbers
  <2>3. row = IF c.zero /\ n > 1 THEN zeroSteps + 1 ELSE 0
    BY <1>0 DEF ZeroRow
  <2>4. n > 1 => zeroSteps = t.zeros
    <3>1. n > 1 => t.steps > 0
      BY <1>0, <1>3
    <3> QED BY <1>0, <1>1, <2>2, <3>1 DEF TrackingInv, ZeroStepsAreItsOwn
  <2> QED BY <1>8, <2>2, <2>3, <2>4
<1>28. EventKept'
  BY <1>1, <1>10, NotMade
<1> QED BY <1>14, <1>15, <1>19, <1>20, <1>21, <1>23, <1>24, <1>25, <1>26, <1>27, <1>28 DEF TrackingInv

\* The sequence d over S has the n entries of s, then the m of u.
AreJoined(d, n, m, s, u, S) ==
  /\ d \in Seq(S) /\ n \in Nat /\ m \in Nat /\ Len(d) = n + m
  /\ \A k \in 1..n : d[k] = s[k]
  /\ \A k \in 1..m : d[n + k] = u[k]
  /\ \A k \in 1..n + m : k \in 1..n \/ \E l \in 1..m : k = n + l

\* The entries of two sequences, one behind the other.
LEMMA Concatenated ==
  ASSUME NEW S, NEW s \in Seq(S), NEW u \in Seq(S)
  PROVE  AreJoined(s \o u, Len(s), Len(u), s, u, S)
<1> DEFINE n == Len(s)
           m == Len(u)
<1>1. /\ n \in Nat /\ m \in Nat /\ s \o u \in Seq(S) /\ Len(s \o u) = n + m
      /\ \A k \in 1..n + m : (s \o u)[k] = IF k <= n THEN s[k] ELSE u[k - n]
  OBVIOUS
<1> HIDE DEF n, m
<1>2. \A k \in 1..n : (s \o u)[k] = s[k]
  BY <1>1
<1>3. \A k \in 1..m : (s \o u)[n + k] = u[k]
  BY <1>1
<1>4. \A k \in 1..n + m : k \in 1..n \/ \E l \in 1..m : k = n + l
  <2>1. ASSUME NEW k \in 1..n + m, k \notin 1..n PROVE \E l \in 1..m : k = n + l
    <3>1. k - n \in 1..m /\ k = n + (k - n)
      BY <1>1, <2>1
    <3> QED BY <3>1
  <2> QED BY <2>1
<1> QED BY <1>1, <1>2, <1>3, <1>4 DEF n, m, AreJoined

\* What MergeTrajectory makes of the first stretches and the next.
LEMMA MergeContinues ==
  ASSUME NEW a \in Nat, NEW n \in Nat, a < n
  PROVE  /\ MergeTrajectory(NoTraj, NoTraj) = NoTraj
         /\ MergeTrajectory(IF a > 0 THEN Points(0, a) ELSE NoTraj, Points(a, n)) = Points(0, n)
         /\ Points(0, n) \in Seq(Nat) /\ Points(0, n) # NoTraj
<1> DEFINE first == Points(0, a)
           second == Points(a, n)
           both == Points(0, n)
<1>1. /\ first = [k \in 1..a + 1 |-> k - 1] /\ second = [k \in 1..n - a + 1 |-> a + k - 1]
      /\ both = [k \in 1..n + 1 |-> k - 1]
  <2>1. a - 0 + 1 = a + 1 /\ n - 0 + 1 = n + 1
    OBVIOUS
  <2>2. \A k \in Int : 0 + k - 1 = k - 1
    OBVIOUS
  <2> QED BY <2>1, <2>2 DEF Points
<1>2. /\ first \in Seq(Nat) /\ Len(first) = a + 1 /\ \A k \in 1..a + 1 : first[k] = k - 1
      /\ second \in Seq(Nat) /\ Len(second) = n - a + 1 /\ \A k \in 1..n - a + 1 : second[k] = a + k - 1
      /\ both \in Seq(Nat) /\ Len(both) = n + 1 /\ \A k \in 1..n + 1 : both[k] = k - 1
  <2>1. /\ \A k \in 1..a + 1 : k - 1 \in Nat
        /\ \A k \in 1..n - a + 1 : a + k - 1 \in Nat
        /\ \A k \in 1..n + 1 : k - 1 \in Nat
        /\ a + 1 \in Nat /\ n - a + 1 \in Nat /\ n + 1 \in Nat
    OBVIOUS
  <2> HIDE DEF first, second, both
  <2> QED BY <1>1, <2>1
<1> HIDE DEF first, second, both
<1>3. first # NoTraj /\ second # NoTraj /\ both # NoTraj
  BY <1>2 DEF NoTraj
<1>4. MergeTrajectory(NoTraj, NoTraj) = NoTraj
  BY DEF MergeTrajectory
<1>5. CASE a = 0
  <2>1. second = both
    BY <1>1, <1>5
  <2> QED BY <1>2, <1>3, <1>4, <1>5, <2>1 DEF MergeTrajectory, both, second
<1>6. CASE a > 0
  <2> DEFINE tail == Tail(second)
             u == first \o tail
  <2>1. tail \in Seq(Nat) /\ Len(tail) = n - a /\ \A k \in 1..n - a : tail[k] = a + k
    <3>1. second # <<>>
      BY <1>3 DEF NoTraj
    <3>2. tail \in Seq(Nat) /\ Len(tail) = n - a /\ \A k \in 1..n - a : tail[k] = second[k + 1]
      BY <1>2, <3>1
    <3>3. \A k \in 1..n - a : k + 1 \in 1..n - a + 1 /\ a + (k + 1) - 1 = a + k
      OBVIOUS
    <3> QED BY <1>2, <3>2, <3>3
  <2> HIDE DEF tail
  <2>2. /\ u \in Seq(Nat) /\ Len(u) = n + 1
        /\ \A k \in 1..a + 1 : u[k] = first[k]
        /\ \A l \in 1..n - a : u[a + 1 + l] = tail[l]
        /\ \A k \in 1..n + 1 : k \in 1..a + 1 \/ \E l \in 1..n - a : k = a + 1 + l
    <3>1. a + 1 + (n - a) = n + 1
      OBVIOUS
    <3>2. first \in Seq(Nat) /\ tail \in Seq(Nat)
      BY <1>2, <2>1
    <3>3. AreJoined(u, Len(first), Len(tail), first, tail, Nat)
      BY <3>2, Concatenated
    <3>4. Len(first) = a + 1 /\ Len(tail) = n - a
      BY <1>2, <2>1
    <3> HIDE DEF u
    <3> QED BY <3>1, <3>3, <3>4 DEF AreJoined
  <2> HIDE DEF u
  <2>3. \A k \in 1..n + 1 : u[k] = k - 1
    <3>1. \A k \in 1..a + 1 : u[k] = k - 1
      BY <1>2, <2>2
    <3>2. ASSUME NEW l \in 1..n - a PROVE u[a + 1 + l] = (a + 1 + l) - 1
      <4>1. u[a + 1 + l] = tail[l] /\ tail[l] = a + l
        BY <2>1, <2>2
      <4> QED BY <4>1
    <3> QED BY <2>2, <3>1, <3>2
  <2>4. u = both
    <3>1. u = [k \in 1..n + 1 |-> u[k]]
      BY <2>2
    <3> QED BY <1>1, <2>3, <3>1
  <2> QED BY <1>2, <1>3, <1>4, <1>6, <2>4 DEF MergeTrajectory, both, second, first, u, tail
<1> QED BY <1>5, <1>6

\* The sums of an event after a track.
SumsAfter(e, energyLoss, centroid) == [e EXCEPT !.energyLoss = energyLoss, !.centroid = centroid]

\* A track changes the sums of energies, not the counts.
LEMMA SummedAfter ==
  ASSUME NEW e \in InfoRecord, NEW x \in Nat, NEW y \in Nat
  PROVE  LET f == SumsAfter(e, x, y) IN
         f \in InfoRecord /\ f.count = e.count /\ f.centroid = y /\ f.deposited = e.deposited
BY DEF InfoRecord, SumsAfter

\* A new track has no step and waits.
LEMMA NewTrackIsNew ==
  ASSUME NEW creator \in Creators
  PROVE  LET u == NewTrack(creator) IN
         /\ u \in TrackRecord /\ u.creator = creator
         /\ u.kind = IF creator \in Photonic THEN "opticalphoton" ELSE "e-"
         /\ u.steps = 0 /\ ~u.done /\ u.stretches = 0 /\ u.centroid = 0
BY DEF NewTrack, TrackRecord, Kinds

\* What a stretch leaves: its merged trajectory is the track's so far.
LEMMA MergedIsStored ==
  ASSUME TrackingInv, pc = "post"
  PROVE  /\ MergeTrajectory(cur.previous, cur.traj) = Stored(cur.id, tracks[cur.id].steps)
         /\ tracks[cur.id].steps \in Nat \ {0}
         /\ Stored(cur.id, tracks[cur.id].steps) \in Seq(Nat)
         /\ Stored(cur.id, tracks[cur.id].steps) # NoTraj <=> Wanted(cur.id)
<1>0. PICK i0, n : i0 = cur.id /\ n = tracks[i0].steps
  OBVIOUS
<1>1. n \in Nat
  <2>1. tracks[i0] \in TrackRecord
    BY <1>0 DEF TrackingInv, Types, Places, InTrack
  <2> QED BY <1>0, <2>1 DEF TrackRecord
<1>2. PICK a \in 0..n : ThisStretch(a)
  BY <1>0 DEF TrackingInv, Limit, Paths, InTrack, InEvent
<1>3. /\ a \in Nat /\ a < n /\ cur.previous = IF Wanted(i0) /\ a > 0 THEN Points(0, a) ELSE NoTraj
      /\ cur.traj = IF Wanted(i0) THEN Points(a, n) ELSE NoTraj
  BY <1>0, <1>2 DEF ThisStretch, Stored
<1>4. /\ MergeTrajectory(NoTraj, NoTraj) = NoTraj
      /\ MergeTrajectory(IF a > 0 THEN Points(0, a) ELSE NoTraj, Points(a, n)) = Points(0, n)
      /\ Points(0, n) \in Seq(Nat) /\ Points(0, n) # NoTraj
  BY <1>1, <1>3, MergeContinues
<1>5. n > 0 /\ n # 0 /\ NoTraj \in Seq(Nat)
  BY <1>1, <1>3 DEF NoTraj
<1>6. CASE Wanted(i0)
  <2>1. /\ cur.previous = IF a > 0 THEN Points(0, a) ELSE NoTraj
        /\ cur.traj = Points(a, n) /\ Stored(i0, n) = Points(0, n)
    BY <1>3, <1>5, <1>6 DEF Stored
  <2> QED BY <1>0, <1>1, <1>4, <1>5, <1>6, <2>1
<1>7. CASE ~Wanted(i0)
  <2>1. cur.previous = NoTraj /\ cur.traj = NoTraj /\ Stored(i0, n) = NoTraj
    BY <1>3, <1>7 DEF Stored
  <2> QED BY <1>0, <1>1, <1>4, <1>5, <1>7, <2>1
<1> QED BY <1>6, <1>7

\* What the callback after a stretch does, aborted or not.
LEMMA PostUserTrackingCommon ==
  ASSUME TrackingInv, PostUserTrackingAction,
         NEW merged, merged = MergeTrajectory(cur.previous, cur.traj)
  PROVE  /\ pc = "post" /\ pc' = "stack" /\ cur' = NoTrack /\ NoTrack.id = 0 /\ ~InTrack' /\ InEvent'
         /\ cur' \in CurRecord /\ cur.id \in 1..Len(tracks) /\ cur.status \in {"suspend", "dead"}
         /\ ~ds.aborted /\ ds.made = FALSE /\ nabort = aborted /\ nabort \in Nat
         /\ info' \in InfoRecord /\ info'.count = info.count /\ info'.deposited = info.deposited
         /\ info'.centroid = info.centroid + tracks[cur.id].centroid
         /\ (OverLimit' <=> OverLimit)
         /\ trajs' = (IF merged # NoTraj /\ (OverLimit \/ cur.status = "dead")
                      THEN Append(trajs, [id |-> cur.id, points |-> merged]) ELSE trajs)
         /\ trajs' \in Seq(TrajRecord)
         /\ Flags' /\ HitCounts' /\ ZeroStepsAreItsOwn'
         /\ UNCHANGED <<storeTrajectory, asked, storeSet, discardSet, commands, initialStore, maxpe,
                        aborted, zeroSteps, hits, seen, events>>
<1>1. /\ pc = "post" /\ pc' = "stack" /\ cur' = NoTrack
      /\ info' = SumsAfter(info, IF tracks[cur.id].steps > 0 THEN tracks[cur.id].energyLoss ELSE info.energyLoss,
                           NewCentroid(tracks[cur.id]))
      /\ trajs' = (IF merged # NoTraj /\ (OverLimit \/ cur.status = "dead")
                   THEN Append(trajs, [id |-> cur.id, points |-> merged]) ELSE trajs)
      /\ UNCHANGED <<storeTrajectory, asked, storeSet, discardSet, commands, initialStore, maxpe,
                     aborted, zeroSteps, hits, seen, events>>
  BY DEF PostUserTrackingAction, settings, runVars, SumsAfter
<1>2. cur.id \in 1..Len(tracks) /\ cur.status \in {"suspend", "dead"} /\ NoTrack.id = 0
      /\ NoTrack \in CurRecord
  BY <1>1, NothingIsTyped DEF TrackingInv, Places, InTrack, NoTrack
<1>3. ~InTrack' /\ InEvent'
  BY <1>1 DEF InTrack, InEvent
<1>4. ~ds.aborted /\ ds.made = FALSE /\ nabort = aborted /\ nabort \in Nat
  <2>1. ds.made \in BOOLEAN /\ aborted \in Nat
    BY DEF TrackingInv, Types, EventRecord
  <2> QED BY <1>1, <2>1 DEF TrackingInv, Limit, InTrack, InEvent
<1>5. /\ info' \in InfoRecord /\ info'.count = info.count /\ info'.deposited = info.deposited
      /\ info'.centroid = info.centroid + tracks[cur.id].centroid
  <2>1. info \in InfoRecord /\ tracks[cur.id] \in TrackRecord
    BY <1>2 DEF TrackingInv, Types
  <2>2. /\ info.centroid \in Nat /\ info.energyLoss \in Nat
        /\ tracks[cur.id].centroid \in Nat /\ tracks[cur.id].energyLoss \in Nat
    BY <2>1 DEF InfoRecord, TrackRecord
  <2>3. /\ (IF tracks[cur.id].steps > 0 THEN tracks[cur.id].energyLoss ELSE info.energyLoss) \in Nat
        /\ NewCentroid(tracks[cur.id]) \in Nat
        /\ NewCentroid(tracks[cur.id]) = info.centroid + tracks[cur.id].centroid
    BY <2>2 DEF NewCentroid
  <2> QED BY <1>1, <2>1, <2>3, SummedAfter
<1>6. OverLimit' <=> OverLimit
  BY <1>1 DEF OverLimit
<1>7. trajs' \in Seq(TrajRecord)
  <2>1. trajs \in Seq(TrajRecord)
    BY DEF TrackingInv, Types
  <2>2. merged \in Seq(Nat) /\ cur.id \in Nat
    BY <1>1, <1>2, MergedIsStored
  <2>3. [id |-> cur.id, points |-> merged] \in TrajRecord
    BY <2>2 DEF TrajRecord
  <2> QED BY <1>1, <2>1, <2>3
<1>8. Flags' /\ HitCounts' /\ ZeroStepsAreItsOwn'
  BY <1>1, <1>3 DEF TrackingInv, Flags, HitCounts, ZeroStepsAreItsOwn
<1> QED BY <1>1, <1>2, <1>3, <1>4, <1>5, <1>6, <1>7, <1>8

\* A track that leaves the event over the limit ends it.
LEMMA PostUserTrackingAborts ==
  ASSUME TrackingInv, PostUserTrackingAction, OverLimit
  PROVE  TrackingInv'
<1>0. PICK merged : merged = MergeTrajectory(cur.previous, cur.traj)
  OBVIOUS
<1>1. /\ pc = "post" /\ pc' = "stack" /\ cur' = NoTrack /\ NoTrack.id = 0 /\ ~InTrack' /\ InEvent'
      /\ cur' \in CurRecord
      /\ ~ds.aborted /\ ds.made = FALSE /\ nabort = aborted /\ nabort \in Nat
      /\ info' \in InfoRecord /\ info'.count = info.count
      /\ OverLimit'
      /\ trajs' \in Seq(TrajRecord)
      /\ Flags' /\ HitCounts' /\ ZeroStepsAreItsOwn'
      /\ UNCHANGED <<storeTrajectory, asked, storeSet, discardSet, commands, initialStore, maxpe,
                     aborted, zeroSteps, hits, seen, events>>
  BY <1>0, PostUserTrackingCommon
<1>2. /\ nabort' = nabort + 1 /\ ds' = [ds EXCEPT !.aborted = TRUE]
      /\ stack' = <<>> /\ tracks' = tracks
  BY DEF PostUserTrackingAction
<1>3. ds' \in EventRecord /\ ds'.aborted /\ ds'.made = FALSE
  <2>1. ds \in EventRecord
    BY DEF TrackingInv, Types
  <2>2. \A e \in EventRecord : LET f == [e EXCEPT !.aborted = TRUE] IN
          f \in EventRecord /\ f.aborted /\ f.made = e.made
    BY DEF EventRecord
  <2> QED BY <1>1, <1>2, <2>1, <2>2
<1>4. Types'
  BY <1>1, <1>2, <1>3 DEF TrackingInv, Types
<1>5. Places'
  BY <1>1, <1>2 DEF Places
<1>6. Histories'
  <2>1. \A i : ~OnStack(i)'
    BY <1>2 DEF OnStack
  <2>2. 0 \notin 1..Len(tracks)
    OBVIOUS
  <2> QED BY <1>1, <1>2, <1>3, <2>1, <2>2 DEF TrackingInv, Histories
<1>7. Paths' /\ Weights'
  BY <1>3 DEF Paths, Weights
<1>8. Counts'
  BY <1>1, <1>2 DEF TrackingInv, Counts
<1>9. Limit' /\ Made'
  BY <1>1, <1>2, <1>3 DEF Limit, Made
<1>10. EventKept'
  BY <1>3, NotMade
<1> QED BY <1>1, <1>4, <1>5, <1>6, <1>7, <1>8, <1>9, <1>10 DEF TrackingInv

\* A track within the limit goes back on the stack below its secondaries, or
\* is gone with its trajectory stored.
LEMMA PostUserTrackingGoesOn ==
  ASSUME TrackingInv, PostUserTrackingAction, ~OverLimit
  PROVE  TrackingInv'
<1>0. PICK i0, N, t, n, sl, m, merged, new :
        /\ i0 = cur.id /\ N = Len(tracks) /\ t = tracks[i0] /\ n = t.steps /\ sl = Len(stack)
        /\ merged = MergeTrajectory(cur.previous, cur.traj)
        /\ new = cur.secondaries /\ m = Len(new)
  OBVIOUS
<1>1. /\ pc = "post" /\ pc' = "stack" /\ cur' = NoTrack /\ NoTrack.id = 0 /\ ~InTrack' /\ InEvent'
      /\ cur' \in CurRecord /\ i0 \in 1..N /\ cur.status \in {"suspend", "dead"}
      /\ ~ds.aborted /\ ds.made = FALSE /\ nabort = aborted /\ nabort \in Nat
      /\ info' \in InfoRecord /\ info'.count = info.count /\ info'.deposited = info.deposited
      /\ info'.centroid = info.centroid + t.centroid
      /\ ~OverLimit'
      /\ trajs' = (IF merged # NoTraj /\ cur.status = "dead"
                   THEN Append(trajs, [id |-> i0, points |-> merged]) ELSE trajs)
      /\ trajs' \in Seq(TrajRecord)
      /\ Flags' /\ HitCounts' /\ ZeroStepsAreItsOwn'
      /\ UNCHANGED <<storeTrajectory, asked, storeSet, discardSet, commands, initialStore, maxpe,
                     aborted, zeroSteps, hits, seen, events>>
  BY <1>0, PostUserTrackingCommon
<1>2. /\ merged = Stored(i0, n) /\ n \in Nat \ {0} /\ merged \in Seq(Nat)
      /\ (merged # NoTraj <=> Wanted(i0))
  BY <1>0, <1>1, MergedIsStored
<1> DEFINE push == [i \in 1..m |-> [id |-> N + i, traj |-> NoTraj]]
           back == IF cur.status = "suspend" THEN <<[id |-> i0, traj |-> merged]>> ELSE <<>>
           added == [i \in 1..m |-> NewTrack(new[i])]
<1>3. stack' = stack \o back \o push /\ tracks' = tracks \o added /\ nabort' = nabort /\ ds' = ds
  BY <1>0 DEF PostUserTrackingAction
<1>4. /\ stack \in Seq(StackRecord) /\ sl \in Nat /\ tracks \in Seq(TrackRecord) /\ N \in Nat
      /\ new \in Seq(Creators) /\ m \in Nat /\ \A i \in 1..m : new[i] \in Creators
  <2>1. stack \in Seq(StackRecord) /\ tracks \in Seq(TrackRecord) /\ cur \in CurRecord
    BY DEF TrackingInv, Types
  <2>2. new \in Seq(Creators)
    BY <1>0, <2>1 DEF CurRecord
  <2> QED BY <1>0, <2>1, <2>2
<1>5. /\ added \in Seq(TrackRecord) /\ Len(added) = m /\ \A i \in 1..m : added[i] = NewTrack(new[i])
  <2>1. \A i \in 1..m : NewTrack(new[i]) \in TrackRecord
    BY <1>4, NewTrackIsNew
  <2>2. added \in [1..m -> TrackRecord]
    BY <2>1
  <2> HIDE DEF added
  <2>3. added \in Seq(TrackRecord) /\ Len(added) = m
    BY <1>4, <2>2
  <2> QED BY <2>3 DEF added
<1> HIDE DEF added
<1>6. /\ tracks' \in Seq(TrackRecord) /\ Len(tracks') = N + m
      /\ \A i \in 1..N : tracks'[i] = tracks[i]
      /\ \A i \in 1..m : tracks'[N + i] = NewTrack(new[i])
      /\ \A i \in 1..N + m : i \in 1..N \/ \E j \in 1..m : i = N + j
  <2>1. AreJoined(tracks \o added, N, m, tracks, added, TrackRecord)
    BY <1>0, <1>4, <1>5, Concatenated
  <2> QED BY <1>3, <1>5, <2>1 DEF AreJoined
<1>7. PICK b : b = Len(back)
  OBVIOUS
<1>8. /\ back \in Seq(StackRecord) /\ b \in Nat
      /\ b = IF cur.status = "suspend" THEN 1 ELSE 0
      /\ \A k \in 1..b : back[k] = [id |-> i0, traj |-> merged] /\ cur.status = "suspend"
  <2>1. [id |-> i0, traj |-> merged] \in StackRecord
    BY <1>1, <1>2, <1>4 DEF StackRecord
  <2> QED BY <1>7, <2>1
<1>9. push \in Seq(StackRecord) /\ Len(push) = m /\ \A k \in 1..m : push[k] = [id |-> N + k, traj |-> NoTraj]
  <2>1. \A i \in 1..m : [id |-> N + i, traj |-> NoTraj] \in StackRecord
    BY <1>4 DEF StackRecord, NoTraj
  <2>2. push \in [1..m -> StackRecord]
    BY <2>1
  <2> HIDE DEF push
  <2>3. push \in Seq(StackRecord) /\ Len(push) = m
    BY <1>4, <2>2
  <2> QED BY <2>3 DEF push
<1> HIDE DEF push, back
<1>10. /\ stack' \in Seq(StackRecord) /\ Len(stack') = sl + b + m
       /\ \A k \in 1..sl : stack'[k] = stack[k]
       /\ \A k \in 1..b : stack'[sl + k] = [id |-> i0, traj |-> merged]
       /\ \A k \in 1..m : stack'[sl + b + k] = [id |-> N + k, traj |-> NoTraj]
       /\ \A k \in 1..sl + b + m : \/ k \in 1..sl
                                   \/ \E j \in 1..b : k = sl + j
                                   \/ \E j \in 1..m : k = sl + b + j
  <2>1. PICK u : u = stack \o back
    OBVIOUS
  <2>2. /\ u \in Seq(StackRecord) /\ Len(u) = sl + b
        /\ \A k \in 1..sl : u[k] = stack[k]
        /\ \A k \in 1..b : u[sl + k] = back[k]
        /\ \A k \in 1..sl + b : k \in 1..sl \/ \E j \in 1..b : k = sl + j
    <3>1. AreJoined(stack \o back, sl, b, stack, back, StackRecord)
      BY <1>0, <1>4, <1>7, <1>8, Concatenated
    <3> QED BY <2>1, <3>1 DEF AreJoined
  <2>3. /\ stack' \in Seq(StackRecord) /\ Len(stack') = sl + b + m
        /\ \A k \in 1..sl + b : stack'[k] = u[k]
        /\ \A k \in 1..m : stack'[sl + b + k] = push[k]
        /\ \A k \in 1..sl + b + m : k \in 1..sl + b \/ \E j \in 1..m : k = sl + b + j
    <3>1. AreJoined(u \o push, sl + b, m, u, push, StackRecord)
      BY <1>9, <2>2, Concatenated
    <3> QED BY <1>3, <2>1, <3>1 DEF AreJoined
  <2>4. \A k \in 1..sl : k \in 1..sl + b
    BY <1>4, <1>8
  <2>5. \A k \in 1..b : sl + k \in 1..sl + b
    BY <1>4, <1>8
  <2>6. \A k \in 1..sl : stack'[k] = stack[k]
    BY <2>2, <2>3, <2>4
  <2>7. \A k \in 1..b : stack'[sl + k] = [id |-> i0, traj |-> merged]
    BY <1>8, <2>2, <2>3, <2>5
  <2>8. \A k \in 1..m : stack'[sl + b + k] = [id |-> N + k, traj |-> NoTraj]
    BY <1>9, <2>3
  <2> QED BY <2>2, <2>3, <2>6, <2>7, <2>8

<1>11. /\ \A k \in 1..sl : stack[k].id \in 1..N /\ stack[k].id # i0
       /\ \A k, l \in 1..sl : k # l => stack[k].id # stack[l].id
  BY <1>0 DEF TrackingInv, Places
<1> DEFINE Old(j) == /\ j \in 1..sl /\ stack'[j].id = stack[j].id /\ stack'[j].traj = stack[j].traj
                     /\ stack'[j].id \in 1..N /\ stack'[j].id # i0
           Back(j) == /\ cur.status = "suspend" /\ j = sl + 1
                      /\ stack'[j].id = i0 /\ stack'[j].traj = merged
           New(j, k) == /\ k \in 1..m /\ j = sl + b + k /\ stack'[j].id = N + k /\ stack'[j].traj = NoTraj
           J == 1..sl + b + m
<1>a. /\ \A j \in J : Old(j) \/ Back(j) \/ \E k : New(j, k)
      /\ \A j \in 1..sl : j \in J /\ Old(j)
      /\ \A k \in 1..m : \E j \in J : New(j, k)
      /\ cur.status = "suspend" => \E j \in J : Back(j)
  <2>1. ASSUME NEW j \in 1..sl PROVE j \in J /\ Old(j)
    <3>1. j \in J
      BY <1>4, <1>8
    <3>2. stack'[j] = stack[j]
      BY <1>10
    <3> QED BY <1>11, <3>1, <3>2
  <2>2. ASSUME NEW k \in 1..b PROVE sl + k \in J /\ Back(sl + k)
    <3>1. sl + k \in J /\ cur.status = "suspend" /\ k = 1
      BY <1>4, <1>8
    <3>2. stack'[sl + k] = [id |-> i0, traj |-> merged]
      BY <1>10
    <3> QED BY <3>1, <3>2
  <2>3. ASSUME NEW k \in 1..m PROVE sl + b + k \in J /\ New(sl + b + k, k)
    <3>1. PICK j : j = sl + b + k
      OBVIOUS
    <3>2. j \in J
      BY <1>4, <1>8, <3>1
    <3>3. stack'[j] = [id |-> N + k, traj |-> NoTraj]
      BY <1>10, <3>1
    <3> QED BY <3>1, <3>2, <3>3
  <2>4. cur.status = "suspend" => 1 \in 1..b
    BY <1>8
  <2> HIDE DEF Old, Back, New
  <2> QED BY <1>10, <2>1, <2>2, <2>3, <2>4
<1>b. Len(stack') = sl + b + m
  BY <1>10
<1> HIDE DEF J
<1>12. /\ \A i \in 1..N : OnStack(i)' <=> OnStack(i) \/ (i = i0 /\ cur.status = "suspend")
       /\ \A i \in 1..m : OnStack(N + i)'
       /\ ~OnStack(i0)
  <2>0. \A i : OnStack(i)' <=> \E j \in J : stack'[j].id = i
    BY <1>b DEF OnStack, J
  <2>1. ASSUME NEW i \in 1..N PROVE OnStack(i)' <=> OnStack(i) \/ (i = i0 /\ cur.status = "suspend")
    <3>1. ASSUME NEW j \in J, stack'[j].id = i
          PROVE  OnStack(i) \/ (i = i0 /\ cur.status = "suspend")
      <4>1. CASE Old(j)
        BY <1>0, <3>1, <4>1 DEF OnStack
      <4>2. CASE Back(j)
        BY <3>1, <4>2
      <4>3. ASSUME NEW k, New(j, k) PROVE FALSE
        <5>1. k \in 1..m /\ i = N + k
          BY <3>1, <4>3
        <5> QED BY <1>4, <5>1
      <4> HIDE DEF Old, Back, New
      <4> QED BY <1>a, <4>1, <4>2, <4>3
    <3>2. ASSUME OnStack(i) PROVE \E j \in J : stack'[j].id = i
      <4>1. PICK j \in 1..sl : stack[j].id = i
        BY <1>0, <3>2 DEF OnStack
      <4> QED BY <1>a, <4>1
    <3>3. ASSUME i = i0, cur.status = "suspend" PROVE \E j \in J : stack'[j].id = i
      <4>1. PICK j \in J : Back(j)
        BY <1>a, <3>3
      <4> QED BY <3>3, <4>1
    <3> QED BY <2>0, <3>1, <3>2, <3>3
  <2>2. ASSUME NEW i \in 1..m PROVE OnStack(N + i)'
    <3>1. PICK j \in J : New(j, i)
      BY <1>a
    <3>2. stack'[j].id = N + i
      BY <3>1
    <3> QED BY <1>b, <3>2 DEF OnStack, J
  <2>3. ~OnStack(i0)
    BY <1>0, <1>11 DEF OnStack
  <2> QED BY <2>1, <2>2, <2>3
<1>13. /\ \A i \in 1..N : Finished(i)' <=> Finished(i) \/ (i = i0 /\ cur.status = "dead")
       /\ \A i \in 1..m : ~Finished(N + i)'
  <2>1. cur'.id = 0 /\ 0 \notin 1..N
    BY <1>1, <1>4
  <2> QED BY <1>0, <1>1, <1>12, <2>1 DEF Finished
<1>14. \A i \in 1..N : Wanted(i)' <=> Wanted(i)
  BY <1>1, <1>6 DEF Wanted
<1>15. Types'
  BY <1>1, <1>3, <1>6, <1>10 DEF TrackingInv, Types
<1>16. Places'
  <2>1. ASSUME NEW j \in J PROVE stack'[j].id \in 1..N + m
    <3>1. CASE Old(j)
      <4>1. stack'[j].id \in 1..N
        BY <3>1
      <4> QED BY <1>4, <4>1
    <3>2. CASE Back(j)
      <4>1. stack'[j].id \in 1..N
        BY <1>1, <3>2
      <4> QED BY <1>4, <4>1
    <3>3. ASSUME NEW k, New(j, k) PROVE stack'[j].id \in 1..N + m
      <4>1. k \in 1..m /\ stack'[j].id = N + k
        BY <3>3
      <4> QED BY <1>4, <4>1
    <3> HIDE DEF Old, Back, New
    <3> QED BY <1>a, <3>1, <3>2, <3>3
  <2>2. ASSUME NEW j \in J, NEW l \in J, stack'[j].id = stack'[l].id PROVE j = l
    <3>0. /\ \A i : Old(i) => stack'[i].id \in 1..N /\ stack'[i].id # i0
          /\ \A i : Back(i) => stack'[i].id = i0
          /\ \A i, k : New(i, k) => stack'[i].id \notin 1..N
          /\ i0 \in 1..N
      <4>1. \A i, k : New(i, k) => k \in 1..m /\ stack'[i].id = N + k
        OBVIOUS
      <4>2. \A k \in 1..m : N + k \notin 1..N
        BY <1>4
      <4> QED BY <1>1, <4>1, <4>2
    <3>1. CASE Old(j) /\ Old(l)
      BY <1>11, <2>2, <3>1
    <3>2. CASE Back(j) /\ Back(l)
      BY <3>2
    <3>3. ASSUME NEW k, New(j, k), NEW i, New(l, i) PROVE j = l
      <4>1. k \in 1..m /\ i \in 1..m /\ N + k = N + i /\ j = sl + b + k /\ l = sl + b + i
        BY <2>2, <3>3
      <4> QED BY <1>4, <4>1
    <3> HIDE DEF Old, Back, New
    <3> QED BY <1>a, <2>2, <3>0, <3>1, <3>2, <3>3
  <2>3. cur'.id = 0 /\ \A i \in 1..N + m : i # 0
    BY <1>1, <1>4
  <2>4. \A k \in 1..Len(stack') : stack'[k].id \in 1..Len(tracks') /\ stack'[k].id # cur'.id
    BY <1>6, <1>b, <2>1, <2>3 DEF J
  <2>5. \A k, l \in 1..Len(stack') : k # l => stack'[k].id # stack'[l].id
    BY <1>b, <2>2 DEF J
  <2> QED BY <1>1, <2>4, <2>5 DEF Places, InTrack
<1>17. Histories'
  <2>1. ASSUME NEW i \in 1..N + m
        PROVE  LET u == tracks'[i] IN
               /\ u.kind = IF u.creator \in Photonic THEN "opticalphoton" ELSE "e-"
               /\ u.done <=> u.stretches > 0
               /\ ~u.done => u.steps = 0 /\ u.centroid = 0
               /\ ~u.done => OnStack(i)'
               /\ u.steps \in 0..MaxStepNumber + 1
               /\ OnStack(i)' => u.steps <= MaxStepNumber
    <3>1. CASE i \in 1..N
      <4>1. LET u == tracks[i] IN
            /\ u.kind = IF u.creator \in Photonic THEN "opticalphoton" ELSE "e-"
            /\ u.done <=> u.stretches > 0
            /\ ~u.done => u.steps = 0 /\ u.centroid = 0
            /\ ~u.done => OnStack(i)
            /\ u.steps \in 0..MaxStepNumber + 1
            /\ OnStack(i) \/ (i = i0 /\ cur.status # "dead") => u.steps <= MaxStepNumber
        BY <1>0, <1>1, <3>1 DEF TrackingInv, Histories, InEvent
      <4>2. OnStack(i)' <=> OnStack(i) \/ (i = i0 /\ cur.status = "suspend")
        BY <1>12, <3>1
      <4>3. tracks'[i] = tracks[i]
        BY <1>6, <3>1
      <4> QED BY <4>1, <4>2, <4>3
    <3>2. ASSUME NEW j \in 1..m, i = N + j
          PROVE  LET u == tracks'[i] IN
                 /\ u.kind = IF u.creator \in Photonic THEN "opticalphoton" ELSE "e-"
                 /\ u.steps = 0 /\ ~u.done /\ u.stretches = 0 /\ u.centroid = 0 /\ OnStack(i)'
      <4>1. tracks'[i] = NewTrack(new[j]) /\ new[j] \in Creators
        BY <1>4, <1>6, <3>2
      <4>2. OnStack(i)'
        BY <1>12, <3>2
      <4> QED BY <4>1, <4>2, NewTrackIsNew
    <3>3. 0 \in 0..MaxStepNumber + 1 /\ 0 <= MaxStepNumber /\ ~(0 > 0)
      BY BoundsAreNumbers
    <3> QED BY <1>6, <3>1, <3>2, <3>3
  <2>2. cur'.id = 0 /\ \A i \in 1..N + m : i # 0
    BY <1>1, <1>4
  <2> QED BY <1>6, <2>1, <2>2 DEF Histories
<1>18. \A i \in 1..N : \A k : (IF Wanted(i)' /\ k > 0 THEN Points(0, k) ELSE NoTraj) = Stored(i, k)
  BY <1>14 DEF Stored
<1>19. /\ \A j \in 1..sl : stack[j].traj = Stored(stack[j].id, tracks[stack[j].id].steps)
       /\ \A j \in 1..Len(trajs) :
            LET i == trajs[j].id IN
            /\ i \in 1..N /\ Finished(i) /\ Wanted(i)
            /\ trajs[j].points = Points(0, tracks[i].steps)
       /\ \A i \in 1..N : Finished(i) /\ Wanted(i) => \E j \in 1..Len(trajs) : trajs[j].id = i
       /\ \A j, l \in 1..Len(trajs) : j # l => trajs[j].id # trajs[l].id
  BY <1>0, <1>1 DEF TrackingInv, Paths, InEvent
<1>20. (\A j \in 1..Len(stack) : stack[j].traj = Stored(stack[j].id, tracks[stack[j].id].steps))'
  <2>1. ASSUME NEW j \in J, NEW i, i = stack'[j].id
        PROVE  stack'[j].traj = IF Wanted(i)' /\ tracks'[i].steps > 0 THEN Points(0, tracks'[i].steps) ELSE NoTraj
    <3>1. CASE Old(j)
      <4>1. j \in 1..sl /\ i \in 1..N /\ i = stack[j].id /\ stack'[j].traj = stack[j].traj
        BY <2>1, <3>1
      <4>2. stack[j].traj = Stored(i, tracks[i].steps) /\ tracks'[i] = tracks[i]
        BY <1>6, <1>19, <4>1
      <4> QED BY <1>18, <4>1, <4>2
    <3>2. CASE Back(j)
      <4>1. i = i0 /\ stack'[j].traj = merged
        BY <2>1, <3>2
      <4>2. tracks'[i].steps = n
        BY <1>0, <1>1, <1>6, <4>1
      <4> QED BY <1>1, <1>2, <1>18, <4>1, <4>2
    <3>3. ASSUME NEW k, New(j, k) PROVE stack'[j].traj = NoTraj /\ tracks'[i].steps = 0
      <4>1. k \in 1..m /\ i = N + k /\ stack'[j].traj = NoTraj
        BY <2>1, <3>3
      <4>2. tracks'[i] = NewTrack(new[k]) /\ new[k] \in Creators
        BY <1>4, <1>6, <4>1
      <4> QED BY <4>1, <4>2, NewTrackIsNew
    <3>4. ~(0 > 0)
      OBVIOUS
    <3> HIDE DEF Old, Back, New
    <3> QED BY <1>a, <3>1, <3>2, <3>3, <3>4
  <2> QED BY <1>b, <2>1 DEF Stored, J
<1> HIDE DEF Old, Back, New
<1>21. PICK q, stored : q = Len(trajs) /\ stored = [id |-> i0, points |-> merged]
  OBVIOUS
<1>22. q \in Nat /\ trajs \in Seq(TrajRecord)
  BY <1>21 DEF TrackingInv, Types
<1>23. ASSUME Wanted(i0) /\ cur.status = "dead" PROVE Paths'
  <2>1. /\ trajs' = Append(trajs, stored) /\ merged = Points(0, n)
        /\ stored.id = i0 /\ stored.points = Points(0, n)
    BY <1>1, <1>2, <1>21, <1>23 DEF Stored
  <2>2. /\ Len(trajs') = q + 1 /\ trajs'[q + 1] = stored
        /\ \A j \in 1..q : trajs'[j] = trajs[j]
        /\ \A j \in 1..q + 1 : j \in 1..q \/ j = q + 1
        /\ q + 1 \in 1..q + 1 /\ \A j \in 1..q : j \in 1..q + 1
    BY <1>21, <1>22, <2>1
  <2>3. ASSUME NEW j \in 1..q + 1, NEW i, i = trajs'[j].id
        PROVE  /\ i \in 1..N /\ Finished(i)' /\ Wanted(i)' /\ trajs'[j].points = Points(0, tracks'[i].steps)
    <3>1. CASE j \in 1..q
      <4>1. i \in 1..N /\ Finished(i) /\ Wanted(i) /\ trajs'[j].points = Points(0, tracks[i].steps)
        BY <1>19, <1>21, <2>2, <2>3, <3>1
      <4> QED BY <1>6, <1>13, <1>14, <4>1
    <3>2. CASE j = q + 1
      <4>1. i = i0 /\ trajs'[j].points = Points(0, n)
        BY <2>1, <2>2, <2>3, <3>2
      <4>2. tracks'[i0].steps = n
        BY <1>0, <1>1, <1>6
      <4> QED BY <1>1, <1>13, <1>14, <1>23, <4>1, <4>2
    <3> QED BY <2>2, <3>1, <3>2
  <2>4. \A i \in 1..N + m : i \in 1..N => i \in 1..N + m
    OBVIOUS
  <2>5. ASSUME NEW i \in 1..N + m, Finished(i)', Wanted(i)' PROVE \E j \in 1..q + 1 : trajs'[j].id = i
    <3>1. i \in 1..N /\ Wanted(i) /\ (Finished(i) \/ i = i0)
      BY <1>6, <1>13, <1>14, <2>5
    <3>2. CASE Finished(i)
      <4>1. PICK j \in 1..q : trajs[j].id = i
        BY <1>19, <1>21, <3>1, <3>2
      <4> QED BY <2>2, <4>1
    <3>3. CASE i = i0
      BY <2>1, <2>2, <3>3
    <3> QED BY <3>1, <3>2, <3>3
  <2>6. \A j, l \in 1..q + 1 : j # l => trajs'[j].id # trajs'[l].id
    <3>1. \A j \in 1..q : trajs'[j].id # i0
      BY <1>0, <1>19, <1>21, <2>2 DEF Finished
    <3>2. \A j, l \in 1..q : j # l => trajs'[j].id # trajs'[l].id
      BY <1>19, <1>21, <2>2
    <3> QED BY <2>1, <2>2, <3>1, <3>2
  <2>7. \A i \in 1..N : i \in 1..N + m
    BY <1>4
  <2>8. (\A j \in 1..Len(trajs) :
           LET i == trajs[j].id IN
           /\ i \in 1..Len(tracks) /\ Finished(i) /\ Wanted(i)
           /\ trajs[j].points = Points(0, tracks[i].steps))'
    BY <1>6, <2>2, <2>3, <2>7
  <2>9. (\A i \in 1..Len(tracks) : Finished(i) /\ Wanted(i) => \E j \in 1..Len(trajs) : trajs[j].id = i)'
    BY <1>6, <2>2, <2>5
  <2>10. (\A j, l \in 1..Len(trajs) : j # l => trajs[j].id # trajs[l].id)'
    BY <2>2, <2>6
  <2> QED BY <1>1, <1>20, <2>8, <2>9, <2>10 DEF Paths
<1>24. ASSUME ~(Wanted(i0) /\ cur.status = "dead") PROVE Paths'
  <2>1. trajs' = trajs
    BY <1>1, <1>2, <1>24
  <2>2. ASSUME NEW j \in 1..q, NEW i, i = trajs[j].id
        PROVE  /\ i \in 1..N + m /\ Finished(i)' /\ Wanted(i)' /\ trajs[j].points = Points(0, tracks'[i].steps)
    <3>1. i \in 1..N /\ Finished(i) /\ Wanted(i) /\ trajs[j].points = Points(0, tracks[i].steps)
      BY <1>19, <1>21, <2>2
    <3>2. i \in 1..N + m
      BY <1>4, <3>1
    <3> QED BY <1>6, <1>13, <1>14, <3>1, <3>2
  <2>3. ASSUME NEW i \in 1..N + m, Finished(i)', Wanted(i)' PROVE \E j \in 1..q : trajs[j].id = i
    <3>1. i \in 1..N /\ Wanted(i) /\ Finished(i)
      BY <1>6, <1>13, <1>14, <1>24, <2>3
    <3> QED BY <1>19, <1>21, <3>1
  <2>4. \A j, l \in 1..q : j # l => trajs[j].id # trajs[l].id
    BY <1>19, <1>21
  <2>5. (\A j \in 1..Len(trajs) :
           LET i == trajs[j].id IN
           /\ i \in 1..Len(tracks) /\ Finished(i) /\ Wanted(i)
           /\ trajs[j].points = Points(0, tracks[i].steps))'
    BY <1>6, <1>21, <2>1, <2>2
  <2>6. (\A i \in 1..Len(tracks) : Finished(i) /\ Wanted(i) => \E j \in 1..Len(trajs) : trajs[j].id = i)'
    BY <1>6, <1>21, <2>1, <2>3
  <2>7. (\A j, l \in 1..Len(trajs) : j # l => trajs[j].id # trajs[l].id)'
    BY <1>21, <2>1, <2>4
  <2> QED BY <1>1, <1>20, <2>5, <2>6, <2>7 DEF Paths
<1>25. Counts'
  <2>1. ASSUME NEW c \in Photonic
        PROVE  info'.count[c] = Cardinality({i \in 1..N + m : tracks'[i].creator = c /\ tracks'[i].done})
    <3>1. info.count[c] = Cardinality({i \in 1..N : tracks[i].creator = c /\ tracks[i].done})
      BY <1>0 DEF TrackingInv, Counts
    <3>2. \A i \in 1..m : ~tracks'[N + i].done
      BY <1>4, <1>6, NewTrackIsNew
    <3>3. \A i \in 1..N : i \in 1..N + m
      BY <1>4
    <3>4. {i \in 1..N + m : tracks'[i].creator = c /\ tracks'[i].done}
            = {i \in 1..N : tracks[i].creator = c /\ tracks[i].done}
      BY <1>6, <3>2, <3>3
    <3> QED BY <1>1, <3>1, <3>4
  <2> QED BY <1>6, <2>1 DEF Counts
<1>26. Weights'
  <2>1. SUFFICES ASSUME \A i \in 1..N + m : tracks'[i].stretches <= 1
                 PROVE  info'.deposited = info'.centroid + 0
    BY <1>1, <1>6 DEF Weights
  <2>2. \A i \in 1..N : tracks[i].stretches <= 1
    <3>1. \A i \in 1..N : i \in 1..N + m
      BY <1>4
    <3> QED BY <1>6, <2>1, <3>1
  <2>3. info.deposited = info.centroid + t.centroid
    BY <1>0, <1>1, <2>2 DEF TrackingInv, Weights, InEvent, InTrack
  <2>4. info'.centroid \in Nat
    BY <1>1 DEF InfoRecord
  <2> QED BY <1>1, <2>3, <2>4
<1>27. Limit' /\ Made'
  <2>1. ds' = ds /\ nabort' = aborted' + 0
    BY <1>1, <1>3
  <2> QED BY <1>1, <2>1 DEF Limit, Made
<1>28. EventKept'
  BY <1>1, <1>3, NotMade
<1>29. Paths'
  BY <1>23, <1>24
<1> QED BY <1>1, <1>15, <1>16, <1>17, <1>25, <1>26, <1>27, <1>28, <1>29 DEF TrackingInv

-----------------------------------------------------------------------------
(* The end of an event, and the theorems.                                  *)

\* The event made, when it was not aborted.
EventMade ==
  [tracks |-> trajs, count |-> info.count, numPE |-> NumPE(hits),
   pmts |-> [i \in 1..Len(hits) |-> [hits[i] EXCEPT !.times = SortTimeAscending(@)]],
   energyLoss |-> info.energyLoss, centroid |-> info.centroid, aborted |-> FALSE, made |-> TRUE]

\* The event's PMTs are the collection's, with their times sorted.
LEMMA SortedPMTs ==
  ASSUME hits \in Seq(HitRecord),
         NEW pmts, pmts = [i \in 1..Len(hits) |-> [hits[i] EXCEPT !.times = SortTimeAscending(@)]]
  PROVE  /\ pmts \in Seq([pmt : Online, times : Seq(Times)]) /\ Len(pmts) = Len(hits)
         /\ \A i \in 1..Len(hits) :
              /\ pmts[i].pmt = hits[i].pmt
              /\ \A j \in 1..Len(pmts[i].times) - 1 : pmts[i].times[j] <= pmts[i].times[j + 1]
              /\ \A t : Count(pmts[i].times, t) = Count(hits[i].times, t)
<1>0. PICK n : n = Len(hits)
  OBVIOUS
<1>1. n \in Nat /\ \A i \in 1..n : hits[i] \in HitRecord
  BY <1>0
<1>2. \A e \in HitRecord : e.pmt \in Online /\ e.times \in Seq(Times)
  BY DEF HitRecord
<1>3. \A e \in HitRecord : \A x : [e EXCEPT !.times = x] = [pmt |-> e.pmt, times |-> x]
  BY DEF HitRecord
<1>4. ASSUME NEW i \in 1..n
      PROVE  /\ pmts[i] = [pmt |-> hits[i].pmt, times |-> SortTimeAscending(hits[i].times)]
             /\ hits[i].times \in Seq(Times) /\ hits[i].pmt \in Online
  <2>1. pmts[i] = [hits[i] EXCEPT !.times = SortTimeAscending(hits[i].times)]
    BY <1>0
  <2> QED BY <1>1, <1>2, <1>3, <2>1
<1>5. ASSUME NEW i \in 1..n
      PROVE  /\ pmts[i] \in [pmt : Online, times : Seq(Times)] /\ pmts[i].pmt = hits[i].pmt
             /\ \A j \in 1..Len(pmts[i].times) - 1 : pmts[i].times[j] <= pmts[i].times[j + 1]
             /\ \A t : Count(pmts[i].times, t) = Count(hits[i].times, t)
  <2>1. PICK d : d = SortTimeAscending(hits[i].times)
    OBVIOUS
  <2>2. /\ d \in Seq(Times)
        /\ \A j \in 1..Len(d) - 1 : d[j] <= d[j + 1]
        /\ \A t : Count(d, t) = Count(hits[i].times, t)
    BY <1>4, <2>1, SortTimeAscendingSorts
  <2>3. pmts[i] = [pmt |-> hits[i].pmt, times |-> d] /\ hits[i].pmt \in Online
    BY <1>4, <2>1
  <2>4. pmts[i].times = d /\ pmts[i].pmt = hits[i].pmt
    BY <2>3
  <2>5. [pmt |-> hits[i].pmt, times |-> d] \in [pmt : Online, times : Seq(Times)]
    BY <2>2, <2>3
  <2> QED BY <2>2, <2>3, <2>4, <2>5
<1>6. pmts \in Seq([pmt : Online, times : Seq(Times)]) /\ Len(pmts) = n
  <2>1. DOMAIN pmts = 1..n /\ pmts = [i \in 1..n |-> pmts[i]]
    BY <1>0
  <2>2. pmts \in [1..n -> [pmt : Online, times : Seq(Times)]]
    BY <1>5, <2>1
  <2> QED BY <1>1, <2>2
<1> QED BY <1>0, <1>5, <1>6

\* An event that is kept is made of what the callbacks left.
LEMMA KeptEvent ==
  ASSUME TrackingInv, pc = "stack", stack = <<>>, ~ds.aborted, ds' = EventMade,
         UNCHANGED <<asked, storeSet, discardSet, tracks, info, seen>>
  PROVE  ds' \in EventRecord /\ EventKept'
<1>0. PICK N, q : N = Len(tracks) /\ q = Len(trajs)
  OBVIOUS
<1> DEFINE pmts == [i \in 1..Len(hits) |-> [hits[i] EXCEPT !.times = SortTimeAscending(@)]]
<1>1. /\ ds'.tracks = trajs /\ ds'.count = info.count /\ ds'.numPE = NumPE(hits) /\ ds'.pmts = pmts
      /\ ds'.energyLoss = info.energyLoss /\ ds'.centroid = info.centroid
      /\ ds'.aborted = FALSE /\ ds'.made = TRUE
  BY DEF EventMade
<1>2. /\ tracks \in Seq(TrackRecord) /\ info \in InfoRecord /\ hits \in Seq(HitRecord)
      /\ seen \in Seq(Online \X Times) /\ trajs \in Seq(TrajRecord) /\ N \in Nat /\ q \in Nat
  BY <1>0 DEF TrackingInv, Types
<1>3. /\ pmts \in Seq([pmt : Online, times : Seq(Times)]) /\ Len(pmts) = Len(hits)
      /\ \A i \in 1..Len(hits) :
           /\ pmts[i].pmt = hits[i].pmt
           /\ \A j \in 1..Len(pmts[i].times) - 1 : pmts[i].times[j] <= pmts[i].times[j + 1]
           /\ \A t : Count(pmts[i].times, t) = Count(hits[i].times, t)
  <2> HIDE DEF pmts
  <2>1. \A x : x = pmts => x = pmts
    OBVIOUS
  <2> QED BY <1>2, SortedPMTs DEF pmts
<1> HIDE DEF pmts
<1>4. ds' \in EventRecord
  <2>1. NumPE(hits) \in Nat
    BY <1>2 DEF TrackingInv, HitCounts
  <2>2. info.count \in [Photonic -> Nat] /\ info.energyLoss \in Nat /\ info.centroid \in Nat
    BY <1>2 DEF InfoRecord
  <2>3. ds' = [tracks |-> trajs, count |-> info.count, numPE |-> NumPE(hits), pmts |-> pmts,
               energyLoss |-> info.energyLoss, centroid |-> info.centroid, aborted |-> FALSE, made |-> TRUE]
    BY DEF EventMade, pmts
  <2> QED BY <1>2, <1>3, <2>1, <2>2, <2>3 DEF EventRecord
<1>5. cur = NoTrack /\ NoTrack.id = 0 /\ \A i : ~OnStack(i)
  BY DEF TrackingInv, Places, InTrack, NoTrack, OnStack
<1>6. \A i \in 1..N : tracks[i].done /\ Finished(i)
  <2>1. \A i \in 1..N : i # cur.id
    BY <1>5
  <2> QED BY <1>0, <1>5, <2>1 DEF TrackingInv, Histories, InEvent, Finished
<1>7. PhotonsCountedOnce'
  <2>1. ASSUME NEW c \in Photonic
        PROVE  ds'.count[c] = Cardinality({i \in 1..N : tracks[i].creator = c})
    <3>1. {i \in 1..N : tracks[i].creator = c} = {i \in 1..N : tracks[i].creator = c /\ tracks[i].done}
      BY <1>6
    <3> QED BY <1>0, <1>1, <3>1 DEF TrackingInv, Counts
  <2> QED BY <1>0, <2>1 DEF PhotonsCountedOnce
<1>8. CentroidWithoutSuspension'
  <2>1. SUFFICES ASSUME \A i \in 1..N : tracks[i].stretches = 1 PROVE ds'.centroid = info.deposited
    BY <1>0 DEF CentroidWithoutSuspension
  <2>2. \A i \in 1..N : tracks[i].stretches <= 1
    BY <2>1
  <2>3. info.deposited = info.centroid + 0 /\ info.centroid \in Nat
    BY <1>0, <1>2, <2>2 DEF TrackingInv, Weights, InEvent, InTrack, InfoRecord
  <2> QED BY <1>1, <2>3
<1>9. HitsAreThisEvents'
  <2>1. ds'.numPE = Len(seen')
    BY <1>1 DEF TrackingInv, HitCounts
  <2>2. \A i, j \in 1..Len(ds'.pmts) : i # j => ds'.pmts[i].pmt # ds'.pmts[j].pmt
    BY <1>1, <1>3 DEF TrackingInv, HitCounts
  <2>3. ASSUME NEW i \in 1..Len(ds'.pmts), NEW t \in Times
        PROVE  Cardinality({j \in 1..Len(ds'.pmts[i].times) : ds'.pmts[i].times[j] = t})
                 = Cardinality({j \in 1..Len(seen') : seen'[j] = <<ds'.pmts[i].pmt, t>>})
    <3>1. /\ i \in 1..Len(hits) /\ ds'.pmts[i].pmt = hits[i].pmt /\ seen' = seen
          /\ Count(ds'.pmts[i].times, t) = Count(hits[i].times, t)
      BY <1>1, <1>3
    <3>0. Count(hits[i].times, t) = Count(seen, <<hits[i].pmt, t>>)
      BY <3>1 DEF TrackingInv, HitCounts
    <3>2. Count(ds'.pmts[i].times, t) = Count(seen', <<ds'.pmts[i].pmt, t>>)
      BY <3>0, <3>1
    <3> QED BY <3>2 DEF Count
  <2>4. \A i \in 1..Len(ds'.pmts) : \A j \in 1..Len(ds'.pmts[i].times) - 1 : ds'.pmts[i].times[j] <= ds'.pmts[i].times[j + 1]
    BY <1>1, <1>3
  <2>5. ASSUME NEW i \in 1..Len(ds'.pmts)
        PROVE  LET p == ds'.pmts[i] IN
               /\ \A j \in 1..Len(p.times) - 1 : p.times[j] <= p.times[j + 1]
               /\ \A t \in Times : Cardinality({j \in 1..Len(p.times) : p.times[j] = t})
                                   = Cardinality({j \in 1..Len(seen') : seen'[j] = <<p.pmt, t>>})
    BY <2>3, <2>4, Zenon
  <2>6. (/\ ds.numPE = Len(seen)
         /\ \A i, j \in 1..Len(ds.pmts) : i # j => ds.pmts[i].pmt # ds.pmts[j].pmt
         /\ \A i \in 1..Len(ds.pmts) :
              LET p == ds.pmts[i] IN
              /\ \A j \in 1..Len(p.times) - 1 : p.times[j] <= p.times[j + 1]
              /\ \A t \in Times : Cardinality({j \in 1..Len(p.times) : p.times[j] = t})
                                  = Cardinality({j \in 1..Len(seen) : seen[j] = <<p.pmt, t>>}))'
    BY <2>1, <2>2, <2>5, Zenon
  <2> QED BY <2>6, Zenon DEF HitsAreThisEvents
<1>10. TracksAsRequested'
  <2> DEFINE wanted == {i \in 1..N : IF asked THEN tracks[i].kind \notin discardSet
                                     ELSE tracks[i].kind \in storeSet}
             f == [j \in 1..q |-> trajs[j].id]
  <2>1. \A i \in 1..N : i \in wanted <=> Wanted(i)
    BY DEF Wanted
  <2>2. /\ \A j \in 1..q :
             LET i == trajs[j].id IN
             /\ i \in 1..N /\ Finished(i) /\ Wanted(i)
             /\ trajs[j].points = Points(0, tracks[i].steps)
        /\ \A i \in 1..N : Finished(i) /\ Wanted(i) => \E j \in 1..q : trajs[j].id = i
        /\ \A j, k \in 1..q : j # k => trajs[j].id # trajs[k].id
    BY <1>0 DEF TrackingInv, Paths, InEvent
  <2>3. q = Cardinality(wanted)
    <3>1. f \in Bijection(1..q, wanted)
      <4>1. f \in [1..q -> wanted]
        BY <2>1, <2>2
      <4>2. \A j, k \in 1..q : f[j] = f[k] => j = k
        BY <2>2
      <4>3. \A i \in wanted : \E j \in 1..q : f[j] = i
        <5>1. ASSUME NEW i \in wanted PROVE \E j \in 1..q : trajs[j].id = i
          BY <1>6, <2>1, <2>2
        <5> QED BY <5>1
      <4> HIDE DEF f, wanted
      <4> QED BY <4>1, <4>2, <4>3 DEF Bijection, Injection, Surjection, IsInjective
    <3>2. wanted \subseteq 1..N /\ IsFiniteSet(1..N)
      BY <1>2, FS_Interval
    <3> HIDE DEF f, wanted
    <3>3. IsFiniteSet(wanted)
      BY <3>2, FS_Subset
    <3> QED BY <1>2, <3>1, FS_CountingElements DEF ExistsBijection
  <2>4. ASSUME NEW i \in wanted
        PROVE  \E j \in 1..q : trajs[j] = [id |-> i, points |-> [k \in 1..tracks[i].steps + 1 |-> k - 1]]
    <3>1. PICK j \in 1..q : trajs[j].id = i
      BY <1>6, <2>1, <2>2
    <3>2. trajs[j].points = Points(0, tracks[i].steps)
      BY <2>2, <3>1
    <3>3. trajs[j] = [id |-> i, points |-> Points(0, tracks[i].steps)]
      <4>1. trajs[j] \in TrajRecord
        BY <1>0, <1>2
      <4> QED BY <3>1, <3>2, <4>1 DEF TrajRecord
    <3>4. tracks[i].steps \in Nat
      <4>1. tracks[i] \in TrackRecord
        BY <1>0, <1>2
      <4> QED BY <4>1 DEF TrackRecord
    <3>5. Points(0, tracks[i].steps) = [k \in 1..tracks[i].steps + 1 |-> k - 1]
      <4>1. PICK n : n = tracks[i].steps
        OBVIOUS
      <4>2. n - 0 + 1 = n + 1 /\ \A k \in 1..n + 1 : 0 + k - 1 = k - 1
        BY <3>4, <4>1
      <4> QED BY <4>1, <4>2 DEF Points
    <3> QED BY <3>3, <3>5
  <2>5. wanted' = wanted
    BY <1>0
  <2> QED BY <1>0, <1>1, <2>3, <2>4 DEF TracksAsRequested
<1> QED BY <1>4, <1>7, <1>8, <1>9, <1>10 DEF EventKept, SummaryAddsUp

\* After the event, nothing is kept but what is in the event made.
LEMMA EndOfEventInv ==
  ASSUME TrackingInv, EndOfEventAction
  PROVE  TrackingInv'
<1>1. /\ pc = "stack" /\ stack = <<>> /\ pc' = "run"
      /\ ds' = IF ds.aborted THEN [ds EXCEPT !.tracks = trajs, !.made = TRUE] ELSE EventMade
      /\ aborted' = aborted + (IF ds.aborted THEN 1 ELSE 0)
      /\ storeTrajectory' = initialStore
      /\ UNCHANGED <<asked, storeSet, discardSet, commands, initialStore, maxpe, nabort, zeroSteps,
                     stack, tracks, cur, info, hits, seen, trajs, events>>
  BY DEF EndOfEventAction, settings, runVars, Restored, EventMade
<1>2. nabort' = aborted' /\ nabort \in Nat
  BY <1>1 DEF TrackingInv, Limit, InEvent, Types
<1>3. ds \in EventRecord /\ trajs \in Seq(TrajRecord) /\ ds.aborted \in BOOLEAN
  BY DEF TrackingInv, Types, EventRecord
<1>4. ds' \in EventRecord /\ ds'.made = TRUE /\ ds'.aborted = ds.aborted /\ EventKept'
  <2>1. CASE ds.aborted
    <3>1. ds' = [[ds EXCEPT !.tracks = trajs] EXCEPT !.made = TRUE]
      BY <1>1, <1>3, <2>1 DEF EventRecord
    <3>2. \A e \in EventRecord, x \in Seq(TrajRecord) :
            LET f == [e EXCEPT !.tracks = x] IN f \in EventRecord /\ f.aborted = e.aborted
      BY DEF EventRecord
    <3>3. \A e \in EventRecord :
            LET f == [e EXCEPT !.made = TRUE] IN f \in EventRecord /\ f.aborted = e.aborted /\ f.made = TRUE
      BY DEF EventRecord
    <3>4. PICK f : f = [ds EXCEPT !.tracks = trajs]
      OBVIOUS
    <3>5. f \in EventRecord /\ f.aborted = ds.aborted
      BY <1>3, <3>2, <3>4
    <3>6. ds' \in EventRecord /\ ds'.made = TRUE /\ ds'.aborted = ds.aborted
      BY <3>1, <3>3, <3>4, <3>5
    <3>7. ~Kept'
      BY <2>1, <3>6 DEF Kept
    <3>8. EventKept'
      BY <3>7 DEF EventKept, SummaryAddsUp, PhotonsCountedOnce, CentroidWithoutSuspension,
                  HitsAreThisEvents, TracksAsRequested
    <3> QED BY <3>6, <3>8
  <2>2. CASE ~ds.aborted
    <3>1. ds' = EventMade
      BY <1>1, <2>2
    <3>2. ds'.made = TRUE /\ ds'.aborted = FALSE
      BY <3>1 DEF EventMade
    <3>3. ds' \in EventRecord /\ EventKept'
      BY <1>1, <2>2, <3>1, KeptEvent
    <3>4. ds.aborted = FALSE
      BY <1>3, <2>2
    <3> QED BY <3>2, <3>3, <3>4
  <2> QED BY <2>1, <2>2
<1>5. Types'
  <2>1. storeTrajectory' \in BOOLEAN /\ aborted' \in Nat
    BY <1>1, <1>2 DEF TrackingInv, Types
  <2> QED BY <1>1, <1>4, <2>1 DEF TrackingInv, Types
<1>6. Places'
  BY <1>1 DEF TrackingInv, Places, InTrack, InEvent
<1>7. Histories'
  <2>1. \A i : ~OnStack(i)' /\ ~OnStack(i)
    BY <1>1 DEF OnStack
  <2> QED BY <1>1, <2>1 DEF TrackingInv, Histories, InEvent
<1>8. Flags'
  BY <1>1 DEF TrackingInv, Flags, InTrack
<1>9. Paths' /\ Weights' /\ ZeroStepsAreItsOwn'
  BY <1>1 DEF Paths, Weights, ZeroStepsAreItsOwn, InEvent
<1>10. Counts' /\ HitCounts'
  BY <1>1 DEF TrackingInv, Counts, HitCounts
<1>11. Limit' /\ Made'
  <2>1. OverLimit' <=> OverLimit
    BY <1>1 DEF OverLimit
  <2>2. ds.aborted <=> OverLimit
    BY <1>1 DEF TrackingInv, Limit
  <2> QED BY <1>1, <1>2, <1>4, <2>1, <2>2 DEF Limit, Made, InEvent, InTrack
<1> QED BY <1>4, <1>5, <1>6, <1>7, <1>8, <1>9, <1>10, <1>11 DEF TrackingInv

\* No step leads out of the invariant.
LEMMA NextInv == TrackingInv /\ [Next]_vars => TrackingInv'
<1> SUFFICES ASSUME TrackingInv, [Next]_vars PROVE TrackingInv'
  OBVIOUS
<1>1. ASSUME NEW b \in BOOLEAN, StoreTrajectory(b) PROVE TrackingInv'
  BY <1>1, StoreTrajectoryInv
<1>2. ASSUME NEW k \in Named, NEW store \in BOOLEAN, SetStoreParticleTraj(k, store) PROVE TrackingInv'
  BY <1>2, SetStoreParticleTrajInv
<1>3. ASSUME NEW limit \in MaxPEs, BeginOfRunAction(limit) PROVE TrackingInv'
  BY <1>3, BeginOfRunInv
<1>4. CASE EndOfRunAction
  BY <1>4, EndOfRunInv
<1>5. CASE BeginOfEventAction
  BY <1>5, BeginOfEventInv
<1>6. CASE PreUserTrackingAction
  BY <1>6, PreUserTrackingInv
<1>7. ASSUME NEW c \in StepChoice(tracks[cur.id].kind), UserSteppingAction(c) PROVE TrackingInv'
  BY <1>7, UserSteppingInv
<1>8. CASE PostUserTrackingAction
  BY <1>8, PostUserTrackingAborts, PostUserTrackingGoesOn
<1>9. CASE EndOfEventAction
  BY <1>9, EndOfEventInv
<1>10. CASE UNCHANGED vars
  <2>1. /\ UNCHANGED <<pc, storeTrajectory, asked, storeSet, discardSet, commands, initialStore, maxpe>>
        /\ UNCHANGED <<nabort, aborted, zeroSteps, stack, tracks, cur, info, hits, seen, trajs, ds, events>>
    BY <1>10 DEF vars, settings, runVars
  <2>2. Types' /\ Places' /\ Flags' /\ Counts' /\ HitCounts'
    BY <2>1 DEF TrackingInv, Types, Places, Flags, Counts, HitCounts, InEvent, InTrack, Wanted
  <2>3. Histories' /\ Weights' /\ Limit' /\ Made' /\ ZeroStepsAreItsOwn'
    BY <2>1 DEF TrackingInv, Histories, Weights, Limit, Made, ZeroStepsAreItsOwn, InEvent, InTrack,
                OnStack, OverLimit
  <2>4. Paths'
    BY <2>1 DEF TrackingInv, Paths, InEvent, InTrack, ThisStretch, Stored, Wanted, Finished, OnStack
  <2>5. Kept' <=> Kept
    BY <2>1 DEF Kept
  <2>6. SummaryAddsUp'
    <3>1. PhotonsCountedOnce'
      BY <2>1, <2>5 DEF TrackingInv, EventKept, SummaryAddsUp, PhotonsCountedOnce
    <3>2. CentroidWithoutSuspension'
      BY <2>1, <2>5 DEF TrackingInv, EventKept, SummaryAddsUp, CentroidWithoutSuspension
    <3> QED BY <3>1, <3>2 DEF SummaryAddsUp
  <2>7. HitsAreThisEvents'
    <3>1. HitsAreThisEvents
      BY DEF TrackingInv, EventKept
    <3>2. ds' = ds /\ seen' = seen
      BY <2>1
    <3>3. CASE ~Kept
      BY <2>5, <3>3, Zenon DEF HitsAreThisEvents
    <3>4. CASE Kept
      <4>1. /\ ds.numPE = Len(seen)
            /\ \A i, j \in 1..Len(ds.pmts) : i # j => ds.pmts[i].pmt # ds.pmts[j].pmt
        BY <3>1, <3>4, Zenon DEF HitsAreThisEvents
      <4>2. ASSUME NEW i \in 1..Len(ds.pmts)
            PROVE  LET p == ds.pmts[i] IN
                   /\ \A j \in 1..Len(p.times) - 1 : p.times[j] <= p.times[j + 1]
                   /\ \A t \in Times : Cardinality({j \in 1..Len(p.times) : p.times[j] = t})
                                       = Cardinality({j \in 1..Len(seen) : seen[j] = <<p.pmt, t>>})
        BY <3>1, <3>4, Zenon DEF HitsAreThisEvents
      <4>3. ASSUME NEW i \in 1..Len(ds.pmts)
            PROVE  \A j \in 1..Len(ds.pmts[i].times) - 1 : ds.pmts[i].times[j] <= ds.pmts[i].times[j + 1]
        BY <4>2
      <4>4. ASSUME NEW i \in 1..Len(ds.pmts), NEW t \in Times
            PROVE  Count(ds.pmts[i].times, t) = Count(seen, <<ds.pmts[i].pmt, t>>)
        BY <4>2, Zenon DEF Count
      <4>5. ASSUME NEW i \in 1..Len(ds'.pmts), NEW t \in Times
            PROVE  Cardinality({j \in 1..Len(ds'.pmts[i].times) : ds'.pmts[i].times[j] = t})
                     = Cardinality({j \in 1..Len(seen') : seen'[j] = <<ds'.pmts[i].pmt, t>>})
        <5>1. Count(ds'.pmts[i].times, t) = Count(seen', <<ds'.pmts[i].pmt, t>>)
          BY <3>2, <4>4
        <5> QED BY <5>1, Zenon DEF Count
      <4>6. \A i \in 1..Len(ds'.pmts) :
              \A j \in 1..Len(ds'.pmts[i].times) - 1 : ds'.pmts[i].times[j] <= ds'.pmts[i].times[j + 1]
        BY <3>2, <4>3
      <4>7. /\ ds'.numPE = Len(seen')
            /\ \A i, j \in 1..Len(ds'.pmts) : i # j => ds'.pmts[i].pmt # ds'.pmts[j].pmt
        BY <3>2, <4>1
      <4> QED BY <4>5, <4>6, <4>7, Zenon DEF HitsAreThisEvents
    <3> QED BY <3>3, <3>4
  <2>8. TracksAsRequested'
    BY <2>1, <2>5 DEF TrackingInv, EventKept, TracksAsRequested
  <2> QED BY <2>2, <2>3, <2>4, <2>6, <2>7, <2>8 DEF TrackingInv, EventKept
<1> QED BY <1>1, <1>2, <1>3, <1>4, <1>5, <1>6, <1>7, <1>8, <1>9, <1>10 DEF Next

\* TrackingInv holds in every state: it is what the callbacks keep between
\* their calls, and every theorem below is a part or a consequence of it.
THEOREM TrackingInvariant == Spec => []TrackingInv
<1>1. Init => TrackingInv
  BY InitInv
<1>2. TrackingInv /\ [Next]_vars => TrackingInv'
  BY NextInv
<1> QED BY <1>1, <1>2, PTL DEF Spec

\* Every variable keeps its type: what is on the stack and in hand is a track
\* of the event, and the counts of photons are no larger than the tracks.
THEOREM TrackingTypes == Spec => []TypeOK
<1>1. TrackingInv => TypeOK
  <2>1. SUFFICES ASSUME TrackingInv PROVE TypeOK
    OBVIOUS
  <2>2. /\ stack \in Seq(StackRecord) /\ tracks \in Seq(TrackRecord) /\ cur \in CurRecord
        /\ info \in InfoRecord /\ hits \in Seq(HitRecord)
    BY <2>1 DEF TrackingInv, Types
  <2>3. \A i \in 1..Len(stack) : stack[i].id \in 1..Len(tracks) /\ stack[i].traj \in Seq(Nat)
    <3>1. \A i \in 1..Len(stack) : stack[i] \in StackRecord
      BY <2>2
    <3>2. \A e \in StackRecord : e.traj \in Seq(Nat)
      BY DEF StackRecord
    <3> QED BY <2>1, <3>1, <3>2 DEF TrackingInv, Places
  <2>4. \A i \in 1..Len(tracks) : /\ tracks[i].kind \in Kinds /\ tracks[i].creator \in Creators
                                  /\ tracks[i].steps \in 0..MaxStepNumber + 1
    <3>1. \A i \in 1..Len(tracks) : tracks[i] \in TrackRecord
      BY <2>2
    <3>2. \A e \in TrackRecord : e.kind \in Kinds /\ e.creator \in Creators
      BY DEF TrackRecord
    <3> QED BY <2>1, <3>1, <3>2 DEF TrackingInv, Histories
  <2>5. cur.id \in 0..Len(tracks) /\ cur.status \in {"alive", "suspend", "dead"}
    <3>1. cur.id = 0 \/ cur.id \in 1..Len(tracks)
      BY <2>1 DEF TrackingInv, Places, NoTrack
    <3>2. Len(tracks) \in Nat
      BY <2>2
    <3> QED BY <2>2, <3>1, <3>2 DEF CurRecord
  <2>6. \A i \in 1..Len(hits) : hits[i].pmt \in Online /\ hits[i].times \in Seq(Times) \ {<<>>}
    <3>1. \A i \in 1..Len(hits) : hits[i] \in HitRecord
      BY <2>2
    <3> QED BY <3>1 DEF HitRecord
  <2>7. info.count \in [Photonic -> 0..Len(tracks)]
    <3>1. ASSUME NEW c \in Photonic PROVE info.count[c] \in 0..Len(tracks)
      <4> DEFINE K == {i \in 1..Len(tracks) : tracks[i].creator = c /\ tracks[i].done}
      <4>1. IsFiniteSet(1..Len(tracks)) /\ Cardinality(1..Len(tracks)) = Len(tracks)
        BY <2>2, PlacesAreFinite
      <4>2. K \subseteq 1..Len(tracks) /\ info.count[c] = Cardinality(K)
        BY <2>1 DEF TrackingInv, Counts
      <4> HIDE DEF K
      <4>3. Cardinality(K) \in Nat /\ Cardinality(K) <= Cardinality(1..Len(tracks))
        BY <4>1, <4>2, FS_Subset, FS_CardinalityType
      <4> QED BY <4>1, <4>2, <4>3
    <3>2. info.count \in [Photonic -> Nat]
      BY <2>2 DEF InfoRecord
    <3> QED BY <3>1, <3>2
  <2> QED BY <2>1, <2>3, <2>4, <2>5, <2>6, <2>7 DEF TrackingInv, Types, TypeOK
<1> QED BY <1>1, TrackingInvariant, PTL

\* The counts of photons and the centroid of a kept event are those of its
\* tracks and deposits, for any order in which Geant4 takes the tracks up.
THEOREM SummariesAddUp == Spec => []SummaryAddsUp
<1>1. TrackingInv => SummaryAddsUp
  BY DEF TrackingInv, EventKept
<1> QED BY <1>1, TrackingInvariant, PTL

\* A kept event holds its own hits and no others, each once and in order, and
\* which events are kept is decided by their hits, for any limit.
THEOREM KeptHits == Spec => []HitsOfKeptEvents
<1>1. TrackingInv => HitsOfKeptEvents
  <2>1. SUFFICES ASSUME TrackingInv PROVE HitsOfKeptEvents
    OBVIOUS
  <2>2. pc = "run" => nabort = aborted
    BY <2>1 DEF TrackingInv, Made
  <2>3. ASSUME ds.made, maxpe > 0 PROVE ds.aborted <=> Len(seen) > maxpe
    BY <2>1, <2>3 DEF TrackingInv, Made, HitCounts, OverLimit
  <2> QED BY <2>1, <2>2, <2>3 DEF TrackingInv, EventKept, HitsOfKeptEvents, KeptWithinLimit
<1> QED BY <1>1, TrackingInvariant, PTL

\* The trajectories of a kept event are those that were asked for, each whole
\* and once, for any settings and any suspensions.
THEOREM RequestedTracks == Spec => []TracksAsRequested
<1>1. TrackingInv => TracksAsRequested
  BY DEF TrackingInv, EventKept
<1> QED BY <1>1, TrackingInvariant, PTL

\* The one count of zero steps is that of the track in hand, as long as that
\* was not suspended, for any limits.
THEOREM OwnZeroSteps == Spec => []ZeroStepsAreItsOwn
<1>1. TrackingInv => ZeroStepsAreItsOwn
  BY DEF TrackingInv
<1> QED BY <1>1, TrackingInvariant, PTL
=============================================================================
