--------------------------- MODULE Waveforms_proofs ---------------------------
(***************************************************************************)
(* Samples, hit times, charges and photoelectrons agree with the waveform  *)
(* they come from, whatever pulses and noise are drawn, for any digitizer, *)
(* cables, settings and events.                                            *)
(***************************************************************************)
EXTENDS Waveforms, Induction

-----------------------------------------------------------------------------
(* Sums.                                                                   *)

\* What MapThenSumSet computes.
LEMMA SumOfIs ==
  ASSUME NEW S, IsFiniteSet(S), NEW w, \A x \in S : w[x] \in Int
  PROVE  \E g : IsIntSum(g, S, [x \in S |-> w[x]]) /\ SumOf(w, S) = g[S]
<1> DEFINE v == [x \in S |-> w[x]]
           Adds(g) == [s \in SUBSET S |->
                         IF s = {} THEN 0 ELSE LET x == CHOOSE y \in s : TRUE IN w[x] + g[s \ {x}]]
           it == CHOOSE g : g = Adds(g)
<1>1. v \in [S -> Int]
  OBVIOUS
<1>2. ASSUME NEW h PROVE h = Adds(h) <=> SumsUp(h, S, v)
  <2>1. ASSUME NEW s \in SUBSET S, s # {}
        PROVE  w[CHOOSE y \in s : TRUE] = v[CHOOSE y \in s : TRUE]
    BY <2>1
  <2> HIDE DEF v
  <2>2. Adds(h) = [s \in SUBSET S |-> IF s = {} THEN 0 ELSE LET x == CHOOSE y \in s : TRUE IN v[x] + h[s \ {x}]]
    BY <2>1
  <2> HIDE DEF Adds
  <2> QED BY <2>2 DEF SumsUp
<1> HIDE DEF v
<1>3. SumOver(it, S, v)
  <2>1. Int \in {Nat, Int}
    OBVIOUS
  <2>2. (\E g : SumsUp(g, S, v)) /\ \A g : SumsUp(g, S, v) => SumOver(g, S, v)
    BY ONLY <1>1, <2>1, IsFiniteSet(S), SumsUpIsSum
  <2>3. it = Adds(it)
    <3> HIDE DEF Adds
    <3> QED BY <1>2, <2>2
  <2> HIDE DEF Adds, it
  <2> QED BY <1>2, <2>2, <2>3
<1>4. SumOf(w, S) = it[S]
  BY DEF SumOf, MapThenSumSet, MapThenFoldSet
<1> HIDE DEF it
<1>5. IsIntSum(it, S, v)
  BY <1>1, <1>3 DEF IsIntSum
<1> QED BY <1>4, <1>5 DEF v

\* The sum over nothing is 0, and any element may be taken off.
LEMMA SumOfTakesAny ==
  ASSUME NEW S, IsFiniteSet(S), NEW w, \A x \in S : w[x] \in Int
  PROVE  /\ SumOf(w, {}) = 0 /\ SumOf(w, S) \in Int
         /\ \A x \in S : SumOf(w, S) = SumOf(w, S \ {x}) + w[x]
<1>1. SumOf(w, {}) = 0
  <2>1. IsFiniteSet({})
    BY FS_EmptySet
  <2>2. PICK g : IsIntSum(g, {}, [x \in {} |-> w[x]]) /\ SumOf(w, {}) = g[{}]
    BY <2>1, SumOfIs
  <2> QED BY <2>2, IntSumTakesAny
<1>2. PICK g, v : v = [x \in S |-> w[x]] /\ IsIntSum(g, S, v) /\ SumOf(w, S) = g[S]
  BY SumOfIs
<1>3. g[{}] = 0 /\ \A s \in SUBSET S : g[s] \in Int /\ \A x \in s : g[s] = g[s \ {x}] + v[x]
  BY ONLY <1>2, IntSumTakesAny
<1>4. ASSUME NEW x \in S PROVE SumOf(w, S) = SumOf(w, S \ {x}) + w[x]
  <2>1. PICK R : R = S \ {x}
    OBVIOUS
  <2>2. R \in SUBSET S /\ IsFiniteSet(R)
    BY <2>1, FS_Subset
  <2>3. PICK h, u : u = [y \in R |-> w[y]] /\ IsIntSum(h, R, u) /\ SumOf(w, R) = h[R]
    BY <2>2, SumOfIs
  <2>4. R \in SUBSET (S \cap R) /\ \A y \in R : v[y] = u[y]
    BY <1>2, <2>2, <2>3
  <2>5. g[R] = h[R]
    BY ONLY <1>2, <2>3, <2>4, SumsMatch
  <2>6. g[S] = g[R] + v[x]
    BY <1>3, <2>1
  <2> QED BY <1>2, <2>1, <2>3, <2>5, <2>6
<1> QED BY <1>1, <1>2, <1>3, <1>4

\* A sum depends on its terms only.
LEMMA SumOfAgree ==
  ASSUME NEW S, IsFiniteSet(S), NEW w, NEW v, \A x \in S : w[x] \in Int /\ v[x] = w[x]
  PROVE  SumOf(v, S) = SumOf(w, S)
<1> DEFINE F == {s \in SUBSET S : SumOf(v, s) = SumOf(w, s)}
<1>1. {} \in F
  BY SumOfTakesAny
<1>2. ASSUME NEW s \in SUBSET S, s # {}, \A x \in s : s \ {x} \in F PROVE s \in F
  <2>1. PICK x \in s : TRUE
    BY <1>2
  <2>2. IsFiniteSet(s)
    BY FS_Subset
  <2>3. SumOf(v, s) = SumOf(v, s \ {x}) + v[x] /\ SumOf(w, s) = SumOf(w, s \ {x}) + w[x]
    BY <2>2, SumOfTakesAny
  <2> QED BY <1>2, <2>3
<1>3. SUBSET S \subseteq F
  <2> HIDE DEF F
  <2> QED BY <1>1, <1>2, SubsetsByInduction
<1> QED BY <1>3

\* A sum over the numbers up to k grows with k.
LEMMA SumOfGrows ==
  ASSUME NEW k \in Nat, NEW w, \A i \in 1..(k + 1) : w[i] \in Int
  PROVE  /\ SumOf(w, 1..0) = 0
         /\ SumOf(w, 1..k) \in Int
         /\ SumOf(w, 1..(k + 1)) = SumOf(w, 1..k) + w[k + 1]
<1>1. IsFiniteSet(1..(k + 1)) /\ IsFiniteSet(1..k)
  BY FS_Interval
<1>2. 1..(k + 1) \ {k + 1} = 1..k /\ 1..0 = {} /\ k + 1 \in 1..(k + 1) /\ \A i \in 1..k : w[i] \in Int
  OBVIOUS
<1>3. SumOf(w, 1..(k + 1)) = SumOf(w, 1..(k + 1) \ {k + 1}) + w[k + 1]
  BY <1>1, <1>2, SumOfTakesAny
<1>4. SumOf(w, {}) = 0 /\ SumOf(w, 1..k) \in Int
  BY <1>1, <1>2, SumOfTakesAny
<1> QED BY <1>2, <1>3, <1>4

\* A sum of zeros.
LEMMA SumOfZeros ==
  ASSUME NEW S, IsFiniteSet(S), NEW w, \A x \in S : w[x] = 0
  PROVE  SumOf(w, S) = 0
<1> DEFINE F == {s \in SUBSET S : SumOf(w, s) = 0}
<1>1. {} \in F
  BY SumOfTakesAny
<1>2. ASSUME NEW s \in SUBSET S, s # {}, \A x \in s : s \ {x} \in F PROVE s \in F
  <2>1. PICK x \in s : TRUE
    BY <1>2
  <2>2. IsFiniteSet(s)
    BY FS_Subset
  <2>3. \A y \in s : w[y] \in Int /\ w[y] = 0
    OBVIOUS
  <2>4. SumOf(w, s) = SumOf(w, s \ {x}) + w[x]
    BY <2>2, <2>3, SumOfTakesAny
  <2> QED BY <1>2, <2>1, <2>3, <2>4
<1>3. SUBSET S \subseteq F
  <2> HIDE DEF F
  <2> QED BY <1>1, <1>2, SubsetsByInduction
<1> QED BY <1>3

\* A sum lies between as many times the least and the greatest of its terms.
LEMMA SumOfBounds ==
  ASSUME NEW n \in Nat, NEW w, \A k \in 1..n : w[k] \in Int, NEW a \in Int
  PROVE  /\ SumOf(w, 1..n) \in Int
         /\ (\A k \in 1..n : a <= w[k]) => n * a <= SumOf(w, 1..n)
         /\ (\A k \in 1..n : w[k] <= a) => SumOf(w, 1..n) <= n * a
<1> DEFINE E == {k \in Nat : k <= n =>
                   /\ SumOf(w, 1..k) \in Int
                   /\ (\A i \in 1..n : a <= w[i]) => k * a <= SumOf(w, 1..k)
                   /\ (\A i \in 1..n : w[i] <= a) => SumOf(w, 1..k) <= k * a}
<1>1. 0 \in E
  <2>1. SumOf(w, {}) = 0 /\ 1..0 = {} /\ 0 * a = 0
    BY FS_EmptySet, SumOfTakesAny
  <2> QED BY <2>1
<1>2. ASSUME NEW k \in Nat, k \in E PROVE k + 1 \in E
  <2>1. CASE k + 1 <= n
    <3>1. k + 1 \in 1..n /\ \A i \in 1..(k + 1) : w[i] \in Int
      BY <2>1
    <3>2. SumOf(w, 1..(k + 1)) = SumOf(w, 1..k) + w[k + 1]
      BY <3>1, SumOfGrows
    <3>3. PICK c \in Int, s \in Int : c = w[k + 1] /\ s = SumOf(w, 1..k)
      BY <1>2, <2>1, <3>1
    <3>4. (k + 1) * a = k * a + a /\ k * a \in Int
      OBVIOUS
    <3>5. ASSUME \A i \in 1..n : a <= w[i] PROVE (k + 1) * a <= SumOf(w, 1..(k + 1))
      <4>1. a <= c /\ k * a <= s
        BY <1>2, <2>1, <3>1, <3>3, <3>5
      <4> QED BY <3>2, <3>3, <3>4, <4>1
    <3>6. ASSUME \A i \in 1..n : w[i] <= a PROVE SumOf(w, 1..(k + 1)) <= (k + 1) * a
      <4>1. c <= a /\ s <= k * a
        BY <1>2, <2>1, <3>1, <3>3, <3>6
      <4> QED BY <3>2, <3>3, <3>4, <4>1
    <3>7. SumOf(w, 1..(k + 1)) \in Int
      BY <3>2, <3>3
    <3> QED BY <3>5, <3>6, <3>7
  <2>2. CASE ~(k + 1 <= n)
    BY <2>2
  <2> QED BY <2>1, <2>2
<1>3. n \in E /\ n <= n
  <2>1. Nat \subseteq E
    <3> HIDE DEF E
    <3> QED BY <1>1, <1>2, NumbersByInduction
  <2> QED BY <2>1
<1> QED BY <1>3

\* Where terms are lost that are below T, less than that many times T is lost.
LEMMA SumOfLost ==
  ASSUME NEW n \in Nat, NEW a, NEW b, NEW T \in Int, \A k \in 1..n : a[k] \in Int /\ b[k] \in Int,
         \A k \in 1..n : a[k] = b[k] \/ (b[k] = 0 /\ 0 < a[k] /\ a[k] < T)
  PROVE  LET lost == SumOf(a, 1..n) - SumOf(b, 1..n) IN
         lost = 0 \/ (0 < T /\ 0 < lost /\ lost < T * n)
<1> DEFINE Lost2(k) == SumOf(a, 1..k) - SumOf(b, 1..k)
           E == {k \in Nat : k <= n => Lost2(k) = 0 \/ (0 < T /\ 0 < Lost2(k) /\ Lost2(k) < T * k)}
<1>1. 0 \in E
  <2>1. SumOf(a, {}) = 0 /\ SumOf(b, {}) = 0 /\ 1..0 = {}
    BY FS_EmptySet, SumOfTakesAny
  <2> QED BY <2>1
<1>2. ASSUME NEW k \in Nat, k \in E PROVE k + 1 \in E
  <2>1. SUFFICES ASSUME k + 1 <= n
                 PROVE  Lost2(k + 1) = 0 \/ (0 < T /\ 0 < Lost2(k + 1) /\ Lost2(k + 1) < T * (k + 1))
    OBVIOUS
  <2>2. k + 1 \in 1..n /\ \A i \in 1..(k + 1) : i \in 1..n
    BY <2>1
  <2>3. /\ SumOf(a, 1..(k + 1)) = SumOf(a, 1..k) + a[k + 1] /\ SumOf(a, 1..k) \in Int
        /\ SumOf(b, 1..(k + 1)) = SumOf(b, 1..k) + b[k + 1] /\ SumOf(b, 1..k) \in Int
    BY <2>2, SumOfGrows
  <2>4. PICK x \in Int, y \in Int, s \in Int, r \in Int :
          x = a[k + 1] /\ y = b[k + 1] /\ s = SumOf(a, 1..k) /\ r = SumOf(b, 1..k)
    BY <2>2, <2>3
  <2>5. x = y \/ (y = 0 /\ 0 < x /\ x < T)
    BY <2>2, <2>4
  <2>6. s - r = 0 \/ (0 < T /\ 0 < s - r /\ s - r < T * k)
    BY <1>2, <2>1, <2>4
  <2>7. Lost2(k + 1) = (s - r) + (x - y)
    <3>1. Lost2(k + 1) = (s + x) - (r + y)
      BY <2>3, <2>4
    <3> HIDE DEF Lost2
    <3> QED BY <3>1
  <2>8. T * (k + 1) = T * k + T /\ T * k \in Int /\ (0 < T => 0 <= T * k)
    OBVIOUS
  <2>9. PICK d \in Int, e \in Int : d = s - r /\ e = T * k
    BY <2>8
  <2>10. d + (x - y) = 0 \/ (0 < T /\ 0 < d + (x - y) /\ d + (x - y) < e + T)
    BY ONLY <2>5, <2>6, <2>8, <2>9, x \in Int, y \in Int, d \in Int, e \in Int, T \in Int
  <2> HIDE DEF Lost2
  <2> QED BY <2>7, <2>8, <2>9, <2>10
<1>3. n \in E /\ n <= n
  <2>1. Nat \subseteq E
    <3> HIDE DEF E
    <3> QED BY <1>1, <1>2, NumbersByInduction
  <2> QED BY <2>1
<1> QED BY <1>3

-----------------------------------------------------------------------------
(* Digitization.                                                           *)

\* What is known of the constants that digitization uses.
LEMMA Digitizers ==
  /\ IsFiniteSet(PMTs) /\ Cable \in [PMTs -> Int] /\ MaxADC \in Int /\ Baseline \in Int
  /\ Early \in Nat /\ Late \in Nat /\ Reach = -Early .. Late
  /\ Noise \subseteq [Samples -> Int] /\ \A p \in PMTs : Pulses[p] \subseteq [Reach -> Int]
  /\ NSamples \in Nat \ {0} /\ NSamples <= INVALID /\ Samples = 0 .. NSamples - 1
<1>1. NSamples \in 1 .. INVALID /\ MaxADC \in Nat
  BY WaveformAssumption, Zenon
<1>2. NSamples \in Nat \ {0} /\ NSamples <= INVALID /\ MaxADC \in Int
  BY <1>1 DEF INVALID
<1>3. {Early, Late} \subseteq Nat
  BY WaveformAssumption, Zenon
<1>4. Early \in Nat /\ Late \in Nat /\ Reach = -Early .. Late
  BY <1>3 DEF Reach
<1> QED BY <1>2, <1>4, WaveformAssumption, Zenon DEF Samples

\* The photons of an MCPMT.
LEMMA PhotonsAre ==
  ASSUME NEW m \in MCPMT
  PROVE  /\ m.id \in PMTs /\ Cable[m.id] \in Int
         /\ IsFiniteSet(DOMAIN m.photons)
         /\ \A k \in DOMAIN m.photons : m.photons[k].fet \in Int /\ m.photons[k].charge \in Int
<1>1. m.id \in PMTs /\ m.photons \in Seq([fet : Int, charge : Int])
  BY DEF MCPMT
<1>2. PICK n \in Nat : DOMAIN m.photons = 1..n
  BY <1>1
<1>3. IsFiniteSet(1..n)
  BY FS_Interval
<1>4. \A k \in DOMAIN m.photons : m.photons[k].fet \in Int /\ m.photons[k].charge \in Int
  <2>1. PICK Ph : Ph = [fet : Int, charge : Int]
    OBVIOUS
  <2>2. PICK s \in Seq(Ph) : s = m.photons
    BY <1>1, <2>1
  <2>3. \A k \in DOMAIN s : s[k] \in Ph
    OBVIOUS
  <2> QED BY <2>1, <2>2, <2>3
<1> QED BY <1>1, <1>2, <1>3, <1>4, Digitizers

\* The photons' parts of a height.
Parts(m, trigger, pulses, s) ==
  [k \in DOMAIN m.photons |->
     IF s - Arrival(m, k, trigger) \in Reach
       THEN m.photons[k].charge * pulses[k][s - Arrival(m, k, trigger)] ELSE 0]

\* A height is a whole number, and zero where no photon reaches.
LEMMA HeightTyped ==
  ASSUME NEW m \in MCPMT, NEW trigger \in Int, NEW s \in Int,
         NEW pulses \in [DOMAIN m.photons -> Pulses[m.id]]
  PROVE  /\ Height(m, trigger, pulses, s) \in Int
         /\ (\A k \in DOMAIN m.photons : s - Arrival(m, k, trigger) \notin Reach)
              => Height(m, trigger, pulses, s) = 0
<1>1. Height(m, trigger, pulses, s) = -SumOf(Parts(m, trigger, pulses, s), DOMAIN m.photons)
  BY DEF Height, Parts, Total
<1>2. ASSUME NEW k \in DOMAIN m.photons PROVE Parts(m, trigger, pulses, s)[k] \in Int
  <2>1. PICK q \in Int : q = m.photons[k].charge
    BY PhotonsAre
  <2>2. PICK d : d = s - Arrival(m, k, trigger)
    OBVIOUS
  <2>3. Parts(m, trigger, pulses, s)[k] = IF d \in Reach THEN q * pulses[k][d] ELSE 0
    BY <2>1, <2>2 DEF Parts
  <2>4. pulses[k] \in [Reach -> Int]
    <3>1. m.id \in PMTs /\ pulses[k] \in Pulses[m.id]
      BY PhotonsAre
    <3> QED BY <3>1, Digitizers
  <2>5. d \in Reach => pulses[k][d] \in Int
    BY <2>4
  <2> QED BY ONLY <2>3, <2>5, q \in Int
<1>3. SumOf(Parts(m, trigger, pulses, s), DOMAIN m.photons) \in Int
  BY <1>2, PhotonsAre, SumOfTakesAny
<1>4. ASSUME \A k \in DOMAIN m.photons : s - Arrival(m, k, trigger) \notin Reach
      PROVE  SumOf(Parts(m, trigger, pulses, s), DOMAIN m.photons) = 0
  <2>1. \A k \in DOMAIN m.photons : Parts(m, trigger, pulses, s)[k] = 0
    BY <1>4 DEF Parts
  <2> QED BY <2>1, PhotonsAre, SumOfZeros
<1> QED BY <1>1, <1>3, <1>4

\* The digitizer's range.
LEMMA Clamped ==
  ASSUME NEW x \in Int
  PROVE  Clamp(x) \in Int
<1>1. ASSUME NEW a \in Int, NEW b \in Int
      PROVE  {a, b} \in SUBSET Int /\ IsFiniteSet({a, b}) /\ {a, b} # {}
  <2>1. {a, b} = {a} \cup {b}
    OBVIOUS
  <2>2. IsFiniteSet({a} \cup {b})
    BY FS_Singleton, FS_Union
  <2> QED BY <2>1, <2>2
<1>2. Min({MaxADC, x}) \in Int
  BY <1>1, Extremes, Digitizers
<1>3. Clamp(x) \in {0, Min({MaxADC, x})}
  BY <1>1, <1>2, Extremes DEF Clamp
<1> QED BY <1>2, <1>3

\* The samples of an MCPMT, whatever is drawn.
LEMMA DrawnIs ==
  ASSUME NEW m \in MCPMT, NEW t \in Int, NEW w \in Drawn(m, t)
  PROVE  /\ w \in [Samples -> Int]
         /\ \A s \in Samples : (\A k \in DOMAIN m.photons : s - Arrival(m, k, t) \notin Reach)
              => w[s] \in Quiet(s)
<1>1. PICK pulses \in [DOMAIN m.photons -> Pulses[m.id]], noise \in Noise :
        w = Waveform(m, t, pulses, noise)
  BY DEF Drawn
<1>2. w = [s \in Samples |-> Clamp(Baseline + Height(m, t, pulses, s) + noise[s])]
  BY <1>1 DEF Waveform
<1>3. \A s \in Samples : s \in Int /\ noise[s] \in Int
  <2>1. noise \in [Samples -> Int]
    BY Digitizers
  <2> QED BY <2>1, Digitizers
<1>4. ASSUME NEW s \in Samples
      PROVE  /\ Clamp(Baseline + Height(m, t, pulses, s) + noise[s]) \in Int
             /\ (\A k \in DOMAIN m.photons : s - Arrival(m, k, t) \notin Reach)
                  => w[s] = Clamp(Baseline + noise[s])
  <2>1. PICK h \in Int : h = Height(m, t, pulses, s)
    BY <1>3, HeightTyped
  <2>2. PICK b \in Int, r \in Int : b = Baseline /\ r = noise[s]
    BY <1>3, Digitizers
  <2>3. Clamp(b + h + r) \in Int
    <3>1. b + h + r \in Int
      OBVIOUS
    <3> QED BY <3>1, Clamped
  <2>4. ASSUME \A k \in DOMAIN m.photons : s - Arrival(m, k, t) \notin Reach
        PROVE  b + h + r = b + r
    <3>1. h = 0
      BY <1>3, <2>1, <2>4, HeightTyped
    <3> QED BY <3>1
  <2>5. w[s] = Clamp(b + h + r)
    BY <1>2, <2>1, <2>2
  <2> QED BY <2>1, <2>2, <2>3, <2>4, <2>5
<1> QED BY <1>2, <1>4 DEF Quiet

\* The channels of the MCPMTs that are taken, whatever is drawn for them.
LEMMA FilledIs ==
  ASSUME mc \in Seq(MCPMT), NEW t \in Int, NEW taken \in SUBSET DOMAIN mc,
         NEW f \in Filled(NoChannels, t, taken)
  PROVE  /\ DOMAIN f = {mc[i].id : i \in taken}
         /\ \A p \in DOMAIN f : \E i \in taken : mc[i].id = p /\ f[p] \in Drawn(mc[i], t)
<1>1. PICK n \in Nat : n = Len(mc) /\ DOMAIN mc = 1..n
  OBVIOUS
<1>2. \A i \in 1..n : mc[i] \in MCPMT /\ mc[i].id \in PMTs
  <2>1. \A i \in 1..n : mc[i] \in MCPMT
    BY <1>1
  <2> QED BY <2>1 DEF MCPMT
<1> DEFINE D == 1..n
           V == [Samples -> Int]
           C == UNION {[ids -> V] : ids \in SUBSET PMTs}
           I == SUBSET C
           base == {NoChannels}
           seq == [i \in DOMAIN mc |-> i]
           Op(x, ds) == IF x \in taken THEN DigitizePMT(ds, mc[x], t) ELSE ds
           h == [z \in D \X I |-> Op(z[1], z[2])]
           Roll(g) == [s \in SUBSET DOMAIN seq |->
                         IF s = {} THEN base ELSE LET x == Max(s) IN Op(seq[x], g[s \ {x}])]
           it == CHOOSE g : g = Roll(g)
<1>3. DOMAIN seq = D /\ \A x \in D : seq[x] = x
  BY <1>1
<1>4. ASSUME NEW k \in D, NEW ds \in I PROVE Op(k, ds) \in I
  <2>1. CASE k \in taken
    <3>1. ASSUME NEW new \in DigitizePMT(ds, mc[k], t) PROVE new \in C
      <4>1. PICK d \in ds, w \in Drawn(mc[k], t) : new = AddChannel(d, mc[k].id, w)
        BY DEF DigitizePMT
      <4>2. PICK ids \in SUBSET PMTs : d \in [ids -> V]
        OBVIOUS
      <4>3. w \in V /\ mc[k].id \in PMTs
        BY <1>2, DrawnIs
      <4>4. PICK p \in PMTs : p = mc[k].id
        BY <4>3
      <4>5. new = [q \in ids \cup {p} |-> IF q = p THEN w ELSE d[q]]
        BY <4>1, <4>2, <4>4 DEF AddChannel
      <4>6. new \in [ids \cup {p} -> V]
        <5> HIDE DEF V
        <5> QED BY <4>2, <4>3, <4>5
      <4>7. ids \cup {p} \in SUBSET PMTs
        OBVIOUS
      <4> HIDE DEF V
      <4> QED BY <4>6, <4>7
    <3> HIDE DEF C
    <3> QED BY <2>1, <3>1
  <2>2. CASE k \notin taken
    BY <2>2
  <2> QED BY <2>1, <2>2
<1>5. base \in I
  <2>1. NoChannels \in [{} -> V]
    BY DEF NoChannels
  <2> QED BY <2>1
<1> HIDE DEF I, Op, base
<1>6. PICK g : /\ \A s \in SUBSET D : g[s] \in I
               /\ g = [s \in SUBSET D |-> IF s = {} THEN base ELSE h[Max(s), g[s \ {Max(s)}]]]
               /\ \A s \in SUBSET D : s # {} => Max(s) \in D
  <2>1. Keeps(h, D, I)
    BY <1>4 DEF Keeps
  <2> HIDE DEF h
  <2> QED BY <1>5, <2>1, FoldsLeft
<1>7. g = Roll(g)
  <2>1. ASSUME NEW s \in SUBSET D, s # {}
        PROVE  h[Max(s), g[s \ {Max(s)}]] = Op(seq[Max(s)], g[s \ {Max(s)}])
    <3>1. Max(s) \in D /\ s \ {Max(s)} \in SUBSET D
      BY <1>6, <2>1
    <3>2. g[s \ {Max(s)}] \in I
      BY <1>6, <3>1
    <3>3. seq[Max(s)] = Max(s)
      BY <1>3, <3>1
    <3> HIDE DEF seq, D
    <3> QED BY <3>1, <3>2, <3>3
  <2> HIDE DEF seq, h, D
  <2> QED BY <1>3, <1>6, <2>1
<1>8. it = Roll(it)
  <2> HIDE DEF Roll
  <2> QED BY <1>7
<1> HIDE DEF it
<1>9. it[1..0] = base /\ \A k \in D : it[1..k] = Op(k, it[1..(k - 1)])
  <2>1. 1..0 = {} /\ {} \in SUBSET D
    OBVIOUS
  <2> HIDE DEF seq
  <2>2. it[1..0] = base
    BY <1>3, <1>8, <2>1
  <2>3. ASSUME NEW k \in D PROVE it[1..k] = Op(k, it[1..(k - 1)])
    <3>1. 1..k \in SUBSET D /\ 1..k # {} /\ Max(1..k) = k /\ (1..k) \ {k} = 1..(k - 1)
      BY RollsOn
    <3>2. PICK K : K = 1..k
      OBVIOUS
    <3>3. K \in SUBSET DOMAIN seq /\ K # {} /\ seq[Max(K)] = k /\ K \ {Max(K)} = 1..(k - 1)
      <4> HIDE DEF D
      <4> QED BY <1>3, <3>1, <3>2
    <3>4. it[K] = Op(seq[Max(K)], it[K \ {Max(K)}])
      BY <1>8, <3>3
    <3> QED BY <3>2, <3>3, <3>4
  <2> QED BY <2>2, <2>3
<1>10. f \in it[1..n]
  <2>1. f \in it[DOMAIN seq]
    BY DEF Filled, FoldLeftDomain, FoldLeft, MapThenFoldSet, it, Op, base
  <2> QED BY <1>3, <2>1
<1> DEFINE Good(k) == \A d \in it[1..k] :
                        /\ DOMAIN d = {mc[i].id : i \in taken \cap (1..k)}
                        /\ \A p \in DOMAIN d : \E i \in taken \cap (1..k) :
                             mc[i].id = p /\ d[p] \in Drawn(mc[i], t)
           E == {k \in Nat : k <= n => Good(k)}
<1>11. 0 \in E
  <2>1. \A d \in it[1..0] : DOMAIN d = {}
    BY <1>9 DEF NoChannels, base
  <2>2. {mc[i].id : i \in taken \cap (1..0)} = {}
    OBVIOUS
  <2>3. Good(0)
    <3> SUFFICES ASSUME NEW d \in it[1..0]
                 PROVE  /\ DOMAIN d = {mc[i].id : i \in taken \cap (1..0)}
                        /\ \A p \in DOMAIN d : \E i \in taken \cap (1..0) :
                             mc[i].id = p /\ d[p] \in Drawn(mc[i], t)
      OBVIOUS
    <3> QED BY <2>1, <2>2
  <2> HIDE DEF Good
  <2> QED BY <2>3
<1>12. ASSUME NEW k \in Nat, k \in E PROVE k + 1 \in E
  <2>1. SUFFICES ASSUME k + 1 <= n PROVE Good(k + 1)
    <3> HIDE DEF Good
    <3> QED OBVIOUS
  <2> SUFFICES ASSUME NEW new \in it[1..(k + 1)]
               PROVE  /\ DOMAIN new = {mc[i].id : i \in taken \cap (1..(k + 1))}
                      /\ \A p \in DOMAIN new : \E i \in taken \cap (1..(k + 1)) :
                           mc[i].id = p /\ new[p] \in Drawn(mc[i], t)
    OBVIOUS
  <2>2. k + 1 \in D /\ (k + 1) - 1 = k /\ 1..(k + 1) = (1..k) \cup {k + 1}
    BY <2>1
  <2>3. PICK ds : ds = it[1..k]
    OBVIOUS
  <2>4. \A d \in ds : /\ DOMAIN d = {mc[i].id : i \in taken \cap (1..k)}
                      /\ \A p \in DOMAIN d : \E i \in taken \cap (1..k) :
                           mc[i].id = p /\ d[p] \in Drawn(mc[i], t)
    <3>1. Good(k)
      <4> HIDE DEF Good
      <4> QED BY <1>1, <1>12, <2>1
    <3> QED BY <2>3, <3>1
  <2>6. new \in Op(k + 1, ds)
    BY <1>9, <2>1, <2>2, <2>3
  <2>7. CASE k + 1 \in taken
    <3>1. PICK m : m = mc[k + 1]
      OBVIOUS
    <3>2. PICK d \in ds, w \in Drawn(m, t) : new = AddChannel(d, m.id, w)
      BY <2>6, <2>7, <3>1 DEF Op, DigitizePMT
    <3>3. new = [p \in DOMAIN d \cup {m.id} |-> IF p = m.id THEN w ELSE d[p]]
      BY <3>2 DEF AddChannel
    <3>4. taken \cap (1..(k + 1)) = (taken \cap (1..k)) \cup {k + 1}
      BY <2>2, <2>7
    <3>5. /\ DOMAIN d = {mc[i].id : i \in taken \cap (1..k)}
          /\ \A p \in DOMAIN d : \E i \in taken \cap (1..k) : mc[i].id = p /\ d[p] \in Drawn(mc[i], t)
      BY <2>4
    <3>6. DOMAIN new = {mc[i].id : i \in taken \cap (1..(k + 1))}
      BY <3>1, <3>3, <3>4, <3>5
    <3>7. ASSUME NEW p \in DOMAIN new
          PROVE  \E i \in taken \cap (1..(k + 1)) : mc[i].id = p /\ new[p] \in Drawn(mc[i], t)
      BY <3>1, <3>3, <3>4, <3>5
    <3> QED BY <3>6, <3>7
  <2>8. CASE k + 1 \notin taken
    <3>1. new \in ds
      BY <2>6, <2>8 DEF Op
    <3>2. taken \cap (1..(k + 1)) = taken \cap (1..k)
      BY <2>2, <2>8
    <3> QED BY <2>4, <3>1, <3>2
  <2> QED BY <2>7, <2>8
<1>13. Nat \subseteq E
  <2> HIDE DEF E
  <2> QED BY <1>11, <1>12, NumbersByInduction
<1>14. Good(n)
  <2> HIDE DEF Good
  <2> QED BY <1>1, <1>13
<1>15. taken \cap (1..n) = taken
  BY <1>1
<1> QED BY <1>10, <1>14, <1>15

-----------------------------------------------------------------------------
(* The invariant.                                                          *)

Fields == {"trigger", "pmts", "digitized", "waveforms", "digits", "prepared", "charge"}

\* Waveforms have all samples, and belong to PMTs.
Shaped(ev) ==
  /\ DOMAIN ev = Fields /\ ev.trigger \in Int
  /\ DOMAIN ev.waveforms \subseteq PMTs
  /\ \A p \in DOMAIN ev.waveforms : ev.waveforms[p] \in [Samples -> Int]

\* Waveforms are such as may be drawn for an MCPMT of the PMT at the EV's trigger.
Sampled(ev) ==
  Digitized(ev) =>
    /\ DOMAIN ev.waveforms = ev.pmts
    /\ \A p \in ev.pmts : \E i \in MCPMTsOf(p) : ev.waveforms[p] \in Drawn(mc[i], ev.trigger)

\* A DigitPMT is what its waveform gives, but for the photoelectrons.
Measured(ev) ==
  \A p \in DOMAIN ev.digits :
    /\ p \in DOMAIN ev.waveforms \cap Online
    /\ ev.digits[p] = DoAnalysis(p, ev.waveforms[p], ev.digits[p].result)

\* The online channels that cross the threshold.
Over(ev) == {p \in DOMAIN ev.waveforms \cap Online :
               \E s \in Samples : Voltage(ev.waveforms[p])[s] < Threshold}
Charged(ev) ==
  ev.prepared =>
    /\ Over(ev) \subseteq DOMAIN ev.digits
    /\ fZeroSuppress => DOMAIN ev.digits = Over(ev)
    /\ ev.charge = Total([p \in Over(ev) |-> ev.digits[p].charge])

PE == [time : Int, charge : Int]
Lost(result) == ChargeOf(FlattenSeq(result.found)) - ChargeOf(result.pes)

InOrder(pes) == \A m, n \in DOMAIN pes : m < n => pes[m].time <= pes[n].time
Apart(pes) ==
  \A m, n \in DOMAIN pes : pes[m].time < pes[n].time => pes[n].time - pes[m].time > MinDistance

\* The photoelectrons are those of the packets found, but for low clusters.
Accounted(result) ==
  /\ DOMAIN result = {"offset", "pes", "found", "exists"} /\ result.offset \in Int
  /\ result.found \in Seq(Packets) /\ result.pes \in Seq(PE) /\ InOrder(result.pes)
  /\ \/ Lost(result) = 0
     \/ /\ 0 < ChargeThreshold /\ 0 < Lost(result)
        /\ Lost(result) < ChargeThreshold * Len(FlattenSeq(result.found))
  /\ result.found = <<>> => result.pes = <<>>
  /\ Len(result.found) = 1 => Apart(result.pes)

Analysed(ev) == \A p \in DOMAIN ev.digits : Accounted(ev.digits[p].result)

GoodEV(ev) == Shaped(ev) /\ Sampled(ev) /\ Measured(ev) /\ Charged(ev) /\ Analysed(ev)

\* The digitizer is empty between EVs, and each EV agrees with its waveforms.
WaveInv ==
  /\ fDigitWaveForm = NoChannels
  /\ mc \in Seq(MCPMT)
  /\ \A k \in DOMAIN evs : GoodEV(evs[k])

-----------------------------------------------------------------------------
(* The DAQ processors.                                                     *)

\* The EVs that a digitizing DAQ processor may build.
EVsOf(t, taken, charge) ==
  {WriteToEvent(NewEV(t, taken, charge), f) : f \in Filled(NoChannels, t, taken)}

LEMMA AddEVIs ==
  ASSUME NEW daq, daq.digitizer = NoChannels, NEW t, NEW taken, NEW q, NEW new \in AddEV(daq, t, taken, q)
  PROVE  \E ev \in EVsOf(t, taken, q) :
           new = [digitizer |-> NoChannels, evs |-> Append(daq.evs, ev)]
BY DEF AddEV, ClearWaveforms, EVsOf

\* Nothing has been made of its waveforms yet.
LEMMA NewEVIsGood ==
  ASSUME mc \in Seq(MCPMT), NEW t \in Int, NEW taken \in SUBSET DOMAIN mc, NEW q, NEW ev,
         ev = NewEV(t, taken, q) \/ ev \in EVsOf(t, taken, q)
  PROVE  GoodEV(ev)
<1>3. \A i \in DOMAIN mc : mc[i] \in MCPMT /\ mc[i].id \in PMTs
  <2>1. \A i \in DOMAIN mc : mc[i] \in MCPMT
    OBVIOUS
  <2> QED BY <2>1 DEF MCPMT
<1>4. /\ DOMAIN ev = Fields /\ ev.trigger = t /\ ev.pmts = {mc[i].id : i \in taken}
      /\ ev.digits = NoChannels /\ ev.prepared = FALSE
      /\ \/ ev.waveforms = NoChannels /\ ev.digitized = FALSE
         \/ ev.waveforms \in Filled(NoChannels, t, taken)
  <2>1. PICK ids : ids = {mc[i].id : i \in taken}
    OBVIOUS
  <2>2. PICK e : e = [trigger |-> t, pmts |-> ids, digitized |-> FALSE, waveforms |-> NoChannels,
                      digits |-> NoChannels, prepared |-> FALSE, charge |-> q]
    OBVIOUS
  <2>3. e = NewEV(t, taken, q)
    BY <2>1, <2>2 DEF NewEV
  <2>5. /\ DOMAIN e = Fields /\ e.trigger = t /\ e.pmts = ids /\ e.waveforms = NoChannels
        /\ e.digits = NoChannels /\ e.prepared = FALSE /\ e.digitized = FALSE
    BY ONLY <2>2 DEF Fields
  <2>6. CASE ev = e
    BY ONLY <2>1, <2>5, <2>6
  <2>7. CASE ev \in EVsOf(t, taken, q)
    <3>1. PICK f \in Filled(NoChannels, t, taken) :
            ev = [e EXCEPT !.digitized = TRUE, !.waveforms = f]
      BY <2>3, <2>7 DEF EVsOf, WriteToEvent
    <3>2. DOMAIN ev = Fields /\ ev.waveforms = f
      BY ONLY <2>5, <3>1 DEF Fields
    <3>3. ev.trigger = t /\ ev.pmts = ids /\ ev.digits = NoChannels /\ ev.prepared = FALSE
      BY ONLY <2>5, <3>1 DEF Fields
    <3> QED BY ONLY <2>1, <3>1, <3>2, <3>3
  <2> QED BY <2>3, <2>6, <2>7
<1>1. PICK f : f = ev.waveforms
  OBVIOUS
<1>2. \/ f = NoChannels /\ ev.digitized = FALSE
      \/ /\ DOMAIN f = {mc[i].id : i \in taken}
         /\ \A p \in DOMAIN f : \E i \in taken : mc[i].id = p /\ f[p] \in Drawn(mc[i], t)
  <2>1. \A g \in Filled(NoChannels, t, taken) :
           /\ DOMAIN g = {mc[i].id : i \in taken}
           /\ \A p \in DOMAIN g : \E i \in taken : mc[i].id = p /\ g[p] \in Drawn(mc[i], t)
    BY mc \in Seq(MCPMT), FilledIs, Zenon
  <2>2. CASE f = NoChannels /\ ev.digitized = FALSE
    BY <2>2
  <2>3. CASE f \in Filled(NoChannels, t, taken)
    BY ONLY <2>1, <2>3
  <2> QED BY <1>1, <1>4, <2>2, <2>3
<1>5. Shaped(ev)
  <2>1. DOMAIN NoChannels = {}
    BY DEF NoChannels
  <2>2. DOMAIN f \subseteq PMTs
    BY <1>2, <1>3, <2>1
  <2>3. ASSUME NEW p \in DOMAIN f PROVE f[p] \in [Samples -> Int]
    <3>1. PICK i \in taken : f[p] \in Drawn(mc[i], t)
      BY <1>2, <2>1, <2>3
    <3>2. mc[i] \in MCPMT
      BY <1>3
    <3> QED BY <3>1, <3>2, DrawnIs
  <2> QED BY <1>1, <1>4, <2>2, <2>3 DEF Shaped
<1>6. Sampled(ev)
  <2>1. ASSUME ev.digitized
        PROVE  /\ DOMAIN f = ev.pmts
               /\ \A p \in ev.pmts : \E i \in MCPMTsOf(p) : f[p] \in Drawn(mc[i], ev.trigger)
    <3>1. /\ DOMAIN f = ev.pmts
          /\ \A p \in ev.pmts : \E i \in taken : mc[i].id = p /\ f[p] \in Drawn(mc[i], t)
      BY <1>2, <1>4, <2>1
    <3> QED BY <1>4, <3>1 DEF MCPMTsOf
  <2> QED BY <1>1, <2>1 DEF Sampled, Digitized
<1>7. Measured(ev) /\ Charged(ev) /\ Analysed(ev)
  <2>1. DOMAIN ev.digits = {}
    BY <1>4 DEF NoChannels
  <2> QED BY <1>4, <2>1 DEF Measured, Charged, Analysed
<1> QED BY <1>5, <1>6, <1>7 DEF GoodEV

\* A new EV of a detector's event.
LEMMA RecordedIsGood ==
  ASSUME mc = <<>>, NEW ev, IsNewEV(ev)
  PROVE  GoodEV(ev)
<1>1. /\ DOMAIN ev.waveforms \subseteq PMTs
      /\ ev.waveforms \in [DOMAIN ev.waveforms -> [Samples -> Int]]
      /\ DOMAIN ev = Fields /\ ev.trigger \in Int /\ ev.digits = NoChannels /\ ev.prepared = FALSE
  <2>1. PICK w : w = ev.waveforms
    OBVIOUS
  <2>2. ev \in [trigger : Int, pmts : SUBSET PMTs, digitized : BOOLEAN, waveforms : {w},
                digits : {NoChannels}, prepared : {FALSE}, charge : Int]
    BY <2>1 DEF IsNewEV
  <2>3. DOMAIN ev = Fields /\ ev.trigger \in Int /\ ev.digits = NoChannels /\ ev.prepared = FALSE
    BY <2>2 DEF Fields
  <2> QED BY <2>3 DEF IsNewEV
<1>2. Shaped(ev)
  BY <1>1 DEF Shaped
<1>3. Sampled(ev)
  BY DEF Sampled, Digitized
<1>4. Measured(ev) /\ Charged(ev) /\ Analysed(ev)
  <2>1. DOMAIN ev.digits = {}
    BY <1>1 DEF NoChannels
  <2> QED BY <1>1, <2>1 DEF Measured, Charged, Analysed
<1> QED BY <1>2, <1>3, <1>4 DEF GoodEV

\* The EVs that the MCPMTs may give.
BuiltEVs == UNION {EVsOf(t, Taken(t), TakenCharge(t)) : t \in Int}

LEMMA BuiltEVsAre ==
  /\ \A t \in Int : EVsOf(t, Taken(t), TakenCharge(t)) \subseteq BuiltEVs
  /\ mc \in Seq(MCPMT) => \A ev \in BuiltEVs : GoodEV(ev)
<1>1. ASSUME mc \in Seq(MCPMT), NEW ev \in BuiltEVs PROVE GoodEV(ev)
  <2>1. PICK t \in Int : ev \in EVsOf(t, Taken(t), TakenCharge(t))
    BY DEF BuiltEVs
  <2>2. Taken(t) \in SUBSET DOMAIN mc
    BY DEF Taken
  <2> QED BY <1>1, <2>1, <2>2, NewEVIsGood
<1> QED BY <1>1 DEF BuiltEVs

\* The EVs of SplitEVDAQ.
LEMMA SplitIsGood ==
  ASSUME mc \in Seq(MCPMT), fDigitWaveForm = NoChannels,
         NEW triggers \in Seq(Int), SplitEVDAQ(triggers)
  PROVE  fDigitWaveForm' = NoChannels /\ \A k \in DOMAIN evs' : GoodEV(evs'[k])
<1>1. PICK n \in Nat : n = Len(triggers) /\ DOMAIN triggers = 1..n
  OBVIOUS
<1>2. \A k \in 1..n : triggers[k] \in Int
  BY <1>1
<1> DEFINE D == 1..n
           C == {[digitizer |-> NoChannels, evs |-> s] : s \in Seq(BuiltEVs)}
           I == SUBSET C
           base == {[digitizer |-> NoChannels, evs |-> <<>>]}
           Op(x, daqs) == UNION {AddEV(daq, triggers[x], Taken(triggers[x]), TakenCharge(triggers[x])) :
                                 daq \in daqs}
           h == [z \in D \X I |-> Op(z[1], z[2])]
           Roll(g) == [s \in SUBSET DOMAIN triggers |->
                         IF s = {} THEN base ELSE LET x == Max(s) IN Op(x, g[s \ {x}])]
           it == CHOOSE g : g = Roll(g)
<1>4. ASSUME NEW k \in D, NEW daqs \in I PROVE Op(k, daqs) \in I
  <2>1. PICK t, taken, q : t = triggers[k] /\ taken = Taken(triggers[k]) /\ q = TakenCharge(triggers[k])
    OBVIOUS
  <2>2. ASSUME NEW daq \in daqs, NEW new \in AddEV(daq, t, taken, q) PROVE new \in C
    <3>1. PICK s \in Seq(BuiltEVs) : daq = [digitizer |-> NoChannels, evs |-> s]
      OBVIOUS
    <3>2. daq.digitizer = NoChannels /\ daq.evs = s
      BY <3>1
    <3>3. PICK ev \in EVsOf(t, taken, q) : new = [digitizer |-> NoChannels, evs |-> Append(s, ev)]
      BY ONLY <2>2, <3>2, AddEVIs
    <3>4. ev \in BuiltEVs
      BY <1>2, <2>1, <3>3, BuiltEVsAre
    <3>5. Append(s, ev) \in Seq(BuiltEVs)
      BY <3>4
    <3> QED BY <3>3, <3>5
  <2>3. Op(k, daqs) = UNION {AddEV(daq, t, taken, q) : daq \in daqs}
    BY <2>1
  <2> HIDE DEF Op, C
  <2> QED BY <2>2, <2>3
<1>5. base \in I
  <2>1. \A X : <<>> \in Seq(X)
    OBVIOUS
  <2>2. [digitizer |-> NoChannels, evs |-> <<>>] \in C
    BY <2>1, Zenon
  <2> QED BY <2>2
<1> HIDE DEF I, Op, base
<1>6. PICK g : /\ \A s \in SUBSET D : g[s] \in I
               /\ g = [s \in SUBSET D |-> IF s = {} THEN base ELSE h[Max(s), g[s \ {Max(s)}]]]
               /\ \A s \in SUBSET D : s # {} => Max(s) \in D
  <2>1. Keeps(h, D, I)
    BY <1>4 DEF Keeps
  <2> HIDE DEF h
  <2> QED BY <1>5, <2>1, FoldsLeft
<1>7. g = Roll(g)
  <2>1. ASSUME NEW s \in SUBSET D, s # {}
        PROVE  h[Max(s), g[s \ {Max(s)}]] = Op(Max(s), g[s \ {Max(s)}])
    <3>1. Max(s) \in D /\ s \ {Max(s)} \in SUBSET D
      BY <1>6, <2>1
    <3>2. g[s \ {Max(s)}] \in I
      BY <1>6, <3>1
    <3> HIDE DEF D
    <3> QED BY <3>1, <3>2
  <2> HIDE DEF h, D
  <2> QED BY <1>1, <1>6, <2>1 DEF D
<1>8. it = Roll(it)
  <2> HIDE DEF Roll
  <2> QED BY <1>7
<1>9. PICK built \in it[1..n] : evs' = built.evs /\ fDigitWaveForm' = built.digitizer
  <2>1. NoEVs = [digitizer |-> NoChannels, evs |-> <<>>]
    BY fDigitWaveForm = NoChannels DEF NoEVs
  <2> QED BY <1>1, <2>1 DEF SplitEVDAQ, DAQ, FoldLeft, MapThenFoldSet, Op, base, it, Roll
<1> HIDE DEF it
<1> DEFINE E == {k \in Nat : k <= n => it[1..k] \in I}
<1>10. 0 \in E
  <2>1. 1..0 = {} /\ {} \in SUBSET DOMAIN triggers
    OBVIOUS
  <2> QED BY <1>5, <1>8, <2>1
<1>11. ASSUME NEW k \in Nat, k \in E PROVE k + 1 \in E
  <2>1. SUFFICES ASSUME k + 1 <= n PROVE it[1..(k + 1)] \in I
    OBVIOUS
  <2>2. k + 1 \in D /\ (k + 1) - 1 = k
    BY <2>1
  <2>3. PICK K : K = 1..(k + 1)
    OBVIOUS
  <2>4. K \in SUBSET DOMAIN triggers /\ K # {} /\ Max(K) = k + 1 /\ K \ {Max(K)} = 1..k
    BY <1>1, <2>2, <2>3, RollsOn
  <2>5. it[K] = Op(k + 1, it[1..k])
    BY <1>8, <2>4
  <2>6. it[1..k] \in I
    BY <1>11, <2>1
  <2> QED BY <1>4, <2>2, <2>3, <2>5, <2>6
<1>12. Nat \subseteq E
  <2> HIDE DEF E
  <2> QED BY <1>10, <1>11, NumbersByInduction
<1>13. built \in C
  <2>1. it[1..n] \in I
    BY <1>12
  <2> QED BY <1>9, <2>1 DEF I
<1>14. PICK s \in Seq(BuiltEVs) : built = [digitizer |-> NoChannels, evs |-> s]
  BY <1>13
<1>15. ASSUME NEW k \in DOMAIN s PROVE GoodEV(s[k])
  BY BuiltEVsAre
<1> QED BY <1>9, <1>14, <1>15

-----------------------------------------------------------------------------
(* WaveformPrep.                                                           *)

\* The samples at which a waveform goes below the threshold, having been above it
\* since it last was below.
Crosses(v, threshold) ==
  {i \in DOMAIN v : v[i] < threshold
     /\ \A j \in 0 .. i - 1 : v[j] < threshold => \E l \in j .. i : v[l] > threshold}

\* GetCrossingsInfo counts them, and there is one if any sample is below.
LEMMA CrossingsAre ==
  ASSUME NEW n \in Nat, NEW v \in [0 .. n - 1 -> Int], NEW threshold \in Int
  PROVE  /\ GetNCrossings(v, threshold) = Cardinality(Crosses(v, threshold))
         /\ GetNCrossings(v, threshold) \in Nat
         /\ GetNCrossings(v, threshold) > 0 <=> \E s \in 0 .. n - 1 : v[s] < threshold
<1> DEFINE D == 0 .. n - 1
           Below(i) == \E j \in 0 .. i : v[j] < threshold /\ \A l \in j .. i : v[l] <= threshold
           Scan(g) == [i \in {-1} \cup DOMAIN v |->
                         i >= 0 /\ (v[i] < threshold \/ (v[i] = threshold /\ g[i - 1]))]
           crossed == CHOOSE g : g = Scan(g)
           f == [i \in {-1} \cup DOMAIN v |-> Below(i)]
<1>1. DOMAIN v = D /\ \A i \in D : v[i] \in Int
  OBVIOUS
<1>2. ASSUME NEW i \in D
      PROVE  Below(i) <=> (v[i] < threshold \/ (v[i] = threshold /\ Below(i - 1)))
  <2>1. i \in Int /\ 0 <= i /\ \A j \in 0 .. i : j \in D /\ v[j] \in Int
    BY <1>1
  <2>2. ASSUME v[i] < threshold PROVE Below(i)
    <3>1. \A l \in i .. i : l = i
      BY <2>1
    <3>2. i \in 0 .. i /\ v[i] \in Int
      BY <2>1
    <3> QED BY <2>2, <3>1, <3>2
  <2>3. ASSUME v[i] = threshold, Below(i - 1) PROVE Below(i)
    <3>1. PICK j \in 0 .. i - 1 : v[j] < threshold /\ \A l \in j .. i - 1 : v[l] <= threshold
      BY <2>3
    <3>2. j \in 0 .. i /\ \A l \in j .. i : l = i \/ l \in j .. i - 1
      BY <2>1
    <3> QED BY <2>3, <3>1, <3>2
  <2>4. ASSUME Below(i), ~(v[i] < threshold) PROVE v[i] = threshold /\ Below(i - 1)
    <3>1. PICK j \in 0 .. i : v[j] < threshold /\ \A l \in j .. i : v[l] <= threshold
      BY <2>4
    <3>2. j # i /\ i \in j .. i
      BY <2>1, <2>4, <3>1
    <3>3. v[i] = threshold
      <4>1. v[i] <= threshold /\ v[i] \in Int
        BY <2>1, <3>1, <3>2
      <4> QED BY <2>4, <4>1
    <3>4. j \in 0 .. i - 1 /\ \A l \in j .. i - 1 : l \in j .. i
      BY <2>1, <3>2
    <3> QED BY <3>1, <3>3, <3>4
  <2> QED BY <2>2, <2>3, <2>4
<1>3. ~Below(-1) /\ \A i : Below(i) \in BOOLEAN
  OBVIOUS
<1> HIDE DEF Below
<1>4. f = Scan(f)
  <2>1. ASSUME NEW i \in {-1} \cup DOMAIN v
        PROVE  f[i] = (i >= 0 /\ (v[i] < threshold \/ (v[i] = threshold /\ f[i - 1])))
    <3>1. CASE i = -1
      <4>1. f[i] = Below(-1) /\ ~(i >= 0)
        BY <3>1
      <4>2. f[i] = FALSE
        BY <1>3, <4>1, Zenon
      <4> QED BY <4>1, <4>2
    <3>2. CASE i \in D
      <4>1. i >= 0 /\ i - 1 \in {-1} \cup DOMAIN v
        BY <1>1, <3>2
      <4>2. f[i] = Below(i) /\ f[i - 1] = Below(i - 1)
        BY <4>1
      <4> DEFINE R == i >= 0 /\ (v[i] < threshold \/ (v[i] = threshold /\ f[i - 1]))
      <4>3. Below(i) <=> R
        BY <1>2, <3>2, <4>1, <4>2
      <4>4. R \in BOOLEAN
        OBVIOUS
      <4> HIDE DEF R
      <4>5. Below(i) = R
        BY <1>3, <4>3, <4>4, Zenon
      <4> QED BY <4>2, <4>5 DEF R
    <3> QED BY <1>1, <3>1, <3>2
  <2>2. f = [i \in {-1} \cup DOMAIN v |-> f[i]]
    OBVIOUS
  <2> HIDE DEF f
  <2> QED BY <2>1, <2>2
<1>5. crossed = Scan(crossed)
  <2> HIDE DEF Scan, f
  <2> QED BY <1>4
<1>6. GetNCrossings(v, threshold) = Cardinality({i \in DOMAIN v : v[i] < threshold /\ ~crossed[i - 1]})
  BY DEF GetNCrossings
<1> HIDE DEF crossed, f
<1> DEFINE E == {k \in Nat : k <= n => (crossed[k - 1] <=> Below(k - 1))}
<1>7. 0 \in E
  <2>1. -1 \in {-1} \cup DOMAIN v /\ ~(-1 >= 0) /\ 0 - 1 = -1
    OBVIOUS
  <2>2. ~crossed[-1]
    BY <1>5, <2>1
  <2> QED BY <1>3, <2>1, <2>2
<1>8. ASSUME NEW k \in Nat, k \in E PROVE k + 1 \in E
  <2>1. SUFFICES ASSUME k + 1 <= n PROVE crossed[k] <=> Below(k)
    OBVIOUS
  <2>2. k \in D /\ k \in {-1} \cup DOMAIN v /\ k >= 0
    BY <1>1, <2>1
  <2>3. crossed[k] = (k >= 0 /\ (v[k] < threshold \/ (v[k] = threshold /\ crossed[k - 1])))
    BY <1>5, <2>2
  <2>4. crossed[k - 1] <=> Below(k - 1)
    BY <1>8, <2>1
  <2> QED BY <1>2, <2>2, <2>3, <2>4
<1>9. Nat \subseteq E
  <2> HIDE DEF E
  <2> QED BY <1>7, <1>8, NumbersByInduction
<1>10. ASSUME NEW i \in D, v[i] < threshold
       PROVE  ~crossed[i - 1] <=> \A j \in 0 .. i - 1 : v[j] < threshold => \E l \in j .. i : v[l] > threshold
  <2>1. i \in Nat /\ i <= n
    OBVIOUS
  <2>2. crossed[i - 1] <=> Below(i - 1)
    BY <1>9, <2>1
  <2>3. \A j \in 0 .. i - 1 : \A l \in j .. i : v[l] \in Int /\ (l = i \/ l \in j .. i - 1)
    BY <1>1
  <2>4. \A j \in 0 .. i - 1 : \A l \in j .. i - 1 : v[l] \in Int /\ l \in j .. i
    BY <1>1
  <2>5. ~(v[i] > threshold) /\ v[i] \in Int
    BY <1>1, <1>10
  <2>6. ASSUME NEW j \in 0 .. i - 1
        PROVE  (\E l \in j .. i : v[l] > threshold) <=> ~(\A l \in j .. i - 1 : v[l] <= threshold)
    BY <2>3, <2>4, <2>5
  <2> QED BY <2>2, <2>6 DEF Below
<1>11. {i \in DOMAIN v : v[i] < threshold /\ ~crossed[i - 1]} = Crosses(v, threshold)
  BY <1>1, <1>10 DEF Crosses
<1>12. IsFiniteSet(Crosses(v, threshold)) /\ Cardinality(Crosses(v, threshold)) \in Nat
  <2>1. IsFiniteSet(D) /\ Crosses(v, threshold) \in SUBSET D
    BY <1>1, FS_Interval DEF Crosses
  <2> QED BY <2>1, FS_Subset, FS_CardinalityType
<1>13. Cardinality(Crosses(v, threshold)) > 0 <=> Crosses(v, threshold) # {}
  BY <1>12, FS_EmptySet
<1>14. ASSUME NEW s \in D, v[s] < threshold PROVE Crosses(v, threshold) # {}
  <2> DEFINE S == {i \in D : v[i] < threshold}
  <2>1. S \in SUBSET Nat /\ S # {}
    BY <1>14
  <2>2. PICK m \in S : \A k \in S : m <= k
    <3> HIDE DEF S
    <3> QED BY <2>1, LeastNumber
  <2>3. \A j \in 0 .. m - 1 : ~(v[j] < threshold)
    <3>1. \A j \in 0 .. m - 1 : j \in D /\ ~(m <= j)
      OBVIOUS
    <3> QED BY <2>2, <3>1
  <2>4. m \in Crosses(v, threshold)
    BY <1>1, <2>2, <2>3 DEF Crosses
  <2> QED BY <2>4
<1>15. Crosses(v, threshold) # {} => \E s \in 0 .. n - 1 : v[s] < threshold
  BY <1>1 DEF Crosses
<1> QED BY <1>6, <1>11, <1>12, <1>13, <1>14, <1>15

\* What is known of the settings.
LEMMA SettingsAre ==
  /\ Prep.low \in Nat /\ Prep.high \in Nat /\ Prep.low < Prep.high /\ Prep.high <= NSamples
  /\ Prep.num \in Nat \ {0} /\ Prep.den \in Nat \ {0} /\ Prep.num < Prep.den /\ Prep.lookback \in Nat
  /\ Prep.threshold \in Int /\ Prep.threshold < 0
  /\ \A p \in PMTs : TimeOffset(p) \in Int
<1>1. Prep.low \in Samples /\ Prep.high \in 1 .. NSamples /\ Prep.low < Prep.high
  BY WaveformAssumption, Zenon
<1>2. NSamples \in Nat \ {0} /\ Samples = 0 .. NSamples - 1
  BY Digitizers
<1>3. Prep.low \in Nat /\ Prep.high \in Nat /\ Prep.high <= NSamples
  BY <1>1, <1>2
<1>4. /\ {Prep.num, Prep.den, Prep.lookback, Prep.before, Prep.after} \subseteq Nat
      /\ 0 < Prep.num /\ Prep.num < Prep.den
      /\ {Prep.threshold, Prep.slidingThreshold} \subseteq Int /\ Prep.threshold < 0
  BY WaveformAssumption, Zenon
<1>5. Prep.num \in Nat \ {0} /\ Prep.den \in Nat \ {0} /\ Prep.lookback \in Nat /\ Prep.threshold \in Int
  BY <1>4
<1>6. \A p \in PMTs : TimeOffset(p) \in Int
  <2>1. \A p \in PMTs : Cable[p] \in Int
    BY Digitizers
  <2> QED BY <2>1 DEF TimeOffset
<1> QED BY <1>1, <1>3, <1>4, <1>5, <1>6

\* The samples from which the pedestal is taken.
Window == Prep.low .. Prep.high - 1
Width == Prep.high - Prep.low

LEMMA VoltageTyped ==
  ASSUME NEW w \in [Samples -> Int]
  PROVE  /\ Width \in Nat \ {0} /\ Threshold = Width * Prep.threshold /\ Threshold \in Int
         /\ SumOf(w, Window) \in Int
         /\ Voltage(w) \in [0 .. NSamples - 1 -> Int]
         /\ \A i \in 0 .. NSamples - 1 : Voltage(w)[i] = Width * w[i] - SumOf(w, Window)
<1>1. Samples = 0 .. NSamples - 1 /\ NSamples \in Nat
  BY Digitizers
<1>2. Width \in Nat \ {0}
  BY SettingsAre DEF Width
<1>3. Threshold = Width * Prep.threshold
  BY DEF Threshold, Width
<1>4. Threshold \in Int
  <2>1. PICK a \in Int, b \in Int : a = Width /\ b = Prep.threshold
    BY <1>2, SettingsAre
  <2>2. a * b \in Int
    OBVIOUS
  <2> QED BY <1>3, <2>1, <2>2
<1>5. Window \in SUBSET Samples /\ IsFiniteSet(Window)
  <2>1. PICK a \in Nat, b \in Nat : a = Prep.low /\ b = Prep.high /\ b <= NSamples
    BY SettingsAre
  <2>2. a .. b - 1 \in SUBSET (0 .. NSamples - 1) /\ IsFiniteSet(a .. b - 1)
    <3>1. b - 1 \in Int /\ a \in Int
      OBVIOUS
    <3>2. IsFiniteSet(a .. b - 1)
      BY <3>1, FS_Interval
    <3>3. a .. b - 1 \in SUBSET (0 .. NSamples - 1)
      BY <1>1, <2>1
    <3> QED BY <3>2, <3>3
  <2> QED BY <1>1, <2>1, <2>2 DEF Window
<1>6. SumOf(w, Window) \in Int
  <2>1. \A x \in Window : w[x] \in Int
    BY <1>5
  <2> QED BY <1>5, <2>1, SumOfTakesAny
<1>7. PICK a \in Int, b \in Int : a = Width /\ b = SumOf(w, Window)
  BY <1>2, <1>6
<1>8. Voltage(w) = [i \in DOMAIN w |-> a * w[i] - b]
  BY <1>7 DEF Voltage, ADCtoVoltage, Width, Window
<1>9. DOMAIN w = 0 .. NSamples - 1 /\ \A i \in 0 .. NSamples - 1 : w[i] \in Int
  BY <1>1
<1>10. \A i \in 0 .. NSamples - 1 : a * w[i] - b \in Int
  BY <1>9
<1> QED BY <1>2, <1>3, <1>4, <1>6, <1>7, <1>8, <1>9, <1>10

\* A new result has no photoelectrons.
LEMMA NoResultIsGood ==
  Accounted(NoResult)
<1>1. /\ DOMAIN NoResult = {"offset", "pes", "found", "exists"}
      /\ NoResult.offset = 0 /\ NoResult.pes = <<>> /\ NoResult.found = <<>>
  BY DEF NoResult
<1>2. \A X : <<>> \in Seq(X)
  OBVIOUS
<1>3. Lost(NoResult) = 0
  <2>1. FlattenSeq(<<>>) = <<>>
    BY DEF FlattenSeq
  <2>2. ChargeOf(<<>>) \in Int
    <3>1. PICK w : w = [k \in DOMAIN <<>> |-> (<<>>)[k].charge]
      OBVIOUS
    <3>2. DOMAIN w = {} /\ ChargeOf(<<>>) = SumOf(w, {})
      BY <3>1 DEF ChargeOf, Total
    <3> QED BY <3>2, FS_EmptySet, SumOfTakesAny
  <2>3. PICK a \in Int : a = ChargeOf(<<>>)
    BY <2>2
  <2>4. Lost(NoResult) = a - a
    BY <1>1, <2>1, <2>3 DEF Lost
  <2> QED BY <2>4
<1>4. InOrder(<<>>) /\ Apart(<<>>)
  BY DEF InOrder, Apart
<1> QED BY <1>1, <1>2, <1>3, <1>4 DEF Accounted

\* WaveformPrep keeps all that.
LEMMA PrepIsGood ==
  ASSUME NEW ev, GoodEV(ev)
  PROVE  GoodEV(PrepEvent(ev))
<1>1. Shaped(ev) /\ Sampled(ev) /\ Measured(ev) /\ Charged(ev) /\ Analysed(ev)
  BY DEF GoodEV
<1> DEFINE ids == DOMAIN ev.waveforms \cap Online
           old(p) == IF p \in DOMAIN ev.digits THEN ev.digits[p].result ELSE NoResult
           new == [p \in ids |-> DoAnalysis(p, ev.waveforms[p], old(p))]
           erased == IF fZeroSuppress THEN {p \in ids : new[p].crossings = 0} ELSE {}
           next == PrepEvent(ev)
<1>2. CASE ~ev.digitized \/ ids = {}
  <2>1. next = ev
    BY <1>2 DEF PrepEvent
  <2> QED BY <2>1
<1>3. CASE ~(~ev.digitized \/ ids = {})
  <2>1. next = [ev EXCEPT !.digits = [p \in (DOMAIN ev.digits \cup ids) \ erased |->
                                        IF p \in ids THEN new[p] ELSE ev.digits[p]],
                          !.charge = Total([p \in Counted(new) |-> new[p].charge]),
                          !.prepared = TRUE]
    BY <1>3 DEF PrepEvent
  <2>2. PICK digits, charge :
          /\ digits = [p \in (DOMAIN ev.digits \cup ids) \ erased |->
                         IF p \in ids THEN new[p] ELSE ev.digits[p]]
          /\ charge = Total([p \in Counted(new) |-> new[p].charge])
    OBVIOUS
  <2>3. next = [ev EXCEPT !.digits = digits, !.charge = charge, !.prepared = TRUE]
    BY <2>1, <2>2
  <2>4. DOMAIN ev = Fields
    BY <1>1 DEF Shaped
  <2> HIDE DEF next
  <2>5. /\ DOMAIN next = Fields /\ next.digits = digits /\ next.charge = charge
        /\ next.prepared = TRUE
        /\ next.trigger = ev.trigger /\ next.pmts = ev.pmts /\ next.waveforms = ev.waveforms
        /\ next.digitized = ev.digitized
    BY ONLY <2>3, <2>4 DEF Fields
  <2>6. DOMAIN ev.digits \subseteq ids
    BY <1>1 DEF Measured
  <2>7. DOMAIN digits = ids \ erased /\ \A p \in DOMAIN digits : digits[p] = new[p]
    <3> HIDE DEF ids, erased, new
    <3> QED BY <2>2, <2>6
  <2>8. \A p \in ids : /\ new[p] = DoAnalysis(p, ev.waveforms[p], old(p))
                       /\ new[p].result = old(p)
                       /\ new[p].crossings = GetNCrossings(Voltage(ev.waveforms[p]), Threshold)
    BY DEF DoAnalysis
  <2>9. \A p \in ids : ev.waveforms[p] \in [Samples -> Int]
    BY <1>1 DEF Shaped
  <2>10. ASSUME NEW p \in ids
         PROVE  /\ new[p].crossings \in Nat
                /\ new[p].crossings > 0 <=> \E s \in Samples : Voltage(ev.waveforms[p])[s] < Threshold
    <3>1. PICK w \in [Samples -> Int] : w = ev.waveforms[p]
      BY <2>9
    <3>2. PICK v \in [0 .. NSamples - 1 -> Int], t \in Int : v = Voltage(w) /\ t = Threshold
      BY VoltageTyped
    <3>3. NSamples \in Nat /\ Samples = 0 .. NSamples - 1
      BY Digitizers
    <3>4. /\ GetNCrossings(v, t) \in Nat
          /\ GetNCrossings(v, t) > 0 <=> \E s \in 0 .. NSamples - 1 : v[s] < t
      BY <3>3, CrossingsAre
    <3> HIDE DEF new, ids
    <3> QED BY <2>8, <3>1, <3>2, <3>3, <3>4
  <2>11. Over(next) = {p \in ids : new[p].crossings > 0}
    <3>1. Over(next) = {p \in ids : \E s \in Samples : Voltage(ev.waveforms[p])[s] < Threshold}
      BY <2>5 DEF Over
    <3> HIDE DEF new, ids
    <3> QED BY <2>10, <3>1
  <2>12. Shaped(next)
    BY <1>1, <2>5 DEF Shaped
  <2>13. Sampled(next)
    BY <1>1, <2>5 DEF Sampled, Digitized
  <2>14. Measured(next)
    <3>1. ASSUME NEW p \in DOMAIN digits
          PROVE  p \in ids /\ digits[p] = DoAnalysis(p, ev.waveforms[p], digits[p].result)
      <4>1. p \in ids /\ digits[p] = new[p]
        BY <2>7
      <4> HIDE DEF new, ids, old
      <4> QED BY <2>8, <4>1
    <3> QED BY <2>5, <3>1 DEF Measured
  <2>15. Charged(next)
    <3> HIDE DEF new, ids
    <3>1. Counted(new) = Over(next)
      <4>1. DOMAIN new = ids
        BY DEF new
      <4> QED BY <2>11, <4>1 DEF Counted
    <3>2. Over(next) \subseteq DOMAIN digits
      BY <2>7, <2>11
    <3>3. fZeroSuppress => DOMAIN digits = Over(next)
      <4>1. ASSUME NEW p \in ids PROVE new[p].crossings > 0 <=> new[p].crossings # 0
        BY <2>10
      <4> QED BY <2>7, <2>11, <4>1
    <3>4. \A p \in Over(next) : digits[p].charge = new[p].charge
      BY <2>7, <3>2
    <3>5. [p \in Over(next) |-> digits[p].charge] = [p \in Counted(new) |-> new[p].charge]
      BY <3>1, <3>4
    <3>6. charge = Total([p \in Over(next) |-> digits[p].charge])
      BY <2>2, <3>5, Zenon
    <3> QED BY <2>5, <3>2, <3>3, <3>6 DEF Charged
  <2>16. Analysed(next)
    <3>1. ASSUME NEW p \in DOMAIN digits PROVE Accounted(digits[p].result)
      <4>1. p \in ids /\ digits[p] = new[p]
        BY <2>7
      <4>2. digits[p].result = old(p)
        <5> HIDE DEF new, ids, old
        <5> QED BY <2>8, <4>1
      <4> QED BY <1>1, <4>2, NoResultIsGood DEF Analysed
    <3> QED BY <2>5, <3>1 DEF Analysed
  <2> QED BY <2>12, <2>13, <2>14, <2>15, <2>16 DEF GoodEV, next
<1> QED BY <1>2, <1>3

-----------------------------------------------------------------------------
(* Charges of lists.                                                       *)

\* The entries of a list have charges.
HasCharges(S) == \A x \in S : x.charge \in Int

\* The charge of a list is a whole number.
LEMMA ChargeOfTyped ==
  ASSUME NEW S, HasCharges(S), NEW s \in Seq(S)
  PROVE  ChargeOf(<<>>) = 0 /\ ChargeOf(s) \in Int
<1>1. PICK n \in Nat : DOMAIN s = 1..n
  OBVIOUS
<1>2. PICK w : w = [k \in DOMAIN s |-> s[k].charge]
  OBVIOUS
<1>3. \A k \in 1..n : w[k] \in Int
  <2>1. \A k \in 1..n : s[k] \in S /\ w[k] = s[k].charge
    BY <1>1, <1>2
  <2> QED BY <2>1 DEF HasCharges
<1>4. ChargeOf(s) = SumOf(w, 1..n) /\ IsFiniteSet(1..n)
  BY <1>1, <1>2, FS_Interval DEF ChargeOf, Total
<1>5. SumOf(w, 1..n) \in Int
  BY <1>3, <1>4, SumOfTakesAny
<1>6. ChargeOf(<<>>) = 0
  <2>1. PICK v : v = [k \in DOMAIN <<>> |-> (<<>>)[k].charge]
    OBVIOUS
  <2>2. DOMAIN v = {} /\ IsFiniteSet({})
    BY <2>1, FS_EmptySet
  <2>3. SumOf(v, {}) = 0
    BY <2>2, SumOfTakesAny
  <2> QED BY <2>1, <2>2, <2>3 DEF ChargeOf, Total
<1> QED BY <1>4, <1>5, <1>6

\* One more entry, one more charge.
LEMMA ChargeOfAppend ==
  ASSUME NEW S, HasCharges(S), NEW s \in Seq(S), NEW x \in S
  PROVE  ChargeOf(Append(s, x)) = ChargeOf(s) + x.charge
<1> DEFINE charges(r) == [k \in DOMAIN r |-> r[k].charge]
<1>1. PICK n \in Nat : n = Len(s) /\ DOMAIN s = 1..n
  OBVIOUS
<1>2. PICK r \in Seq(S) : r = Append(s, x)
  <2>1. Append(s, x) \in Seq(S)
    OBVIOUS
  <2> QED BY <2>1
<1>3. DOMAIN r = 1..(n + 1) /\ r[n + 1] = x /\ \A k \in 1..n : r[k] = s[k] /\ s[k] \in S
  BY <1>1, <1>2
<1>4. \A r2 : ChargeOf(r2) = SumOf(charges(r2), DOMAIN r2)
  BY DEF ChargeOf, Total
<1>5. PICK w : w = charges(r)
  OBVIOUS
<1>6. \A k \in 1..(n + 1) : w[k] = r[k].charge /\ w[k] \in Int
  <2>1. \A k \in 1..(n + 1) : k = n + 1 \/ k \in 1..n
    OBVIOUS
  <2>2. \A k \in 1..(n + 1) : r[k] \in S /\ w[k] = r[k].charge
    BY <1>3, <1>5, <2>1
  <2> QED BY <2>2 DEF HasCharges
<1>7. SumOf(w, 1..n) \in Int /\ SumOf(w, 1..(n + 1)) = SumOf(w, 1..n) + w[n + 1]
  BY <1>6, SumOfGrows
<1>8. SumOf(charges(s), 1..n) = SumOf(w, 1..n)
  <2>1. IsFiniteSet(1..n)
    BY FS_Interval
  <2>2. PICK v : v = charges(s)
    OBVIOUS
  <2>3. \A k \in 1..n : w[k] \in Int /\ v[k] = w[k]
    <3>1. \A k \in 1..n : k \in 1..(n + 1)
      OBVIOUS
    <3> QED BY <1>1, <1>3, <1>6, <2>2, <3>1
  <2>4. SumOf(v, 1..n) = SumOf(w, 1..n)
    BY <2>1, <2>3, SumOfAgree
  <2> QED BY <2>2, <2>4
<1> HIDE DEF charges
<1>9. w[n + 1] = x.charge
  <2>1. n + 1 \in 1..(n + 1)
    OBVIOUS
  <2> QED BY <1>3, <1>6, <2>1
<1> QED BY <1>1, <1>2, <1>3, <1>4, <1>5, <1>7, <1>8, <1>9

\* The charge of two lists.
LEMMA ChargeOfJoin ==
  ASSUME NEW S, HasCharges(S), NEW s \in Seq(S), NEW t \in Seq(S)
  PROVE  ChargeOf(s \o t) = ChargeOf(s) + ChargeOf(t) /\ ChargeOf(s) \in Int /\ ChargeOf(t) \in Int
<1>1. PICK n \in Nat : n = Len(t) /\ DOMAIN t = 1..n
  OBVIOUS
<1> DEFINE E == {k \in Nat : k <= n =>
                   LET u == SubSeq(t, 1, k) IN
                   u \in Seq(S) /\ ChargeOf(u) \in Int /\ ChargeOf(s) \in Int
                   /\ ChargeOf(s \o u) = ChargeOf(s) + ChargeOf(u)}
<1>2. \A r \in Seq(S) : ChargeOf(r) \in Int /\ ChargeOf(<<>>) = 0
  BY ChargeOfTyped
<1>3. 0 \in E
  <2>1. PICK u : u = SubSeq(t, 1, 0)
    OBVIOUS
  <2>2. u = <<>> /\ s \o u = s /\ u \in Seq(S)
    BY <2>1
  <2>3. ChargeOf(s) \in Int /\ ChargeOf(u) = 0
    BY <1>2, <2>2
  <2>4. PICK c \in Int : c = ChargeOf(s)
    BY <2>3
  <2>5. ChargeOf(s \o u) = ChargeOf(s) + ChargeOf(u)
    BY <2>2, <2>3, <2>4
  <2> QED BY <2>1, <2>2, <2>3, <2>5
<1>4. ASSUME NEW k \in Nat, k \in E PROVE k + 1 \in E
  <2>1. CASE k + 1 <= n
    <3>1. PICK u : u = SubSeq(t, 1, k)
      OBVIOUS
    <3>2. u \in Seq(S) /\ ChargeOf(u) \in Int /\ ChargeOf(s) \in Int
          /\ ChargeOf(s \o u) = ChargeOf(s) + ChargeOf(u)
      BY <1>4, <2>1, <3>1
    <3>3. PICK x \in S : x = t[k + 1]
      BY <1>1, <2>1
    <3>4. PICK v : v = SubSeq(t, 1, k + 1)
      OBVIOUS
    <3>5. v = Append(u, x)
      BY <1>1, <2>1, <3>1, <3>3, <3>4
    <3>6. s \o v = Append(s \o u, x) /\ s \o u \in Seq(S)
      BY <3>2, <3>5
    <3>7. ChargeOf(v) = ChargeOf(u) + x.charge /\ v \in Seq(S)
      BY <3>2, <3>5, ChargeOfAppend
    <3>8. ChargeOf(s \o v) = ChargeOf(s \o u) + x.charge
      BY <3>6, ChargeOfAppend
    <3>9. x.charge \in Int
      BY DEF HasCharges
    <3> QED BY <3>2, <3>4, <3>7, <3>8, <3>9
  <2>2. CASE ~(k + 1 <= n)
    BY <2>2
  <2> QED BY <2>1, <2>2
<1>5. Nat \subseteq E
  <2> HIDE DEF E
  <2> QED BY <1>3, <1>4, NumbersByInduction
<1>6. SubSeq(t, 1, n) = t
  BY <1>1
<1>7. n \in E /\ n <= n
  <2> HIDE DEF E
  <2> QED BY <1>5
<1> QED BY <1>6, <1>7

\* The charge of joined lists.
LEMMA ChargeOfFlat ==
  ASSUME NEW S, HasCharges(S), NEW q \in Seq(Seq(S)), NEW w, \A k \in DOMAIN q : w[k] = ChargeOf(q[k])
  PROVE  /\ FlattenSeq(q) \in Seq(S)
         /\ ChargeOf(FlattenSeq(q)) = SumOf(w, 1..Len(q))
         /\ \A k \in DOMAIN q : w[k] \in Int
<1>1. PICK N \in Nat : N = Len(q) /\ DOMAIN q = 1..N
  OBVIOUS
<1>2. \A i \in 1..N : q[i] \in Seq(S)
  BY <1>1
<1>3. \A i \in 1..N : w[i] \in Int
  BY <1>1, <1>2, ChargeOfTyped
<1>4. PICK f : /\ FlattenSeq(q) = f[N]
               /\ f[0] = <<>> /\ \A i \in 1..N : f[i] = f[i - 1] \o q[i]
               /\ \A i \in 0..N : f[i] \in Seq(S)
  <2>1. PICK f : Stages(f, q, S)
    BY FlattenRuns
  <2> QED BY ONLY <1>1, <2>1 DEF Stages
<1> DEFINE E == {n \in Nat : n <= N => ChargeOf(f[n]) = SumOf(w, 1..n)}
<1>5. 0 \in E
  <2>1. SumOf(w, {}) = 0 /\ 1..0 = {}
    BY FS_EmptySet, SumOfTakesAny
  <2>2. ChargeOf(<<>>) = 0
    <3>1. <<>> \in Seq(S)
      OBVIOUS
    <3> QED BY <3>1, ChargeOfTyped
  <2> QED BY <1>4, <2>1, <2>2
<1>6. ASSUME NEW n \in Nat, n \in E PROVE n + 1 \in E
  <2>1. SUFFICES ASSUME n + 1 <= N PROVE ChargeOf(f[n + 1]) = SumOf(w, 1..(n + 1))
    OBVIOUS
  <2>2. n + 1 \in 1..N /\ n \in 0..N /\ (n + 1) - 1 = n
    BY <2>1
  <2>3. f[n + 1] = f[n] \o q[n + 1] /\ f[n] \in Seq(S) /\ q[n + 1] \in Seq(S)
    BY <1>2, <1>4, <2>2
  <2>4. ChargeOf(f[n + 1]) = ChargeOf(f[n]) + w[n + 1]
    <3>1. w[n + 1] = ChargeOf(q[n + 1])
      BY ONLY <1>1, <2>2, \A k \in DOMAIN q : w[k] = ChargeOf(q[k])
    <3>2. ChargeOf(f[n] \o q[n + 1]) = ChargeOf(f[n]) + ChargeOf(q[n + 1])
      <4> HIDE DEF E
      <4> QED BY <2>3, ChargeOfJoin
    <3> QED BY ONLY <2>3, <3>1, <3>2
  <2>5. SumOf(w, 1..(n + 1)) = SumOf(w, 1..n) + w[n + 1]
    <3>1. \A i \in 1..(n + 1) : i \in 1..N
      BY <2>1
    <3> QED BY <1>3, <3>1, SumOfGrows
  <2>6. ChargeOf(f[n]) = SumOf(w, 1..n)
    BY <1>6, <2>1
  <2> QED BY <2>4, <2>5, <2>6
<1>7. N \in E /\ N <= N /\ N \in 0..N
  <2>1. Nat \subseteq E
    <3> HIDE DEF E
    <3> QED BY <1>5, <1>6, NumbersByInduction
  <2> QED BY <2>1
<1> QED BY <1>1, <1>3, <1>4, <1>7

-----------------------------------------------------------------------------
(* The photoelectrons of an analysis.                                      *)

LEMMA HaveCharges ==
  /\ HasCharges(PE) /\ HasCharges(Packet)
  /\ \A x \in Packet : x.time \in Int /\ x.charge \in Nat
BY DEF HasCharges, PE, Packet

\* What is known of the packets of a fit.
LEMMA PacketsAre ==
  ASSUME NEW p \in Packets
  PROVE  /\ p \in Seq(Packet)
         /\ \A i, j \in DOMAIN p : i <= j => p[i].time <= p[j].time
         /\ \A i, j \in DOMAIN p : i <= j =>
              /\ EstimateNPE(ChargeOf(SubSeq(p, i, j))) \in Nat \ {0}
              /\ ChargeOf(SubSeq(p, i, j)) % EstimateNPE(ChargeOf(SubSeq(p, i, j))) = 0
         /\ MinDistance \in Int /\ ChargeThreshold \in Int
<1>1. /\ p \in Seq(Packet)
      /\ \A i, j \in DOMAIN p : i <= j => p[i].time <= p[j].time
      /\ \A i, j \in DOMAIN p : i <= j =>
           /\ EstimateNPE(ChargeOf(SubSeq(p, i, j))) \in Nat \ {0}
           /\ ChargeOf(SubSeq(p, i, j)) % EstimateNPE(ChargeOf(SubSeq(p, i, j))) = 0
  BY WaveformAssumption, Zenon
<1>2. {MinDistance, ChargeThreshold} \subseteq Int
  BY WaveformAssumption, Zenon
<1>3. MinDistance \in Int /\ ChargeThreshold \in Int
  BY <1>2
<1> QED BY <1>1, <1>3

\* A photoelectron goes into its place in the order of time.
LEMMA AddPEInserts ==
  ASSUME NEW pes \in Seq(PE), InOrder(pes), NEW pe \in PE
  PROVE  /\ AddPE(pes, pe) \in Seq(PE) /\ InOrder(AddPE(pes, pe))
         /\ ChargeOf(AddPE(pes, pe)) = ChargeOf(pes) + pe.charge
         /\ ToSet(AddPE(pes, pe)) = ToSet(pes) \cup {pe}
<1>1. PICK n \in Nat : n = Len(pes) /\ DOMAIN pes = 1..n
  OBVIOUS
<1>2. \A k \in 1..n : pes[k] \in PE /\ pes[k].time \in Int
  <2>1. \A k \in 1..n : pes[k] \in PE
    BY <1>1
  <2> QED BY <2>1 DEF PE
<1>3. pe.time \in Int
  BY DEF PE
<1> DEFINE before == {k \in DOMAIN pes : pes[k].time <= pe.time}
<1>4. PICK c \in 0..n : before = 1..c
  <2>1. CASE before = {}
    <3>1. before = 1..0 /\ 0 \in 0..n
      BY <2>1
    <3> QED BY <3>1
  <2>2. CASE before # {}
    <3>1. before \in SUBSET (1..n) /\ IsFiniteSet(1..n)
      BY <1>1, FS_Interval
    <3>2. before \in SUBSET Int /\ IsFiniteSet(before)
      <4>1. IsFiniteSet(before)
        BY <3>1, FS_Subset
      <4> QED BY <3>1, <4>1
    <3>3. PICK c \in before : \A k \in before : c >= k
      <4> HIDE DEF before
      <4> QED BY <2>2, <3>2, LargestNumber
    <3>4. c \in 1..n /\ pes[c].time <= pe.time
      BY <1>1, <3>3
    <3>5. ASSUME NEW k \in 1..c PROVE k \in before
      <4>1. k \in 1..n /\ (k < c \/ k = c)
        BY <3>4
      <4>2. pes[k].time <= pes[c].time
        BY <1>1, <1>2, <3>4, <4>1 DEF InOrder
      <4>3. pes[k].time \in Int /\ pes[c].time \in Int
        BY <1>2, <3>4, <4>1
      <4> QED BY <1>1, <1>3, <3>4, <4>1, <4>2, <4>3
    <3>6. before = 1..c
      <4>1. \A k \in before : k \in 1..n /\ k <= c
        BY <3>1, <3>3, <3>4
      <4> QED BY <3>4, <3>5, <4>1
    <3> QED BY <3>4, <3>6
  <2> QED BY <2>1, <2>2
<1>5. Cardinality(before) = c
  <2>1. Cardinality(1..c) = c
    BY FS_Interval
  <2> QED BY <1>4, <2>1
<1>6. PICK a \in Seq(PE), b \in Seq(PE) : a = SubSeq(pes, 1, c) /\ b = SubSeq(pes, c + 1, n)
  <2>1. SubSeq(pes, 1, c) \in Seq(PE) /\ SubSeq(pes, c + 1, n) \in Seq(PE)
    BY <1>1
  <2> QED BY <2>1
<1>7. Len(a) = c /\ Len(b) = n - c /\ (\A k \in 1..c : a[k] = pes[k])
      /\ \A k \in 1..(n - c) : b[k] = pes[c + k]
  BY <1>1, <1>6
<1>8. pes = a \o b
  <2>1. PICK u : u = a \o b
    OBVIOUS
  <2>2. u \in Seq(PE) /\ Len(u) = n
    <3>1. u \in Seq(PE) /\ Len(u) = Len(a) + Len(b)
      BY <2>1
    <3> QED BY <1>7, <3>1
  <2>3. ASSUME NEW k \in 1..n PROVE u[k] = pes[k]
    <3>1. CASE k <= c
      BY <1>7, <2>1, <3>1
    <3>2. CASE k > c
      <4>1. k - c \in 1..(n - c) /\ c + (k - c) = k
        BY <3>2
      <4>2. u[k] = b[k - c]
        BY <1>7, <2>1, <3>2, <4>1
      <4> QED BY <1>7, <4>1, <4>2
    <3> QED BY <3>1, <3>2
  <2>4. u = [k \in 1..n |-> u[k]] /\ pes = [k \in 1..n |-> pes[k]]
    BY <1>1, <2>2
  <2> QED BY <2>1, <2>3, <2>4
<1>9. PICK d \in Seq(PE) : d = Append(a, pe)
  <2>1. Append(a, pe) \in Seq(PE)
    OBVIOUS
  <2> QED BY <2>1
<1>10. PICK r : r = AddPE(pes, pe)
  OBVIOUS
<1>11. r = d \o b
  <2>1. r = InsertAt(pes, c + 1, pe)
    BY <1>5, <1>10 DEF AddPE
  <2>2. r = SubSeq(pes, 1, (c + 1) - 1) \o <<pe>> \o SubSeq(pes, c + 1, Len(pes))
    BY <2>1 DEF InsertAt
  <2>3. (c + 1) - 1 = c /\ a \o <<pe>> = d
    BY <1>9
  <2> QED BY <1>1, <1>6, <2>2, <2>3
<1>12. r \in Seq(PE) /\ ToSet(r) = ToSet(d) \cup ToSet(b) /\ ToSet(pes) = ToSet(a) \cup ToSet(b)
  BY <1>8, <1>11, JoinEntries
<1>13. ToSet(d) = ToSet(a) \cup {pe}
  <2>1. DOMAIN a = 1..c /\ DOMAIN d = 1..(c + 1) /\ d[c + 1] = pe /\ \A k \in 1..c : d[k] = a[k]
    BY <1>7, <1>9
  <2>2. 1..(c + 1) = 1..c \cup {c + 1}
    OBVIOUS
  <2> QED BY <2>1, <2>2 DEF ToSet
<1>14. ChargeOf(r) = ChargeOf(pes) + pe.charge
  <2>1. ChargeOf(r) = ChargeOf(d) + ChargeOf(b) /\ ChargeOf(d) \in Int /\ ChargeOf(b) \in Int
    BY <1>11, ChargeOfJoin, HaveCharges
  <2>2. ChargeOf(pes) = ChargeOf(a) + ChargeOf(b) /\ ChargeOf(a) \in Int
    BY <1>8, ChargeOfJoin, HaveCharges
  <2>3. ChargeOf(d) = ChargeOf(a) + pe.charge
    BY <1>9, ChargeOfAppend, HaveCharges
  <2>4. pe.charge \in Int
    BY DEF PE
  <2> QED BY ONLY <2>1, <2>2, <2>3, <2>4
<1>15. InOrder(r)
  <2>1. DOMAIN r = 1..(n + 1) /\ (\A k \in 1..c : r[k] = pes[k]) /\ r[c + 1] = pe
        /\ \A k \in (c + 2)..(n + 1) : r[k] = pes[k - 1]
    <3>1. Len(d) = c + 1 /\ (\A k \in 1..c : d[k] = pes[k]) /\ d[c + 1] = pe
      BY <1>7, <1>9
    <3>2. Len(r) = n + 1 /\ DOMAIN r = 1..(n + 1)
      <4>1. Len(r) = Len(d) + Len(b)
        BY <1>11
      <4>2. Len(r) = n + 1
        BY <1>7, <3>1, <4>1
      <4>3. DOMAIN r = 1..Len(r)
        BY <1>12
      <4> QED BY <4>2, <4>3
    <3>3. \A k \in 1..(c + 1) : r[k] = d[k]
      BY <1>11, <3>1, <3>2
    <3>4. ASSUME NEW k \in (c + 2)..(n + 1) PROVE r[k] = pes[k - 1]
      <4>1. k - (c + 1) \in 1..(n - c) /\ c + (k - (c + 1)) = k - 1 /\ k \in 1..(n + 1) /\ ~(k <= c + 1)
        OBVIOUS
      <4>2. r[k] = b[k - (c + 1)]
        BY <1>7, <1>11, <3>1, <3>2, <4>1
      <4> QED BY <1>7, <4>1, <4>2
    <3>5. \A k \in 1..c : k \in 1..(c + 1)
      OBVIOUS
    <3>6. c + 1 \in 1..(c + 1)
      OBVIOUS
    <3> QED BY <3>1, <3>2, <3>3, <3>4, <3>5, <3>6
  <2>2. \A k \in 1..c : k \in 1..n /\ pes[k].time <= pe.time
    BY <1>1, <1>4
  <2>3. ASSUME NEW k \in (c + 1)..n PROVE k \in 1..n /\ pe.time <= pes[k].time
    <3>1. k \in 1..n /\ k \notin before
      BY <1>4
    <3>2. ~(pes[k].time <= pe.time) /\ pes[k].time \in Int
      BY <1>1, <1>2, <3>1
    <3> QED BY <1>3, <3>1, <3>2
  <2>4. ASSUME NEW i \in DOMAIN r, NEW j \in DOMAIN r, i < j PROVE r[i].time <= r[j].time
    <3>1. i \in 1..(n + 1) /\ j \in 1..(n + 1)
      BY <2>1
    <3>2. CASE i <= c /\ j <= c
      BY <1>1, <2>1, <2>2, <2>4, <3>1, <3>2 DEF InOrder
    <3>3. CASE i <= c /\ j = c + 1
      BY <2>1, <2>2, <3>1, <3>3
    <3>4. CASE i <= c /\ j > c + 1
      <4>1. i \in 1..n /\ j - 1 \in 1..n /\ i < j - 1 /\ r[i] = pes[i] /\ r[j] = pes[j - 1]
        BY <2>1, <3>1, <3>4
      <4> QED BY <1>1, <4>1 DEF InOrder
    <3>5. CASE i = c + 1 /\ j > c + 1
      <4>1. j - 1 \in (c + 1)..n /\ r[j] = pes[j - 1]
        BY <2>1, <3>1, <3>5
      <4> QED BY <2>1, <2>3, <3>5, <4>1
    <3>6. CASE i > c + 1 /\ j > c + 1
      <4>1. i - 1 \in 1..n /\ j - 1 \in 1..n /\ i - 1 < j - 1 /\ r[i] = pes[i - 1] /\ r[j] = pes[j - 1]
        BY <2>1, <2>4, <3>1, <3>6
      <4> QED BY <1>1, <4>1 DEF InOrder
    <3> QED BY <2>4, <3>1, <3>2, <3>3, <3>4, <3>5, <3>6
  <2> QED BY <2>4 DEF InOrder
<1> QED BY <1>10, <1>12, <1>13, <1>14, <1>15

\* And so do the photoelectrons of a list.
LEMMA AddPEsInsert ==
  ASSUME NEW pes \in Seq(PE), InOrder(pes), NEW s \in Seq(PE), NEW r, r = FoldLeft(AddPE, pes, s)
  PROVE  /\ r \in Seq(PE) /\ InOrder(r)
         /\ ChargeOf(r) = ChargeOf(pes) + ChargeOf(s)
         /\ ToSet(r) = ToSet(pes) \cup ToSet(s)
<1>1. PICK n \in Nat : n = Len(s) /\ DOMAIN s = 1..n
  OBVIOUS
<1>2. \A k \in 1..n : s[k] \in PE
  BY <1>1
<1> DEFINE D == 1..n
           I == {a \in Seq(PE) : InOrder(a)}
           h == [z \in D \X I |-> AddPE(z[2], s[z[1]])]
           Roll(g) == [S \in SUBSET DOMAIN s |->
                         IF S = {} THEN pes ELSE LET x == Max(S) IN AddPE(g[S \ {x}], s[x])]
           it == CHOOSE g : g = Roll(g)
<1>3. pes \in I
  OBVIOUS
<1>4. \A k \in D, a \in I : AddPE(a, s[k]) \in I
  BY <1>2, AddPEInserts
<1> HIDE DEF I
<1>5. PICK g : /\ \A S \in SUBSET D : g[S] \in I
               /\ g = [S \in SUBSET D |-> IF S = {} THEN pes ELSE h[Max(S), g[S \ {Max(S)}]]]
               /\ \A S \in SUBSET D : S # {} => Max(S) \in D
  <2>1. Keeps(h, D, I)
    BY <1>4 DEF Keeps
  <2> HIDE DEF h
  <2> QED BY <1>3, <2>1, FoldsLeft
<1>6. g = Roll(g)
  <2>1. ASSUME NEW S \in SUBSET D, S # {}
        PROVE  h[Max(S), g[S \ {Max(S)}]] = AddPE(g[S \ {Max(S)}], s[Max(S)])
    <3>1. Max(S) \in D /\ S \ {Max(S)} \in SUBSET D
      BY <1>5, <2>1
    <3>2. g[S \ {Max(S)}] \in I
      BY <1>5, <3>1
    <3> HIDE DEF D
    <3> QED BY <3>1, <3>2
  <2> HIDE DEF h, D
  <2> QED BY <1>1, <1>5, <2>1 DEF D
<1>7. it = Roll(it)
  <2> HIDE DEF Roll
  <2> QED BY <1>6
<1>8. r = it[1..n]
  BY <1>1 DEF FoldLeft, MapThenFoldSet
<1> HIDE DEF it
<1>9. PICK w : w = [k \in DOMAIN s |-> s[k].charge]
  OBVIOUS
<1>10. \A k \in 1..n : w[k] = s[k].charge /\ w[k] \in Int
  <2>1. \A k \in 1..n : w[k] = s[k].charge /\ s[k] \in PE
    BY <1>1, <1>2, <1>9
  <2> QED BY <2>1 DEF PE
<1>11. ChargeOf(s) = SumOf(w, 1..n)
  BY <1>1, <1>9 DEF ChargeOf, Total
<1>12. ChargeOf(pes) \in Int
  BY ChargeOfTyped, HaveCharges
<1> DEFINE E == {k \in Nat : k <= n =>
                   /\ it[1..k] \in I
                   /\ ChargeOf(it[1..k]) = ChargeOf(pes) + SumOf(w, 1..k)
                   /\ ToSet(it[1..k]) = ToSet(pes) \cup {s[i] : i \in 1..k}}
<1>13. 0 \in E
  <2>1. 1..0 = {} /\ {} \in SUBSET DOMAIN s
    OBVIOUS
  <2>2. it[1..0] = pes
    BY <1>7, <2>1
  <2>3. SumOf(w, 1..0) = 0
    BY <2>1, FS_EmptySet, SumOfTakesAny
  <2> QED BY <1>3, <1>12, <2>1, <2>2, <2>3
<1>14. ASSUME NEW k \in Nat, k \in E PROVE k + 1 \in E
  <2>1. CASE k + 1 <= n
    <3>1. k + 1 \in D /\ (k + 1) - 1 = k /\ 1..(k + 1) = 1..k \cup {k + 1}
      BY <2>1
    <3>2. PICK K : K = 1..(k + 1)
      OBVIOUS
    <3>3. K \in SUBSET DOMAIN s /\ K # {} /\ Max(K) = k + 1 /\ K \ {Max(K)} = 1..k
      BY <1>1, <3>1, <3>2, RollsOn
    <3>4. PICK a : a = it[1..k]
      OBVIOUS
    <3>5. it[K] = AddPE(a, s[k + 1])
      BY <1>7, <3>3, <3>4
    <3>6. /\ a \in I /\ ChargeOf(a) = ChargeOf(pes) + SumOf(w, 1..k)
          /\ ToSet(a) = ToSet(pes) \cup {s[i] : i \in 1..k}
      BY <1>14, <2>1, <3>4
    <3>7. PICK x \in PE : x = s[k + 1]
      BY <1>2, <3>1
    <3>8. a \in Seq(PE) /\ InOrder(a)
      BY <3>6 DEF I
    <3>9. /\ AddPE(a, x) \in I /\ ChargeOf(AddPE(a, x)) = ChargeOf(a) + x.charge
          /\ ToSet(AddPE(a, x)) = ToSet(a) \cup {x}
      BY <3>8, AddPEInserts DEF I
    <3>10. SumOf(w, 1..(k + 1)) = SumOf(w, 1..k) + w[k + 1] /\ SumOf(w, 1..k) \in Int
      <4>1. \A i \in 1..(k + 1) : i \in 1..n
        BY <2>1
      <4> QED BY <1>10, <4>1, SumOfGrows
    <3>11. w[k + 1] = x.charge /\ w[k + 1] \in Int
      BY <1>10, <3>1, <3>7
    <3>12. ChargeOf(it[K]) = ChargeOf(pes) + SumOf(w, 1..(k + 1))
      BY <1>12, <3>5, <3>6, <3>7, <3>9, <3>10, <3>11
    <3>13. ToSet(it[K]) = ToSet(pes) \cup {s[i] : i \in 1..(k + 1)}
      BY <3>1, <3>5, <3>6, <3>7, <3>9
    <3> QED BY <3>2, <3>5, <3>7, <3>9, <3>12, <3>13
  <2>2. CASE ~(k + 1 <= n)
    BY <2>2
  <2> QED BY <2>1, <2>2
<1>15. n \in E /\ n <= n
  <2> HIDE DEF E
  <2>1. Nat \subseteq E
    BY <1>13, <1>14, NumbersByInduction
  <2> QED BY <2>1
<1>16. it[1..n] \in Seq(PE) /\ InOrder(it[1..n])
  BY <1>15 DEF I
<1>17. ToSet(s) = {s[i] : i \in 1..n}
  BY <1>1 DEF ToSet
<1> QED BY <1>8, <1>11, <1>15, <1>16, <1>17

\* The packets of a cluster follow one another.
IsPiece(c, p, i, j) == i \in DOMAIN p /\ j \in DOMAIN p /\ i <= j /\ c = SubSeq(p, i, j)

LEMMA PieceIs ==
  ASSUME NEW p \in Seq(Packet), NEW c, NEW i, NEW j, IsPiece(c, p, i, j)
  PROVE  /\ i \in Nat \ {0} /\ j \in Nat \ {0} /\ i <= j
         /\ c \in Seq(Packet) /\ Len(c) = j - i + 1 /\ c[1] = p[i] /\ Last(c) = p[j] /\ c # <<>>
         /\ \A k \in 1..Len(c) : c[k] = p[i + k - 1] /\ i + k - 1 \in DOMAIN p /\ i <= i + k - 1 /\ i + k - 1 <= j
<1>1. PICK n \in Nat : n = Len(p) /\ DOMAIN p = 1..n
  OBVIOUS
<1>2. i \in 1..n /\ j \in 1..n /\ i <= j /\ c = SubSeq(p, i, j)
  BY <1>1 DEF IsPiece
<1>3. c \in Seq(Packet) /\ Len(c) = j - i + 1
  BY <1>1, <1>2
<1>4. \A k \in 1..(j - i + 1) : c[k] = p[i + k - 1]
  BY <1>1, <1>2
<1>5. \A k \in 1..(j - i + 1) : i + k - 1 \in DOMAIN p /\ i <= i + k - 1 /\ i + k - 1 <= j
  BY <1>1, <1>2
<1>6. 1 \in 1..(j - i + 1) /\ j - i + 1 \in 1..(j - i + 1) /\ i + 1 - 1 = i /\ i + (j - i + 1) - 1 = j
  BY <1>2
<1>7. c[1] = p[i] /\ Last(c) = p[j]
  BY <1>3, <1>4, <1>6 DEF Last
<1>8. c # <<>>
  <2>1. Len(c) > 0
    BY <1>2, <1>3
  <2> QED BY <2>1
<1>9. i \in Nat \ {0} /\ j \in Nat \ {0} /\ i <= j
  BY <1>2
<1>10. \A k \in 1..Len(c) : c[k] = p[i + k - 1] /\ i + k - 1 \in DOMAIN p /\ i <= i + k - 1 /\ i + k - 1 <= j
  BY ONLY <1>3, <1>4, <1>5
<1> QED BY ONLY <1>3, <1>7, <1>8, <1>9, <1>10

\* The next packet joins a cluster.
LEMMA PieceGrows ==
  ASSUME NEW p \in Seq(Packet), NEW c, NEW i, NEW j, IsPiece(c, p, i, j), j + 1 \in DOMAIN p
  PROVE  IsPiece(Append(c, p[j + 1]), p, i, j + 1)
<1>1. PICK n \in Nat : n = Len(p) /\ DOMAIN p = 1..n
  OBVIOUS
<1>2. i \in 1..n /\ j \in 1..n /\ i <= j /\ c = SubSeq(p, i, j) /\ j + 1 \in 1..n
  BY <1>1 DEF IsPiece
<1>3. Append(c, p[j + 1]) = SubSeq(p, i, j + 1)
  BY <1>1, <1>2
<1>4. i <= j + 1
  BY <1>2
<1> QED BY <1>1, <1>2, <1>3, <1>4 DEF IsPiece

\* The clusters of the first k packets: pieces of them, in order and apart.
AreClusters(cs, p, k) ==
  /\ cs \in Seq(Seq(Packet)) /\ Len(cs) <= k
  /\ FlattenSeq(cs) = SubSeq(p, 1, k)
  /\ \A x \in 1..Len(cs) : \E i, j \in 1..k : IsPiece(cs[x], p, i, j) /\ (x = Len(cs) => j = k)
  /\ MinDistance > 0 => \A x, y \in 1..Len(cs) :
       x < y => cs[y][1].time - Last(cs[x]).time > MinDistance

\* What MergeClosePeaks does with the next packet.
AddToClusters(cs, packet) ==
  IF cs # <<>> /\ MinDistance > 0 /\ Grows(Last(cs), packet)
    THEN Front(cs) \o <<Append(Last(cs), packet)>>
    ELSE Append(cs, <<packet>>)

\* A packet close to the last one joins its cluster.
LEMMA ClusterGrows ==
  ASSUME NEW p \in Packets, NEW k \in Nat, k + 1 \in DOMAIN p, NEW cs, AreClusters(cs, p, k),
         cs # <<>>, MinDistance > 0, Grows(Last(cs), p[k + 1]), NEW new, new = AddToClusters(cs, p[k + 1])
  PROVE  AreClusters(new, p, k + 1)
<1>1. PICK q \in Packet : q = p[k + 1]
  BY PacketsAre
<1>2. PICK T : T = Seq(Packet)
  OBVIOUS
<1>3. p \in T /\ \A i \in DOMAIN p : p[i].time \in Int
  <2>1. p \in Seq(Packet)
    BY PacketsAre
  <2>2. \A i \in DOMAIN p : p[i] \in Packet
    BY <2>1
  <2> QED BY <1>2, <2>1, <2>2, HaveCharges
<1>4. cs \in Seq(T) /\ \A x \in DOMAIN cs : cs[x] \in T
  <2>1. cs \in Seq(T)
    BY <1>2 DEF AreClusters
  <2> QED BY <2>1
<1>5. PICK l \in Nat \ {0} : l = Len(cs) /\ DOMAIN cs = 1..l
  BY <1>4, cs # <<>>
<1>6. Last(cs) = cs[l] /\ l \in 1..l
  BY <1>5 DEF Last
<1>7. PICK c \in T : c = Append(cs[l], q)
  <2>1. PICK a \in Seq(Packet) : a = cs[l]
    BY <1>2, <1>4, <1>5, <1>6
  <2>2. Append(a, q) \in Seq(Packet)
    OBVIOUS
  <2> QED BY <1>2, <2>1, <2>2
<1>8. PICK front \in Seq(T) : front = SubSeq(cs, 1, l - 1)
  <2>1. SubSeq(cs, 1, l - 1) \in Seq(T)
    BY <1>4, <1>5
  <2> QED BY <2>1
<1>9. new = Append(front, c)
  <2>1. new = Front(cs) \o <<Append(Last(cs), q)>>
    BY <1>1 DEF AddToClusters
  <2>2. Front(cs) = front
    BY <1>5, <1>8 DEF Front
  <2>3. new = front \o <<c>>
    BY <1>6, <1>7, <2>1, <2>2
  <2> QED BY <2>3
<1>10. Len(front) = l - 1 /\ (\A x \in 1..(l - 1) : front[x] = cs[x]) /\ cs = Append(front, cs[l])
  <2>1. Len(front) = l - 1 /\ \A x \in 1..(l - 1) : front[x] = cs[x]
    BY <1>4, <1>5, <1>8
  <2>2. PICK a \in T : a = cs[l]
    BY <1>4, <1>5, <1>6
  <2>3. PICK u : u = Append(front, a)
    OBVIOUS
  <2>4. Append(front, a) \in Seq(T) /\ Len(Append(front, a)) = l
    BY <2>1
  <2>5. u = [x \in 1..l |-> u[x]]
    <3>1. u \in Seq(T) /\ Len(u) = l
      BY <2>3, <2>4
    <3> QED BY ONLY <3>1
  <2>6. \A x \in 1..l : u[x] = cs[x]
    BY <2>1, <2>2, <2>3
  <2>7. cs = [x \in 1..l |-> cs[x]]
    BY <1>4, <1>5
  <2> QED BY <2>1, <2>2, <2>3, <2>5, <2>6, <2>7
<1>11. new \in Seq(T) /\ Len(new) = l /\ new[l] = c /\ \A x \in 1..l : x # l => new[x] = cs[x]
  <2>1. new \in Seq(T) /\ Len(new) = l /\ new[l] = c /\ \A x \in 1..(l - 1) : new[x] = front[x]
    BY <1>9, <1>10
  <2>2. \A x \in 1..l : x # l => x \in 1..(l - 1)
    OBVIOUS
  <2> QED BY <1>10, <2>1, <2>2
<1>12. FlattenSeq(new) = SubSeq(p, 1, k + 1)
  <2>1. PICK a \in Seq(Packet) : a = cs[l]
    BY <1>2, <1>4, <1>5, <1>6
  <2>2. FlattenSeq(new) = FlattenSeq(front) \o c
    BY <1>2, <1>9, FlattenAppend
  <2>3. FlattenSeq(cs) = FlattenSeq(front) \o a
    BY <1>2, <1>10, <2>1, FlattenAppend
  <2>4. PICK f \in Seq(Packet) : f = FlattenSeq(front)
    BY <1>2, FlattenEntries
  <2>5. f \o Append(a, q) = Append(f \o a, q)
    OBVIOUS
  <2>6. f \o a = SubSeq(p, 1, k)
    BY <2>1, <2>3, <2>4 DEF AreClusters
  <2>7. Append(SubSeq(p, 1, k), p[k + 1]) = SubSeq(p, 1, k + 1)
    <3>1. p \in Seq(Packet)
      BY PacketsAre
    <3> QED BY <3>1
  <2> QED BY <1>1, <1>7, <2>1, <2>2, <2>4, <2>5, <2>6, <2>7
<1>13. PICK i \in 1..k : IsPiece(cs[l], p, i, k)
  BY <1>5, <1>6 DEF AreClusters
<1>14. IsPiece(c, p, i, k + 1)
  <2>1. p \in Seq(Packet)
    BY PacketsAre
  <2> QED BY <1>1, <1>7, <1>13, <2>1, PieceGrows
<1>15. ASSUME NEW x \in 1..l PROVE \E a, b \in 1..(k + 1) : IsPiece(new[x], p, a, b) /\ (x = l => b = k + 1)
  <2>1. CASE x = l
    <3>1. i \in 1..(k + 1) /\ k + 1 \in 1..(k + 1)
      OBVIOUS
    <3> QED BY <1>11, <1>14, <2>1, <3>1
  <2>2. CASE x # l
    <3>1. PICK a \in 1..k, b \in 1..k : IsPiece(cs[x], p, a, b)
      BY <1>5 DEF AreClusters
    <3>2. a \in 1..(k + 1) /\ b \in 1..(k + 1)
      OBVIOUS
    <3> QED BY <1>11, <2>2, <3>1, <3>2
  <2> QED BY <2>1, <2>2
<1>16. ASSUME NEW x \in 1..l, NEW y \in 1..l, x < y
       PROVE  new[y][1].time - Last(new[x]).time > MinDistance
  <2>1. new[x] = cs[x]
    BY <1>11, <1>16
  <2>2. new[y][1] = cs[y][1]
    <3>1. CASE y = l
      <4>1. p \in Seq(Packet)
        BY PacketsAre
      <4>2. c[1] = p[i] /\ cs[l][1] = p[i]
        <5>1. c[1] = p[i]
          BY ONLY <1>14, <4>1, PieceIs
        <5>2. cs[l][1] = p[i]
          BY ONLY <1>13, <4>1, PieceIs
        <5> QED BY <5>1, <5>2
      <4> QED BY <1>11, <3>1, <4>2
    <3>2. CASE y # l
      BY <1>11, <3>2
    <3> QED BY <3>1, <3>2
  <2>3. cs[y][1].time - Last(cs[x]).time > MinDistance
    BY <1>5, <1>16, MinDistance > 0 DEF AreClusters
  <2> QED BY <2>1, <2>2, <2>3
<1>17. Len(new) <= k + 1
  <2>1. l <= k
    BY <1>5 DEF AreClusters
  <2> QED BY <1>11, <2>1
<1> QED BY <1>2, <1>11, <1>12, <1>15, <1>16, <1>17 DEF AreClusters

\* A packet that is not begins a cluster.
LEMMA ClusterBegins ==
  ASSUME NEW p \in Packets, NEW k \in Nat, k + 1 \in DOMAIN p, NEW cs, AreClusters(cs, p, k),
         ~(cs # <<>> /\ MinDistance > 0 /\ Grows(Last(cs), p[k + 1])), NEW new, new = AddToClusters(cs, p[k + 1])
  PROVE  AreClusters(new, p, k + 1)
<1>1. PICK q \in Packet : q = p[k + 1]
  BY PacketsAre
<1>2. PICK T : T = Seq(Packet)
  OBVIOUS
<1>3. p \in Seq(Packet) /\ \A i \in DOMAIN p : p[i].time \in Int
  <2>1. p \in Seq(Packet)
    BY PacketsAre
  <2>2. \A i \in DOMAIN p : p[i] \in Packet
    BY <2>1
  <2> QED BY <2>1, <2>2, HaveCharges
<1>4. cs \in Seq(T) /\ \A x \in DOMAIN cs : cs[x] \in T
  <2>1. cs \in Seq(T)
    BY <1>2 DEF AreClusters
  <2> QED BY <2>1
<1>5. PICK l \in Nat : l = Len(cs) /\ DOMAIN cs = 1..l
  BY <1>4
<1>6. PICK c \in T : c = <<q>>
  <2>1. <<q>> \in Seq(Packet)
    OBVIOUS
  <2> QED BY <1>2, <2>1
<1>7. new = Append(cs, c)
  BY <1>1, <1>6 DEF AddToClusters
<1>8. new \in Seq(T) /\ Len(new) = l + 1 /\ new[l + 1] = c /\ \A x \in 1..l : new[x] = cs[x]
  BY <1>4, <1>5, <1>7
<1>9. FlattenSeq(new) = SubSeq(p, 1, k + 1)
  <2>1. FlattenSeq(new) = FlattenSeq(cs) \o c
    BY <1>2, <1>4, <1>7, FlattenAppend
  <2>2. FlattenSeq(cs) = SubSeq(p, 1, k)
    BY DEF AreClusters
  <2>3. SubSeq(p, 1, k) \o <<p[k + 1]>> = SubSeq(p, 1, k + 1)
    <3>1. Append(SubSeq(p, 1, k), p[k + 1]) = SubSeq(p, 1, k + 1)
      BY <1>3
    <3>2. PICK a \in Seq(Packet) : a = SubSeq(p, 1, k)
      <4>1. SubSeq(p, 1, k) \in Seq(Packet)
        BY <1>3
      <4> QED BY <4>1
    <3>3. a \o <<q>> = Append(a, q)
      OBVIOUS
    <3> QED BY <1>1, <3>1, <3>2, <3>3
  <2> QED BY <1>1, <1>6, <2>1, <2>2, <2>3
<1>10. IsPiece(c, p, k + 1, k + 1)
  <2>1. SubSeq(p, k + 1, k + 1) = <<p[k + 1]>>
    <3>1. PICK u : u = SubSeq(p, k + 1, k + 1)
      OBVIOUS
    <3>2. u \in Seq(Packet) /\ Len(u) = 1 /\ u[1] = p[k + 1]
      <4>1. PICK o : o = k + 1
        OBVIOUS
      <4>2. o \in Nat /\ o \in DOMAIN p /\ o <= o /\ o - o + 1 = 1
        BY <4>1
      <4>3. IsPiece(u, p, o, o)
        BY <3>1, <4>1, <4>2 DEF IsPiece
      <4>4. p \in Seq(Packet)
        BY <1>3
      <4>5. u \in Seq(Packet) /\ Len(u) = o - o + 1 /\ u[1] = p[o]
        BY ONLY <4>3, <4>4, PieceIs
      <4> QED BY <4>1, <4>2, <4>5
    <3>3. u = <<u[1]>>
      BY ONLY <3>2
    <3> QED BY <3>1, <3>2, <3>3
  <2> QED BY <1>1, <1>6, <2>1 DEF IsPiece
<1>11. \A x \in 1..(l + 1) : x = l + 1 \/ x \in 1..l
  OBVIOUS
<1>12. ASSUME NEW x \in 1..(l + 1)
       PROVE  \E a, b \in 1..(k + 1) : IsPiece(new[x], p, a, b) /\ (x = l + 1 => b = k + 1)
  <2>1. CASE x = l + 1
    <3>1. k + 1 \in 1..(k + 1)
      OBVIOUS
    <3> QED BY <1>8, <1>10, <2>1, <3>1
  <2>2. CASE x # l + 1
    <3>1. x \in 1..l
      BY <1>11, <2>2
    <3>2. PICK a \in 1..k, b \in 1..k : IsPiece(cs[x], p, a, b)
      BY <1>5, <3>1 DEF AreClusters
    <3>3. a \in 1..(k + 1) /\ b \in 1..(k + 1)
      OBVIOUS
    <3> QED BY <1>8, <2>2, <3>1, <3>2, <3>3
  <2> QED BY <2>1, <2>2
<1>13. ASSUME MinDistance > 0, NEW x \in 1..(l + 1), NEW y \in 1..(l + 1), x < y
       PROVE  new[y][1].time - Last(new[x]).time > MinDistance
  <2>1. CASE y \in 1..l
    <3>1. x \in 1..l
      BY <1>13, <2>1
    <3>2. cs[y][1].time - Last(cs[x]).time > MinDistance
      BY <1>5, <1>13, <2>1, <3>1 DEF AreClusters
    <3> QED BY <1>8, <2>1, <3>1, <3>2
  <2>2. CASE y = l + 1
    <3>1. x \in 1..l /\ l # 0 /\ l \in 1..l
      BY <1>13, <2>2
    <3>2. new[y][1] = q /\ new[x] = cs[x]
      BY <1>6, <1>8, <2>2, <3>1
    <3>3. cs # <<>> /\ Last(cs) = cs[l]
      BY <1>5, <3>1 DEF Last
    <3>4. ~(q.time - Last(cs[l]).time <= MinDistance)
      BY <1>1, <1>13, <3>3 DEF Grows
    <3>5. PICK i \in 1..k : IsPiece(cs[l], p, i, k)
      BY <1>5, <3>1 DEF AreClusters
    <3>6. cs[l][1] = p[i] /\ Last(cs[l]) = p[k] /\ i \in DOMAIN p /\ k \in DOMAIN p /\ i <= k
      <4>1. cs[l][1] = p[i] /\ Last(cs[l]) = p[k] /\ i <= k
        BY ONLY <1>3, <3>5, PieceIs
      <4>2. i \in DOMAIN p /\ k \in DOMAIN p
        BY <3>5 DEF IsPiece
      <4> QED BY <4>1, <4>2
    <3>7. p[i].time <= p[k].time
      BY <3>6, PacketsAre
    <3>8. PICK a \in 1..k, b \in 1..k : IsPiece(cs[x], p, a, b)
      BY <1>5, <3>1 DEF AreClusters
    <3>9. Last(cs[x]) = p[b] /\ b \in DOMAIN p
      BY <1>3, <3>8, PieceIs DEF IsPiece
    <3>10. x = l \/ p[i].time - p[b].time > MinDistance
      <4>1. x = l \/ x < l
        BY <3>1
      <4>2. ASSUME x < l PROVE cs[l][1].time - Last(cs[x]).time > MinDistance
        BY <1>5, <1>13, <3>1, <4>2 DEF AreClusters
      <4> QED BY <3>6, <3>9, <4>1, <4>2
    <3>11. PICK tq \in Int, ti \in Int, tk \in Int, tb \in Int, d \in Int :
             tq = q.time /\ ti = p[i].time /\ tk = p[k].time /\ tb = p[b].time /\ d = MinDistance
      BY <1>1, <1>3, <3>6, <3>9, PacketsAre
    <3>12. x = l => tb = tk
      BY <3>6, <3>9, <3>11
    <3>13. ~(tq - tk <= d) /\ ti <= tk /\ (x = l \/ ti - tb > d) /\ d > 0
      BY <1>13, <3>4, <3>6, <3>7, <3>10, <3>11
    <3>14. tq - tb > d
      BY ONLY <3>12, <3>13, tq \in Int, ti \in Int, tk \in Int, tb \in Int, d \in Int
    <3> QED BY <3>2, <3>9, <3>11, <3>14
  <2> QED BY <1>11, <2>1, <2>2
<1>14. Len(new) <= k + 1
  <2>1. l <= k
    BY <1>5 DEF AreClusters
  <2> QED BY <1>8, <2>1
<1> QED BY <1>2, <1>8, <1>9, <1>12, <1>13, <1>14 DEF AreClusters

\* What MergeClosePeaks makes of the packets.
LEMMA ClustersAre ==
  ASSUME NEW p \in Packets
  PROVE  AreClusters(Clusters(p), p, Len(p))
<1>1. PICK n \in Nat : n = Len(p) /\ DOMAIN p = 1..n
  BY PacketsAre
<1>2. p \in Seq(Packet) /\ \A k \in 1..n : p[k] \in Packet
  BY <1>1, PacketsAre
<1> DEFINE D == 1..n
           I == Seq(Seq(Packet))
           h == [z \in D \X I |-> AddToClusters(z[2], p[z[1]])]
           Roll(g) == [S \in SUBSET DOMAIN p |->
                         IF S = {} THEN <<>> ELSE LET x == Max(S) IN AddToClusters(g[S \ {x}], p[x])]
           it == CHOOSE g : g = Roll(g)
<1>3. <<>> \in I
  <2>1. \A X : <<>> \in Seq(X)
    OBVIOUS
  <2> QED BY <2>1, Zenon
<1>4. ASSUME NEW k \in D, NEW cs \in I PROVE AddToClusters(cs, p[k]) \in I
  <2>1. PICK T : T = Seq(Packet)
    OBVIOUS
  <2>2. PICK q \in Packet, l \in Nat : q = p[k] /\ l = Len(cs) /\ DOMAIN cs = 1..l
    BY <1>2
  <2>3. cs \in Seq(T) /\ <<q>> \in T
    <3>1. <<q>> \in Seq(Packet)
      OBVIOUS
    <3> QED BY <2>1, <3>1
  <2>4. CASE cs # <<>> /\ MinDistance > 0 /\ Grows(Last(cs), q)
    <3>1. l # 0 /\ l \in 1..l
      BY <2>2, <2>3, <2>4
    <3>2. PICK a \in T : a = cs[l]
      BY <2>2, <2>3, <3>1
    <3>3. Append(a, q) \in T
      <4>1. a \in Seq(Packet)
        BY <2>1
      <4>2. Append(a, q) \in Seq(Packet)
        BY <4>1
      <4> QED BY <2>1, <4>2
    <3>4. Last(cs) = a
      BY <2>2, <3>2 DEF Last
    <3>5. Front(cs) \in Seq(T)
      BY <2>2, <2>3, <3>1 DEF Front
    <3>6. AddToClusters(cs, q) = Front(cs) \o <<Append(a, q)>>
      BY <2>4, <3>4 DEF AddToClusters
    <3>7. Front(cs) \o <<Append(a, q)>> \in Seq(T)
      <4>1. PICK b \in T, f \in Seq(T) : b = Append(a, q) /\ f = Front(cs)
        BY <3>3, <3>5
      <4>2. f \o <<b>> \in Seq(T)
        OBVIOUS
      <4> QED BY <4>1, <4>2
    <3> QED BY <2>1, <2>2, <3>6, <3>7
  <2>5. CASE ~(cs # <<>> /\ MinDistance > 0 /\ Grows(Last(cs), q))
    <3>1. AddToClusters(cs, q) = Append(cs, <<q>>)
      BY <2>5 DEF AddToClusters
    <3>2. Append(cs, <<q>>) \in Seq(T)
      BY <2>3
    <3> QED BY <2>1, <2>2, <3>1, <3>2
  <2> QED BY <2>4, <2>5
<1> HIDE DEF I
<1>5. PICK g : /\ \A S \in SUBSET D : g[S] \in I
               /\ g = [S \in SUBSET D |-> IF S = {} THEN <<>> ELSE h[Max(S), g[S \ {Max(S)}]]]
               /\ \A S \in SUBSET D : S # {} => Max(S) \in D
  <2>1. Keeps(h, D, I)
    BY <1>4 DEF Keeps
  <2> HIDE DEF h
  <2> QED BY <1>3, <2>1, FoldsLeft
<1>6. g = Roll(g)
  <2>1. ASSUME NEW S \in SUBSET D, S # {}
        PROVE  h[Max(S), g[S \ {Max(S)}]] = AddToClusters(g[S \ {Max(S)}], p[Max(S)])
    <3>1. Max(S) \in D /\ S \ {Max(S)} \in SUBSET D
      BY <1>5, <2>1
    <3>2. g[S \ {Max(S)}] \in I
      BY <1>5, <3>1
    <3> HIDE DEF D
    <3> QED BY <3>1, <3>2
  <2> HIDE DEF h, D
  <2> QED BY <1>1, <1>5, <2>1 DEF D
<1>7. it = Roll(it)
  <2> HIDE DEF Roll
  <2> QED BY <1>6
<1>8. Clusters(p) = it[1..n]
  BY <1>1 DEF Clusters, FoldLeft, MapThenFoldSet, AddToClusters
<1> HIDE DEF it
<1> DEFINE E == {k \in Nat : k <= n => AreClusters(it[1..k], p, k)}
<1>9. 0 \in E
  <2>1. 1..0 = {} /\ {} \in SUBSET DOMAIN p
    OBVIOUS
  <2>2. it[1..0] = <<>>
    BY <1>7, <2>1
  <2>3. FlattenSeq(<<>>) = <<>> /\ SubSeq(p, 1, 0) = <<>> /\ Len(<<>>) = 0
    BY <1>2 DEF FlattenSeq
  <2>4. AreClusters(<<>>, p, 0)
    <3>1. PICK e : e = <<>>
      OBVIOUS
    <3>2. /\ e \in Seq(Seq(Packet)) /\ FlattenSeq(e) = SubSeq(p, 1, 0)
          /\ Len(e) = 0 /\ 1..Len(e) = {}
      BY <1>3, <2>1, <2>3, <3>1 DEF I
    <3>3. AreClusters(e, p, 0)
      BY ONLY <3>2 DEF AreClusters
    <3> QED BY <3>1, <3>3
  <2> QED BY <2>2, <2>4
<1>10. ASSUME NEW k \in Nat, k \in E PROVE k + 1 \in E
  <2>1. CASE k + 1 <= n
    <3>1. k + 1 \in D /\ (k + 1) - 1 = k
      BY <2>1
    <3>2. PICK K : K = 1..(k + 1)
      OBVIOUS
    <3>3. K \in SUBSET DOMAIN p /\ K # {} /\ Max(K) = k + 1 /\ K \ {Max(K)} = 1..k
      BY <1>1, <3>1, <3>2, RollsOn
    <3>4. PICK cs : cs = it[1..k]
      OBVIOUS
    <3>5. it[K] = AddToClusters(cs, p[k + 1])
      BY <1>7, <3>3, <3>4
    <3>6. AreClusters(cs, p, k) /\ k + 1 \in DOMAIN p
      BY <1>1, <1>10, <2>1, <3>1, <3>4
    <3>7. PICK new : new = AddToClusters(cs, p[k + 1])
      OBVIOUS
    <3>8. AreClusters(new, p, k + 1)
      BY <3>6, <3>7, ClusterGrows, ClusterBegins
    <3> QED BY <3>2, <3>5, <3>7, <3>8
  <2>2. CASE ~(k + 1 <= n)
    BY <2>2
  <2> QED BY <2>1, <2>2
<1>11. n \in E /\ n <= n
  <2> HIDE DEF E
  <2>1. Nat \subseteq E
    BY <1>9, <1>10, NumbersByInduction
  <2> QED BY <2>1
<1> QED BY <1>1, <1>8, <1>11

\* A cluster's mean time is between its first and last packet's.
LEMMA MergedIs ==
  ASSUME NEW p \in Packets, NEW c, NEW i, NEW j, IsPiece(c, p, i, j), NEW m, m = Merged(c)
  PROVE  /\ m.time \in Int /\ p[i].time <= m.time /\ m.time <= p[j].time
         /\ p[i].time \in Int /\ p[j].time \in Int
         /\ m.charge = ChargeOf(c) /\ m.charge \in Nat
         /\ EstimateNPE(m.charge) \in Nat \ {0} /\ m.charge % EstimateNPE(m.charge) = 0
<1>1. p \in Seq(Packet) /\ \A k \in DOMAIN p : p[k].time \in Int /\ p[k].charge \in Nat
  <2>1. p \in Seq(Packet)
    BY PacketsAre
  <2>2. \A k \in DOMAIN p : p[k] \in Packet
    BY <2>1
  <2> QED BY <2>1, <2>2, HaveCharges
<1>2. i \in DOMAIN p /\ j \in DOMAIN p /\ i <= j /\ c = SubSeq(p, i, j)
  BY DEF IsPiece
<1>3. /\ c \in Seq(Packet) /\ Len(c) = j - i + 1 /\ i \in Nat \ {0} /\ j \in Nat \ {0} /\ i <= j
      /\ \A k \in 1..Len(c) : c[k] = p[i + k - 1] /\ i + k - 1 \in DOMAIN p /\ i <= i + k - 1 /\ i + k - 1 <= j
  BY ONLY <1>1, IsPiece(c, p, i, j), PieceIs
<1>4. PICK n \in Nat \ {0} : n = Len(c) /\ DOMAIN c = 1..n
  BY <1>3
<1>5. \A k \in DOMAIN p : (i <= k => p[i].time <= p[k].time) /\ (k <= j => p[k].time <= p[j].time)
  BY <1>2, PacketsAre
<1>6. PICK w : w = [k \in DOMAIN c |-> c[k].time]
  OBVIOUS
<1>7. PICK u : u = [k \in DOMAIN c |-> c[k].charge]
  OBVIOUS
<1>8. ASSUME NEW k \in 1..n
      PROVE  /\ w[k] \in Int /\ u[k] \in Int /\ 0 <= u[k]
             /\ p[i].time <= w[k] /\ w[k] <= p[j].time
  <2>1. PICK o : o = i + k - 1
    OBVIOUS
  <2>2. c[k] = p[o] /\ o \in DOMAIN p /\ i <= o /\ o <= j
    BY <1>3, <1>4, <2>1
  <2>3. w[k] = p[o].time /\ u[k] = p[o].charge
    BY <1>4, <1>6, <1>7, <2>2
  <2> QED BY <1>1, <1>5, <2>2, <2>3
<1>9. PICK a \in Int, b \in Int : a = p[i].time /\ b = p[j].time
  BY <1>1, <1>2
<1>10. PICK s \in Int : s = SumOf(w, 1..n) /\ n * a <= s /\ s <= n * b
  BY <1>8, <1>9, SumOfBounds
<1>11. SumOf(u, 1..n) \in Int /\ n * 0 <= SumOf(u, 1..n)
  BY <1>8, SumOfBounds
<1>12. m.time = s \div n /\ m.charge = ChargeOf(c) /\ ChargeOf(c) = SumOf(u, 1..n)
  BY <1>4, <1>6, <1>7, <1>10 DEF Merged, ChargeOf, Total
<1>13. m.time \in Int /\ a <= m.time /\ m.time <= b
  <2>1. PICK d : d = s \div n
    OBVIOUS
  <2>2. d \in Int /\ d * n <= s /\ s < d * n + n
    BY <2>1, Divided
  <2>3. n * a = a * n /\ n * b = b * n
    OBVIOUS
  <2>4. a <= d
    <3>1. SUFFICES ASSUME d < a PROVE FALSE
      BY <2>2
    <3>2. d * n + n <= a * n
      BY <2>2, <3>1, Steps
    <3>3. PICK x \in Int, y \in Int : x = d * n /\ y = a * n
      BY <2>2, Steps
    <3>4. y <= s /\ s < x + n /\ x + n <= y
      BY <1>10, <2>2, <2>3, <3>2, <3>3
    <3> QED BY ONLY <3>4, x \in Int, y \in Int, s \in Int, n \in Nat
  <2>5. d <= b
    <3>1. SUFFICES ASSUME b < d PROVE FALSE
      BY <2>2
    <3>2. b * n + n <= d * n
      BY <2>2, <3>1, Steps
    <3>3. PICK x \in Int, y \in Int : x = d * n /\ y = b * n
      BY <2>2, Steps
    <3>4. s <= y /\ x <= s /\ y + n <= x /\ n > 0
      BY <1>10, <2>2, <2>3, <3>2, <3>3
    <3> QED BY ONLY <3>4, x \in Int, y \in Int, s \in Int, n \in Nat
  <2> QED BY <1>12, <2>1, <2>2, <2>4, <2>5
<1>14. m.charge \in Nat
  BY <1>11, <1>12
<1>15. EstimateNPE(ChargeOf(c)) \in Nat \ {0} /\ ChargeOf(c) % EstimateNPE(ChargeOf(c)) = 0
  BY <1>2, PacketsAre
<1> QED BY <1>9, <1>12, <1>13, <1>14, <1>15

\* The photoelectrons of a peak share its charge.
LEMMA SharesAre ==
  ASSUME NEW m, m.time \in Int, m.charge \in Nat, EstimateNPE(m.charge) \in Nat \ {0},
         m.charge % EstimateNPE(m.charge) = 0, NEW offset \in Int, ChargeThreshold \in Int,
         NEW s, s = Shares(m, offset)
  PROVE  /\ s \in Seq(PE) /\ \A x \in ToSet(s) : x.time = m.time - 6 * offset
         /\ ChargeOf(s) = IF m.charge < ChargeThreshold THEN 0 ELSE m.charge
<1>1. CASE m.charge < ChargeThreshold
  <2>1. s = <<>>
    BY <1>1 DEF Shares
  <2>2. <<>> \in Seq(PE)
    OBVIOUS
  <2>3. ChargeOf(<<>>) = 0
    BY <2>2, ChargeOfTyped, HaveCharges
  <2> QED BY <1>1, <2>1, <2>2, <2>3 DEF ToSet
<1>2. CASE ~(m.charge < ChargeThreshold)
  <2>1. PICK n \in Nat \ {0}, q \in Nat, t \in Int :
          n = EstimateNPE(m.charge) /\ q = m.charge /\ t = m.time - 6 * offset
    OBVIOUS
  <2>2. PICK d \in Int : d = q \div n /\ d * n = q /\ n * d = q
    <3>1. q \div n \in Int /\ q % n = 0
      BY <2>1, Divided
    <3>2. q = n * (q \div n) + (q % n)
      BY ONLY n \in Nat \ {0}, q \in Nat
    <3>3. PICK d \in Int : d = q \div n
      BY <3>1
    <3>4. q = n * d /\ n * d = d * n
      BY <3>1, <3>2, <3>3
    <3> QED BY <3>3, <3>4
  <2>3. PICK pe \in PE : pe = [time |-> t, charge |-> d]
    BY DEF PE
  <2>4. s = [k \in 1..n |-> pe]
    BY <1>2, <2>1, <2>2, <2>3 DEF Shares, Sixths
  <2>5. s \in Seq(PE) /\ DOMAIN s = 1..n /\ \A k \in 1..n : s[k] = pe
    BY <2>4
  <2>6. PICK w : w = [k \in DOMAIN s |-> s[k].charge]
    OBVIOUS
  <2>7. \A k \in 1..n : w[k] = d
    BY <2>3, <2>5, <2>6
  <2>8. n * d <= SumOf(w, 1..n) /\ SumOf(w, 1..n) <= n * d /\ SumOf(w, 1..n) \in Int
    <3>1. \A k \in 1..n : w[k] \in Int /\ d <= w[k] /\ w[k] <= d
      BY <2>7
    <3> QED BY ONLY <3>1, n \in Nat \ {0}, d \in Int, SumOfBounds
  <2>9. ChargeOf(s) = q
    <3>1. ChargeOf(s) = SumOf(w, 1..n)
      BY <2>5, <2>6 DEF ChargeOf, Total
    <3>2. PICK x \in Int : x = SumOf(w, 1..n)
      BY <2>8
    <3>3. q <= x /\ x <= q
      BY <2>2, <2>8, <3>2
    <3> QED BY <3>1, <3>2, <3>3
  <2>10. \A x \in ToSet(s) : x.time = t
    BY <2>3, <2>5 DEF ToSet
  <2> QED BY <1>2, <2>1, <2>5, <2>9, <2>10
<1> QED BY <1>1, <1>2

\* The photoelectrons of a pass, by cluster.
LEMMA PassIs ==
  ASSUME NEW p \in Packets, NEW offset \in Int, NEW cs, cs = Clusters(p),
         NEW new, new = [k \in DOMAIN cs |-> Shares(Merged(cs[k]), offset)],
         NEW flat, flat = FlattenSeq(new)
  PROVE  /\ flat \in Seq(PE)
         /\ LET lost == ChargeOf(p) - ChargeOf(flat) IN
            lost = 0 \/ (0 < ChargeThreshold /\ 0 < lost /\ lost < ChargeThreshold * Len(p))
         /\ \A x, y \in ToSet(flat) : x.time < y.time => y.time - x.time > MinDistance
<1>1. AreClusters(cs, p, Len(p)) /\ p \in Seq(Packet)
  BY ClustersAre, PacketsAre
<1>2. PICK n \in Nat : n = Len(p)
  BY <1>1
<1>3. PICK l \in Nat : l = Len(cs) /\ DOMAIN cs = 1..l
  <2>1. cs \in Seq(Seq(Packet))
    BY <1>1 DEF AreClusters
  <2> QED BY <2>1
<1>4. PICK th \in Int, dist \in Int : th = ChargeThreshold /\ dist = MinDistance
  BY PacketsAre
<1> DEFINE m(k) == Merged(cs[k])
<1>5. ASSUME NEW k \in 1..l
      PROVE  /\ m(k).time \in Int /\ cs[k][1].time <= m(k).time /\ m(k).time <= Last(cs[k]).time
             /\ cs[k][1].time \in Int /\ Last(cs[k]).time \in Int
             /\ m(k).charge = ChargeOf(cs[k]) /\ m(k).charge \in Nat
             /\ EstimateNPE(m(k).charge) \in Nat \ {0} /\ m(k).charge % EstimateNPE(m(k).charge) = 0
  <2>1. PICK i, j : IsPiece(cs[k], p, i, j)
    BY <1>1, <1>3 DEF AreClusters
  <2>2. cs[k][1] = p[i] /\ Last(cs[k]) = p[j]
    BY ONLY <1>1, <2>1, PieceIs
  <2>3. PICK c, x : c = cs[k] /\ x = m(k)
    OBVIOUS
  <2>4. /\ x.time \in Int /\ p[i].time <= x.time /\ x.time <= p[j].time
        /\ p[i].time \in Int /\ p[j].time \in Int
        /\ x.charge = ChargeOf(c) /\ x.charge \in Nat
        /\ EstimateNPE(x.charge) \in Nat \ {0} /\ x.charge % EstimateNPE(x.charge) = 0
    BY <2>1, <2>3, MergedIs
  <2> HIDE DEF m
  <2> QED BY <2>2, <2>3, <2>4
<1>6. ASSUME NEW k \in 1..l
      PROVE  /\ new[k] \in Seq(PE) /\ \A x \in ToSet(new[k]) : x.time = m(k).time - 6 * offset
             /\ ChargeOf(new[k]) = IF m(k).charge < ChargeThreshold THEN 0 ELSE m(k).charge
  <2>1. PICK x, s : x = m(k) /\ s = new[k]
    OBVIOUS
  <2>2. s = Shares(x, offset)
    BY <1>3, <2>1
  <2>3. /\ x.time \in Int /\ x.charge \in Nat /\ EstimateNPE(x.charge) \in Nat \ {0}
        /\ x.charge % EstimateNPE(x.charge) = 0 /\ ChargeThreshold \in Int
    <3> HIDE DEF m
    <3> QED BY <1>4, <1>5, <2>1
  <2>4. /\ s \in Seq(PE) /\ \A y \in ToSet(s) : y.time = x.time - 6 * offset
        /\ ChargeOf(s) = IF x.charge < ChargeThreshold THEN 0 ELSE x.charge
    BY <2>2, <2>3, SharesAre
  <2> HIDE DEF m
  <2> QED BY <2>1, <2>4
<1> HIDE DEF m
<1>7. new \in Seq(Seq(PE)) /\ DOMAIN new = 1..l /\ Len(new) = l
  <2>1. PICK T : T = Seq(PE)
    OBVIOUS
  <2>2. DOMAIN new = 1..l /\ new = [k \in 1..l |-> new[k]]
    BY <1>3
  <2>3. \A k \in 1..l : new[k] \in T
    BY <1>6, <2>1
  <2>4. new \in Seq(T) /\ Len(new) = l
    BY <2>2, <2>3
  <2> QED BY <2>1, <2>2, <2>4
<1>8. PICK a : a = [k \in 1..l |-> ChargeOf(cs[k])]
  OBVIOUS
<1>9. PICK b : b = [k \in 1..l |-> ChargeOf(new[k])]
  OBVIOUS
<1>10. ChargeOf(p) = SumOf(a, 1..l)
  <2>1. cs \in Seq(Seq(Packet)) /\ FlattenSeq(cs) = SubSeq(p, 1, n)
    BY <1>1, <1>2 DEF AreClusters
  <2>2. SubSeq(p, 1, n) = p
    BY <1>1, <1>2
  <2>3. \A k \in DOMAIN cs : a[k] = ChargeOf(cs[k])
    BY <1>3, <1>8
  <2>4. ChargeOf(FlattenSeq(cs)) = SumOf(a, 1..Len(cs))
    BY ONLY <2>1, <2>3, ChargeOfFlat, HaveCharges
  <2> QED BY <1>3, <2>1, <2>2, <2>4
<1>11. flat \in Seq(PE) /\ ChargeOf(flat) = SumOf(b, 1..l)
  <2>1. \A k \in DOMAIN new : b[k] = ChargeOf(new[k])
    BY <1>7, <1>9
  <2>2. FlattenSeq(new) \in Seq(PE) /\ ChargeOf(FlattenSeq(new)) = SumOf(b, 1..Len(new))
    BY ONLY <1>7, <2>1, ChargeOfFlat, HaveCharges
  <2> QED BY <1>7, <2>2
<1>12. ASSUME NEW k \in 1..l
       PROVE  /\ a[k] \in Int /\ b[k] \in Int
              /\ a[k] = b[k] \/ (b[k] = 0 /\ 0 < a[k] /\ a[k] < th)
  <2>1. PICK c \in Nat : c = m(k).charge /\ a[k] = c
    BY <1>5, <1>8
  <2>2. b[k] = IF c < th THEN 0 ELSE c
    BY <1>4, <1>6, <1>9, <2>1
  <2> QED BY <2>1, <2>2
<1>13. LET lost == SumOf(a, 1..l) - SumOf(b, 1..l) IN
       lost = 0 \/ (0 < th /\ 0 < lost /\ lost < th * l)
  BY <1>12, SumOfLost
<1>14. LET lost == ChargeOf(p) - ChargeOf(flat) IN
       lost = 0 \/ (0 < ChargeThreshold /\ 0 < lost /\ lost < ChargeThreshold * Len(p))
  <2>1. PICK lost \in Int : lost = ChargeOf(p) - ChargeOf(flat)
    <3>1. PICK x \in Int, y \in Int : x = ChargeOf(p) /\ y = ChargeOf(flat)
      BY <1>1, <1>11, ChargeOfTyped, HaveCharges
    <3> QED BY <3>1
  <2>2. lost = 0 \/ (0 < th /\ 0 < lost /\ lost < th * l)
    BY <1>10, <1>11, <1>13, <2>1
  <2>3. l <= n
    BY <1>1, <1>2, <1>3 DEF AreClusters
  <2>4. 0 < th => th * l \in Int /\ th * n \in Int /\ th * l <= th * n
    <3>1. SUFFICES ASSUME 0 < th PROVE th * l <= th * n
      OBVIOUS
    <3>2. l * th <= n * th
      BY <2>3, <3>1, Steps
    <3> QED BY <3>2
  <2>5. lost = 0 \/ (0 < th /\ 0 < lost /\ lost < th * n)
    <3>1. CASE lost = 0
      BY <3>1
    <3>2. CASE 0 < th /\ 0 < lost /\ lost < th * l
      <4>1. PICK x \in Int, y \in Int : x = th * l /\ y = th * n
        BY <2>4, <3>2
      <4> QED BY <2>4, <3>2, <4>1
    <3> QED BY <2>2, <3>1, <3>2
  <2> QED BY <1>2, <1>4, <2>1, <2>5
<1>15. ASSUME NEW x \in ToSet(flat), NEW y \in ToSet(flat), x.time < y.time
       PROVE  y.time - x.time > MinDistance
  <2>1. ASSUME NEW z \in ToSet(flat) PROVE \E i \in 1..l : z \in ToSet(new[i])
    <3>1. PICK T, D : T = ToSet(flat) /\ D = DOMAIN new
      OBVIOUS
    <3>2. T = UNION {ToSet(new[i]) : i \in D}
      BY ONLY <1>7, <3>1, flat = FlattenSeq(new), FlattenEntries
    <3>3. z \in T
      BY <2>1, <3>1
    <3>4. PICK i \in D : z \in ToSet(new[i])
      BY ONLY <3>2, <3>3
    <3>5. D = 1..l
      BY <1>7, <3>1
    <3> QED BY ONLY <3>4, <3>5
  <2>2. PICK i \in 1..l : x \in ToSet(new[i])
    BY <2>1
  <2>3. PICK j \in 1..l : y \in ToSet(new[j])
    BY <2>1
  <2>4. PICK o \in Int : o = 6 * offset
    OBVIOUS
  <2>5. x.time = m(i).time - o /\ y.time = m(j).time - o
    BY <1>6, <2>2, <2>3, <2>4
  <2>6. PICK s \in Int, t \in Int : s = m(i).time /\ t = m(j).time
    BY <1>5
  <2>7. s < t
    BY <1>15, <2>5, <2>6
  <2>8. CASE dist <= 0
    BY <1>4, <2>5, <2>6, <2>7, <2>8
  <2>9. CASE dist > 0
    <3>1. PICK hi \in Int, li \in Int, hj \in Int, lj \in Int :
            hi = cs[i][1].time /\ li = Last(cs[i]).time /\ hj = cs[j][1].time /\ lj = Last(cs[j]).time
      BY <1>5
    <3>2. hi <= s /\ s <= li /\ hj <= t /\ t <= lj
      BY <1>5, <2>6, <3>1
    <3>3. i # j
      BY <2>6, <2>7
    <3>4. (i < j => hj - li > dist) /\ (j < i => hi - lj > dist)
      BY <1>1, <1>3, <1>4, <2>9, <3>1 DEF AreClusters
    <3>5. i < j \/ j < i
      BY <3>3
    <3>6. t - s > dist
      BY ONLY <2>7, <2>9, <3>2, <3>4, <3>5, s \in Int, t \in Int, hi \in Int, li \in Int, hj \in Int, lj \in Int, dist \in Int
    <3> QED BY <1>4, <2>5, <2>6, <3>6
  <2> QED BY <1>4, <2>8, <2>9
<1> QED BY <1>11, <1>14, <1>15

\* A pass of an analysis keeps the account.
LEMMA PassAccounts ==
  ASSUME NEW result, Accounted(result), NEW p \in Packets, NEW r, r = AddPackets(result, p)
  PROVE  Accounted(r)
<1>1. /\ DOMAIN result = {"offset", "pes", "found", "exists"} /\ result.offset \in Int
      /\ result.found \in Seq(Packets) /\ result.pes \in Seq(PE) /\ InOrder(result.pes)
  BY DEF Accounted
<1>2. PICK cs : cs = Clusters(p)
  OBVIOUS
<1>3. PICK offset \in Int : offset = result.offset
  BY <1>1
<1>4. PICK new : new = [k \in DOMAIN cs |-> Shares(Merged(cs[k]), offset)]
  OBVIOUS
<1>5. PICK flat : flat = FlattenSeq(new)
  OBVIOUS
<1>6. PICK pes : pes = FoldLeft(AddPE, result.pes, flat)
  OBVIOUS
<1>7. r = [result EXCEPT !.pes = pes, !.found = Append(result.found, p)]
  BY <1>2, <1>3, <1>4, <1>5, <1>6 DEF AddPackets
<1>8. PICK found : found = Append(result.found, p)
  OBVIOUS
<1>9. /\ DOMAIN r = {"offset", "pes", "found", "exists"} /\ r.offset = offset
      /\ r.found = found /\ r.pes = pes
  BY ONLY <1>1, <1>3, <1>7, <1>8
<1>10. /\ flat \in Seq(PE)
       /\ LET lost == ChargeOf(p) - ChargeOf(flat) IN
          lost = 0 \/ (0 < ChargeThreshold /\ 0 < lost /\ lost < ChargeThreshold * Len(p))
       /\ \A x, y \in ToSet(flat) : x.time < y.time => y.time - x.time > MinDistance
  BY ONLY p \in Packets, offset \in Int, <1>2, <1>4, <1>5, PassIs
<1>11. /\ pes \in Seq(PE) /\ InOrder(pes) /\ ChargeOf(pes) = ChargeOf(result.pes) + ChargeOf(flat)
       /\ ToSet(pes) = ToSet(result.pes) \cup ToSet(flat)
  BY ONLY <1>1, <1>6, <1>10, AddPEsInsert
<1>12. found \in Seq(Packets) /\ Len(found) = Len(result.found) + 1 /\ Len(result.found) \in Nat
  BY <1>1, <1>8
<1>13. /\ FlattenSeq(found) = FlattenSeq(result.found) \o p
       /\ FlattenSeq(result.found) \in Seq(Packet) /\ p \in Seq(Packet)
  <2>1. \A q \in Packets : q \in Seq(Packet)
    BY PacketsAre
  <2>2. result.found \in Seq(Seq(Packet))
    <3>1. PICK T, f : T = Seq(Packet) /\ f = result.found
      OBVIOUS
    <3>2. f \in Seq(Packets) /\ \A q \in Packets : q \in T
      BY <1>1, <2>1, <3>1
    <3>3. f \in Seq(T)
      <4>1. DOMAIN f = 1..Len(f) /\ Len(f) \in Nat /\ f = [k \in 1..Len(f) |-> f[k]] /\ \A k \in 1..Len(f) : f[k] \in T
        BY ONLY <3>2
      <4> QED BY ONLY <4>1
    <3> QED BY <3>1, <3>3
  <2> QED BY <1>8, <2>1, <2>2, FlattenAppend, FlattenEntries
<1>14. \/ Lost(r) = 0
       \/ /\ 0 < ChargeThreshold /\ 0 < Lost(r)
          /\ Lost(r) < ChargeThreshold * Len(FlattenSeq(r.found))
  <2>1. PICK f \in Seq(Packet) : f = FlattenSeq(result.found)
    BY <1>13
  <2>2. PICK m \in Nat, n \in Nat : m = Len(f) /\ n = Len(p) /\ Len(f \o p) = m + n
    BY <1>13
  <2>3. PICK th \in Int : th = ChargeThreshold
    BY PacketsAre
  <2>4. ChargeOf(f \o p) = ChargeOf(f) + ChargeOf(p) /\ ChargeOf(f) \in Int /\ ChargeOf(p) \in Int
    BY <1>13, ChargeOfJoin, HaveCharges
  <2>5. ChargeOf(result.pes) \in Int /\ ChargeOf(flat) \in Int
    BY <1>1, <1>10, ChargeOfTyped, HaveCharges
  <2>6. PICK a \in Int, b \in Int, c \in Int, d \in Int :
          a = ChargeOf(f) /\ b = ChargeOf(p) /\ c = ChargeOf(result.pes) /\ d = ChargeOf(flat)
    BY <2>4, <2>5
  <2>7. Lost(result) = a - c /\ Lost(r) = (a + b) - (c + d)
    BY <1>9, <1>11, <1>13, <2>1, <2>4, <2>6 DEF Lost
  <2>8. a - c = 0 \/ (0 < th /\ 0 < a - c /\ a - c < th * m)
    BY <2>1, <2>2, <2>3, <2>7 DEF Accounted
  <2>9. b - d = 0 \/ (0 < th /\ 0 < b - d /\ b - d < th * n)
    BY <1>10, <2>2, <2>3, <2>6
  <2>10. PICK x \in Int, y \in Int : x = th * m /\ y = th * n /\ x + y = th * (m + n)
    OBVIOUS
  <2>11. 0 < th => 0 <= x /\ 0 <= y
    BY <2>10
  <2>12. PICK e \in Int, g \in Int : e = a - c /\ g = b - d
    OBVIOUS
  <2>13. e + g = 0 \/ (0 < th /\ 0 < e + g /\ e + g < x + y)
    BY ONLY <2>8, <2>9, <2>10, <2>11, <2>12, e \in Int, g \in Int, x \in Int, y \in Int, th \in Int
  <2>14. Lost(r) = e + g
    BY <2>7, <2>12
  <2> QED BY <1>9, <1>13, <2>1, <2>2, <2>3, <2>10, <2>13, <2>14
<1>15. ASSUME Len(found) = 1 PROVE Apart(pes)
  <2>1. result.found = <<>>
    BY <1>1, <1>12, <1>15
  <2>2. result.pes = <<>>
    BY <2>1 DEF Accounted
  <2>3. ToSet(pes) = ToSet(flat)
    <3>1. ToSet(result.pes) = {}
      BY <2>2 DEF ToSet
    <3>2. PICK S, T : S = ToSet(pes) /\ T = ToSet(flat)
      OBVIOUS
    <3>3. S = {} \cup T
      BY ONLY <1>11, <3>1, <3>2
    <3> QED BY ONLY <3>2, <3>3
  <2>4. \A k \in DOMAIN pes : pes[k] \in ToSet(flat)
    BY <2>3 DEF ToSet
  <2> QED BY <1>10, <2>4 DEF Apart
<1>16. found # <<>>
  BY <1>12
<1> QED BY <1>3, <1>9, <1>11, <1>12, <1>14, <1>15, <1>16 DEF Accounted

\* An analysis changes the results of DigitPMTs only.
LEMMA AnalysisIsGood ==
  ASSUME NEW ev, GoodEV(ev), NEW fit \in [PMTs -> Packets]
  PROVE  GoodEV(AnalyseEvent(ev, fit))
<1>1. Shaped(ev) /\ Sampled(ev) /\ Measured(ev) /\ Charged(ev) /\ Analysed(ev)
  BY DEF GoodEV
<1> DEFINE got(p) == GetOrCreateResult(ev.digits[p])
           res(p) == IF ev.digits[p].total < MinTotal \/ ev.digits[p].total > MaxTotal
                       THEN got(p) ELSE AddPackets(got(p), fit[p])
           next == AnalyseEvent(ev, fit)
<1>2. CASE ~ev.digitized
  <2>1. next = ev
    BY <1>2 DEF AnalyseEvent
  <2> QED BY <2>1
<1>3. CASE ev.digitized
  <2>1. PICK digits : digits = [p \in DOMAIN ev.digits |-> [ev.digits[p] EXCEPT !.result = res(p)]]
    OBVIOUS
  <2>2. next = [ev EXCEPT !.digits = digits]
    BY <1>3, <2>1 DEF AnalyseEvent
  <2>3. DOMAIN ev = Fields
    BY <1>1 DEF Shaped
  <2> HIDE DEF next
  <2>4. /\ DOMAIN next = Fields /\ next.digits = digits /\ next.charge = ev.charge
        /\ next.prepared = ev.prepared
        /\ next.trigger = ev.trigger /\ next.pmts = ev.pmts /\ next.waveforms = ev.waveforms
        /\ next.digitized = ev.digitized
    BY ONLY <2>2, <2>3 DEF Fields
  <2>5. ASSUME NEW p \in DOMAIN ev.digits
        PROVE  /\ p \in DOMAIN ev.waveforms \cap Online
               /\ digits[p].result = res(p)
               /\ digits[p].charge = ev.digits[p].charge
               /\ digits[p] = DoAnalysis(p, ev.waveforms[p], res(p))
    <3>1. PICK w, d, q : w = ev.waveforms[p] /\ d = ev.digits[p] /\ q = res(p)
      OBVIOUS
    <3>2. p \in DOMAIN ev.waveforms \cap Online /\ d = DoAnalysis(p, w, d.result)
      BY <1>1, <3>1 DEF Measured
    <3> HIDE DEF res
    <3>3. digits[p] = [d EXCEPT !.result = q]
      BY <2>1, <3>1
    <3>4. digits[p] = DoAnalysis(p, w, q) /\ digits[p].charge = d.charge /\ digits[p].result = q
      <4>1. PICK r1 : r1 = d.result
        OBVIOUS
      <4>2. d = DoAnalysis(p, w, r1)
        BY <3>2, <4>1
      <4> QED BY ONLY <3>3, <4>2 DEF DoAnalysis
    <3> QED BY <3>1, <3>2, <3>4
  <2>6. DOMAIN digits = DOMAIN ev.digits
    BY <2>1
  <2>7. Shaped(next)
    BY <1>1, <2>4 DEF Shaped
  <2>8. Sampled(next)
    BY <1>1, <2>4 DEF Sampled, Digitized
  <2>9. Measured(next)
    <3> HIDE DEF res
    <3> QED BY <2>4, <2>5, <2>6 DEF Measured
  <2>10. Charged(next)
    <3>1. Over(next) = Over(ev)
      BY <2>4 DEF Over
    <3>2. SUFFICES ASSUME ev.prepared
                   PROVE  /\ Over(next) \subseteq DOMAIN digits
                          /\ fZeroSuppress => DOMAIN digits = Over(next)
                          /\ ev.charge = Total([p \in Over(next) |-> digits[p].charge])
      BY <2>4 DEF Charged
    <3>3. /\ Over(ev) \subseteq DOMAIN ev.digits
          /\ fZeroSuppress => DOMAIN ev.digits = Over(ev)
          /\ ev.charge = Total([p \in Over(ev) |-> ev.digits[p].charge])
      BY <1>1, <3>2 DEF Charged
    <3>4. PICK O : O = Over(ev)
      OBVIOUS
    <3>5. \A p \in O : digits[p].charge = ev.digits[p].charge
      BY <2>5, <3>3, <3>4
    <3>6. [p \in O |-> digits[p].charge] = [p \in O |-> ev.digits[p].charge]
      BY <3>5
    <3>7. ev.charge = Total([p \in O |-> digits[p].charge])
      BY <3>3, <3>4, <3>6
    <3> QED BY <2>6, <3>1, <3>3, <3>4, <3>7
  <2>11. Analysed(next)
    <3>1. ASSUME NEW p \in DOMAIN ev.digits PROVE Accounted(digits[p].result)
      <4>1. p \in PMTs
        BY <1>1, <2>5 DEF Shaped
      <4>2. fit[p] \in Packets
        BY <4>1
      <4>3. Accounted(got(p))
        <5>1. CASE ev.digits[p].result.exists
          <6>1. got(p) = ev.digits[p].result
            BY <5>1 DEF GetOrCreateResult
          <6> QED BY <1>1, <6>1 DEF Analysed
        <5>2. CASE ~ev.digits[p].result.exists
          <6>1. PICK o \in Int : o = ev.digits[p].offset
            <7>1. ev.digits[p].offset = TimeOffset(p)
              <8>1. ev.digits[p] = DoAnalysis(p, ev.waveforms[p], ev.digits[p].result)
                BY <1>1 DEF Measured
              <8>2. PICK w, q : w = ev.waveforms[p] /\ q = ev.digits[p].result
                OBVIOUS
              <8>3. ev.digits[p] = DoAnalysis(p, w, q)
                BY <8>1, <8>2
              <8>4. DoAnalysis(p, w, q).offset = TimeOffset(p)
                BY DEF DoAnalysis
              <8> QED BY <8>3, <8>4
            <7> QED BY <4>1, <7>1, SettingsAre
          <6>2. PICK g : g = got(p)
            OBVIOUS
          <6>3. g = [NoResult EXCEPT !.offset = o, !.exists = TRUE]
            BY <5>2, <6>1, <6>2 DEF GetOrCreateResult
          <6>4. PICK e : e = NoResult
            OBVIOUS
          <6>5. Accounted(e)
            BY <6>4, NoResultIsGood
          <6>6. DOMAIN e = {"offset", "pes", "found", "exists"}
            BY <6>5 DEF Accounted
          <6>7. DOMAIN g = DOMAIN e /\ g.offset = o /\ g.pes = e.pes /\ g.found = e.found
            BY ONLY <6>3, <6>4, <6>6
          <6>8. Accounted(g)
            BY ONLY <6>5, <6>7, o \in Int DEF Accounted, Lost
          <6> QED BY <6>2, <6>8
        <5> QED BY <5>1, <5>2
      <4>4. Accounted(res(p))
        <5> HIDE DEF got
        <5> QED BY <4>2, <4>3, PassAccounts
      <4> HIDE DEF res
      <4> QED BY <2>5, <4>4
    <3> QED BY <2>4, <2>6, <3>1 DEF Analysed
  <2> QED BY <2>7, <2>8, <2>9, <2>10, <2>11 DEF GoodEV, next
<1> QED BY <1>2, <1>3

-----------------------------------------------------------------------------
(* The hit time.                                                           *)

\* The first of the lowest samples.
IsPeak(peak, v) ==
  /\ peak \in DOMAIN v /\ \A j \in DOMAIN v : v[peak] <= v[j]
  /\ \A j \in DOMAIN v : j < peak => v[peak] < v[j]

\* GetHighestPeak finds it, and there is only one.
LEMMA PeakIs ==
  ASSUME NEW n \in Nat \ {0}, NEW v \in [0 .. n - 1 -> Int]
  PROVE  /\ IsPeak(FindHighestPeak(v), v)
         /\ \A i, j : IsPeak(i, v) /\ IsPeak(j, v) => i = j
         /\ FindHighestPeak(v) = Min({i \in DOMAIN v : \A j \in DOMAIN v : v[i] <= v[j]})
<1> DEFINE D == 0 .. n - 1
           T == {v[i] : i \in D}
           L == {i \in D : \A j \in D : v[i] <= v[j]}
<1>1. DOMAIN v = D /\ IsFiniteSet(D) /\ 0 \in D
  <2>1. 0 \in Int /\ n - 1 \in Int
    OBVIOUS
  <2>2. IsFiniteSet(D)
    BY <2>1, FS_Interval
  <2> QED BY <2>2
<1>2. T \in SUBSET Int /\ T # {} /\ IsFiniteSet(T)
  <2>1. v \in Surjection(D, T)
    BY <1>1 DEF Surjection
  <2>2. IsFiniteSet(T)
    <3> HIDE DEF D, T
    <3> QED BY ONLY <1>1, <2>1, FiniteImage
  <2> QED BY <1>1, <2>2
<1>3. L # {} /\ L \in SUBSET Int /\ IsFiniteSet(L)
  <2>1. PICK x \in T : \A y \in T : x <= y
    <3> HIDE DEF T
    <3> QED BY <1>2, Extremes
  <2>2. PICK i \in D : v[i] = x
    BY <2>1
  <2>3. i \in L
    BY <2>1, <2>2
  <2>4. IsFiniteSet(L)
    BY <1>1, FS_Subset
  <2> QED BY <2>3, <2>4
<1>4. PICK m \in L : m = Min(L) /\ \A x \in L : m <= x
  <2> HIDE DEF L
  <2> QED BY <1>3, Extremes
<1>5. IsPeak(m, v)
  <2>1. m \in D /\ \A j \in D : v[m] <= v[j]
    BY <1>4
  <2>2. ASSUME NEW j \in D, j < m PROVE v[m] < v[j]
    <3>1. j \notin L
      <4> HIDE DEF L
      <4>1. m \in Int /\ j \in Int
        BY <1>3
      <4> QED BY <1>3, <1>4, <2>2, <4>1
    <3>2. PICK l \in D : ~(v[j] <= v[l])
      BY <3>1
    <3>3. v[m] \in Int /\ v[j] \in Int /\ v[l] \in Int
      BY <2>1, <2>2
    <3> QED BY <2>1, <3>2, <3>3
  <2> QED BY <1>1, <2>1, <2>2 DEF IsPeak
<1>6. ASSUME NEW i, NEW j, IsPeak(i, v), IsPeak(j, v) PROVE i = j
  <2>1. i \in D /\ j \in D /\ v[i] \in Int /\ v[j] \in Int
    BY <1>1, <1>6 DEF IsPeak
  <2>2. v[i] = v[j]
    BY <1>6, <2>1 DEF IsPeak
  <2>3. ~(i < j) /\ ~(j < i)
    BY <1>6, <2>1, <2>2 DEF IsPeak
  <2> QED BY <2>1, <2>3
<1>7. IsPeak(FindHighestPeak(v), v)
  BY <1>5 DEF IsPeak, FindHighestPeak
<1>8. FindHighestPeak(v) = Min(L)
  BY <1>4, <1>5, <1>6, <1>7
<1> QED BY <1>1, <1>6, <1>7, <1>8

\* The samples from the lookback to the peak that are above the fraction of it.
Above(v, peak, num, den, lookback) ==
  {i \in DOMAIN v : den * v[i] > num * v[peak] /\ peak - lookback <= i /\ i <= peak}
HasRise(v, peak, num, den, lookback) == Above(v, peak, num, den, lookback) # {}

\* The time of a rise through the fraction r / x of the step from a sample t to the next.
TimeAt(t, r, x) == <<t * x + r, x>>
RiseTime(t, v, peak, num, den) == TimeAt(t, den * v[t] - num * v[peak], den * (v[t] - v[t + 1]))

\* The rise that CalculateTimeCFD finds from sample t.
RisesAt(t, v, peak, num, den) ==
  /\ t \in DOMAIN v /\ t + 1 \in DOMAIN v /\ t < peak /\ t + 1 <= peak
  /\ den * v[t] > num * v[peak] /\ den * v[t + 1] <= num * v[peak]

\* What is known of a pulse's fraction.
LEMMA FractionIs ==
  ASSUME NEW num \in Nat \ {0}, NEW den \in Nat, num < den, NEW a \in Int, a < 0
  PROVE  den * a < num * a /\ num * a < 0 /\ den >= 2
<1>1. PICK d \in Nat, b \in Nat : den = num + d /\ d >= 1 /\ a = -b /\ b >= 1
  <2>1. den - num \in Nat /\ den - num >= 1 /\ -a \in Nat /\ -a >= 1
    OBVIOUS
  <2> QED BY <2>1
<1>2. b * num \in Int /\ num <= b * num /\ b * d \in Int /\ d <= b * d
  <2>1. 1 * num <= b * num
    BY <1>1, Steps
  <2>2. 1 * d <= b * d
    <3>1. d \in Nat \ {0}
      BY <1>1
    <3> QED BY <1>1, <3>1, Steps
  <2> QED BY <2>1, <2>2
<1>3. num * a = -(b * num) /\ den * a = -(b * num) - b * d
  BY <1>1
<1> QED BY <1>1, <1>2, <1>3

\* A pulse in n samples, with the settings of a scan.
Pulse(n, v, peak, num, den, lookback) ==
  /\ n \in Nat \ {0} /\ n <= INVALID /\ v \in [0 .. n - 1 -> Int]
  /\ IsPeak(peak, v) /\ v[peak] < 0
  /\ num \in Nat \ {0} /\ den \in Nat /\ num < den /\ lookback \in Nat

\* What the backward scan finds.
LEMMA ScanIs ==
  ASSUME NEW n, NEW v, NEW peak, NEW num, NEW den, NEW lookback, Pulse(n, v, peak, num, den, lookback),
         NEW above, above = Above(v, peak, num, den, lookback)
  PROVE  /\ above \in SUBSET Int
         /\ above = {} => ThresholdCrossing(v, peak, num, den, lookback) = INVALID
         /\ above # {} =>
              LET t == Max(above) IN
              /\ ThresholdCrossing(v, peak, num, den, lookback) = t
              /\ t \in above /\ t # INVALID /\ t # n - 1 /\ \A i \in above : i <= t
              /\ RisesAt(t, v, peak, num, den)
<1> USE DEF Pulse
<1>1. DOMAIN v = 0 .. n - 1 /\ peak \in 0 .. n - 1 /\ v[peak] \in Int
  BY DEF IsPeak
<1>2. den * v[peak] < num * v[peak] /\ num * v[peak] \in Int /\ den * v[peak] \in Int
  <2>1. PICK a \in Int : a = v[peak]
    BY <1>1
  <2>2. den * a < num * a
    BY <2>1, FractionIs
  <2> QED BY <2>1, <2>2
<1>3. PICK start \in Nat : start = Max({peak - lookback, 0}) /\ \A i \in Nat : start <= i <=> peak - lookback <= i
  <2>1. PICK a \in Int : a = peak - lookback
    BY <1>1
  <2>2. {a, 0} \in SUBSET Int /\ IsFiniteSet({a, 0}) /\ {a, 0} # {}
    <3>1. IsFiniteSet({0}) /\ {a, 0} = {0} \cup {a}
      BY FS_Singleton
    <3>2. IsFiniteSet({0} \cup {a})
      BY ONLY <3>1, FS_AddElement
    <3>3. PICK S : S = {a, 0}
      OBVIOUS
    <3>4. S = {0} \cup {a} /\ S \in SUBSET Int /\ S # {}
      BY ONLY <3>3, a \in Int
    <3>5. IsFiniteSet(S)
      BY ONLY <3>2, <3>4
    <3> QED BY ONLY <3>3, <3>4, <3>5
  <2>3. PICK m \in {a, 0} : m = Max({a, 0}) /\ \A x \in {a, 0} : x <= m
    BY <2>2, Extremes
  <2> QED BY <2>1, <2>3
<1>4. above = {i \in start .. peak : den * v[i] > num * v[peak]}
  <2>1. \A i : i \in start .. peak <=> i \in 0 .. n - 1 /\ peak - lookback <= i /\ i <= peak
    <3>1. \A i : i \in 0 .. n - 1 => i \in Nat
      OBVIOUS
    <3>2. \A i : i \in start .. peak <=> i \in Nat /\ start <= i /\ i <= peak
      BY <1>1
    <3>3. \A i \in Nat : i <= peak => i \in 0 .. n - 1
      BY <1>1
    <3> QED BY <1>3, <3>1, <3>2, <3>3
  <2>2. \A i : i \in above <=> i \in 0 .. n - 1 /\ den * v[i] > num * v[peak] /\ peak - lookback <= i /\ i <= peak
    BY <1>1 DEF Above
  <2>3. \A i : i \in above <=> i \in start .. peak /\ den * v[i] > num * v[peak]
    BY ONLY <2>1, <2>2
  <2> QED BY ONLY <2>3
<1>5. /\ above \in SUBSET Int /\ IsFiniteSet(above)
      /\ ThresholdCrossing(v, peak, num, den, lookback) = IF above = {} THEN INVALID ELSE Max(above)
  <2>1. IsFiniteSet(start .. peak)
    <3>1. start \in Int /\ peak \in Int
      BY <1>1
    <3> QED BY <3>1, FS_Interval
  <2>2. IsFiniteSet(above)
    BY <1>4, <2>1, FS_Subset
  <2>3. ~(den * v[peak] > num * v[peak])
    BY <1>2
  <2>4. ThresholdCrossing(v, peak, num, den, lookback) = IF above = {} THEN INVALID ELSE Max(above)
    BY <1>3, <1>4, <2>3 DEF ThresholdCrossing
  <2> QED BY <1>4, <2>2, <2>4
<1>6. ASSUME above # {}, NEW t, t = Max(above)
      PROVE  /\ t \in above /\ t # INVALID /\ t # n - 1 /\ \A i \in above : i <= t
             /\ RisesAt(t, v, peak, num, den)
  <2>1. t \in above /\ \A i \in above : i <= t
    BY <1>5, <1>6, Extremes
  <2>2. t \in 0 .. n - 1 /\ start <= t /\ t <= peak /\ den * v[t] > num * v[peak]
    <3>1. t \in start .. peak /\ den * v[t] > num * v[peak]
      BY ONLY <1>4, <2>1
    <3> QED BY <1>1, <3>1
  <2>3. t # peak
    BY <1>2, <2>2
  <2>4. t < peak /\ t + 1 <= peak /\ t + 1 \in start .. peak /\ t + 1 \in 0 .. n - 1
    BY <1>1, <2>2, <2>3
  <2>5. t + 1 \notin above
    BY <2>1, <2>2
  <2>6. v[t + 1] \in Int /\ den * v[t + 1] \in Int
    BY <2>4
  <2>7. den * v[t + 1] <= num * v[peak]
    BY <1>2, <1>4, <2>4, <2>5, <2>6
  <2>8. INVALID = 9999
    BY DEF INVALID
  <2> QED BY <1>1, <2>1, <2>2, <2>4, <2>7, <2>8 DEF RisesAt
<1> QED BY <1>5, <1>6

\* Between the samples of a rise.
LEMMA RiseIs ==
  ASSUME NEW n \in Nat, NEW v \in [0 .. n - 1 -> Int], NEW peak \in 0 .. n - 1, v[peak] < 0,
         NEW num \in Nat \ {0}, NEW den \in Nat, num < den, NEW t, RisesAt(t, v, peak, num, den)
  PROVE  /\ t \in Nat /\ v[t] \in Int /\ v[t + 1] \in Int /\ v[t + 1] < v[t] /\ v[t + 1] < 0
         /\ LET x == den * (v[t] - v[t + 1])
                r == den * v[t] - num * v[peak]
            IN x \in Nat /\ x >= 2 /\ r \in Nat /\ 0 < r /\ r <= x
<1>1. PICK a \in Int, b \in Int, p \in Int : a = v[t] /\ b = v[t + 1] /\ p = v[peak] /\ t \in Nat
  BY DEF RisesAt
<1>2. den * p < num * p /\ num * p < 0 /\ den >= 2
  BY <1>1, FractionIs
<1>3. PICK da \in Int, db \in Int, np \in Int : da = den * a /\ db = den * b /\ np = num * p
  OBVIOUS
<1>4. np < da /\ db <= np /\ np < 0
  BY <1>1, <1>2, <1>3 DEF RisesAt
<1>5. den \in Nat \ {0}
  BY <1>2
<1>6. b < a
  <2>1. a <= b => a * den <= b * den
    BY <1>5, Steps
  <2>2. da = a * den /\ db = b * den
    BY <1>3
  <2> QED BY <1>4, <2>1, <2>2
<1>7. b < 0
  <2>1. 0 <= b => 0 * den <= b * den
    BY <1>5, Steps
  <2>2. db = b * den /\ 0 * den = 0
    BY <1>3
  <2> QED BY <1>4, <2>1, <2>2
<1>8. den * (a - b) = da - db
  BY <1>3
<1>9. da - db >= 2
  <2>1. 1 * den <= (a - b) * den
    <3>1. 1 <= a - b /\ a - b \in Int
      BY <1>6
    <3> QED BY <1>5, <3>1, Steps
  <2>2. (a - b) * den = da - db
    BY <1>3
  <2> QED BY <1>2, <2>1, <2>2
<1>10. PICK x \in Nat, r \in Nat : x = den * (a - b) /\ r = den * a - num * p /\ x >= 2 /\ 0 < r /\ r <= x
  <2>1. da - db \in Nat /\ da - np \in Nat /\ 0 < da - np /\ da - np <= da - db
    BY <1>4, <1>9
  <2> QED BY <1>3, <1>8, <1>9, <2>1
<1> QED BY <1>1, <1>6, <1>7, <1>10

\* CalculateTimeCFD finds the rise, if there is one.
LEMMA TimeIs ==
  ASSUME NEW n, NEW v, NEW peak, NEW num, NEW den, NEW lookback, Pulse(n, v, peak, num, den, lookback),
         NEW above, above = Above(v, peak, num, den, lookback)
  PROVE  CalculateTimeCFD(v, peak, num, den, lookback) =
           IF HasRise(v, peak, num, den, lookback) THEN RiseTime(Max(above), v, peak, num, den)
           ELSE IF peak < lookback THEN <<0, 1>> ELSE InvalidTime
<1> USE DEF Pulse
<1> PICK time : time = CalculateTimeCFD(v, peak, num, den, lookback)
  OBVIOUS
<1>1. peak \in 0 .. n - 1 /\ DOMAIN v = 0 .. n - 1
  BY DEF IsPeak
<1>2. CASE above = {}
  <2>1. ThresholdCrossing(v, peak, num, den, lookback) = INVALID
    BY <1>2, ScanIs
  <2>2. time = IF peak - lookback < 0 THEN <<0, 1>> ELSE InvalidTime
    BY <2>1 DEF CalculateTimeCFD
  <2>3. peak - lookback < 0 <=> peak < lookback
    BY <1>1
  <2> QED BY <1>2, <2>2, <2>3 DEF HasRise
<1>3. CASE above # {}
  <2>1. PICK t : t = Max(above)
    OBVIOUS
  <2>2. /\ ThresholdCrossing(v, peak, num, den, lookback) = t
        /\ t # INVALID /\ t # n - 1 /\ RisesAt(t, v, peak, num, den)
    BY <1>3, <2>1, ScanIs
  <2>3. /\ t \in Nat /\ v[t] \in Int /\ v[t + 1] \in Int /\ v[t + 1] < v[t]
        /\ LET x == den * (v[t] - v[t + 1])
               r == den * v[t] - num * v[peak]
           IN x \in Nat /\ x >= 2 /\ r \in Nat /\ 0 < r /\ r <= x
    BY <1>1, <2>2, RiseIs
  <2>4. PICK a \in Int, b \in Int, p \in Int : a = v[t] /\ b = v[t + 1] /\ p = v[peak]
    BY <1>1, <2>3
  <2>5. PICK x \in Nat, r \in Nat : x = den * (a - b) /\ r = den * a - num * p /\ x >= 2 /\ 0 < r
    BY <2>3, <2>4
  <2>6. Size(v) = n
    <3>1. 0 \in Int /\ n - 1 \in Int /\ ~(0 > n - 1) /\ n - 1 - 0 + 1 = n
      OBVIOUS
    <3>2. Cardinality(0 .. n - 1) = n
      BY <3>1, FS_Interval
    <3> QED BY <1>1, <3>2 DEF Size
  <2>7. t + 1 # Size(v) /\ b - a # 0
    <3>1. t \in Nat /\ t # n - 1 /\ b < a
      BY <2>2, <2>3, <2>4
    <3>2. t + 1 # n /\ b - a # 0
      BY ONLY <3>1, n \in Int, a \in Int, b \in Int
    <3> QED BY ONLY <2>6, <3>2
  <2>8. ~((num * p - den * a) * (b - a) < 0)
    <3>1. PICK s \in Nat : s = a - b /\ num * p - den * a = -r /\ b - a = -s
      <4>1. PICK np \in Int, da \in Int : np = num * p /\ da = den * a
        OBVIOUS
      <4>2. b < a
        BY <2>3, <2>4
      <4>3. a - b \in Nat /\ b - a = -(a - b) /\ np - da = -(da - np)
        BY <4>1, <4>2
      <4> QED BY <2>5, <4>1, <4>3
    <3>2. (-r) * (-s) = r * s /\ r * s \in Nat
      OBVIOUS
    <3> QED BY <3>1, <3>2
  <2>9. time = <<t * den * (-(b - a)) - (num * p - den * a), den * (-(b - a))>>
    BY <2>2, <2>4, <2>7, <2>8 DEF CalculateTimeCFD
  <2>10. den * (-(b - a)) = x /\ t * den * (-(b - a)) - (num * p - den * a) = t * x + r
    <3>1. PICK s \in Int : s = a - b /\ -(b - a) = s
      OBVIOUS
    <3>2. x = den * s
      BY <2>5, <3>1
    <3>3. t * den * s = t * (den * s)
      BY <2>3
    <3>4. PICK y \in Int, np \in Int, da \in Int : y = t * x /\ np = num * p /\ da = den * a
      BY <2>3
    <3>5. y - (np - da) = y + r
      BY <2>5, <3>4
    <3> QED BY <3>1, <3>2, <3>3, <3>4, <3>5
  <2>11. time = <<t * x + r, x>>
    BY <2>9, <2>10
  <2>12. time = TimeAt(t, r, x)
    BY <2>11 DEF TimeAt
  <2> QED BY <1>3, <2>1, <2>4, <2>5, <2>12 DEF RiseTime, HasRise
<1> QED BY <1>2, <1>3

\* A channel that crosses the threshold has a pulse that goes down.
LEMMA PulseGoesDown ==
  ASSUME NEW w \in [Samples -> Int], NEW s \in 0 .. NSamples - 1, Voltage(w)[s] < Threshold,
         NEW peak, IsPeak(peak, Voltage(w))
  PROVE  Threshold < 0 /\ Voltage(w)[peak] < 0
<1>1. Threshold < 0
  <2>1. PICK a \in Nat \ {0}, b \in Nat \ {0} : a = Width /\ b = -Prep.threshold
    BY VoltageTyped, SettingsAre
  <2>2. 1 * b <= a * b
    BY <2>1, Steps
  <2>3. PICK x \in Int : x = a * b /\ a * (-b) = -x
    OBVIOUS
  <2>4. -b = Prep.threshold
    BY <2>1, SettingsAre
  <2>5. Threshold = Width * Prep.threshold
    BY VoltageTyped
  <2> QED BY ONLY <2>1, <2>2, <2>3, <2>4, <2>5, a \in Nat \ {0}, b \in Nat \ {0}
<1>2. PICK v \in [0 .. NSamples - 1 -> Int] : v = Voltage(w)
  BY VoltageTyped
<1>3. v[peak] <= v[s] /\ v[peak] \in Int /\ v[s] \in Int /\ Threshold \in Int
  BY <1>2, VoltageTyped DEF IsPeak
<1> QED BY <1>1, <1>2, <1>3

\* The time of a rise is between its samples, and is a time.
LEMMA TimeIsBetween ==
  ASSUME NEW t \in Nat, NEW x \in Nat, x >= 2, NEW r \in Nat, r <= x, NEW time, time = TimeAt(t, r, x)
  PROVE  t * time[2] <= time[1] /\ time[1] <= (t + 1) * time[2] /\ time # InvalidTime
<1>1. time[1] = t * x + r /\ time[2] = x
  BY DEF TimeAt
<1>2. PICK y \in Int : y = t * x /\ (t + 1) * x = y + x
  OBVIOUS
<1>3. time # InvalidTime
  <2>1. InvalidTime[2] = 1
    BY DEF InvalidTime
  <2> QED BY <1>1, <2>1
<1> QED BY <1>1, <1>2, <1>3

-----------------------------------------------------------------------------
(* The theorems.                                                           *)

\* An EV that agrees with its waveforms agrees with them after a step, as the MCPMTs
\* and the settings do not change.
LEMMA StaysGood ==
  ASSUME mc' = mc, UNCHANGED settings, \A k \in DOMAIN evs' : GoodEV(evs'[k])
  PROVE  (\A k \in DOMAIN evs : GoodEV(evs[k]))'
<1>1. fZeroSuppress' = fZeroSuppress /\ fApplyCableOffset' = fApplyCableOffset
  BY DEF settings
<1>2. SUFFICES ASSUME NEW k \in DOMAIN evs' PROVE GoodEV(evs[k])'
  OBVIOUS
<1>3. Shaped(evs'[k]) /\ Sampled(evs'[k]) /\ Measured(evs'[k]) /\ Charged(evs'[k]) /\ Analysed(evs'[k])
  BY DEF GoodEV
<1>4. Shaped(evs[k])'
  BY <1>3 DEF Shaped
<1>5. Sampled(evs[k])'
  BY <1>1, <1>3 DEF Sampled, Digitized, MCPMTsOf
<1>6. Measured(evs[k])'
  BY <1>1, <1>3 DEF Measured, DoAnalysis, TimeOffset
<1>7. Charged(evs[k])'
  BY <1>1, <1>3 DEF Charged
<1>8. Analysed(evs[k])'
  BY <1>3 DEF Analysed
<1> QED BY <1>4, <1>5, <1>6, <1>7, <1>8 DEF GoodEV

\* The EV of ForcedTrigger, and that of SimpleDAQ without its waveforms.
LEMMA OneEVIsGood ==
  ASSUME mc \in Seq(MCPMT), fDigitWaveForm = NoChannels, ForcedTrigger \/ SimpleDAQ
  PROVE  fDigitWaveForm' = NoChannels /\ \A k \in DOMAIN evs' : GoodEV(evs'[k])
<1>1. PICK daq : daq = NoEVs /\ daq.digitizer = NoChannels /\ daq.evs = <<>>
  <2>1. PICK daq : daq = NoEVs
    OBVIOUS
  <2>2. daq = [digitizer |-> NoChannels, evs |-> <<>>]
    BY ONLY <2>1, fDigitWaveForm = NoChannels DEF NoEVs
  <2>3. daq.digitizer = NoChannels /\ daq.evs = <<>>
    BY ONLY <2>2
  <2> QED BY <2>1, <2>3
<1>2. PICK z : z \in Int /\ z = 0
  OBVIOUS
<1>3. CASE ForcedTrigger
  <2>1. PICK all : all \in SUBSET DOMAIN mc /\ all = DOMAIN mc
    OBVIOUS
  <2>2. PICK q : q = AllCharge(all)
    OBVIOUS
  <2>3. PICK built : /\ built \in AddEV(daq, z, all, q)
                   /\ evs' = built.evs /\ fDigitWaveForm' = built.digitizer
    BY <1>1, <1>2, <1>3, <2>1, <2>2 DEF ForcedTrigger, DAQ
  <2>4. PICK ev \in EVsOf(z, all, q) :
          built = [digitizer |-> NoChannels, evs |-> Append(daq.evs, ev)]
    <3>1. daq.digitizer = NoChannels /\ built \in AddEV(daq, z, all, q)
      BY ONLY <1>1, <2>3
    <3> QED BY ONLY <3>1, AddEVIs
  <2>5. GoodEV(ev)
    BY ONLY mc \in Seq(MCPMT), <1>2, <2>1, <2>4, NewEVIsGood
  <2>6. evs' = <<ev>> /\ fDigitWaveForm' = NoChannels
    BY ONLY <1>1, <2>3, <2>4
  <2> QED BY <2>5, <2>6
<1>4. CASE SimpleDAQ
  <2>1. PICK hit : hit \in SUBSET DOMAIN mc /\ hit = {i \in DOMAIN mc : mc[i].photons # <<>>}
    OBVIOUS
  <2>2. PICK q : q = AllCharge(hit)
    OBVIOUS
  <2>3. PICK ev : ev = NewEV(z, hit, q)
    OBVIOUS
  <2>4. evs' = <<ev>> /\ fDigitWaveForm' = fDigitWaveForm
    BY <1>2, <1>4, <2>1, <2>2, <2>3 DEF SimpleDAQ, DAQ, NoEVs
  <2>5. GoodEV(ev)
    BY ONLY mc \in Seq(MCPMT), <1>2, <2>1, <2>3, NewEVIsGood
  <2> QED BY <2>4, <2>5
<1> QED BY <1>3, <1>4

(* Every EV of an event agrees with its waveforms, and these with the      *)
(* MCPMTs, whichever processors ran in whichever order, how often and with *)
(* which settings; the digitizer is empty between them.                    *)
THEOREM WaveInvariant == Spec => []WaveInv
<1>1. Init => WaveInv
  <2>1. SUFFICES ASSUME Init PROVE WaveInv
    OBVIOUS
  <2>2. fDigitWaveForm = NoChannels
    BY <2>1 DEF Init
  <2>3. CASE mc \in Simulated /\ evs = <<>>
    <3>1. mc \in Seq(MCPMT)
      BY <2>3, WaveformAssumption, Zenon
    <3> QED BY <2>2, <2>3, <3>1 DEF WaveInv
  <2>4. CASE mc = <<>> /\ \E ev \in Recorded : evs = <<ev>>
    <3>1. PICK ev \in Recorded : evs = <<ev>>
      BY <2>4
    <3>2. IsNewEV(ev)
      BY WaveformAssumption, Zenon
    <3>3. GoodEV(ev)
      BY <2>4, <3>2, RecordedIsGood
    <3>4. mc \in Seq(MCPMT)
      BY <2>4
    <3> QED BY <2>2, <3>1, <3>3, <3>4 DEF WaveInv
  <2> QED BY <2>1, <2>3, <2>4 DEF Init
<1>2. WaveInv /\ [Next]_vars => WaveInv'
  <2>1. SUFFICES ASSUME WaveInv, [Next]_vars
                 PROVE  /\ mc' = mc /\ UNCHANGED settings /\ fDigitWaveForm' = NoChannels
                        /\ \A k \in DOMAIN evs' : GoodEV(evs'[k])
    <3>1. WaveInv /\ [Next]_vars => mc \in Seq(MCPMT)
      BY DEF WaveInv
    <3>2. ASSUME WaveInv, [Next]_vars PROVE WaveInv'
      <4>1. /\ mc' = mc /\ UNCHANGED settings /\ fDigitWaveForm' = NoChannels
            /\ \A k \in DOMAIN evs' : GoodEV(evs'[k])
        BY <2>1, <3>2
      <4>2. (\A k \in DOMAIN evs : GoodEV(evs[k]))'
        BY <4>1, StaysGood
      <4> QED BY <3>1, <3>2, <4>1, <4>2 DEF WaveInv
    <3> QED BY <3>2
  <2>2. mc \in Seq(MCPMT) /\ fDigitWaveForm = NoChannels /\ \A k \in DOMAIN evs : GoodEV(evs[k])
    BY <2>1 DEF WaveInv
  <2>3. CASE \E triggers \in TriggerTimes : SplitEVDAQ(triggers)
    <3>1. PICK triggers \in TriggerTimes : SplitEVDAQ(triggers)
      BY <2>3
    <3>2. triggers \in Seq(Int)
      BY WaveformAssumption, Zenon
    <3>3. mc' = mc /\ UNCHANGED settings
      BY <3>1 DEF SplitEVDAQ, DAQ, Step
    <3> QED BY <2>2, <3>1, <3>2, <3>3, SplitIsGood
  <2>4. CASE ForcedTrigger \/ SimpleDAQ
    <3>1. mc' = mc /\ UNCHANGED settings
      BY <2>4 DEF ForcedTrigger, SimpleDAQ, DAQ, Step
    <3> QED BY <2>2, <2>4, <3>1, OneEVIsGood
  <2>5. CASE WaveformPrep
    <3>1. mc' = mc /\ UNCHANGED settings /\ fDigitWaveForm' = fDigitWaveForm
      BY <2>5 DEF WaveformPrep, Step
    <3>2. evs' = [k \in DOMAIN evs |-> PrepEvent(evs[k])]
      BY <2>5 DEF WaveformPrep
    <3>3. ASSUME NEW k \in DOMAIN evs PROVE GoodEV(PrepEvent(evs[k]))
      BY <2>2, PrepIsGood
    <3> QED BY <2>2, <3>1, <3>2, <3>3
  <2>6. CASE \E fit \in [PMTs -> Packets] : WaveformAnalysis(fit)
    <3>1. PICK fit \in [PMTs -> Packets] : WaveformAnalysis(fit)
      BY <2>6
    <3>2. mc' = mc /\ UNCHANGED settings /\ fDigitWaveForm' = fDigitWaveForm
      BY <3>1 DEF WaveformAnalysis, Step
    <3>3. evs' = [k \in DOMAIN evs |-> AnalyseEvent(evs[k], fit)]
      BY <3>1 DEF WaveformAnalysis
    <3>4. ASSUME NEW k \in DOMAIN evs PROVE GoodEV(AnalyseEvent(evs[k], fit))
      BY <2>2, AnalysisIsGood
    <3> QED BY <2>2, <3>2, <3>3, <3>4
  <2>7. CASE UNCHANGED vars
    <3>1. evs' = evs /\ mc' = mc /\ fDigitWaveForm' = fDigitWaveForm /\ UNCHANGED settings
      BY <2>7 DEF vars, settings
    <3> QED BY <2>2, <3>1
  <2> QED BY <2>1, <2>3, <2>4, <2>5, <2>6, <2>7 DEF Next
<1> QED BY <1>1, <1>2, PTL DEF Spec

(* After WaveformPrep the EV's charge is that of its channels which cross  *)
(* the threshold, and with zero suppression these are the online channels  *)
(* that have a DigitPMT (WaveformPrep::Event sums before it erases).       *)
THEOREM ChargesSummed == Spec => []ChargesAddUp
<1>1. WaveInv => ChargesAddUp
  <2>1. SUFFICES ASSUME WaveInv, NEW k \in DOMAIN evs, evs[k].prepared
                 PROVE  /\ Over(evs[k]) \subseteq DOMAIN evs[k].digits
                        /\ fZeroSuppress => DOMAIN evs[k].digits = Over(evs[k])
                        /\ evs[k].charge = Total([p \in Over(evs[k]) |-> evs[k].digits[p].charge])
    BY DEF ChargesAddUp, Over
  <2> QED BY <2>1 DEF WaveInv, GoodEV, Charged
<1> QED BY <1>1, WaveInvariant, PTL

(* The photoelectrons of an analysis are in order of time, and their       *)
(* charge is that of the packets found, but for clusters under the charge  *)
(* threshold; after one pass, those of different clusters are further      *)
(* apart than min_peak_distance (MergeClosePeaks, AddPE).                  *)
THEOREM PhotoelectronsAccounted == Spec => []PacketsAreAccounted
<1>1. WaveInv => PacketsAreAccounted
  <2>1. SUFFICES ASSUME WaveInv
                 PROVE  \A k \in DOMAIN evs : \A p \in DOMAIN evs[k].digits :
                          LET result == evs[k].digits[p].result
                              packets == FlattenSeq(result.found)
                              lost == ChargeOf(packets) - ChargeOf(result.pes)
                          IN /\ InOrder(result.pes)
                             /\ lost = 0 \/ (0 < lost /\ lost < ChargeThreshold * Len(packets))
                             /\ Len(result.found) = 1 => Apart(result.pes)
    BY DEF PacketsAreAccounted, InOrder, Apart
  <2>2. SUFFICES ASSUME NEW k \in DOMAIN evs, NEW p \in DOMAIN evs[k].digits,
                        NEW result, result = evs[k].digits[p].result
                 PROVE  /\ InOrder(result.pes)
                        /\ \/ Lost(result) = 0
                           \/ 0 < Lost(result)
                              /\ Lost(result) < ChargeThreshold * Len(FlattenSeq(result.found))
                        /\ Len(result.found) = 1 => Apart(result.pes)
    BY DEF Lost
  <2>3. Accounted(result)
    BY <2>1, <2>2 DEF WaveInv, GoodEV, Analysed
  <2> QED BY <2>3 DEF Accounted
<1> QED BY <1>1, WaveInvariant, PTL

\* What is not quiet is reached by a photon.
LEMMA ReachedOrQuiet ==
  ASSUME mc \in Seq(MCPMT), NEW ev, Shaped(ev), Sampled(ev), Digitized(ev),
         NEW p \in ev.pmts, NEW s \in Samples, ev.waveforms[p][s] \notin Quiet(s)
  PROVE  Reached(ev, p, s)
<1>1. PICK i \in MCPMTsOf(p) : ev.waveforms[p] \in Drawn(mc[i], ev.trigger)
  BY DEF Sampled
<1>2. PICK m \in MCPMT : m = mc[i]
  BY <1>1 DEF MCPMTsOf
<1>3. ev.trigger \in Int
  BY DEF Shaped
<1>4. PICK k \in DOMAIN m.photons : s - Arrival(m, k, ev.trigger) \in Reach
  BY <1>1, <1>2, <1>3, DrawnIs
<1> QED BY <1>1, <1>2, <1>4 DEF Reached

(* An EV has waveforms of exactly its PMTs, and their samples show no more *)
(* than noise wherever no photon of the PMT, at its distance from this     *)
(* EV's trigger, reaches: no channel, and no time, of another EV           *)
(* (Digitizer::AddChannel, and ClearWaveforms between EVs).                *)
THEOREM SamplesTheirOwn == Spec => []EVsHaveTheirSamples
<1>1. WaveInv => EVsHaveTheirSamples
  <2>1. SUFFICES ASSUME WaveInv, NEW k \in DOMAIN evs, Digitized(evs[k])
                 PROVE  /\ DOMAIN evs[k].waveforms = evs[k].pmts
                        /\ \A p \in evs[k].pmts : \A s \in Samples :
                             Reached(evs[k], p, s) \/ evs[k].waveforms[p][s] \in Quiet(s)
    BY DEF EVsHaveTheirSamples
  <2>2. mc \in Seq(MCPMT) /\ Shaped(evs[k]) /\ Sampled(evs[k])
    BY <2>1 DEF WaveInv, GoodEV
  <2>3. DOMAIN evs[k].waveforms = evs[k].pmts
    BY <2>1, <2>2 DEF Sampled
  <2> QED BY <2>1, <2>2, <2>3, ReachedOrQuiet
<1> QED BY <1>1, WaveInvariant, PTL

(* The hit time of a channel is where the last rise to the first of the    *)
(* lowest samples crosses the constant fraction, inside the lookback; it   *)
(* is missing only if the channel never crosses the threshold, or if the   *)
(* lookback, whole within the waveform, holds no sample above the fraction *)
(* ("This should not happen" of CalculateTimeCFD does not happen).         *)
THEOREM HitTimeRises == Spec => []HitTimeIsTheRise
<1> DEFINE Right(v, d, peak, above) ==
      /\ d.crossings = Cardinality(Crosses(v, Threshold))
      /\ d.crossings > 0 /\ above # {} =>
           /\ Max(above) * d.time[2] <= d.time[1]
           /\ d.time[1] <= (Max(above) + 1) * d.time[2]
      /\ d.time = InvalidTime <=> d.crossings = 0 \/ (above = {} /\ peak >= Prep.lookback)
<1>1. ASSUME WaveInv, NEW k \in DOMAIN evs, NEW p \in DOMAIN evs[k].digits,
             NEW v, v = Voltage(evs[k].waveforms[p]), NEW d, d = evs[k].digits[p],
             NEW peak, peak = Min({i \in DOMAIN v : \A j \in DOMAIN v : v[i] <= v[j]}),
             NEW above, above = Above(v, peak, Prep.num, Prep.den, Prep.lookback)
      PROVE  Right(v, d, peak, above)
  <2>1. PICK w \in [Samples -> Int] : w = evs[k].waveforms[p]
    BY <1>1 DEF WaveInv, GoodEV, Measured, Shaped
  <2>2. PICK res : d = DoAnalysis(p, w, res)
    BY <1>1, <2>1 DEF WaveInv, GoodEV, Measured
  <2>3. PICK n : n \in Nat \ {0} /\ n = NSamples /\ n <= INVALID /\ Samples = 0 .. n - 1
    BY Digitizers
  <2>4. v = Voltage(w) /\ v \in [0 .. n - 1 -> Int] /\ Threshold \in Int
    BY <1>1, <2>1, <2>3, VoltageTyped
  <2>5. peak = FindHighestPeak(v) /\ IsPeak(peak, v)
    <3>1. n \in Nat \ {0}
      BY <2>3
    <3> QED BY <1>1, <2>4, <3>1, PeakIs
  <2>6. /\ d.crossings = GetNCrossings(v, Threshold)
        /\ d.time = IF d.crossings = 0 THEN InvalidTime
                    ELSE CalculateTimeCFD(v, peak, Prep.num, Prep.den, Prep.lookback)
    BY <2>2, <2>4, <2>5 DEF DoAnalysis
  <2>7. /\ d.crossings = Cardinality(Crosses(v, Threshold)) /\ d.crossings \in Nat
        /\ d.crossings > 0 <=> \E s \in 0 .. n - 1 : v[s] < Threshold
    <3>1. n \in Nat
      BY <2>3
    <3> QED BY <2>4, <2>6, <3>1, CrossingsAre
  <2>8. CASE d.crossings = 0
    BY <2>6, <2>7, <2>8
  <2>9. CASE d.crossings > 0
    <3>1. PICK s \in 0 .. n - 1 : v[s] < Threshold
      BY <2>7, <2>9
    <3>2. v[peak] < 0
      BY <2>3, <2>4, <2>5, <3>1, PulseGoesDown
    <3>3. PICK num, den, lookback :
            /\ num = Prep.num /\ den = Prep.den /\ lookback = Prep.lookback /\ num < den
            /\ num \in Nat \ {0} /\ den \in Nat /\ lookback \in Nat
      BY SettingsAre
    <3>4. PICK time : time = CalculateTimeCFD(v, peak, num, den, lookback) /\ time = d.time
      BY <2>6, <2>9, <3>3
    <3>5. above = Above(v, peak, num, den, lookback)
      BY <1>1, <3>3
    <3>6. Pulse(n, v, peak, num, den, lookback)
      BY <2>3, <2>4, <2>5, <3>2, <3>3 DEF Pulse
    <3>7. CASE above = {}
      <4>1. time = IF peak < lookback THEN <<0, 1>> ELSE InvalidTime
        <5>1. ~HasRise(v, peak, num, den, lookback)
          BY <3>5, <3>7 DEF HasRise
        <5> QED BY ONLY <3>4, <3>5, <3>6, <5>1, TimeIs
      <4>2. <<0, 1>> # InvalidTime
        BY DEF InvalidTime, INVALID
      <4>3. peak \in 0 .. n - 1
        BY <2>4, <2>5 DEF IsPeak
      <4>4. d.time = InvalidTime <=> peak >= Prep.lookback
        BY <3>3, <3>4, <4>1, <4>2, <4>3
      <4> QED BY <2>7, <2>9, <3>7, <4>4
    <3>8. CASE above # {}
      <4>1. PICK t : t = Max(above)
        OBVIOUS
      <4>2. time = TimeAt(t, den * v[t] - num * v[peak], den * (v[t] - v[t + 1]))
        <5>1. time = RiseTime(Max(above), v, peak, num, den)
          <6>1. HasRise(v, peak, num, den, lookback)
            BY <3>5, <3>8 DEF HasRise
          <6> QED BY ONLY <3>4, <3>5, <3>6, <6>1, TimeIs
        <5> QED BY <4>1, <5>1 DEF RiseTime
      <4>3. RisesAt(t, v, peak, num, den)
        BY ONLY <3>5, <3>8, <3>6, <4>1, ScanIs
      <4>4. peak \in 0 .. n - 1
        BY <2>4, <2>5 DEF IsPeak
      <4>5. PICK x, r : x = den * (v[t] - v[t + 1]) /\ r = den * v[t] - num * v[peak]
        OBVIOUS
      <4>6. t \in Nat /\ x \in Nat /\ x >= 2 /\ r \in Nat /\ r <= x
        BY ONLY <2>3, <2>4, <3>2, <3>3, <4>3, <4>4, <4>5, RiseIs
      <4>7. t * time[2] <= time[1] /\ time[1] <= (t + 1) * time[2] /\ time # InvalidTime
        BY ONLY <4>2, <4>5, <4>6, TimeIsBetween
      <4> QED BY <2>7, <2>9, <3>4, <3>8, <4>1, <4>7
    <3> QED BY <3>7, <3>8
  <2> QED BY <2>7, <2>8, <2>9
<1>2. WaveInv => HitTimeIsTheRise
  <2>1. SUFFICES ASSUME WaveInv, NEW k \in DOMAIN evs, NEW p \in DOMAIN evs[k].digits
                 PROVE  LET v == Voltage(evs[k].waveforms[p])
                            d == evs[k].digits[p]
                            peak == Min({i \in DOMAIN v : \A j \in DOMAIN v : v[i] <= v[j]})
                            above == Above(v, peak, Prep.num, Prep.den, Prep.lookback)
                        IN Right(v, d, peak, above)
    BY DEF HitTimeIsTheRise, Above, Crosses
  <2> HIDE DEF Right
  <2> QED BY <1>1, <2>1
<1> QED BY <1>2, WaveInvariant, PTL

\* The first sample after the scan's last one above the fraction is not above it, and
\* the time is at most one sample before it.
LEMMA TimeHasASample ==
  ASSUME NEW n \in Nat \ {0}, NEW v \in [0 .. n - 1 -> Int], NEW peak, NEW num, NEW den,
         NEW lookback, Pulse(n, v, peak, num, den, lookback),
         NEW time, time = CalculateTimeCFD(v, peak, num, den, lookback), time # InvalidTime
  PROVE  /\ time[1] \in Int /\ time[2] \in Int /\ time[2] >= 1
         /\ \E s \in 0 .. n - 1 : /\ den * v[s] <= num * v[peak]
                                  /\ (s - 1) * time[2] <= time[1] /\ time[1] <= s * time[2]
<1>1. /\ peak \in 0 .. n - 1 /\ v[peak] < 0 /\ v[peak] \in Int
      /\ \A j \in 0 .. n - 1 : v[peak] <= v[j]
      /\ num \in Nat \ {0} /\ den \in Nat /\ num < den /\ lookback \in Nat
  BY DEF Pulse, IsPeak
<1>2. PICK above : above = Above(v, peak, num, den, lookback)
  OBVIOUS
<1>3. CASE above = {}
  <2>1. ~HasRise(v, peak, num, den, lookback)
    BY ONLY <1>2, <1>3 DEF HasRise
  <2>2. peak < lookback /\ time = <<0, 1>>
    <3>1. time = IF peak < lookback THEN <<0, 1>> ELSE InvalidTime
      BY ONLY <1>2, <2>1, TimeIs, time = CalculateTimeCFD(v, peak, num, den, lookback),
              Pulse(n, v, peak, num, den, lookback)
    <3> QED BY ONLY <3>1, time # InvalidTime
  <2>3. 0 \in DOMAIN v /\ peak - lookback <= 0 /\ 0 <= peak
    BY <1>1, <2>2
  <2>4. 0 \notin Above(v, peak, num, den, lookback)
    BY ONLY <1>2, <1>3
  <2>5. ~(den * v[0] > num * v[peak])
    BY ONLY <2>3, <2>4 DEF Above
  <2>6. den * v[0] <= num * v[peak]
    <3>1. PICK a \in Int, b \in Int : a = den * v[0] /\ b = num * v[peak]
      BY <1>1
    <3> QED BY ONLY <2>5, <3>1, a \in Int, b \in Int
  <2>7. /\ time[1] = 0 /\ time[2] = 1
        /\ (0 - 1) * time[2] <= time[1] /\ time[1] <= 0 * time[2]
    BY <2>2
  <2>8. 0 \in 0 .. n - 1
    OBVIOUS
  <2> QED BY ONLY <2>6, <2>7, <2>8
<1>4. CASE above # {}
  <2>1. PICK t : t = Max(above)
    OBVIOUS
  <2>2. RisesAt(t, v, peak, num, den)
    BY ONLY <1>2, <1>4, <2>1, Pulse(n, v, peak, num, den, lookback), ScanIs
  <2>3. time = RiseTime(t, v, peak, num, den)
    <3>1. HasRise(v, peak, num, den, lookback)
      BY ONLY <1>2, <1>4 DEF HasRise
    <3> QED BY ONLY <1>2, <2>1, <3>1, time = CalculateTimeCFD(v, peak, num, den, lookback),
                    Pulse(n, v, peak, num, den, lookback), TimeIs
  <2>4. PICK x, r : x = den * (v[t] - v[t + 1]) /\ r = den * v[t] - num * v[peak]
    OBVIOUS
  <2>5. t \in Nat /\ x \in Nat /\ x >= 2 /\ r \in Nat /\ r <= x
    BY <1>1, <2>2, <2>4, RiseIs
  <2>6. time = TimeAt(t, r, x)
    BY ONLY <2>3, <2>4 DEF RiseTime
  <2>7. t * time[2] <= time[1] /\ time[1] <= (t + 1) * time[2]
    BY ONLY <2>5, <2>6, TimeIsBetween
  <2>8. t + 1 \in 0 .. n - 1 /\ den * v[t + 1] <= num * v[peak]
    BY <2>2 DEF RisesAt
  <2>9. (t + 1) - 1 = t
    BY ONLY <2>5
  <2>10. time[1] \in Int /\ time[2] \in Int /\ time[2] >= 1
    BY ONLY <2>5, <2>6 DEF TimeAt
  <2> QED BY ONLY <2>7, <2>8, <2>9, <2>10
<1> QED BY <1>3, <1>4

\* Two samples' bounds, shifted by an offset and widened to what a pulse reaches.
LEMMA NearAPhoton ==
  ASSUME NEW s \in Int, NEW x \in Int, NEW y \in Int, (s - 1) * x <= y, y <= s * x, x >= 1,
         NEW u \in Int, NEW offset \in Int, NEW early \in Nat, NEW late \in Nat,
         -early <= s - offset - u, s - offset - u <= late
  PROVE  (u - early - 1) * x <= y - offset * x /\ y - offset * x <= (u + late) * x
<1>1. PICK a \in Int : a = s - offset - u
  OBVIOUS
<1>2. s = a + u + offset /\ -early <= a /\ a <= late
  BY <1>1
<1>3. PICK ax \in Int, ux \in Int, ox \in Int, ex \in Int, lx \in Int :
        ax = a * x /\ ux = u * x /\ ox = offset * x /\ ex = early * x /\ lx = late * x
  OBVIOUS
<1>4. -ex <= ax /\ ax <= lx
  <2>1. PICK b \in Nat, c \in Nat : a = b - early /\ late = a + c
    <3>1. a + early \in Nat /\ late - a \in Nat
      BY <1>2
    <3> QED BY <3>1
  <2>2. PICK bx \in Int, cx \in Int : bx = b * x /\ cx = c * x
    OBVIOUS
  <2>3. 0 <= bx /\ 0 <= cx
    BY <2>2
  <2>4. ax = bx - ex /\ lx = ax + cx
    BY <1>3, <2>1, <2>2
  <2> QED BY <2>3, <2>4
<1>5. (s - 1) * x = ax + ux + ox - x /\ s * x = ax + ux + ox
  BY <1>2, <1>3
<1>6. (u - early - 1) * x = ux - ex - x /\ (u + late) * x = ux + lx
  BY <1>3
<1> QED BY <1>3, <1>4, <1>5, <1>6

(* A hit time is that of a photon of the PMT, by its front-end time from   *)
(* the EV's trigger, up to what a pulse reaches and one sample of          *)
(* interpolation, whatever the cable delays, if WaveformPrep takes the     *)
(* delay off, and late by the delay if not, as long as noise alone does    *)
(* not get down to the constant fraction (PMTWaveformGenerator adds the    *)
(* delay, DigitPMT::GetDigitizedTime subtracts it).                        *)
THEOREM HitTimesArePhotons == Spec => []HitTimeIsAPhotons
<1> DEFINE Near(i, k, ev, p, time, offset) ==
      LET u == mc[i].photons[k].fet - ev.trigger
               + (IF fApplyCableOffset THEN 0 ELSE Cable[p])
      IN /\ (u - Early - 1) * time[2] <= time[1] - offset * time[2]
         /\ time[1] - offset * time[2] <= (u + Late) * time[2]
<1>1. ASSUME WaveInv, NEW ev, ev \in {evs[k] : k \in DOMAIN evs}, Digitized(ev),
             NEW p, p \in DOMAIN ev.digits, NEW d, d = ev.digits[p], d.time # InvalidTime,
             NEW w, w = ev.waveforms[p],
             \A s \in Samples : \A adc \in Quiet(s) :
               Prep.den * (Width * adc - SumOf(w, Window)) > Prep.num * d.peak
      PROVE  /\ d.offset = TimeOffset(p)
             /\ \E i \in MCPMTsOf(p) : \E k \in DOMAIN mc[i].photons :
                  Near(i, k, ev, p, d.time, d.offset)
  <2>1. mc \in Seq(MCPMT) /\ Shaped(ev) /\ Sampled(ev) /\ Measured(ev)
    BY <1>1 DEF WaveInv, GoodEV
  <2>2. w \in [Samples -> Int] /\ p \in PMTs /\ p \in ev.pmts /\ ev.trigger \in Int
    BY <1>1, <2>1 DEF Shaped, Measured, Sampled
  <2>3. PICK res : d = DoAnalysis(p, w, res)
    BY <1>1, <2>1 DEF Measured
  <2>4. PICK n : n \in Nat \ {0} /\ n = NSamples /\ n <= INVALID /\ Samples = 0 .. n - 1
    BY Digitizers
  <2>5. PICK v : /\ v = Voltage(w) /\ v \in [0 .. n - 1 -> Int] /\ Threshold \in Int
                 /\ \A s \in 0 .. n - 1 : v[s] = Width * w[s] - SumOf(w, Window)
    BY <2>2, <2>4, VoltageTyped
  <2>6. PICK peak : peak = FindHighestPeak(v) /\ IsPeak(peak, v)
    <3>1. n \in Nat \ {0}
      BY <2>4
    <3> QED BY <2>5, <3>1, PeakIs
  <2>7. /\ d.crossings = GetNCrossings(v, Threshold) /\ d.peak = v[peak]
        /\ d.offset = TimeOffset(p)
        /\ d.time = IF d.crossings = 0 THEN InvalidTime
                    ELSE CalculateTimeCFD(v, peak, Prep.num, Prep.den, Prep.lookback)
    BY <2>3, <2>5, <2>6 DEF DoAnalysis
  <2>8. PICK s \in 0 .. n - 1 : v[s] < Threshold
    <3>1. d.crossings \in Nat /\ (d.crossings > 0 <=> \E s \in 0 .. n - 1 : v[s] < Threshold)
      <4>1. n \in Nat
        BY <2>4
      <4> QED BY <2>5, <2>7, <4>1, CrossingsAre
    <3> QED BY <1>1, <2>7, <3>1
  <2>9. v[peak] < 0
    BY <2>2, <2>4, <2>5, <2>6, <2>8, PulseGoesDown
  <2>10. PICK num, den, lookback :
           /\ num = Prep.num /\ den = Prep.den /\ lookback = Prep.lookback /\ num < den
           /\ num \in Nat \ {0} /\ den \in Nat /\ lookback \in Nat
    BY SettingsAre
  <2>11. PICK time : time = CalculateTimeCFD(v, peak, num, den, lookback) /\ time = d.time
    BY <1>1, <2>7, <2>10
  <2>12. Pulse(n, v, peak, num, den, lookback)
    BY <2>4, <2>5, <2>6, <2>9, <2>10 DEF Pulse
  <2>18. time[1] \in Int /\ time[2] \in Int /\ time[2] >= 1
    <3>1. n \in Nat \ {0} /\ v \in [0 .. n - 1 -> Int] /\ time # InvalidTime
      BY <1>1, <2>4, <2>5, <2>11
    <3> QED BY ONLY <2>11, <2>12, <3>1, TimeHasASample
  <2>13. PICK l \in 0 .. n - 1 : /\ den * v[l] <= num * v[peak]
                                /\ (l - 1) * time[2] <= time[1] /\ time[1] <= l * time[2]
    <3>1. n \in Nat \ {0} /\ v \in [0 .. n - 1 -> Int] /\ time # InvalidTime
      BY <1>1, <2>4, <2>5, <2>11
    <3> QED BY ONLY <2>11, <2>12, <3>1, TimeHasASample
  <2>14. w[l] \notin Quiet(l)
    <3>1. v[l] = Width * w[l] - SumOf(w, Window)
      BY <2>5
    <3>2. ~(den * v[l] > num * v[peak])
      <4>1. PICK a \in Int, b \in Int : a = den * v[l] /\ b = num * v[peak]
        BY <2>5, <2>6, <2>10 DEF IsPeak
      <4> QED BY ONLY <2>13, <4>1, a \in Int, b \in Int
    <3>3. l \in Samples
      BY <2>4
    <3> QED BY ONLY <1>1, <2>7, <2>10, <3>1, <3>2, <3>3
  <2>15. Reached(ev, p, l)
    <3>1. l \in Samples /\ ev.waveforms[p][l] \notin Quiet(l)
      BY <1>1, <2>4, <2>14
    <3> QED BY ONLY <1>1, <2>1, <2>2, <3>1, ReachedOrQuiet
  <2>16. PICK i, k : /\ i \in MCPMTsOf(p) /\ k \in DOMAIN mc[i].photons
                     /\ l - Arrival(mc[i], k, ev.trigger) \in Reach
    BY <2>15 DEF Reached
  <2>17. Near(i, k, ev, p, time, d.offset)
    <3>1. mc[i] \in MCPMT /\ mc[i].id = p
      BY <2>1, <2>16 DEF MCPMTsOf
    <3>2. PICK m \in MCPMT : m = mc[i]
      BY <3>1
    <3>3. PICK fet \in Int, cable \in Int, trigger \in Int :
            fet = m.photons[k].fet /\ cable = Cable[p] /\ trigger = ev.trigger
      BY <2>2, <2>16, <3>1, <3>2, PhotonsAre
    <3>4. l - (fet - trigger + cable) \in -Early .. Late
      BY <2>16, <3>1, <3>2, <3>3, Digitizers DEF Arrival
    <3>5. PICK offset \in Int : offset = d.offset
                               /\ offset = IF fApplyCableOffset THEN cable ELSE 0
      BY <2>2, <2>7, <3>3, SettingsAre DEF TimeOffset
    <3>6. PICK u \in Int : /\ u = fet - trigger + (IF fApplyCableOffset THEN 0 ELSE cable)
                          /\ u + offset = fet - trigger + cable
      BY <3>5
    <3>7. PICK early \in Nat, late \in Nat : early = Early /\ late = Late
      BY Digitizers
    <3>8. -early <= l - offset - u /\ l - offset - u <= late
      BY <3>4, <3>6, <3>7
    <3>9. PICK x \in Int, y \in Int : x = time[2] /\ y = time[1] /\ x >= 1
      BY <2>18
    <3>10. (u - early - 1) * x <= y - offset * x /\ y - offset * x <= (u + late) * x
      <4>1. l \in Int /\ (l - 1) * x <= y /\ y <= l * x
        BY <2>13, <3>9
      <4> QED BY <3>8, <3>9, <4>1, NearAPhoton
    <3> QED BY <3>2, <3>3, <3>5, <3>6, <3>7, <3>9, <3>10
  <2> QED BY <2>7, <2>11, <2>16, <2>17
<1> HIDE DEF Near
<1>2. WaveInv => HitTimeIsAPhotons
  <2>1. SUFFICES
          ASSUME WaveInv, NEW k \in DOMAIN evs, Digitized(evs[k]),
                 NEW p \in DOMAIN evs[k].digits, evs[k].digits[p].time # InvalidTime,
                 \A s \in Samples : \A adc \in Quiet(s) :
                   Prep.den * (Width * adc - SumOf(evs[k].waveforms[p], Window))
                     > Prep.num * evs[k].digits[p].peak
          PROVE  LET d == evs[k].digits[p]
                     t == GetDigitizedTime(d)
                     delay == IF fApplyCableOffset THEN 0 ELSE Cable[p]
                     Close(u) == (u - Early - 1) * t[2] <= t[1] /\ t[1] <= (u + Late) * t[2]
                 IN \E i \in MCPMTsOf(p) : \E n \in DOMAIN mc[i].photons :
                      Close(mc[i].photons[n].fet - evs[k].trigger + delay)
    BY DEF HitTimeIsAPhotons, Width, Window
  <2>2. PICK ev : ev = evs[k] /\ ev \in {evs[l] : l \in DOMAIN evs}
    OBVIOUS
  <2>3. PICK d, w : d = ev.digits[p] /\ w = ev.waveforms[p]
    OBVIOUS
  <2>4. \E i \in MCPMTsOf(p) : \E n \in DOMAIN mc[i].photons : Near(i, n, ev, p, d.time, d.offset)
    BY <1>1, <2>1, <2>2, <2>3
  <2>5. PICK time, offset : time = d.time /\ offset = d.offset
    OBVIOUS
  <2>6. PICK t : t = GetDigitizedTime(d)
    OBVIOUS
  <2>7. t = <<time[1] - offset * time[2], time[2]>>
    BY <2>1, <2>2, <2>3, <2>5, <2>6 DEF GetDigitizedTime
  <2>8. t[1] = time[1] - offset * time[2] /\ t[2] = time[2]
    BY ONLY <2>7
  <2> QED BY ONLY <2>2, <2>3, <2>4, <2>5, <2>6, <2>8 DEF Near
<1> QED BY <1>2, WaveInvariant, PTL

=============================================================================
