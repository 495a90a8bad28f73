--------------------------- MODULE DaqChain_proofs ---------------------------
(***************************************************************************)
(* What the noise, after-pulse and trigger processors do to any event, for *)
(* every table and list of processors.                                     *)
(***************************************************************************)
EXTENDS DaqChain, Induction

-----------------------------------------------------------------------------
(* Lists: sorting, keeping some entries, joining.                          *)

\* pos lists D, each element once, in the order of key.
Lists(pos, D, key) ==
  /\ pos \in Bijection(1..Cardinality(D), D)
  /\ \A a, b \in 1..Cardinality(D) : a < b =>
       key[pos[a]] < key[pos[b]] \/ (key[pos[a]] = key[pos[b]] /\ pos[a] < pos[b])

\* InOrder lists the indices of a finite table of numbers.
LEMMA InOrderLists ==
  ASSUME NEW D \in SUBSET Int, IsFiniteSet(D), NEW key \in [D -> Int]
  PROVE  Cardinality(D) \in Nat /\ Lists(InOrder(key), D, key)
<1> DEFINE N == Cardinality(D)
           Up(i) == {j \in D : key[j] < key[i] \/ (key[j] = key[i] /\ j <= i)}
           r == [i \in D |-> Cardinality(Up(i))]
           q == [n \in 1..N |-> CHOOSE i \in D : n = Cardinality(Up(i))]
<1>1. N \in Nat
  BY FS_CardinalityType
<1>2. \A i \in D : key[i] \in Int /\ i \in Int
  OBVIOUS
<1>3. \A i \in D : i \in Up(i) /\ Up(i) \in SUBSET D
  BY <1>2
<1>4. ASSUME NEW i \in D, NEW j \in D, key[i] < key[j] \/ (key[i] = key[j] /\ i < j)
      PROVE  Up(i) \in SUBSET Up(j) /\ j \notin Up(i)
  <2>1. key[i] \in Int /\ key[j] \in Int /\ i \in Int /\ j \in Int
    BY <1>2
  <2>2. ASSUME NEW k \in Up(i) PROVE k \in Up(j)
    <3>1. k \in D /\ key[k] \in Int /\ k \in Int /\ (key[k] < key[i] \/ (key[k] = key[i] /\ k <= i))
      BY <1>2
    <3>2. key[k] < key[j] \/ (key[k] = key[j] /\ k <= j)
      BY <1>4, <2>1, <3>1
    <3> QED BY <3>1, <3>2
  <2>3. j \notin Up(i)
    BY <1>4, <2>1
  <2> QED BY <2>2, <2>3
<1> HIDE DEF Up
<1>5. \A i \in D : IsFiniteSet(Up(i)) /\ r[i] = Cardinality(Up(i)) /\ r[i] \in 1..N
  <2>1. ASSUME NEW i \in D PROVE IsFiniteSet(Up(i)) /\ Cardinality(Up(i)) \in 1..N
    <3>1. IsFiniteSet(Up(i)) /\ Cardinality(Up(i)) <= N /\ Cardinality(Up(i)) \in Nat
      BY <1>3, FS_Subset, FS_CardinalityType
    <3>2. Cardinality(Up(i)) # 0
      BY <1>3, <3>1, FS_EmptySet
    <3> QED BY <1>1, <3>1, <3>2
  <2> QED BY <2>1
<1>6. ASSUME NEW i \in D, NEW j \in D, key[i] < key[j] \/ (key[i] = key[j] /\ i < j)
      PROVE  r[i] < r[j]
  <2>1. Up(i) \in SUBSET Up(j) /\ Up(i) # Up(j)
    BY <1>3, <1>4, <1>6
  <2>2. Cardinality(Up(i)) <= Cardinality(Up(j)) /\ Cardinality(Up(i)) # Cardinality(Up(j))
    BY <1>5, <2>1, FS_Subset
  <2> QED BY <1>1, <1>5, <2>2
<1>7. r \in [D -> 1..N]
  BY <1>5
<1> HIDE DEF r
<1>8. ASSUME NEW i \in D, NEW j \in D, r[i] = r[j] PROVE i = j
  <2>1. r[i] \in Int /\ ~(r[i] < r[j]) /\ ~(r[j] < r[i])
    BY <1>1, <1>7, <1>8
  <2> QED BY <1>2, <1>6, <2>1
<1>9. r \in Bijection(D, 1..N)
  <2>1. r \in Injection(D, 1..N)
    BY <1>7, <1>8 DEF Injection, IsInjective
  <2>2. IsFiniteSet(1..N) /\ Cardinality(1..N) = N
    BY <1>1, FS_Interval
  <2> QED BY <2>1, <2>2, FS_Injection DEF Bijection
<1>10. \A n \in 1..N : q[n] \in D /\ r[q[n]] = n
  <2>1. \A i \in D : r[i] = Cardinality(Up(i))
    BY DEF r
  <2>2. \A n \in 1..N : \E i \in D : r[i] = n
    BY <1>9 DEF Bijection, Surjection
  <2>3. \A n \in 1..N : \E i \in D : n = Cardinality(Up(i))
    BY ONLY <2>1, <2>2
  <2> QED BY <2>1, <2>3
<1>11. q \in [1..N -> D]
  BY <1>10
<1>12. InOrder(key) = q
  <2>1. DOMAIN key = D
    OBVIOUS
  <2> QED BY <2>1 DEF InOrder, Up
<1> HIDE DEF q
<1>13. \A i \in D : r[i] \in 1..N /\ q[r[i]] = i
  BY <1>7, <1>8, <1>10, <1>11
<1>14. q \in Bijection(1..N, D)
  <2>1. \A i, j \in 1..N : q[i] = q[j] => i = j
    BY <1>10
  <2> QED BY <1>11, <1>13, <2>1 DEF Bijection, Injection, Surjection, IsInjective
<1>15. ASSUME NEW a \in 1..N, NEW b \in 1..N, a < b
       PROVE  key[q[a]] < key[q[b]] \/ (key[q[a]] = key[q[b]] /\ q[a] < q[b])
  <2>1. SUFFICES ASSUME ~(key[q[a]] < key[q[b]] \/ (key[q[a]] = key[q[b]] /\ q[a] < q[b]))
                 PROVE  FALSE
    OBVIOUS
  <2>2. q[a] \in D /\ q[b] \in D /\ r[q[a]] = a /\ r[q[b]] = b
    BY <1>10
  <2>3. q[a] # q[b]
    BY <1>1, <1>15, <2>2
  <2>4. key[q[b]] < key[q[a]] \/ (key[q[b]] = key[q[a]] /\ q[b] < q[a])
    <3>1. q[a] \in Int /\ q[b] \in Int /\ key[q[a]] \in Int /\ key[q[b]] \in Int
      BY <1>2, <2>2
    <3> QED BY <2>1, <2>3, <3>1
  <2>5. b < a
    BY <1>6, <2>2, <2>4
  <2> QED BY <1>1, <1>15, <2>5
<1> QED BY <1>1, <1>12, <1>14, <1>15 DEF Lists

\* What Kept leaves: the entries at K in their order.
LEMMA KeptLists ==
  ASSUME NEW s, NEW K \in SUBSET Int, IsFiniteSet(K)
  PROVE  /\ Cardinality(K) \in Nat
         /\ \E pos \in Bijection(1..Cardinality(K), K) :
              /\ \A a, b \in 1..Cardinality(K) : a < b => pos[a] < pos[b]
              /\ Kept(s, K) = [n \in 1..Cardinality(K) |-> s[pos[n]]]
<1> DEFINE key == [k \in K |-> k]
           pos == InOrder(key)
<1>1. key \in [K -> Int] /\ \A k \in K : key[k] = k /\ k \in Int
  OBVIOUS
<1>2. Cardinality(K) \in Nat /\ Lists(pos, K, key)
  <2> HIDE DEF key
  <2> QED BY <1>1, InOrderLists
<1>3. pos \in Bijection(1..Cardinality(K), K)
  BY <1>2 DEF Lists
<1>4. pos \in [1..Cardinality(K) -> K]
  BY <1>3 DEF Bijection, Injection
<1>5. \A a, b \in 1..Cardinality(K) : a < b => pos[a] < pos[b]
  <2>1. \A a, b \in 1..Cardinality(K) : a < b =>
          key[pos[a]] < key[pos[b]] \/ (key[pos[a]] = key[pos[b]] /\ pos[a] < pos[b])
    BY <1>2 DEF Lists
  <2> HIDE DEF key, pos
  <2> QED BY <1>1, <1>4, <2>1
<1>6. Kept(s, K) = [n \in 1..Cardinality(K) |-> s[pos[n]]]
  <2>1. Kept(s, K) = [n \in DOMAIN pos |-> s[pos[n]]]
    BY DEF Kept
  <2>2. DOMAIN pos = 1..Cardinality(K)
    BY <1>4
  <2> QED BY <2>1, <2>2
<1> HIDE DEF pos
<1> QED BY <1>2, <1>3, <1>5, <1>6

\* The entries of Kept are those at K.
LEMMA KeptEntries ==
  ASSUME NEW S, NEW s \in Seq(S), NEW K \in SUBSET DOMAIN s
  PROVE  /\ Kept(s, K) \in Seq(S)
         /\ ToSet(Kept(s, K)) = {s[k] : k \in K}
         /\ Len(Kept(s, K)) = Cardinality(K)
         /\ IsFiniteSet(K)
<1>1. Len(s) \in Nat /\ DOMAIN s = 1..Len(s)
  OBVIOUS
<1>2. IsFiniteSet(K) /\ K \in SUBSET Int
  <2>1. IsFiniteSet(1..Len(s))
    BY <1>1, FS_Interval
  <2>2. K \in SUBSET (1..Len(s))
    BY <1>1
  <2> QED BY <2>1, <2>2, FS_Subset
<1>3. Cardinality(K) \in Nat
  BY <1>2, FS_CardinalityType
<1>4. PICK pos \in Bijection(1..Cardinality(K), K) :
         Kept(s, K) = [n \in 1..Cardinality(K) |-> s[pos[n]]]
  BY <1>2, KeptLists
<1>5. pos \in [1..Cardinality(K) -> K] /\ \A k \in K : \E n \in 1..Cardinality(K) : pos[n] = k
  BY <1>4 DEF Bijection, Injection, Surjection
<1>6. \A k \in K : s[k] \in S
  BY <1>1
<1>7. PICK n \in Nat : n = Cardinality(K)
  BY <1>3
<1>8. PICK t : t = Kept(s, K)
  OBVIOUS
<1>9. t = [j \in 1..n |-> s[pos[j]]]
  BY <1>4, <1>7, <1>8
<1>10. t \in Seq(S) /\ Len(t) = n /\ DOMAIN t = 1..n
  <2>1. \A j \in 1..n : s[pos[j]] \in S
    BY <1>5, <1>6, <1>7
  <2> QED BY <1>7, <1>9, <2>1
<1>11. ToSet(t) = {s[k] : k \in K}
  BY <1>5, <1>7, <1>9, <1>10 DEF ToSet
<1> QED BY <1>2, <1>7, <1>8, <1>10, <1>11

\* A list in the order of front-end times.
Ascending(s) == \A a, b \in DOMAIN s : a < b => s[a].fet <= s[b].fet

\* SortMCPhotons rearranges a list by front-end time.
LEMMA SortLists ==
  ASSUME NEW s \in Seq(MCPhoton)
  PROVE  /\ SortMCPhotons(s) \in Seq(MCPhoton) /\ DOMAIN SortMCPhotons(s) = DOMAIN s
         /\ Len(SortMCPhotons(s)) = Len(s)
         /\ Ascending(SortMCPhotons(s))
         /\ \E pos \in Bijection(DOMAIN s, DOMAIN s) :
              SortMCPhotons(s) = [k \in DOMAIN s |-> s[pos[k]]]
<1> DEFINE D == DOMAIN s
           key == [k \in D |-> s[k].fet]
<1>1. PICK n \in Nat : D = 1..n /\ Len(s) = n
  OBVIOUS
<1>2. \A k \in D : s[k] \in MCPhoton /\ s[k].fet \in Int
  <2>1. \A k \in D : s[k] \in MCPhoton
    OBVIOUS
  <2>2. \A ph \in MCPhoton : ph.fet \in Int
    BY DEF MCPhoton
  <2> QED BY <2>1, <2>2
<1>3. D \in SUBSET Int /\ IsFiniteSet(D) /\ Cardinality(D) = n
  BY <1>1, FS_Interval
<1>4. key \in [D -> Int]
  BY <1>2
<1>5. PICK t : t = SortMCPhotons(s)
  OBVIOUS
<1>6. t = [k \in D |-> s[InOrder(key)[k]]]
  BY <1>5 DEF SortMCPhotons
<1> HIDE DEF D
<1>7. Lists(InOrder(key), D, key)
  <2> HIDE DEF key
  <2> QED BY <1>3, <1>4, InOrderLists
<1>8. PICK pos : pos = InOrder(key)
  OBVIOUS
<1>9. pos \in Bijection(D, D)
  BY <1>1, <1>3, <1>7, <1>8 DEF Lists
<1>10. pos \in [D -> D]
  BY <1>9 DEF Bijection, Injection
<1>11. t = [k \in D |-> s[pos[k]]]
  BY <1>6, <1>8
<1>12. t \in Seq(MCPhoton) /\ DOMAIN t = D /\ Len(t) = Len(s)
  <2>1. \A k \in 1..n : s[pos[k]] \in MCPhoton
    BY <1>1, <1>2, <1>10
  <2> QED BY <1>1, <1>11, <2>1
<1>13. ASSUME NEW a \in D, NEW b \in D, a < b PROVE t[a].fet <= t[b].fet
  <2>1. pos[a] \in D /\ pos[b] \in D
    BY <1>10
  <2>2. key[pos[a]] < key[pos[b]] \/ key[pos[a]] = key[pos[b]]
    <3>1. a \in 1..Cardinality(D) /\ b \in 1..Cardinality(D)
      BY <1>1, <1>3
    <3> QED BY ONLY <1>7, <1>8, <1>13, <3>1 DEF Lists
  <2>3. key[pos[a]] = t[a].fet /\ key[pos[b]] = t[b].fet
    BY <1>11, <2>1
  <2>4. key[pos[a]] \in Int /\ key[pos[b]] \in Int
    BY <1>4, <2>1
  <2> QED BY <2>2, <2>3, <2>4
<1>14. Ascending(t)
  BY <1>12, <1>13 DEF Ascending
<1> QED BY <1>5, <1>9, <1>11, <1>12, <1>14 DEF D

\* Sorting changes nothing about what is in a list.
LEMMA SortEntries ==
  ASSUME NEW s \in Seq(MCPhoton)
  PROVE  ToSet(SortMCPhotons(s)) = ToSet(s)
<1>1. PICK pos \in Bijection(DOMAIN s, DOMAIN s) : SortMCPhotons(s) = [k \in DOMAIN s |-> s[pos[k]]]
  BY SortLists
<1>2. pos \in [DOMAIN s -> DOMAIN s] /\ \A k \in DOMAIN s : \E j \in DOMAIN s : pos[j] = k
  BY <1>1 DEF Bijection, Injection, Surjection
<1>3. PICK t : t = SortMCPhotons(s)
  OBVIOUS
<1>4. DOMAIN t = DOMAIN s /\ \A k \in DOMAIN s : t[k] = s[pos[k]]
  BY <1>1, <1>3
<1>5. ToSet(t) = ToSet(s)
  <2>1. \A k \in DOMAIN s : s[k] \in ToSet(t)
    BY <1>2, <1>4 DEF ToSet
  <2>2. \A k \in DOMAIN s : t[k] \in ToSet(s)
    BY <1>2, <1>4 DEF ToSet
  <2> QED BY <1>4, <2>1, <2>2 DEF ToSet
<1> QED BY <1>3, <1>5

\* Pruning leaves the photons of other kinds, in their order.
LEMMA PruneLeaves ==
  ASSUME NEW s \in Seq(MCPhoton), NEW kind
  PROVE  /\ Prune(s, kind) \in Seq(MCPhoton)
         /\ ToSet(Prune(s, kind)) = {ph \in ToSet(s) : ph.kind # kind}
         /\ Ascending(s) => Ascending(Prune(s, kind))
<1> DEFINE K == {k \in DOMAIN s : s[k].kind # kind}
<1>1. K \in SUBSET DOMAIN s /\ Prune(s, kind) = Kept(s, K) /\ K \in SUBSET Int
  BY DEF Prune
<1>2. {s[k] : k \in K} = {ph \in ToSet(s) : ph.kind # kind}
  BY DEF ToSet
<1> HIDE DEF K
<1>3. /\ Kept(s, K) \in Seq(MCPhoton) /\ ToSet(Kept(s, K)) = {s[k] : k \in K}
      /\ IsFiniteSet(K)
  BY <1>1, KeptEntries
<1>4. ASSUME Ascending(s) PROVE Ascending(Kept(s, K))
  <2>1. PICK pos \in Bijection(1..Cardinality(K), K) :
           /\ \A a, b \in 1..Cardinality(K) : a < b => pos[a] < pos[b]
           /\ Kept(s, K) = [n \in 1..Cardinality(K) |-> s[pos[n]]]
    BY <1>1, <1>3, KeptLists
  <2>2. pos \in [1..Cardinality(K) -> K]
    BY <2>1 DEF Bijection, Injection
  <2>3. PICK t : t = Kept(s, K)
    OBVIOUS
  <2>4. t = [n \in 1..Cardinality(K) |-> s[pos[n]]]
    BY <2>1, <2>3
  <2>5. ASSUME NEW a \in DOMAIN t, NEW b \in DOMAIN t, a < b PROVE t[a].fet <= t[b].fet
    <3>1. a \in 1..Cardinality(K) /\ b \in 1..Cardinality(K) /\ t[a] = s[pos[a]] /\ t[b] = s[pos[b]]
      BY <2>4
    <3>2. pos[a] < pos[b]
      BY <2>1, <2>5, <3>1
    <3>3. pos[a] \in DOMAIN s /\ pos[b] \in DOMAIN s
      BY <1>1, <2>2, <3>1
    <3> QED BY <1>4, <3>1, <3>2, <3>3 DEF Ascending
  <2> QED BY <2>3, <2>5 DEF Ascending
<1> QED BY <1>1, <1>2, <1>3, <1>4

-----------------------------------------------------------------------------
(* Counting photons.                                                       *)

\* The kinds of the photons of a list.
KindsOf(s) == [k \in 1..Len(s) |-> s[k].kind]

\* The kinds of a list of photons are a list of kinds.
LEMMA KindsTyped ==
  ASSUME NEW s \in Seq(MCPhoton)
  PROVE  /\ KindsOf(s) \in Seq(Kinds) /\ Len(KindsOf(s)) = Len(s) /\ Len(s) \in Nat
         /\ DOMAIN s = 1..Len(s) /\ \A k \in DOMAIN s : s[k] \in MCPhoton /\ KindsOf(s)[k] = s[k].kind
<1>1. Len(s) \in Nat /\ DOMAIN s = 1..Len(s) /\ \A k \in DOMAIN s : s[k] \in MCPhoton
  OBVIOUS
<1>2. \A ph \in MCPhoton : ph.kind \in Kinds
  BY DEF MCPhoton
<1>3. PICK t : t = KindsOf(s)
  OBVIOUS
<1>4. PICK n \in Nat : n = Len(s)
  BY <1>1
<1>5. t = [k \in 1..n |-> s[k].kind]
  BY <1>3, <1>4 DEF KindsOf
<1>6. \A k \in 1..n : s[k].kind \in Kinds
  BY <1>1, <1>2, <1>4
<1>7. t \in Seq(Kinds) /\ Len(t) = n /\ \A k \in 1..n : t[k] = s[k].kind
  BY <1>5, <1>6
<1> QED BY <1>1, <1>3, <1>4, <1>7

\* Sorting keeps the number of photons of a kind.
LEMMA SortCounts ==
  ASSUME NEW s \in Seq(MCPhoton), NEW kind
  PROVE  Count(KindsOf(SortMCPhotons(s)), kind) = Count(KindsOf(s), kind)
<1>1. PICK pos \in Bijection(DOMAIN s, DOMAIN s) : SortMCPhotons(s) = [k \in DOMAIN s |-> s[pos[k]]]
  BY SortLists
<1>2. PICK t : t = SortMCPhotons(s)
  OBVIOUS
<1>3. t \in Seq(MCPhoton) /\ Len(t) = Len(s)
  BY <1>2, SortLists
<1>4. Len(t) = Len(s) /\ Len(s) \in Nat /\ DOMAIN s = 1..Len(s)
  BY <1>3
<1>5. pos \in Bijection(1..Len(s), 1..Len(s)) /\ pos \in [1..Len(s) -> 1..Len(s)]
  BY <1>1, <1>4 DEF Bijection, Injection
<1>6. PICK u : u = KindsOf(s)
  OBVIOUS
<1>7. u \in Seq(Kinds) /\ Len(u) = Len(s) /\ \A k \in 1..Len(s) : u[k] = s[k].kind
  BY <1>4, <1>6, KindsTyped
<1>8. KindsOf(t) = [k \in 1..Len(s) |-> u[pos[k]]]
  <2>1. \A k \in 1..Len(s) : t[k].kind = u[pos[k]]
    BY <1>1, <1>2, <1>4, <1>5, <1>7
  <2> QED BY <1>4, <2>1 DEF KindsOf
<1>9. Count([k \in 1..Len(u) |-> u[pos[k]]], kind) = Count(u, kind)
  BY <1>5, <1>7, CountOfRearranged
<1> QED BY <1>2, <1>6, <1>7, <1>8, <1>9

\* One more photon counts for its own kind.
LEMMA AppendCounts ==
  ASSUME NEW s \in Seq(MCPhoton), NEW ph \in MCPhoton, NEW kind
  PROVE  /\ Append(s, ph) \in Seq(MCPhoton)
         /\ Count(KindsOf(Append(s, ph)), kind)
              = IF ph.kind = kind THEN Count(KindsOf(s), kind) + 1 ELSE Count(KindsOf(s), kind)
<1>1. PICK n \in Nat : n = Len(s)
  OBVIOUS
<1>2. PICK t : t = Append(s, ph)
  OBVIOUS
<1>3. t \in Seq(MCPhoton) /\ Len(t) = n + 1 /\ t[n + 1] = ph /\ \A k \in 1..n : t[k] = s[k]
  BY <1>1, <1>2
<1>4. PICK u : u = KindsOf(s)
  OBVIOUS
<1>5. u \in Seq(Kinds) /\ Len(u) = n /\ \A k \in 1..n : u[k] = s[k].kind
  <2>1. DOMAIN s = 1..n
    BY <1>1
  <2> QED BY <1>1, <1>4, <2>1, KindsTyped
<1>6. ph.kind \in Kinds
  BY DEF MCPhoton
<1>7. KindsOf(t) = Append(u, ph.kind)
  <2>1. KindsOf(t) = [k \in 1..(n + 1) |-> t[k].kind]
    BY <1>3 DEF KindsOf
  <2>2. Append(u, ph.kind) = [k \in 1..(n + 1) |-> IF k = n + 1 THEN ph.kind ELSE u[k]]
    <3>1. PICK v : v = Append(u, ph.kind)
      OBVIOUS
    <3>2. v \in Seq(Kinds) /\ Len(v) = n + 1 /\ v[n + 1] = ph.kind /\ \A k \in 1..n : v[k] = u[k]
      BY <1>5, <1>6, <3>1
    <3>3. \A k \in 1..(n + 1) : k # n + 1 => k \in 1..n
      OBVIOUS
    <3>4. v = [k \in 1..(n + 1) |-> v[k]]
      BY <3>2
    <3>5. \A k \in 1..(n + 1) : v[k] = IF k = n + 1 THEN ph.kind ELSE u[k]
      BY <3>2, <3>3
    <3> QED BY <3>1, <3>4, <3>5
  <2>3. \A k \in 1..(n + 1) : t[k].kind = IF k = n + 1 THEN ph.kind ELSE u[k]
    <3>1. \A k \in 1..(n + 1) : k # n + 1 => k \in 1..n
      OBVIOUS
    <3> QED BY <1>3, <1>5, <3>1
  <2> QED BY <2>1, <2>2, <2>3
<1>8. Count(Append(u, ph.kind), kind) = IF ph.kind = kind THEN Count(u, kind) + 1 ELSE Count(u, kind)
  BY <1>5, <1>6, CountOfAppend
<1> QED BY <1>2, <1>3, <1>4, <1>7, <1>8

\* Joined photons of other kinds count for nothing.
LEMMA JoinCounts ==
  ASSUME NEW s \in Seq(MCPhoton), NEW t \in Seq(MCPhoton), NEW kind,
         \A k \in DOMAIN t : t[k].kind # kind
  PROVE  Count(KindsOf(s \o t), kind) = Count(KindsOf(s), kind)
<1>1. PICK m \in Nat, n \in Nat : m = Len(s) /\ n = Len(t)
  OBVIOUS
<1>2. PICK u : u = s \o t
  OBVIOUS
<1>3. /\ u \in Seq(MCPhoton) /\ Len(u) = m + n /\ DOMAIN t = 1..n
      /\ \A k \in 1..m : u[k] = s[k]
      /\ \A k \in 1..n : u[m + k] = t[k]
  BY <1>1, <1>2
<1>4. /\ Len(KindsOf(u)) = m + n /\ \A k \in 1..(m + n) : KindsOf(u)[k] = u[k].kind
      /\ Len(KindsOf(s)) = m /\ \A k \in 1..m : KindsOf(s)[k] = s[k].kind
  BY <1>1, <1>3, KindsTyped
<1>5. {j \in 1..(m + n) : KindsOf(u)[j] = kind} = {j \in 1..m : KindsOf(s)[j] = kind}
  <2>1. ASSUME NEW j \in 1..(m + n), KindsOf(u)[j] = kind PROVE j \in 1..m
    <3>1. SUFFICES ASSUME j > m PROVE FALSE
      OBVIOUS
    <3>2. j - m \in 1..n /\ m + (j - m) = j
      BY <3>1
    <3>3. u[j] = t[j - m]
      BY <1>3, <3>2
    <3> QED BY <1>3, <1>4, <2>1, <3>2, <3>3
  <2>2. \A j \in 1..m : j \in 1..(m + n) /\ KindsOf(u)[j] = KindsOf(s)[j]
    BY <1>3, <1>4
  <2> QED BY <2>1, <2>2
<1> QED BY <1>2, <1>4, <1>5 DEF Count

\* Pruning leaves no photon of its kind, and all of the others.
LEMMA PruneCounts ==
  ASSUME NEW s \in Seq(MCPhoton), NEW pruned, NEW kind
  PROVE  Count(KindsOf(Prune(s, pruned)), kind) = IF kind = pruned THEN 0 ELSE Count(KindsOf(s), kind)
<1> DEFINE K == {k \in DOMAIN s : s[k].kind # pruned}
           t == Prune(s, pruned)
<1>1. t \in Seq(MCPhoton) /\ ToSet(t) = {ph \in ToSet(s) : ph.kind # pruned}
  BY PruneLeaves
<1>2. PICK m \in Nat : m = Len(s) /\ DOMAIN s = 1..m
  OBVIOUS
<1>3. K \in SUBSET Int /\ IsFiniteSet(K) /\ K \in SUBSET DOMAIN s /\ t = Kept(s, K) /\ Len(t) = Cardinality(K)
  <2>1. K \in SUBSET DOMAIN s /\ t = Kept(s, K) /\ K \in SUBSET Int
    BY <1>2 DEF Prune
  <2> HIDE DEF K, t
  <2> QED BY <2>1, KeptEntries
<1>4. PICK n \in Nat : n = Cardinality(K)
  BY <1>3, FS_CardinalityType
<1>5. PICK pos \in Bijection(1..n, K) : t = [j \in 1..n |-> s[pos[j]]]
  <2> HIDE DEF K, t
  <2> QED BY <1>3, <1>4, KeptLists
<1>6. /\ pos \in [1..n -> K] /\ \A a, b \in 1..n : pos[a] = pos[b] => a = b
      /\ \A k \in K : \E j \in 1..n : pos[j] = k
  BY <1>5 DEF Bijection, Injection, Surjection, IsInjective
<1> DEFINE L == {j \in 1..n : KindsOf(t)[j] = kind}
           M == {k \in 1..m : KindsOf(s)[k] = kind}
<1>7. /\ Len(KindsOf(t)) = n /\ \A j \in 1..n : KindsOf(t)[j] = s[pos[j]].kind
      /\ Len(KindsOf(s)) = m /\ \A k \in 1..m : KindsOf(s)[k] = s[k].kind
  <2>1. Len(t) = n
    BY <1>3, <1>4
  <2>2. \A j \in 1..n : t[j] = s[pos[j]]
    BY <1>5
  <2>3. DOMAIN t = 1..n
    BY <1>1, <2>1
  <2> HIDE DEF t
  <2> QED BY <1>1, <1>2, <2>1, <2>2, <2>3, KindsTyped
<1>8. Count(KindsOf(t), kind) = Cardinality(L) /\ Count(KindsOf(s), kind) = Cardinality(M)
  BY <1>7 DEF Count
<1>9. CASE kind = pruned
  <2>1. L = {}
    BY <1>6, <1>7, <1>9
  <2> QED BY <1>8, <1>9, <2>1, FS_EmptySet
<1>10. CASE kind # pruned
  <2>1. M \in SUBSET K
    BY <1>2, <1>7, <1>10
  <2>2. \A j \in L : pos[j] \in M
    BY <1>2, <1>6, <1>7
  <2>3. ASSUME NEW k \in M PROVE \E j \in L : pos[j] = k
    <3>1. k \in K /\ k \in 1..m /\ KindsOf(s)[k] = kind
      BY <2>1
    <3>2. PICK j \in 1..n : pos[j] = k
      BY ONLY <1>6, <3>1
    <3>3. KindsOf(t)[j] = s[k].kind /\ s[k].kind = kind
      BY ONLY <1>7, <3>1, <3>2
    <3> QED BY ONLY <3>2, <3>3
  <2> DEFINE f == [j \in L |-> pos[j]]
  <2>4. f \in Bijection(L, M)
    <3>1. f \in [L -> M]
      BY <2>2
    <3>2. \A a, b \in L : f[a] = f[b] => a = b
      BY <1>6
    <3>3. \A k \in M : \E j \in L : f[j] = k
      BY <2>3
    <3> HIDE DEF f, L, M
    <3> QED BY <3>1, <3>2, <3>3 DEF Bijection, Injection, Surjection, IsInjective
  <2>5. IsFiniteSet(L)
    <3>1. IsFiniteSet(1..n)
      BY FS_Interval
    <3> QED BY <3>1, FS_Subset
  <2>6. Cardinality(M) = Cardinality(L)
    <3> HIDE DEF f, L, M
    <3> QED BY <2>4, <2>5, FS_Bijection DEF ExistsBijection
  <2> QED BY <1>8, <1>10, <2>6
<1> QED BY <1>9, <1>10

\* The pairs <<i, k>> with i of s and k of A[i].
PairsOf(A, s) == UNION {{<<i, k>> : k \in A[i]} : i \in s}

\* There are as many pairs as the sets A[i] have elements together.
LEMMA PairsAddUp ==
  ASSUME NEW D, IsFiniteSet(D), NEW A, \A i \in D : IsFiniteSet(A[i]),
         NEW g, IsSum(g, D, [i \in D |-> Cardinality(A[i])])
  PROVE  IsFiniteSet(PairsOf(A, D)) /\ Cardinality(PairsOf(A, D)) = g[D]
<1> DEFINE w == [i \in D |-> Cardinality(A[i])]
           F == {s \in SUBSET D : IsFiniteSet(PairsOf(A, s)) /\ Cardinality(PairsOf(A, s)) = g[s]}
<1>1. w \in [D -> Nat] /\ SumOver(g, D, w) /\ \A i \in D : w[i] = Cardinality(A[i])
  BY DEF IsSum
<1> HIDE DEF w
<1>2. g[{}] = 0 /\ \A s \in SUBSET D : g[s] \in Nat /\ \A x \in s : g[s] = g[s \ {x}] + w[x]
  BY <1>1, SumTakesAny
<1>3. {} \in F
  <2>1. PairsOf(A, {}) = {}
    BY DEF PairsOf
  <2> QED BY <1>2, <2>1, FS_EmptySet
<1>4. ASSUME NEW s \in SUBSET D, s # {}, \A x \in s : s \ {x} \in F PROVE s \in F
  <2>1. PICK x \in s : TRUE
    BY <1>4
  <2> DEFINE P == PairsOf(A, s \ {x})
             Q == {<<x, k>> : k \in A[x]}
             f == [k \in A[x] |-> <<x, k>>]
  <2>2. IsFiniteSet(P) /\ Cardinality(P) = g[s \ {x}]
    BY <1>4, <2>1
  <2>3. IsFiniteSet(Q) /\ Cardinality(Q) = w[x]
    <3>1. f \in Bijection(A[x], Q)
      <4>1. f \in [A[x] -> Q] /\ \A a, b \in A[x] : f[a] = f[b] => a = b
        OBVIOUS
      <4>2. \A y \in Q : \E k \in A[x] : f[k] = y
        OBVIOUS
      <4> HIDE DEF f, Q
      <4> QED BY <4>1, <4>2 DEF Bijection, Injection, Surjection, IsInjective
    <3>2. IsFiniteSet(A[x]) /\ w[x] = Cardinality(A[x])
      BY <1>1, <2>1
    <3> HIDE DEF f, Q
    <3> QED BY <3>1, <3>2, FS_Bijection DEF ExistsBijection
  <2>4. PairsOf(A, s) = P \cup Q
    <3>1. s = (s \ {x}) \cup {x}
      BY <2>1
    <3> QED BY <3>1 DEF PairsOf
  <2>5. P \cap Q = {}
    BY DEF PairsOf
  <2> HIDE DEF P, Q
  <2>6. IsFiniteSet(P \cup Q) /\ Cardinality(P \cup Q) = Cardinality(P) + Cardinality(Q) - Cardinality({})
    BY <2>2, <2>3, <2>5, FS_Union
  <2>7. g[s] = g[s \ {x}] + w[x] /\ g[s \ {x}] \in Nat /\ w[x] \in Nat
    BY <1>1, <1>2, <2>1
  <2>8. Cardinality({}) = 0
    BY FS_EmptySet
  <2>9. IsFiniteSet(PairsOf(A, s)) /\ Cardinality(PairsOf(A, s)) = g[s]
    <3>1. PICK a \in Nat, b \in Nat : a = g[s \ {x}] /\ b = w[x]
      BY <2>7
    <3>2. Cardinality(P \cup Q) = a + b - 0
      BY <2>2, <2>3, <2>6, <2>8, <3>1
    <3> QED BY <2>4, <2>6, <2>7, <3>1, <3>2
  <2> QED BY <2>9
<1>5. SUBSET D \subseteq F
  <2> HIDE DEF F
  <2> QED BY <1>3, <1>4, SubsetsByInduction
<1>6. D \in F
  BY <1>5
<1> QED BY <1>6

\* Where photons are.
LEMMA PhotonsAre ==
  ASSUME NEW m \in Seq(MCPMT)
  PROVE  /\ DOMAIN m = 1..Len(m) /\ Len(m) \in Nat
         /\ \A i \in DOMAIN m : /\ m[i] \in MCPMT /\ m[i].id \in PMTs /\ m[i].photons \in Seq(MCPhoton)
                                /\ \A k \in DOMAIN m[i].photons :
                                     /\ <<i, k>> \in Photons(m)
                                     /\ PhotonAt(m, <<i, k>>) = m[i].photons[k]
                                     /\ m[i].photons[k] \in MCPhoton
         /\ \A ik \in Photons(m) : /\ ik = <<ik[1], ik[2]>> /\ ik[1] \in DOMAIN m
                                   /\ ik[2] \in DOMAIN m[ik[1]].photons
                                   /\ PhotonAt(m, ik) = m[ik[1]].photons[ik[2]]
                                   /\ PhotonAt(m, ik) \in MCPhoton
<1>1. DOMAIN m = 1..Len(m) /\ Len(m) \in Nat /\ \A i \in DOMAIN m : m[i] \in MCPMT
  OBVIOUS
<1>2. \A x \in MCPMT : x.id \in PMTs /\ x.photons \in Seq(MCPhoton)
  BY DEF MCPMT
<1>3. \A s \in Seq(MCPhoton) : \A k \in DOMAIN s : s[k] \in MCPhoton
  OBVIOUS
<1>4. \A i \in DOMAIN m : \A k \in DOMAIN m[i].photons :
         <<i, k>> \in Photons(m) /\ PhotonAt(m, <<i, k>>) = m[i].photons[k]
  BY DEF Photons, PhotonAt
<1>5. ASSUME NEW ik \in Photons(m)
      PROVE  /\ ik = <<ik[1], ik[2]>> /\ ik[1] \in DOMAIN m /\ ik[2] \in DOMAIN m[ik[1]].photons
             /\ PhotonAt(m, ik) = m[ik[1]].photons[ik[2]]
  <2>1. PICK i \in DOMAIN m : ik \in {<<i, k>> : k \in DOMAIN m[i].photons}
    BY DEF Photons
  <2>2. PICK k \in DOMAIN m[i].photons : ik = <<i, k>>
    BY <2>1
  <2> QED BY <2>2 DEF PhotonAt
<1> QED BY <1>1, <1>2, <1>3, <1>4, <1>5

\* The photons themselves.
Values(m) == {PhotonAt(m, ik) : ik \in Photons(m)}

\* The photons of an event are those in the lists of its PMTs.
LEMMA ValuesAre ==
  ASSUME NEW m \in Seq(MCPMT)
  PROVE  Values(m) = UNION {ToSet(m[i].photons) : i \in DOMAIN m} /\ Values(m) \subseteq MCPhoton
<1>1. ASSUME NEW v \in Values(m) PROVE v \in MCPhoton /\ \E i \in DOMAIN m : v \in ToSet(m[i].photons)
  <2>1. PICK ik \in Photons(m) : v = PhotonAt(m, ik)
    BY DEF Values
  <2>2. ik[1] \in DOMAIN m /\ ik[2] \in DOMAIN m[ik[1]].photons /\ v = m[ik[1]].photons[ik[2]] /\ v \in MCPhoton
    BY <2>1, PhotonsAre
  <2> QED BY <2>2 DEF ToSet
<1>2. ASSUME NEW i \in DOMAIN m, NEW v \in ToSet(m[i].photons) PROVE v \in Values(m)
  <2>1. PICK k \in DOMAIN m[i].photons : v = m[i].photons[k]
    BY DEF ToSet
  <2>2. <<i, k>> \in Photons(m) /\ PhotonAt(m, <<i, k>>) = v
    BY <2>1, PhotonsAre
  <2> QED BY <2>2 DEF Values
<1> QED BY <1>1, <1>2

\* How many photons of m are of a kind, and of each PMT's list.
CountIn(m, kind) == Cardinality({ik \in Photons(m) : PhotonAt(m, ik).kind = kind})
Tally(m, kind) == [i \in DOMAIN m |-> Count(KindsOf(m[i].photons), kind)]

\* The photons of a kind in an event are counted PMT by PMT.
LEMMA CountAdds ==
  ASSUME NEW m \in Seq(MCPMT), NEW kind
  PROVE  \E g : IsSum(g, DOMAIN m, Tally(m, kind)) /\ CountIn(m, kind) = g[DOMAIN m]
<1> DEFINE D == DOMAIN m
           A == [i \in D |-> {k \in DOMAIN m[i].photons : m[i].photons[k].kind = kind}]
           w == [i \in D |-> Cardinality(A[i])]
<1>1. IsFiniteSet(D)
  <2>1. Len(m) \in Nat /\ D = 1..Len(m)
    BY PhotonsAre
  <2>2. IsFiniteSet(1..Len(m))
    BY <2>1, FS_Interval
  <2> QED BY <2>1, <2>2
<1>2. ASSUME NEW i \in D
      PROVE  IsFiniteSet(A[i]) /\ Cardinality(A[i]) \in Nat /\ Cardinality(A[i]) = Count(KindsOf(m[i].photons), kind)
  <2>1. PICK s \in Seq(MCPhoton) : s = m[i].photons
    BY PhotonsAre
  <2>2. Len(KindsOf(s)) = Len(s) /\ DOMAIN s = 1..Len(s) /\ Len(s) \in Nat /\ \A k \in DOMAIN s : KindsOf(s)[k] = s[k].kind
    BY KindsTyped
  <2>3. A[i] = {k \in 1..Len(s) : KindsOf(s)[k] = kind}
    BY <2>1, <2>2
  <2>4. IsFiniteSet(1..Len(s)) /\ A[i] \in SUBSET (1..Len(s))
    <3>1. IsFiniteSet(1..Len(s))
      BY <2>2, FS_Interval
    <3> QED BY <2>3, <3>1
  <2>5. IsFiniteSet(A[i])
    <3> HIDE DEF A
    <3> QED BY <2>4, FS_Subset
  <2>6. Cardinality(A[i]) = Count(KindsOf(s), kind)
    BY <2>2, <2>3 DEF Count
  <2> HIDE DEF A
  <2> QED BY <2>1, <2>5, <2>6, FS_CardinalityType
<1>3. {ik \in Photons(m) : PhotonAt(m, ik).kind = kind} = PairsOf(A, D)
  BY DEF Photons, PhotonAt, PairsOf
<1>4. w = Tally(m, kind)
  BY <1>2 DEF Tally
<1>5. w \in [D -> Nat]
  BY <1>2
<1> HIDE DEF A, D
<1>6. PICK g : SumOver(g, D, w)
  BY <1>1, SumExists
<1>7. IsSum(g, D, w)
  BY <1>1, <1>5, <1>6 DEF IsSum
<1>8. \A i \in D : IsFiniteSet(A[i])
  BY <1>2
<1>9. Cardinality(PairsOf(A, D)) = g[D]
  BY ONLY <1>1, <1>7, <1>8, PairsAddUp
<1> QED BY <1>3, <1>4, <1>7, <1>9 DEF CountIn, D

\* Lists with the same counts have the same count.
LEMMA SameCounts ==
  ASSUME NEW m \in Seq(MCPMT), NEW n \in Seq(MCPMT), NEW kind, Tally(m, kind) = Tally(n, kind)
  PROVE  CountIn(m, kind) = CountIn(n, kind)
<1>1. PICK g : IsSum(g, DOMAIN m, Tally(m, kind)) /\ CountIn(m, kind) = g[DOMAIN m]
  BY CountAdds
<1>2. PICK h : IsSum(h, DOMAIN n, Tally(n, kind)) /\ CountIn(n, kind) = h[DOMAIN n]
  BY CountAdds
<1>3. DOMAIN m = DOMAIN n
  BY DEF Tally
<1>4. PICK D, w : D = DOMAIN m /\ w = Tally(m, kind)
  OBVIOUS
<1>5. IsFiniteSet(D) /\ w \in [D -> Nat] /\ SumOver(g, D, w) /\ SumOver(h, D, w)
  BY <1>1, <1>2, <1>3, <1>4 DEF IsSum
<1>6. D \in SUBSET (D \cap D)
  OBVIOUS
<1>7. g[D] = h[D]
  BY ONLY <1>5, <1>6, SumsAgree
<1> QED BY <1>1, <1>2, <1>3, <1>4, <1>7

\* One list counts one more.
LEMMA CountGrows ==
  ASSUME NEW m \in Seq(MCPMT), NEW n \in Seq(MCPMT), NEW kind, DOMAIN m = DOMAIN n, NEW j \in DOMAIN m,
         Tally(n, kind)[j] = Tally(m, kind)[j] + 1,
         \A i \in DOMAIN m \ {j} : Tally(n, kind)[i] = Tally(m, kind)[i]
  PROVE  CountIn(n, kind) = CountIn(m, kind) + 1
<1>1. PICK g : IsSum(g, DOMAIN m, Tally(m, kind)) /\ CountIn(m, kind) = g[DOMAIN m]
  BY CountAdds
<1>2. PICK h : IsSum(h, DOMAIN n, Tally(n, kind)) /\ CountIn(n, kind) = h[DOMAIN n]
  BY CountAdds
<1>3. PICK D, w, v : D = DOMAIN m /\ w = Tally(m, kind) /\ v = Tally(n, kind)
  OBVIOUS
<1>4. IsSum(g, D, w) /\ IsSum(h, D, v) /\ j \in D /\ \A x \in D \ {j} : w[x] = v[x]
  BY <1>1, <1>2, <1>3
<1>5. g[D] \in Nat /\ h[D] \in Nat /\ h[D] + w[j] = g[D] + v[j]
  BY ONLY <1>4, SumChanges
<1>6. w[j] \in Nat /\ v[j] = w[j] + 1
  BY <1>3, <1>4 DEF IsSum
<1>7. h[D] = g[D] + 1
  <2>1. PICK a \in Nat, b \in Nat, c \in Nat, d \in Nat : a = g[D] /\ b = h[D] /\ c = w[j] /\ d = v[j]
    BY <1>5, <1>6
  <2>2. b + c = a + d /\ d = c + 1
    BY ONLY <1>5, <1>6, <2>1
  <2>3. b = a + 1
    BY ONLY <2>2, a \in Nat, b \in Nat, c \in Nat, d \in Nat
  <2> QED BY ONLY <2>1, <2>3
<1> QED BY <1>1, <1>2, <1>3, <1>7

\* What a new PMT brings.
LEMMA CountExtends ==
  ASSUME NEW m \in Seq(MCPMT), NEW x \in MCPMT, NEW kind
  PROVE  CountIn(Append(m, x), kind) = CountIn(m, kind) + Count(KindsOf(x.photons), kind)
<1>1. PICK n : n = Append(m, x)
  OBVIOUS
<1>2. PICK l \in Nat : l = Len(m)
  OBVIOUS
<1>3. n \in Seq(MCPMT) /\ DOMAIN m = 1..l /\ Len(n) = l + 1 /\ n[l + 1] = x /\ \A i \in 1..l : n[i] = m[i]
  BY <1>1, <1>2
<1>4. DOMAIN n = 1..l \cup {l + 1} /\ l + 1 \notin 1..l
  <2>1. DOMAIN n = 1..(l + 1)
    BY <1>3
  <2> QED BY <2>1
<1>5. PICK g : IsSum(g, DOMAIN m, Tally(m, kind)) /\ CountIn(m, kind) = g[DOMAIN m]
  BY CountAdds
<1>6. PICK h : IsSum(h, DOMAIN n, Tally(n, kind)) /\ CountIn(n, kind) = h[DOMAIN n]
  BY <1>3, CountAdds
<1>7. PICK D, w, E, v, y : D = DOMAIN m /\ w = Tally(m, kind) /\ E = DOMAIN n /\ v = Tally(n, kind) /\ y = l + 1
  OBVIOUS
<1>8. IsSum(g, D, w) /\ IsSum(h, E, v) /\ y \notin D /\ E = D \cup {y}
  BY <1>3, <1>4, <1>5, <1>6, <1>7
<1>9. \A i \in D : w[i] = v[i]
  BY <1>3, <1>4, <1>7 DEF Tally
<1>10. g[D] \in Nat /\ h[E] = g[D] + v[y]
  BY ONLY <1>8, <1>9, SumExtends
<1>11. v[y] = Count(KindsOf(x.photons), kind)
  BY <1>3, <1>4, <1>7 DEF Tally
<1> QED BY <1>1, <1>5, <1>6, <1>7, <1>10, <1>11

-----------------------------------------------------------------------------
(* Noise windows.                                                          *)

\* A list of numbers in order.
Rising(t) == \A a, b \in DOMAIN t : a < b => t[a] <= t[b]

\* RealHitTimes are the hit times of photons that are not dark, in order.
LEMMA RealHitTimesAre ==
  ASSUME NEW m \in Seq(MCPMT)
  PROVE  /\ RealHitTimes(m) \in Seq(Int) /\ Rising(RealHitTimes(m))
         /\ \A k \in DOMAIN RealHitTimes(m) :
              \E v \in Values(m) : v.kind # "dark" /\ RealHitTimes(m)[k] = v.hit
<1> DEFINE Times(i) == LET real == Prune(m[i].photons, "dark") IN [k \in DOMAIN real |-> real[k].hit]
           q == [i \in DOMAIN m |-> Times(i)]
           t == FlattenSeq(q)
           H == {v.hit : v \in {u \in Values(m) : u.kind # "dark"}}
<1>1. ASSUME NEW i \in DOMAIN m PROVE Times(i) \in Seq(H)
  <2>1. PICK s \in Seq(MCPhoton) : s = m[i].photons
    BY PhotonsAre
  <2>2. PICK real \in Seq(MCPhoton) : real = Prune(s, "dark") /\ ToSet(real) = {ph \in ToSet(s) : ph.kind # "dark"}
    BY PruneLeaves
  <2>3. ToSet(s) \subseteq Values(m)
    BY <2>1, ValuesAre
  <2>4. \A k \in DOMAIN real : real[k].hit \in H
    BY <2>2, <2>3 DEF ToSet
  <2>5. Times(i) = [k \in 1..Len(real) |-> real[k].hit]
    BY <2>1, <2>2
  <2> HIDE DEF H, Times
  <2> QED BY <2>4, <2>5
<1>2. q \in Seq(Seq(H))
  <2>1. DOMAIN m = 1..Len(m) /\ Len(m) \in Nat
    BY PhotonsAre
  <2>2. q = [i \in 1..Len(m) |-> Times(i)]
    BY <2>1
  <2> HIDE DEF H, q, Times
  <2> QED BY <1>1, <2>1, <2>2
<1>3. t \in Seq(H)
  <2> HIDE DEF H, q
  <2> QED BY <1>2, FlattenEntries
<1>4. H \in SUBSET Int
  <2>1. Values(m) \subseteq MCPhoton
    BY ValuesAre
  <2> QED BY <2>1 DEF MCPhoton
<1>5. RealHitTimes(m) = [k \in DOMAIN t |-> t[InOrder(t)[k]]]
  BY DEF RealHitTimes
<1> HIDE DEF t
<1> DEFINE D == DOMAIN t
<1>6. PICK n \in Nat : n = Len(t) /\ D = 1..n
  BY <1>3
<1>7. \A k \in D : t[k] \in H /\ t[k] \in Int
  BY <1>3, <1>4
<1>8. D \in SUBSET Int /\ IsFiniteSet(D) /\ Cardinality(D) = n /\ t \in [D -> Int]
  <2>1. IsFiniteSet(1..n) /\ Cardinality(1..n) = n
    BY FS_Interval
  <2>2. t \in [D -> Int]
    BY <1>3, <1>7
  <2> QED BY <1>6, <2>1, <2>2
<1>9. Lists(InOrder(t), D, t)
  <2> HIDE DEF D
  <2> QED BY <1>8, InOrderLists
<1>10. PICK pos : pos = InOrder(t)
  OBVIOUS
<1>11. PICK r : r = RealHitTimes(m)
  OBVIOUS
<1>12. pos \in [1..n -> 1..n]
  BY <1>6, <1>8, <1>9, <1>10 DEF Lists, Bijection, Injection
<1>13. r = [k \in 1..n |-> t[pos[k]]]
  BY <1>5, <1>6, <1>10, <1>11
<1>14. \A k \in 1..n : t[pos[k]] \in H /\ t[pos[k]] \in Int
  BY <1>6, <1>7, <1>12
<1>15. r \in Seq(Int) /\ DOMAIN r = 1..n
  <2> HIDE DEF H, D
  <2> QED BY <1>13, <1>14
<1>16. ASSUME NEW a \in 1..n, NEW b \in 1..n, a < b PROVE r[a] <= r[b]
  <2>1. t[pos[a]] < t[pos[b]] \/ t[pos[a]] = t[pos[b]]
    BY <1>8, <1>9, <1>10, <1>16 DEF Lists
  <2>2. t[pos[a]] \in Int /\ t[pos[b]] \in Int
    BY <1>14
  <2> QED BY <1>13, <2>1, <2>2
<1>17. \A k \in DOMAIN r : \E v \in Values(m) : v.kind # "dark" /\ r[k] = v.hit
  BY <1>13, <1>14, <1>15
<1> QED BY <1>11, <1>15, <1>16, <1>17 DEF Rising

\* Windows of time that are not empty.
Window == {w \in Int \X Int : w[1] <= w[2]}

\* x is no further than gap from one of the first n numbers of t.
Around(x, t, n, gap) == \E k \in 1..n : x - t[k] \in -gap..gap

\* w begins and ends at one of the first n numbers, and has no gap.
Covered(w, t, n, gap) ==
  /\ w \in Window
  /\ \E k \in 1..n : w[1] = t[k]
  /\ \E k \in 1..n : w[2] = t[k]
  /\ \A x \in w[1]..w[2] : Around(x, t, n, gap)

\* A covered window stays so when more numbers come, grows to the next one that
\* is no further than gap, and one number is a covered window.
LEMMA CoveredGrows ==
  ASSUME NEW t, NEW k \in Nat, \A j \in 1..(k + 1) : t[j] \in Int, NEW gap \in Nat
  PROVE  /\ \A w : Covered(w, t, k, gap) => Covered(w, t, k + 1, gap)
         /\ Covered(<<t[k + 1], t[k + 1]>>, t, k + 1, gap)
         /\ \A w : /\ Covered(w, t, k, gap) /\ k # 0 /\ w[2] = t[k]
                  /\ t[k] <= t[k + 1] /\ t[k + 1] - w[2] <= gap
                  => Covered(<<w[1], t[k + 1]>>, t, k + 1, gap)
<1>1. \A j \in 1..k : j \in 1..(k + 1)
  OBVIOUS
<1>2. ASSUME NEW x, Around(x, t, k, gap) PROVE Around(x, t, k + 1, gap)
  BY <1>1, <1>2 DEF Around
<1>3. ASSUME NEW w, Covered(w, t, k, gap) PROVE Covered(w, t, k + 1, gap)
  BY <1>1, <1>2, <1>3 DEF Covered
<1>4. k + 1 \in 1..(k + 1) /\ t[k + 1] \in Int
  OBVIOUS
<1>5. Covered(<<t[k + 1], t[k + 1]>>, t, k + 1, gap)
  <2>1. PICK v \in Int : v = t[k + 1]
    BY <1>4
  <2>2. <<v, v>> \in Window
    BY DEF Window
  <2>3. ASSUME NEW x \in v..v PROVE Around(x, t, k + 1, gap)
    <3>1. x - v \in -gap..gap
      BY <2>3
    <3> QED BY <1>4, <2>1, <3>1 DEF Around
  <2> QED BY <1>4, <2>1, <2>2, <2>3 DEF Covered
<1>6. ASSUME NEW w, Covered(w, t, k, gap), k # 0, w[2] = t[k], t[k] <= t[k + 1], t[k + 1] - w[2] <= gap
      PROVE  Covered(<<w[1], t[k + 1]>>, t, k + 1, gap)
  <2>1. w \in Int \X Int /\ w[1] <= w[2]
    BY <1>6 DEF Covered, Window
  <2>2. PICK a \in Int, b \in Int, v \in Int : a = w[1] /\ b = w[2] /\ v = t[k + 1]
    BY <1>4, <2>1
  <2>3. a <= b /\ b <= v /\ v - b <= gap
    BY <1>6, <2>1, <2>2
  <2>4. <<a, v>> \in Window
    BY <2>3 DEF Window
  <2>5. \E j \in 1..(k + 1) : a = t[j]
    BY <1>1, <1>6, <2>2 DEF Covered
  <2>6. ASSUME NEW x \in a..v PROVE Around(x, t, k + 1, gap)
    <3>1. CASE x <= b
      <4>1. x \in a..b
        BY <2>3, <3>1
      <4>2. Around(x, t, k, gap)
        BY <1>6, <2>2, <4>1 DEF Covered
      <4> QED BY <1>2, <4>2
    <3>2. CASE x > b
      <4>1. x - b \in -gap..gap
        BY <2>3, <3>2
      <4>2. k \in 1..(k + 1) /\ t[k] = b
        BY <1>6, <2>2
      <4> QED BY <4>1, <4>2 DEF Around
    <3> QED BY <3>1, <3>2
  <2> QED BY <1>4, <2>2, <2>4, <2>5, <2>6 DEF Covered
<1> QED BY <1>3, <1>5, <1>6

\* FindWindows cuts the times where there is a gap.
LEMMA FindWindowsCovers ==
  ASSUME NEW t \in Seq(Int), Rising(t), NEW gap \in Nat
  PROVE  /\ FindWindows(t, gap) \in Seq(Window)
         /\ \A j \in DOMAIN FindWindows(t, gap) : Covered(FindWindows(t, gap)[j], t, Len(t), gap)
<1>1. PICK n \in Nat : n = Len(t) /\ DOMAIN t = 1..n
  OBVIOUS
<1>2. \A k \in 1..n : t[k] \in Int
  BY <1>1
<1> DEFINE D == 1..n
           W == Int \X Int
           I == Seq(W)
           Op(k, acc) == IF acc # <<>> /\ t[k] - Last(acc)[2] <= gap
                           THEN [acc EXCEPT ![Len(acc)][2] = t[k]]
                           ELSE Append(acc, <<t[k], t[k]>>)
           Step(g) == [s \in SUBSET D |->
                         IF s = {} THEN <<>> ELSE LET x == Max(s) IN Op(x, g[s \ {x}])]
           it == CHOOSE g : g = Step(g)
           ch == [s \in SUBSET D |-> Max(s)]
           h == [p \in D \X I |-> Op(p[1], p[2])]
<1>3. \A w \in W : w = <<w[1], w[2]>> /\ w[1] \in Int /\ w[2] \in Int
  OBVIOUS
\* What a step does.
<1>4. ASSUME NEW k \in D, NEW acc \in I
      PROVE  \/ Op(k, acc) = Append(acc, <<t[k], t[k]>>) /\ Op(k, acc) \in I
             \/ /\ Len(acc) \in Nat \ {0}
                /\ acc[Len(acc)] \in W
                /\ t[k] - acc[Len(acc)][2] <= gap
                /\ Op(k, acc) = [acc EXCEPT ![Len(acc)] = <<acc[Len(acc)][1], t[k]>>]
                /\ Op(k, acc) \in I
  <2>1. CASE acc # <<>> /\ t[k] - Last(acc)[2] <= gap
    <3>1. PICK l \in Nat \ {0} : l = Len(acc)
      BY <2>1
    <3>2. acc[l] \in W /\ Last(acc) = acc[l]
      BY <3>1 DEF Last
    <3>3. Op(k, acc) = [acc EXCEPT ![l] = [acc[l] EXCEPT ![2] = t[k]]]
      BY <2>1, <3>1
    <3>4. [acc[l] EXCEPT ![2] = t[k]] = <<acc[l][1], t[k]>>
      <4>1. PICK a \in Int, b \in Int : acc[l] = <<a, b>>
        BY <1>3, <3>2
      <4> QED BY <4>1
    <3>5. <<acc[l][1], t[k]>> \in W
      BY <1>2, <1>3, <3>2
    <3>6. PICK v \in W : v = <<acc[l][1], t[k]>>
      BY <3>5
    <3>7. [acc EXCEPT ![l] = v] \in I
      <4> HIDE DEF W
      <4> QED BY <3>1
    <3>8. t[k] - acc[l][2] <= gap
      BY <2>1, <3>2
    <3> HIDE DEF W, I, Op
    <3> QED BY <3>1, <3>2, <3>3, <3>4, <3>6, <3>7, <3>8
  <2>2. CASE ~(acc # <<>> /\ t[k] - Last(acc)[2] <= gap)
    <3>1. Op(k, acc) = Append(acc, <<t[k], t[k]>>)
      BY <2>2
    <3>2. PICK v \in W : v = <<t[k], t[k]>>
      BY <1>2
    <3>3. Append(acc, v) \in I
      <4> HIDE DEF W
      <4> QED OBVIOUS
    <3> QED BY <3>1, <3>2, <3>3
  <2> QED BY <2>1, <2>2
<1> HIDE DEF Op, I
<1>5. <<>> \in I
  BY DEF I
<1>6. PICK g : FoldOver(g, D, <<>>, ch, h) /\ \A s \in SUBSET D : g[s] \in I
  <2>1. Chooses(ch, D) /\ IsFiniteSet(D)
    BY LastIsMax
  <2>2. Keeps(h, D, I)
    BY <1>4 DEF Keeps
  <2> HIDE DEF ch, h, D
  <2> QED BY ONLY <1>5, <2>1, <2>2, FoldExists
<1>7. g = Step(g)
  <2>1. ASSUME NEW s \in SUBSET D, s # {}
        PROVE  h[ch[s], g[s \ {ch[s]}]] = Op(Max(s), g[s \ {Max(s)}])
    <3>1. ch[s] \in s
      BY <2>1, LastIsMax DEF Chooses
    <3>2. ch[s] = Max(s) /\ Max(s) \in D /\ g[s \ {Max(s)}] \in I
      BY <1>6, <3>1
    <3> QED BY <3>2
  <2>2. g = [s \in SUBSET D |-> IF s = {} THEN <<>> ELSE h[ch[s], g[s \ {ch[s]}]]]
    BY <1>6 DEF FoldOver
  <2> HIDE DEF ch, h, D
  <2> QED BY <2>1, <2>2
<1>8. it = Step(it)
  <2> HIDE DEF Step
  <2> QED BY <1>7
<1> HIDE DEF it
<1>9. it[1..0] = <<>> /\ \A k \in D : it[1..k] = Op(k, it[1..(k - 1)])
  <2>1. 1..0 = {} /\ {} \in SUBSET D
    OBVIOUS
  <2>2. it[1..0] = <<>>
    BY <1>8, <2>1
  <2>3. ASSUME NEW k \in D PROVE it[1..k] = Op(k, it[1..(k - 1)])
    <3>1. Max(1..k) = k /\ 1..k \in SUBSET D /\ (1..k) \ {k} = 1..(k - 1) /\ 1..k # {}
      <4>1. k \in 1..k
        OBVIOUS
      <4> QED BY <4>1, LastIsMax
    <3> HIDE DEF D
    <3> QED BY <1>8, <3>1
  <2> QED BY <2>2, <2>3
<1>10. FindWindows(t, gap) = it[1..n]
  BY <1>1 DEF FindWindows, FoldLeft, MapThenFoldSet, it, Op
\* The windows after k times cover them, and the last one ends at the last time.
<1> DEFINE Good(k, acc) == /\ acc \in I
                           /\ \A j \in 1..Len(acc) : Covered(acc[j], t, k, gap)
                           /\ k # 0 => Len(acc) # 0 /\ acc[Len(acc)][2] = t[k]
           E == {k \in Nat : k <= n => Good(k, it[1..k])}
<1>11. 0 \in E
  BY <1>5, <1>9
<1>12. ASSUME NEW k \in Nat, k \in E PROVE k + 1 \in E
  <2>1. SUFFICES ASSUME k + 1 <= n PROVE Good(k + 1, it[1..(k + 1)])
    OBVIOUS
  <2>2. k + 1 \in D /\ (k + 1) - 1 = k
    BY <2>1
  <2>3. PICK acc : acc = it[1..k]
    OBVIOUS
  <2>4. Good(k, acc)
    BY <1>12, <2>1, <2>3
  <2>5. PICK new : new = it[1..(k + 1)]
    OBVIOUS
  <2>6. new = Op(k + 1, acc)
    BY <1>9, <2>2, <2>3, <2>5
  <2>7. PICK l \in Nat : l = Len(acc)
    BY <2>4 DEF I
  <2>8. \A j \in 1..(k + 1) : t[j] \in Int
    BY <1>2, <2>2
  <2>9. \A j \in 1..l : Covered(acc[j], t, k + 1, gap)
    BY ONLY <2>4, <2>7, <2>8, CoveredGrows, gap \in Nat, k \in Nat
  <2>10. CASE new = Append(acc, <<t[k + 1], t[k + 1]>>) /\ new \in I
    <3>1. PICK v \in W : v = <<t[k + 1], t[k + 1]>>
      <4>1. t[k + 1] \in Int
        BY <1>2, <2>2
      <4> QED BY <4>1
    <3>2. Covered(v, t, k + 1, gap)
      BY ONLY <3>1, <2>8, CoveredGrows, gap \in Nat, k \in Nat
    <3>3. Len(new) = l + 1 /\ new[l + 1] = v /\ \A j \in 1..l : new[j] = acc[j]
      <4> HIDE DEF W, D
      <4> QED BY <2>4, <2>7, <2>10, <3>1 DEF I
    <3>4. \A j \in 1..(l + 1) : j = l + 1 \/ j \in 1..l
      OBVIOUS
    <3>5. v[2] = t[k + 1]
      BY <3>1
    <3>6. \A j \in 1..(l + 1) : Covered(new[j], t, k + 1, gap)
      BY <2>9, <3>2, <3>3, <3>4
    <3>7. Len(new) = l + 1 /\ l + 1 # 0 /\ new[l + 1][2] = t[k + 1]
      BY <3>3, <3>5
    <3> QED BY <2>5, <2>10, <3>6, <3>7
  <2>11. CASE /\ l # 0 /\ acc[l] \in W /\ t[k + 1] - acc[l][2] <= gap
              /\ new = [acc EXCEPT ![l] = <<acc[l][1], t[k + 1]>>] /\ new \in I
    <3>1. PICK v \in W : v = <<acc[l][1], t[k + 1]>>
      <4>1. t[k + 1] \in Int /\ acc[l][1] \in Int
        BY <1>2, <1>3, <2>2, <2>11
      <4> QED BY <4>1
    <3>2. k # 0 /\ acc[l][2] = t[k]
      <4>1. k = 0 => acc = <<>>
        BY <1>9, <2>3
      <4> QED BY <2>4, <2>7, <2>11, <4>1
    <3>3. t[k] <= t[k + 1]
      <4>1. k \in DOMAIN t /\ k + 1 \in DOMAIN t /\ k < k + 1
        BY <1>1, <2>1, <3>2
      <4> QED BY <4>1 DEF Rising
    <3>4. Covered(acc[l], t, k, gap)
      <4>1. l # 0
        BY <2>11
      <4>2. l \in 1..l
        BY ONLY l \in Nat, <4>1
      <4> QED BY ONLY <2>4, <2>7, <4>2
    <3>5. Covered(v, t, k + 1, gap)
      BY ONLY <2>8, <2>11, <3>1, <3>2, <3>3, <3>4, CoveredGrows, gap \in Nat, k \in Nat
    <3>6. Len(new) = l /\ new[l] = v /\ \A j \in 1..l : j # l => new[j] = acc[j]
      <4> HIDE DEF W, D
      <4> QED BY <2>4, <2>7, <2>11, <3>1 DEF I
    <3>7. v[2] = t[k + 1]
      BY <3>1
    <3>8. \A j \in 1..l : Covered(new[j], t, k + 1, gap)
      BY <2>9, <3>5, <3>6
    <3> QED BY <2>5, <2>11, <3>6, <3>7, <3>8
  <2> QED BY <1>4, <2>2, <2>4, <2>6, <2>7, <2>10, <2>11
<1>13. Nat \subseteq E
  <2> HIDE DEF E
  <2> QED BY <1>11, <1>12, NumbersByInduction
<1>14. PICK f : f = FindWindows(t, gap)
  OBVIOUS
<1>15. Good(n, f)
  BY <1>10, <1>13, <1>14
<1>16. \A j \in 1..Len(f) : Covered(f[j], t, n, gap) /\ f[j] \in Window
  BY <1>15 DEF Covered
<1>17. f \in Seq(Window) /\ DOMAIN f = 1..Len(f)
  <2>1. f \in Seq(W)
    BY <1>15 DEF I
  <2>2. Len(f) \in Nat /\ DOMAIN f = 1..Len(f) /\ f = [j \in 1..Len(f) |-> f[j]]
    <3> HIDE DEF W
    <3> QED BY <2>1
  <2> QED BY <1>16, <2>2
<1> QED BY <1>1, <1>14, <1>16, <1>17

\* The windows of DSEvent run forwards, and with noise_nearhits every time in
\* one is no further from a hit than the greater look time.
LEMMA NoiseWindowsAre ==
  ASSUME NEW t \in Seq(Int), Rising(t), fNearHits \in BOOLEAN
  PROVE  /\ NoiseWindows(t) \in Seq(Window)
         /\ fNearHits => \A i \in DOMAIN NoiseWindows(t) :
              \A x \in NoiseWindows(t)[i][1] .. NoiseWindows(t)[i][2] : Around(x, t, Len(t), WindowGap)
<1>1. PICK gap \in Nat : gap = WindowGap /\ Lookback <= gap /\ Lookforward <= gap
  BY NoiseAssumption DEF WindowGap, Max
<1>2. PICK lb \in Nat, lf \in Nat : lb = Lookback /\ lf = Lookforward
  BY NoiseAssumption
<1>3. PICK n \in Nat : n = Len(t) /\ DOMAIN t = 1..n /\ \A k \in 1..n : t[k] \in Int
  OBVIOUS
<1>4. SpanWindow(t) \in Window
  <2>1. MaxTime \in Nat
    BY NoiseAssumption
  <2> DEFINE first == IF t = <<>> THEN 0 ELSE Max({Head(t), -MaxTime})
             last == IF t = <<>> THEN 0 ELSE Min({Max({Last(t), 0}), MaxTime})
  <2>2. first \in Int /\ last \in Int
    <3>1. CASE t = <<>>
      BY <3>1
    <3>2. CASE t # <<>>
      <4>1. Head(t) \in Int /\ Last(t) \in Int
        <5>1. 1 \in 1..n /\ n \in 1..n /\ Head(t) = t[1] /\ Last(t) = t[n]
          BY <1>3, <3>2 DEF Last
        <5> QED BY <1>3, <5>1
      <4>2. \A a, b \in Int : Max({a, b}) \in Int /\ Min({a, b}) \in Int
        BY DEF Max, Min
      <4>3. PICK c \in Int : c = -MaxTime
        BY <2>1
      <4>4. first \in Int
        BY <3>2, <4>1, <4>2, <4>3
      <4>5. PICK d \in Int : d = Max({Last(t), 0})
        BY <4>1, <4>2
      <4>6. last = Min({d, MaxTime})
        BY <3>2, <4>5
      <4>7. last \in Int
        <5>1. Min({d, MaxTime}) \in Int
          <6>1. PICK e \in Int : e = MaxTime
            BY <2>1
          <6>2. Min({d, e}) \in Int
            BY ONLY <4>2, d \in Int, e \in Int
          <6> QED BY <6>1, <6>2
        <5> HIDE DEF last
        <5> QED BY <4>6, <5>1
      <4> QED BY <4>4, <4>7
    <3> QED BY <3>1, <3>2
  <2>3. SpanWindow(t) = IF first > last THEN <<0, 0>> ELSE <<first, last>>
    BY DEF SpanWindow
  <2> HIDE DEF first, last
  <2> QED BY <2>2, <2>3 DEF Window
<1>5. PICK spans : spans = IF fNearHits THEN FindWindows(t, gap) ELSE <<SpanWindow(t)>>
  OBVIOUS
<1>6. spans \in Seq(Window) /\ (fNearHits => \A j \in DOMAIN spans : Covered(spans[j], t, n, gap))
  <2>1. CASE fNearHits
    BY <1>3, <1>5, <2>1, FindWindowsCovers
  <2>2. CASE ~fNearHits
    BY <1>4, <1>5, <2>2
  <2> QED BY <2>1, <2>2
<1>7. PICK w : w = NoiseWindows(t)
  OBVIOUS
<1>8. w = [i \in DOMAIN spans |-> <<spans[i][1] - lb, spans[i][2] + lf>>]
  BY <1>1, <1>2, <1>5, <1>7 DEF NoiseWindows
<1>9. ASSUME NEW i \in DOMAIN spans
      PROVE  spans[i] \in Window /\ spans[i][1] \in Int /\ spans[i][2] \in Int /\ spans[i][1] <= spans[i][2]
  <2>1. spans[i] \in Window
    BY <1>6
  <2> QED BY <2>1 DEF Window
<1>10. ASSUME NEW i \in DOMAIN spans PROVE <<spans[i][1] - lb, spans[i][2] + lf>> \in Window
  <2>1. PICK a \in Int, b \in Int : a = spans[i][1] /\ b = spans[i][2] /\ a <= b
    BY <1>9
  <2>2. a - lb \in Int /\ b + lf \in Int /\ a - lb <= b + lf
    BY <2>1
  <2> QED BY <2>1, <2>2 DEF Window
<1>11. w \in Seq(Window) /\ DOMAIN w = DOMAIN spans
  <2>1. DOMAIN spans = 1..Len(spans) /\ Len(spans) \in Nat
    BY <1>6
  <2> QED BY <1>8, <1>10, <2>1
<1>12. ASSUME fNearHits, NEW i \in DOMAIN w, NEW x \in w[i][1] .. w[i][2] PROVE Around(x, t, n, gap)
  <2>1. PICK a \in Int, b \in Int : a = spans[i][1] /\ b = spans[i][2] /\ a <= b
    BY <1>9, <1>11
  <2>2. w[i] = <<a - lb, b + lf>>
    BY <1>8, <1>11, <2>1
  <2>3. x \in (a - lb)..(b + lf)
    BY <1>12, <2>2
  <2>4. Covered(spans[i], t, n, gap)
    BY <1>6, <1>11, <1>12
  <2>5. CASE x < a
    <3>1. PICK k \in 1..n : a = t[k]
      BY <2>1, <2>4 DEF Covered
    <3>2. a - lb <= x /\ x \in Int /\ lb <= gap /\ lb \in Int /\ gap \in Int
      BY <1>1, <1>2, <2>3
    <3>3. x - a \in -gap..gap
      BY ONLY <2>5, <3>2, a \in Int
    <3>4. x - t[k] \in -gap..gap
      BY <3>1, <3>3
    <3> QED BY <3>4 DEF Around
  <2>6. CASE x > b
    <3>1. PICK k \in 1..n : b = t[k]
      BY <2>1, <2>4 DEF Covered
    <3>2. x <= b + lf /\ x \in Int /\ lf <= gap /\ lf \in Int /\ gap \in Int
      BY <1>1, <1>2, <2>3
    <3>3. x - b \in -gap..gap
      BY ONLY <2>6, <3>2, b \in Int
    <3>4. x - t[k] \in -gap..gap
      BY <3>1, <3>3
    <3> QED BY <3>4 DEF Around
  <2>7. CASE x >= a /\ x <= b
    <3>1. x \in a..b
      BY <2>3, <2>7
    <3> QED BY <2>1, <2>4, <3>1 DEF Covered
  <2> QED BY <2>3, <2>5, <2>6, <2>7
<1> QED BY <1>1, <1>3, <1>7, <1>11, <1>12

-----------------------------------------------------------------------------
(* What the processors do to the lists of an event.                        *)

\* Every list of the event is in the order of front-end times.
Sorted(m) == \A i \in DOMAIN m : Ascending(m[i].photons)

\* The list m with the photons f.
WithPhotons(m, f) == [i \in DOMAIN m |-> [m[i] EXCEPT !.photons = f[i]]]

\* With other lists of photons an event is still an event.
LEMMA PhotonsReplaced ==
  ASSUME NEW m \in Seq(MCPMT), NEW f \in [DOMAIN m -> Seq(MCPhoton)]
  PROVE  /\ WithPhotons(m, f) \in Seq(MCPMT) /\ DOMAIN WithPhotons(m, f) = DOMAIN m
         /\ \A i \in DOMAIN m : WithPhotons(m, f)[i].id = m[i].id /\ WithPhotons(m, f)[i].photons = f[i]
<1>1. DOMAIN m = 1..Len(m) /\ Len(m) \in Nat
  OBVIOUS
<1>2. \A x \in MCPMT, s \in Seq(MCPhoton) :
         /\ [x EXCEPT !.photons = s] \in MCPMT
         /\ [x EXCEPT !.photons = s].id = x.id /\ [x EXCEPT !.photons = s].photons = s
  BY DEF MCPMT
<1>3. ASSUME NEW i \in DOMAIN m
      PROVE  /\ [m[i] EXCEPT !.photons = f[i]] \in MCPMT
             /\ [m[i] EXCEPT !.photons = f[i]].id = m[i].id /\ [m[i] EXCEPT !.photons = f[i]].photons = f[i]
  <2>1. m[i] \in MCPMT /\ f[i] \in Seq(MCPhoton)
    OBVIOUS
  <2> QED BY <1>2, <2>1
<1>4. PICK n : n = WithPhotons(m, f)
  OBVIOUS
<1>5. DOMAIN n = 1..Len(m) /\ \A i \in 1..Len(m) : n[i] = [m[i] EXCEPT !.photons = f[i]] /\ n[i] \in MCPMT
  BY <1>1, <1>3, <1>4 DEF WithPhotons
<1>6. n \in Seq(MCPMT)
  <2>1. n = [i \in 1..Len(m) |-> n[i]]
    BY <1>4, <1>5 DEF WithPhotons
  <2> QED BY <1>1, <1>5, <2>1
<1> QED BY <1>1, <1>3, <1>4, <1>5, <1>6

\* The event without its photons of a kind.
Pruned(m, kind) == [i \in DOMAIN m |-> [m[i] EXCEPT !.photons = Prune(@, kind)]]

\* A pruned event has the photons of the other kinds, in the order they had.
LEMMA PrunedEvent ==
  ASSUME NEW m \in Seq(MCPMT), NEW kind
  PROVE  /\ Pruned(m, kind) \in Seq(MCPMT) /\ DOMAIN Pruned(m, kind) = DOMAIN m
         /\ \A i \in DOMAIN m : /\ Pruned(m, kind)[i].id = m[i].id
                                /\ Pruned(m, kind)[i].photons = Prune(m[i].photons, kind)
         /\ Values(Pruned(m, kind)) = {v \in Values(m) : v.kind # kind}
         /\ Sorted(m) => Sorted(Pruned(m, kind))
         /\ CountIn(Pruned(m, kind), kind) = 0
         /\ \A k2 : k2 # kind => CountIn(Pruned(m, kind), k2) = CountIn(m, k2)
<1> DEFINE f == [i \in DOMAIN m |-> Prune(m[i].photons, kind)]
<1>1. \A i \in DOMAIN m : m[i].photons \in Seq(MCPhoton)
  BY PhotonsAre
<1>2. f \in [DOMAIN m -> Seq(MCPhoton)]
  BY <1>1, PruneLeaves
<1>3. Pruned(m, kind) = WithPhotons(m, f)
  BY DEF Pruned, WithPhotons
<1>4. PICK n : n = Pruned(m, kind)
  OBVIOUS
<1>5. n \in Seq(MCPMT) /\ DOMAIN n = DOMAIN m /\ \A i \in DOMAIN m : n[i].id = m[i].id /\ n[i].photons = f[i]
  <2> HIDE DEF f
  <2> QED BY <1>2, <1>3, <1>4, PhotonsReplaced
<1>6. \A i \in DOMAIN m : n[i].photons = Prune(m[i].photons, kind)
  BY <1>5
<1> HIDE DEF f
<1>7. Values(n) = {v \in Values(m) : v.kind # kind}
  <2>1. Values(n) = UNION {ToSet(n[i].photons) : i \in DOMAIN m} /\ Values(m) = UNION {ToSet(m[i].photons) : i \in DOMAIN m}
    BY <1>5, ValuesAre
  <2>2. \A i \in DOMAIN m : ToSet(n[i].photons) = {v \in ToSet(m[i].photons) : v.kind # kind}
    BY <1>1, <1>6, PruneLeaves
  <2> QED BY <2>1, <2>2
<1>8. Sorted(m) => Sorted(n)
  BY <1>1, <1>5, <1>6, PruneLeaves DEF Sorted
<1>9. CountIn(n, kind) = 0
  <2>1. \A ik \in Photons(n) : PhotonAt(n, ik) \in Values(n)
    BY DEF Values
  <2>2. {ik \in Photons(n) : PhotonAt(n, ik).kind = kind} = {}
    BY <1>7, <2>1
  <2> QED BY <2>2, FS_EmptySet DEF CountIn
<1>10. ASSUME NEW k2, k2 # kind PROVE CountIn(n, k2) = CountIn(m, k2)
  <2>1. \A i \in DOMAIN m : Count(KindsOf(n[i].photons), k2) = Count(KindsOf(m[i].photons), k2)
    BY <1>1, <1>6, <1>10, PruneCounts
  <2>2. Tally(n, k2) = Tally(m, k2)
    BY <1>5, <2>1 DEF Tally
  <2> QED BY <1>5, <2>2, SameCounts
<1> QED BY <1>4, <1>5, <1>6, <1>7, <1>8, <1>9, <1>10

\* The photon ph goes into the list of MCPMT j, or into that of a new MCPMT of p.
Inserted(m, j, ph) == [m EXCEPT ![j].photons = SortMCPhotons(Append(@, ph))]
WithPMT(m, p, ph) == Append(m, [id |-> p, photons |-> <<ph>>])

\* n is m with ph.
OneMore(n, m, ph) ==
  /\ n \in Seq(MCPMT) /\ Len(n) \in Nat /\ Len(m) <= Len(n)
  /\ Values(n) = Values(m) \cup {ph}
  /\ Sorted(m) => Sorted(n)
  /\ CountIn(n, ph.kind) = CountIn(m, ph.kind) + 1

\* A photon added to a PMT's list, which is then sorted.
LEMMA PhotonAdded ==
  ASSUME NEW m \in Seq(MCPMT), NEW j \in DOMAIN m, NEW ph \in MCPhoton, NEW n,
         n = Inserted(m, j, ph)
  PROVE  OneMore(n, m, ph) /\ Len(n) = Len(m)
<1>1. \A i \in DOMAIN m : m[i] \in MCPMT /\ m[i].photons \in Seq(MCPhoton)
  BY PhotonsAre
<1>2. PICK s \in Seq(MCPhoton) : s = Append(m[j].photons, ph)
  BY <1>1, AppendCounts
<1>3. PICK t \in Seq(MCPhoton) : t = SortMCPhotons(s)
  BY SortLists
<1> DEFINE f == [i \in DOMAIN m |-> IF i = j THEN t ELSE m[i].photons]
<1>4. f \in [DOMAIN m -> Seq(MCPhoton)]
  BY <1>1
<1>5. n = WithPhotons(m, f)
  <2>1. n = [m EXCEPT ![j] = [m[j] EXCEPT !.photons = t]]
    BY <1>2, <1>3 DEF Inserted
  <2>2. \A i \in DOMAIN m : [m[i] EXCEPT !.photons = m[i].photons] = m[i]
    <3>1. \A x \in MCPMT : [x EXCEPT !.photons = x.photons] = x
      BY DEF MCPMT
    <3> QED BY <1>1, <3>1
  <2>3. \A i \in DOMAIN m : n[i] = [m[i] EXCEPT !.photons = f[i]]
    BY <2>1, <2>2
  <2>4. n = [i \in DOMAIN m |-> n[i]]
    BY <2>1
  <2> HIDE DEF f
  <2> QED BY <2>3, <2>4 DEF WithPhotons
<1>6. n \in Seq(MCPMT) /\ DOMAIN n = DOMAIN m /\ \A i \in DOMAIN m : n[i].photons = f[i]
  <2>1. m \in Seq(MCPMT)
    OBVIOUS
  <2> HIDE DEF f
  <2> QED BY ONLY <1>4, <1>5, <2>1, PhotonsReplaced
<1>7. Len(n) = Len(m)
  <2>1. m \in Seq(MCPMT) /\ n \in Seq(MCPMT) /\ DOMAIN n = DOMAIN m
    BY <1>6
  <2> QED BY ONLY <2>1
<1>8. n[j].photons = t /\ \A i \in DOMAIN m \ {j} : n[i].photons = m[i].photons
  BY <1>6
<1>9. ToSet(t) = ToSet(m[j].photons) \cup {ph}
  <2>1. PICK r \in Seq(MCPhoton) : r = m[j].photons
    BY <1>1
  <2>2. <<ph>> \in Seq(MCPhoton) /\ Append(r, ph) = r \o <<ph>> /\ ToSet(<<ph>>) = {ph}
    BY DEF ToSet
  <2>3. ToSet(s) = ToSet(r) \cup ToSet(<<ph>>)
    <3>1. PICK one \in Seq(MCPhoton) : one = <<ph>>
      BY <2>2
    <3>2. r \in Seq(MCPhoton) /\ ToSet(r \o one) = ToSet(r) \cup ToSet(one)
      BY ONLY r \in Seq(MCPhoton), one \in Seq(MCPhoton), JoinEntries
    <3> QED BY <1>2, <2>1, <2>2, <3>1, <3>2
  <2> QED BY <1>3, <2>1, <2>2, <2>3, SortEntries
<1> HIDE DEF f
<1>10. Values(n) = Values(m) \cup {ph}
  <2>1. Values(n) = UNION {ToSet(n[i].photons) : i \in DOMAIN m} /\ Values(m) = UNION {ToSet(m[i].photons) : i \in DOMAIN m}
    BY <1>6, ValuesAre
  <2>2. ToSet(n[j].photons) = ToSet(m[j].photons) \cup {ph}
    BY <1>8, <1>9
  <2>3. \A i \in DOMAIN m \ {j} : ToSet(n[i].photons) = ToSet(m[i].photons)
    BY <1>8
  <2>4. \A v : v \in Values(n) <=> \E i \in DOMAIN m : v \in ToSet(n[i].photons)
    BY ONLY <2>1
  <2>5. \A v : v \in Values(m) <=> \E i \in DOMAIN m : v \in ToSet(m[i].photons)
    BY ONLY <2>1
  <2>6. j \in DOMAIN m
    OBVIOUS
  <2> QED BY ONLY <2>2, <2>3, <2>4, <2>5, <2>6
<1>11. Sorted(m) => Sorted(n)
  <2>1. Ascending(t)
    BY <1>3, SortLists
  <2> QED BY <1>6, <1>8, <2>1 DEF Sorted
<1>12. CountIn(n, ph.kind) = CountIn(m, ph.kind) + 1
  <2>1. Count(KindsOf(t), ph.kind) = Count(KindsOf(m[j].photons), ph.kind) + 1
    <3>1. Count(KindsOf(t), ph.kind) = Count(KindsOf(s), ph.kind)
      BY <1>3, SortCounts
    <3> QED BY <1>1, <1>2, <3>1, AppendCounts
  <2>2. PICK a, b, kind : a = Tally(n, kind) /\ b = Tally(m, kind) /\ kind = ph.kind
    OBVIOUS
  <2>3. a[j] = b[j] + 1 /\ \A i \in DOMAIN m \ {j} : a[i] = b[i]
    BY <1>6, <1>8, <2>1, <2>2 DEF Tally
  <2>4. /\ m \in Seq(MCPMT) /\ n \in Seq(MCPMT) /\ DOMAIN m = DOMAIN n /\ j \in DOMAIN m
        /\ Tally(n, ph.kind)[j] = Tally(m, ph.kind)[j] + 1
        /\ \A i \in DOMAIN m \ {j} : Tally(n, ph.kind)[i] = Tally(m, ph.kind)[i]
    BY <1>6, <2>2, <2>3
  <2> QED BY ONLY <2>4, CountGrows
<1>13. Len(n) = Len(m) /\ Len(n) \in Nat
  BY <1>6
<1> QED BY <1>6, <1>7, <1>10, <1>11, <1>12, <1>13 DEF OneMore

\* A PMT added with its first photon.
LEMMA PMTAdded ==
  ASSUME NEW m \in Seq(MCPMT), NEW p \in PMTs, NEW ph \in MCPhoton, NEW n,
         n = WithPMT(m, p, ph)
  PROVE  OneMore(n, m, ph) /\ Len(n) = Len(m) + 1
<1>1. PICK x \in MCPMT : x = [id |-> p, photons |-> <<ph>>] /\ x.photons = <<ph>>
  <2>1. <<ph>> \in Seq(MCPhoton)
    OBVIOUS
  <2>2. [id |-> p, photons |-> <<ph>>] \in MCPMT
    BY <2>1 DEF MCPMT
  <2> QED BY <2>2
<1>2. PICK l \in Nat : l = Len(m)
  OBVIOUS
<1>3. n = Append(m, x)
  BY <1>1 DEF WithPMT
<1>4. n \in Seq(MCPMT) /\ DOMAIN m = 1..l /\ Len(n) = l + 1 /\ n[l + 1] = x /\ \A i \in 1..l : n[i] = m[i]
  BY <1>2, <1>3
<1>5. DOMAIN n = 1..l \cup {l + 1}
  <2>1. DOMAIN n = 1..(l + 1)
    BY <1>4
  <2> QED BY <2>1
<1>6. ToSet(<<ph>>) = {ph} /\ Ascending(<<ph>>)
  BY DEF ToSet, Ascending
<1>7. Values(n) = Values(m) \cup {ph}
  <2>1. Values(n) = UNION {ToSet(n[i].photons) : i \in DOMAIN n} /\ Values(m) = UNION {ToSet(m[i].photons) : i \in DOMAIN m}
    BY <1>4, ValuesAre
  <2>2. \A i \in 1..l : ToSet(n[i].photons) = ToSet(m[i].photons)
    BY <1>4
  <2>3. ToSet(n[l + 1].photons) = {ph}
    BY <1>1, <1>4, <1>6
  <2>4. \A v : v \in Values(n) <=> \E i \in DOMAIN n : v \in ToSet(n[i].photons)
    BY ONLY <2>1
  <2>5. \A v : v \in Values(m) <=> \E i \in DOMAIN m : v \in ToSet(m[i].photons)
    BY ONLY <2>1
  <2> QED BY ONLY <1>4, <1>5, <2>2, <2>3, <2>4, <2>5
<1>8. Sorted(m) => Sorted(n)
  BY <1>1, <1>4, <1>5, <1>6 DEF Sorted
<1>9. CountIn(n, ph.kind) = CountIn(m, ph.kind) + 1
  <2>1. Count(KindsOf(<<ph>>), ph.kind) = 1
    <3>1. PICK s \in Seq(MCPhoton) : s = <<>>
      <4>1. <<>> \in Seq(MCPhoton)
        OBVIOUS
      <4> QED BY ONLY <4>1
    <3>2. PICK u : u = <<ph>> /\ u = Append(s, ph)
      <4>1. Append(<<>>, ph) = <<ph>>
        BY ONLY TRUE
      <4> QED BY <3>1, <4>1
    <3>3. Count(KindsOf(s), ph.kind) = 0
      <4>1. Len(KindsOf(s)) = 0
        BY <3>1, KindsTyped
      <4>2. {j \in 1..Len(KindsOf(s)) : KindsOf(s)[j] = ph.kind} = {}
        BY <4>1
      <4> QED BY <4>2, FS_EmptySet DEF Count
    <3>4. ph \in MCPhoton /\ s \in Seq(MCPhoton)
      OBVIOUS
    <3>5. Count(KindsOf(Append(s, ph)), ph.kind) = Count(KindsOf(s), ph.kind) + 1
      BY ONLY <3>4, AppendCounts
    <3>6. Count(KindsOf(u), ph.kind) = 1
      <4>1. Count(KindsOf(u), ph.kind) = 0 + 1
        BY ONLY <3>2, <3>3, <3>5
      <4> QED BY <4>1
    <3> QED BY ONLY <3>2, <3>6
  <2>2. CountIn(Append(m, x), ph.kind) = CountIn(m, ph.kind) + Count(KindsOf(x.photons), ph.kind)
    BY CountExtends
  <2> QED BY <1>1, <1>3, <2>1, <2>2
<1> QED BY <1>2, <1>4, <1>7, <1>8, <1>9 DEF OneMore

-----------------------------------------------------------------------------
(* After-pulses.                                                           *)

\* The remembered times that are near a photoelectron.
LEMMA NearOnesAre ==
  ASSUME NEW aps \in Seq(Nat), NEW ph
  PROVE  NearOnes(aps, ph) \in Seq(Nat) /\ ToSet(NearOnes(aps, ph)) = {ap \in ToSet(aps) : Near(ap, ph)}
<1> DEFINE K == {n \in DOMAIN aps : Near(aps[n], ph)}
<1>1. K \in SUBSET DOMAIN aps /\ NearOnes(aps, ph) = Kept(aps, K)
  BY DEF NearOnes
<1>2. {aps[k] : k \in K} = {ap \in ToSet(aps) : Near(ap, ph)}
  BY DEF ToSet
<1> HIDE DEF K
<1>3. Kept(aps, K) \in Seq(Nat) /\ ToSet(Kept(aps, K)) = {aps[k] : k \in K}
  BY <1>1, KeptEntries
<1> QED BY <1>1, <1>2, <1>3

\* The times that DetectAfterPulses adds are those near some photoelectron of
\* the PMT.
LEMMA DetectedAre ==
  ASSUME NEW x \in MCPMT, NEW mem \in [PMTs -> Seq(Nat)]
  PROVE  /\ Detected(x, mem) \in Seq(Nat)
         /\ ToSet(Detected(x, mem)) = {ap \in ToSet(mem[x.id]) : \E k \in DOMAIN x.photons : Near(ap, x.photons[k])}
<1> DEFINE q == [k \in DOMAIN x.photons |-> NearOnes(mem[x.id], x.photons[k])]
<1>1. mem[x.id] \in Seq(Nat) /\ DOMAIN x.photons = 1..Len(x.photons) /\ Len(x.photons) \in Nat
  BY DEF MCPMT
<1>2. \A k \in DOMAIN x.photons :
         /\ NearOnes(mem[x.id], x.photons[k]) \in Seq(Nat)
         /\ ToSet(NearOnes(mem[x.id], x.photons[k])) = {ap \in ToSet(mem[x.id]) : Near(ap, x.photons[k])}
  BY <1>1, NearOnesAre
<1>3. q \in Seq(Seq(Nat)) /\ DOMAIN q = DOMAIN x.photons
  BY <1>1, <1>2
<1>4. \A k \in DOMAIN x.photons : ToSet(q[k]) = {ap \in ToSet(mem[x.id]) : Near(ap, x.photons[k])}
  BY <1>2
<1>5. Detected(x, mem) = FlattenSeq(q)
  BY DEF Detected
<1> HIDE DEF q
<1>6. FlattenSeq(q) \in Seq(Nat) /\ ToSet(FlattenSeq(q)) = UNION {ToSet(q[k]) : k \in DOMAIN q}
  BY <1>3, FlattenEntries
<1>7. UNION {ToSet(q[k]) : k \in DOMAIN q}
        = {ap \in ToSet(mem[x.id]) : \E k \in DOMAIN x.photons : Near(ap, x.photons[k])}
  BY <1>3, <1>4
<1> QED BY <1>5, <1>6, <1>7

\* What GenerateAfterPulses adds to the memory are times.
LEMMA MemoryTyped ==
  ASSUME NEW m \in Seq(MCPMT), NEW draw, draw \in [{ik \in Photons(m) : PhotonAt(m, ik).kind # "dark"} -> Delays \cup {0}],
         eventTime \in Nat, saturates \in BOOLEAN, memory \in [PMTs -> Seq(Nat)],
         \A v \in Values(m) : v.kind # "dark" => eventTime + v.fet \in Nat
  PROVE  GenerateAfterPulses(m, draw) \in [PMTs -> Seq(Nat)]
<1> DEFINE Own(i) == {k \in DOMAIN m[i].photons : <<i, k>> \in DOMAIN draw /\ draw[<<i, k>>] # 0}
           Time(i) == [k \in Own(i) |-> eventTime + ToUInt64(m[i].photons[k].fet) + draw[<<i, k>>]]
           Pulses(i) == Kept(Time(i), Own(i))
<1>1. ASSUME NEW i \in DOMAIN m, NEW k \in Own(i) PROVE Time(i)[k] \in Nat
  <2>1. <<i, k>> \in Photons(m) /\ PhotonAt(m, <<i, k>>) = m[i].photons[k] /\ m[i].photons[k] \in MCPhoton
    BY PhotonsAre
  <2>2. draw[<<i, k>>] \in Nat /\ m[i].photons[k].kind # "dark"
    BY <2>1, AfterPulseAssumption
  <2>3. m[i].photons[k] \in Values(m)
    BY <2>1 DEF Values
  <2>4. PICK f \in Int, d \in Nat, e \in Nat : f = m[i].photons[k].fet /\ d = draw[<<i, k>>] /\ e = eventTime
    BY <2>1, <2>2 DEF MCPhoton
  <2>5. e + f \in Nat
    BY <2>2, <2>3, <2>4
  <2>6. e + ToUInt64(f) + d \in Nat
    BY <2>5 DEF ToUInt64
  <2> QED BY <2>4, <2>6
<1>2. ASSUME NEW i \in DOMAIN m PROVE Pulses(i) \in Seq(Nat)
  <2>1. m[i].photons \in Seq(MCPhoton)
    BY PhotonsAre
  <2>2. PICK l \in Nat : DOMAIN m[i].photons = 1..l
    <3>1. Len(m[i].photons) \in Nat /\ DOMAIN m[i].photons = 1..Len(m[i].photons)
      BY ONLY <2>1
    <3> QED BY ONLY <3>1
  <2>3. Own(i) \in SUBSET (1..l)
    BY <2>2
  <2> HIDE DEF Own, Time
  <2>4. IsFiniteSet(Own(i)) /\ Own(i) \in SUBSET Int
    <3>1. IsFiniteSet(1..l)
      BY FS_Interval
    <3>2. Own(i) \in SUBSET Int
      BY <2>3
    <3> QED BY <2>3, <3>1, <3>2, FS_Subset
  <2>5. PICK pos \in Bijection(1..Cardinality(Own(i)), Own(i)) :
           Pulses(i) = [n \in 1..Cardinality(Own(i)) |-> Time(i)[pos[n]]]
    BY <2>4, KeptLists
  <2>6. PICK c \in Nat : c = Cardinality(Own(i))
    BY <2>4, FS_CardinalityType
  <2>7. pos \in [1..c -> Own(i)]
    BY <2>5, <2>6 DEF Bijection, Injection
  <2>8. \A n \in 1..c : Time(i)[pos[n]] \in Nat
    BY <1>1, <2>7
  <2>9. [n \in 1..c |-> Time(i)[pos[n]]] \in Seq(Nat)
    BY <2>8
  <2> QED BY <2>5, <2>6, <2>9
<1>3. GenerateAfterPulses(m, draw)
        = [p \in PMTs |-> memory[p] \o FlattenSeq([i \in DOMAIN m |-> IF m[i].id = p THEN Pulses(i) ELSE <<>>])]
  BY DEF GenerateAfterPulses
<1> HIDE DEF Pulses
<1>4. ASSUME NEW p \in PMTs
      PROVE  memory[p] \o FlattenSeq([i \in DOMAIN m |-> IF m[i].id = p THEN Pulses(i) ELSE <<>>]) \in Seq(Nat)
  <2> DEFINE q == [i \in DOMAIN m |-> IF m[i].id = p THEN Pulses(i) ELSE <<>>]
  <2>1. <<>> \in Seq(Nat)
    OBVIOUS
  <2>2. \A i \in DOMAIN m : q[i] \in Seq(Nat)
    BY <1>2, <2>1
  <2>3. q \in Seq(Seq(Nat))
    <3>1. DOMAIN m = 1..Len(m) /\ Len(m) \in Nat
      OBVIOUS
    <3>2. q = [i \in 1..Len(m) |-> q[i]]
      BY <3>1
    <3> HIDE DEF q
    <3> QED BY <2>2, <3>1, <3>2
  <2> HIDE DEF q
  <2>4. FlattenSeq(q) \in Seq(Nat)
    BY <2>3, FlattenEntries
  <2>5. memory[p] \in Seq(Nat)
    OBVIOUS
  <2>6. memory[p] \o FlattenSeq(q) \in Seq(Nat)
    BY ONLY <2>4, <2>5, JoinEntries
  <2> QED BY <2>6 DEF q
<1> QED BY <1>3, <1>4

\* The after-pulses that are added to the list of PMT i.
NewOnes(m, mem, jitter, i) ==
  LET aps == Detected(m[i], mem) IN [k \in DOMAIN aps |-> NewPhoton(AfterPulseHit(aps[k]), jitter[i], "after")]

\* What is added are after-pulses of their own time, smeared by PickTime.
LEMMA NewOnesAre ==
  ASSUME NEW m \in Seq(MCPMT), NEW mem \in [PMTs -> Seq(Nat)], eventTime \in Nat,
         NEW jitter \in [DOMAIN m -> Jitter], NEW i \in DOMAIN m
  PROVE  /\ NewOnes(m, mem, jitter, i) \in Seq(MCPhoton)
         /\ \A k \in DOMAIN NewOnes(m, mem, jitter, i) :
              /\ NewOnes(m, mem, jitter, i)[k].kind = "after"
              /\ NewOnes(m, mem, jitter, i)[k].fet - NewOnes(m, mem, jitter, i)[k].hit \in Jitter
         /\ {ph.hit + eventTime : ph \in ToSet(NewOnes(m, mem, jitter, i))} = ToSet(Detected(m[i], mem))
<1>1. m[i] \in MCPMT
  BY PhotonsAre
<1>2. PICK aps \in Seq(Nat) : aps = Detected(m[i], mem)
  BY <1>1, DetectedAre
<1>3. PICK l \in Nat : l = Len(aps) /\ DOMAIN aps = 1..l
  OBVIOUS
<1>4. PICK new : new = NewOnes(m, mem, jitter, i)
  OBVIOUS
<1>5. PICK j \in Int : j = jitter[i] /\ j \in Jitter
  BY HitsAssumption
<1>6. PICK e \in Nat : e = eventTime
  OBVIOUS
<1>7. DOMAIN new = 1..l /\ new = [k \in 1..l |-> NewPhoton(aps[k] - e, j, "after")]
  BY <1>2, <1>3, <1>4, <1>5, <1>6 DEF NewOnes, AfterPulseHit
<1>8. ASSUME NEW h \in Int
      PROVE  /\ NewPhoton(h, j, "after") \in MCPhoton /\ NewPhoton(h, j, "after").hit = h
             /\ NewPhoton(h, j, "after").kind = "after"
             /\ NewPhoton(h, j, "after").fet - NewPhoton(h, j, "after").hit = j
  BY DEF NewPhoton, MCPhoton, Kinds
<1>9. \A k \in 1..l : aps[k] \in Nat /\ aps[k] - e \in Int
  BY <1>3
<1>10. \A k \in 1..l : /\ new[k] \in MCPhoton /\ new[k].hit = aps[k] - e /\ new[k].kind = "after"
                       /\ new[k].fet - new[k].hit = j
  <2>1. \A k \in 1..l : new[k] = NewPhoton(aps[k] - e, j, "after")
    BY ONLY <1>7
  <2>2. \A k \in 1..l : aps[k] - e \in Int
    BY <1>9
  <2> QED BY ONLY <1>8, <2>1, <2>2
<1>11. new \in Seq(MCPhoton)
  <2>1. new = [k \in 1..l |-> new[k]]
    BY <1>7
  <2>2. \A k \in 1..l : new[k] \in MCPhoton
    BY <1>10
  <2>3. [k \in 1..l |-> new[k]] \in Seq(MCPhoton)
    BY ONLY <2>2, l \in Nat
  <2> QED BY ONLY <2>1, <2>3
<1>12. \A k \in 1..l : new[k].hit + e = aps[k]
  <2>1. ASSUME NEW k \in 1..l PROVE new[k].hit + e = aps[k]
    <3>1. PICK a \in Nat : a = aps[k]
      BY <1>9
    <3>2. new[k].hit = a - e
      BY <1>10, <3>1
    <3>3. (a - e) + e = a
      OBVIOUS
    <3> QED BY <3>1, <3>2, <3>3
  <2> QED BY <2>1
<1>13. {ph.hit + e : ph \in ToSet(new)} = ToSet(aps)
  <2>1. ToSet(new) = {new[k] : k \in 1..l} /\ ToSet(aps) = {aps[k] : k \in 1..l}
    BY <1>3, <1>7 DEF ToSet
  <2>2. {ph.hit + e : ph \in {new[k] : k \in 1..l}} = {new[k].hit + e : k \in 1..l}
    OBVIOUS
  <2>3. {new[k].hit + e : k \in 1..l} = {aps[k] : k \in 1..l}
    BY ONLY <1>12
  <2> QED BY ONLY <2>1, <2>2, <2>3
<1> QED BY <1>2, <1>4, <1>5, <1>6, <1>7, <1>10, <1>11, <1>13

\* The event with its after-pulses.
AfterPulsed(m, mem, jitter) ==
  [i \in DOMAIN m |-> [m[i] EXCEPT !.photons = AppendSorted(@, NewOnes(m, mem, jitter, i))]]

\* The after-pulses go into the lists of their PMTs, which are sorted.
LEMMA AfterPulsesAdded ==
  ASSUME NEW m \in Seq(MCPMT), NEW mem \in [PMTs -> Seq(Nat)], eventTime \in Nat,
         NEW jitter \in [DOMAIN m -> Jitter]
  PROVE  LET n == AfterPulsed(m, mem, jitter) IN
         /\ n \in Seq(MCPMT) /\ DOMAIN n = DOMAIN m /\ Sorted(n)
         /\ \A i \in DOMAIN m :
              /\ n[i].id = m[i].id
              /\ ToSet(n[i].photons) = ToSet(m[i].photons) \cup ToSet(NewOnes(m, mem, jitter, i))
         /\ CountIn(n, "dark") = CountIn(m, "dark")
<1>0. PICK n : n = AfterPulsed(m, mem, jitter)
  OBVIOUS
<1> DEFINE New(i) == NewOnes(m, mem, jitter, i)
           f == [i \in DOMAIN m |-> AppendSorted(m[i].photons, New(i))]
<1>1. ASSUME NEW i \in DOMAIN m
      PROVE  /\ f[i] \in Seq(MCPhoton) /\ Ascending(f[i])
             /\ ToSet(f[i]) = ToSet(m[i].photons) \cup ToSet(New(i))
             /\ Count(KindsOf(f[i]), "dark") = Count(KindsOf(m[i].photons), "dark")
  <2>1. PICK s \in Seq(MCPhoton) : s = m[i].photons
    BY PhotonsAre
  <2>2. PICK t \in Seq(MCPhoton) : t = New(i) /\ \A k \in DOMAIN t : t[k].kind = "after"
    BY NewOnesAre
  <2>3. PICK u \in Seq(MCPhoton) : u = s \o t /\ ToSet(u) = ToSet(s) \cup ToSet(t)
    <3>1. s \o t \in Seq(MCPhoton) /\ ToSet(s \o t) = ToSet(s) \cup ToSet(t)
      BY ONLY s \in Seq(MCPhoton), t \in Seq(MCPhoton), JoinEntries
    <3> QED BY ONLY <3>1
  <2>4. f[i] = SortMCPhotons(u)
    BY <2>1, <2>2, <2>3 DEF AppendSorted
  <2>5. SortMCPhotons(u) \in Seq(MCPhoton) /\ Ascending(SortMCPhotons(u)) /\ ToSet(SortMCPhotons(u)) = ToSet(u)
    BY SortLists, SortEntries
  <2>6. Count(KindsOf(SortMCPhotons(u)), "dark") = Count(KindsOf(u), "dark")
    BY SortCounts
  <2>7. Count(KindsOf(u), "dark") = Count(KindsOf(s), "dark")
    <3>1. \A k \in DOMAIN t : t[k].kind # "dark"
      BY <2>2
    <3> QED BY ONLY <2>3, <3>1, JoinCounts, s \in Seq(MCPhoton), t \in Seq(MCPhoton)
  <2> HIDE DEF f, New
  <2> QED BY <2>1, <2>2, <2>3, <2>4, <2>5, <2>6, <2>7
<1>2. f \in [DOMAIN m -> Seq(MCPhoton)]
  BY <1>1
<1>3. n = WithPhotons(m, f)
  BY <1>0 DEF AfterPulsed, WithPhotons
<1>4. n \in Seq(MCPMT) /\ DOMAIN n = DOMAIN m /\ \A i \in DOMAIN m : n[i].id = m[i].id /\ n[i].photons = f[i]
  <2> HIDE DEF f
  <2>1. m \in Seq(MCPMT)
    OBVIOUS
  <2> QED BY ONLY <1>2, <1>3, <2>1, PhotonsReplaced
<1> HIDE DEF f
<1>5. Sorted(n)
  BY <1>1, <1>4 DEF Sorted
<1>6. CountIn(n, "dark") = CountIn(m, "dark")
  <2>1. Tally(n, "dark") = Tally(m, "dark")
    BY <1>1, <1>4 DEF Tally
  <2> QED BY <1>4, <2>1, SameCounts
<1> QED BY <1>0, <1>1, <1>4, <1>5, <1>6

\* When the after-pulses of PMT p are.
Seen(m, p) ==
  {v.hit + eventTime :
     v \in {u \in UNION {ToSet(m[i].photons) : i \in {j \in DOMAIN m : m[j].id = p}} : u.kind = "after"}}
\* What the PMT remembers near one of its other hits.
Remembered(m, mem, p) ==
  {ap \in ToSet(mem[p]) : \E v \in UNION {ToSet(m[i].photons) : i \in {j \in DOMAIN m : m[j].id = p}} :
                            v.kind # "after" /\ Near(ap, v)}

\* What DetectAfterPulses adds is what the PMT remembers near its hits.
LEMMA DetectedEvent ==
  ASSUME NEW m \in Seq(MCPMT), NEW mem \in [PMTs -> Seq(Nat)], eventTime \in Nat,
         NEW jitter \in [DOMAIN m -> Jitter],
         \A v \in Values(m) : v.kind # "after"
  PROVE  LET n == AfterPulsed(m, mem, jitter) IN
         /\ \A p \in PMTs : Seen(n, p) = Remembered(n, mem, p)
         /\ \A v \in Values(n) : v \in Values(m) \/ (v.kind = "after" /\ v.fet - v.hit \in Jitter)
<1>0. PICK n : n = AfterPulsed(m, mem, jitter)
  OBVIOUS
<1> DEFINE New(i) == NewOnes(m, mem, jitter, i)
<1>1. /\ n \in Seq(MCPMT) /\ DOMAIN n = DOMAIN m
      /\ \A i \in DOMAIN m : n[i].id = m[i].id /\ ToSet(n[i].photons) = ToSet(m[i].photons) \cup ToSet(New(i))
  <2>1. /\ m \in Seq(MCPMT) /\ mem \in [PMTs -> Seq(Nat)] /\ eventTime \in Nat /\ jitter \in [DOMAIN m -> Jitter]
    OBVIOUS
  <2>2. /\ AfterPulsed(m, mem, jitter) \in Seq(MCPMT) /\ DOMAIN AfterPulsed(m, mem, jitter) = DOMAIN m
        /\ \A i \in DOMAIN m :
             /\ AfterPulsed(m, mem, jitter)[i].id = m[i].id
             /\ ToSet(AfterPulsed(m, mem, jitter)[i].photons) = ToSet(m[i].photons) \cup ToSet(NewOnes(m, mem, jitter, i))
    BY ONLY <2>1, AfterPulsesAdded
  <2> QED BY <1>0, <2>2
<1>2. ASSUME NEW i \in DOMAIN m
      PROVE  /\ \A v \in ToSet(New(i)) : v.kind = "after" /\ v.fet - v.hit \in Jitter
             /\ {v.hit + eventTime : v \in ToSet(New(i))} = ToSet(Detected(m[i], mem))
             /\ \A v \in ToSet(m[i].photons) : v.kind # "after" /\ v \in Values(m)
  <2>1. /\ \A k \in DOMAIN New(i) : New(i)[k].kind = "after" /\ New(i)[k].fet - New(i)[k].hit \in Jitter
        /\ {v.hit + eventTime : v \in ToSet(New(i))} = ToSet(Detected(m[i], mem))
    BY NewOnesAre
  <2>2. ToSet(m[i].photons) \subseteq Values(m)
    BY ValuesAre
  <2> HIDE DEF New
  <2> QED BY <2>1, <2>2 DEF ToSet
<1>3. ASSUME NEW i \in DOMAIN m
      PROVE  ToSet(Detected(m[i], mem)) = {ap \in ToSet(mem[m[i].id]) : \E v \in ToSet(m[i].photons) : Near(ap, v)}
  <2>1. m[i] \in MCPMT
    BY PhotonsAre
  <2>2. ToSet(Detected(m[i], mem)) = {ap \in ToSet(mem[m[i].id]) : \E k \in DOMAIN m[i].photons : Near(ap, m[i].photons[k])}
    BY <2>1, DetectedAre
  <2> QED BY <2>2 DEF ToSet
<1> HIDE DEF New
<1>4. ASSUME NEW p \in PMTs PROVE Seen(n, p) = Remembered(n, mem, p)
  <2> DEFINE Of == {j \in DOMAIN m : m[j].id = p}
             U == UNION {ToSet(n[i].photons) : i \in Of}
  <2>1. {j \in DOMAIN n : n[j].id = p} = Of
    BY <1>1
  <2> DEFINE A == UNION {ToSet(New(i)) : i \in Of}
             B == UNION {ToSet(m[i].photons) : i \in Of}
  <2>a. \A i \in Of : i \in DOMAIN m /\ m[i].id = p
    OBVIOUS
  <2>b. /\ \A v : v \in U <=> \E i \in Of : v \in ToSet(n[i].photons)
        /\ \A v : v \in A <=> \E i \in Of : v \in ToSet(New(i))
        /\ \A v : v \in B <=> \E i \in Of : v \in ToSet(m[i].photons)
    <3> HIDE DEF Of
    <3> QED OBVIOUS
  <2>c. /\ \A i \in Of : \A v : v \in ToSet(n[i].photons) <=> v \in ToSet(m[i].photons) \/ v \in ToSet(New(i))
        /\ \A i \in Of : \A v \in ToSet(New(i)) : v.kind = "after"
        /\ \A i \in Of : \A v \in ToSet(m[i].photons) : v.kind # "after"
    <3> HIDE DEF Of
    <3> QED BY <1>1, <1>2, <2>a
  <2>d. /\ \A v : v \in U /\ v.kind = "after" <=> v \in A
        /\ \A v : v \in U /\ v.kind # "after" <=> v \in B
    <3> HIDE DEF Of, U, A, B
    <3>1. \A v : v \in U <=> v \in A \/ v \in B
      BY ONLY <2>b, <2>c
    <3>2. (\A v : v \in A => v.kind = "after") /\ (\A v : v \in B => v.kind # "after")
      BY ONLY <2>b, <2>c
    <3> QED BY ONLY <3>1, <3>2
  <2>2. {u \in U : u.kind = "after"} = A
    <3> HIDE DEF U, A
    <3> QED BY ONLY <2>d
  <2>3. {u \in U : u.kind # "after"} = B
    <3> HIDE DEF U, B
    <3> QED BY ONLY <2>d
  <2>4. Seen(n, p) = {v.hit + eventTime : v \in A}
    BY <2>1, <2>2 DEF Seen
  <2>5. {v.hit + eventTime : v \in A} = UNION {{v.hit + eventTime : v \in ToSet(New(i))} : i \in Of}
    OBVIOUS
  <2>6. UNION {{v.hit + eventTime : v \in ToSet(New(i))} : i \in Of} = UNION {ToSet(Detected(m[i], mem)) : i \in Of}
    BY <1>2
  <2>7. Remembered(n, mem, p) = {ap \in ToSet(mem[p]) : \E v \in {u \in U : u.kind # "after"} : Near(ap, v)}
    BY <2>1 DEF Remembered
  <2>8. {ap \in ToSet(mem[p]) : \E v \in B : Near(ap, v)} = UNION {ToSet(Detected(m[i], mem)) : i \in Of}
    <3>1. \A i \in Of : \A ap : ap \in ToSet(Detected(m[i], mem))
                                <=> ap \in ToSet(mem[p]) /\ \E v \in ToSet(m[i].photons) : Near(ap, v)
      <4> HIDE DEF Of
      <4> QED BY <1>3, <2>a
    <3> HIDE DEF Of, B
    <3> QED BY ONLY <2>b, <3>1
  <2> HIDE DEF U, Of, A, B
  <2> QED BY ONLY <2>3, <2>4, <2>5, <2>6, <2>7, <2>8
<1>5. ASSUME NEW v \in Values(n) PROVE v \in Values(m) \/ (v.kind = "after" /\ v.fet - v.hit \in Jitter)
  <2>1. PICK i \in DOMAIN m : v \in ToSet(n[i].photons)
    <3>1. \A u : u \in Values(n) <=> \E i \in DOMAIN m : u \in ToSet(n[i].photons)
      BY ONLY <1>1, ValuesAre
    <3> QED BY <3>1
  <2> QED BY <1>1, <1>2, <2>1
<1> QED BY <1>0, <1>4, <1>5

-----------------------------------------------------------------------------
(* The trigger.                                                            *)

\* The parameters are numbers.
LEMMA DAQTyped ==
  ASSUME DAQ \in DAQs
  PROVE  /\ Resolution \in Nat \ {0} /\ DeadTime \in Nat
         /\ DAQ["pulse_width"] \in Nat /\ DAQ["trigger_window"] \in Nat /\ DAQ["pmt_lockout"] \in Nat
         /\ DAQ["trigger_lockout"] \in Nat /\ DAQ["lookback"] \in Nat
         /\ DAQ["max_hit_time"] \in Int /\ DAQ["max_hit_duration"] \in Int
BY DAQAssumption DEF Resolution, DeadTime

\* What a list of numbers holds has a least and a greatest one.
LEMMA ListExtremes ==
  ASSUME NEW t \in Seq(Int), t # <<>>
  PROVE  /\ Max(ToSet(t)) \in ToSet(t) /\ \A x \in ToSet(t) : x <= Max(ToSet(t))
         /\ Min(ToSet(t)) \in ToSet(t) /\ \A x \in ToSet(t) : Min(ToSet(t)) <= x
         /\ ToSet(t) \in SUBSET Int
<1>1. PICK n \in Nat : n = Len(t) /\ DOMAIN t = 1..n /\ n # 0
  OBVIOUS
<1>2. PICK S : S = ToSet(t)
  OBVIOUS
<1>3. S = {t[k] : k \in 1..n}
  BY <1>1, <1>2 DEF ToSet
<1>4. S \in SUBSET Int /\ S # {}
  BY <1>1, <1>3
<1>5. IsFiniteSet(S)
  <2>1. t \in Surjection(1..n, S)
    <3>1. t \in [1..n -> S]
      BY <1>1, <1>3
    <3> QED BY <1>3, <3>1 DEF Surjection
  <2> QED BY <2>1, FS_Interval, FS_Surjection
<1> QED BY <1>2, <1>4, <1>5, Extremes

\* f lists the numbers x at E, one after the other, but for those that are no
\* further than L from the last one listed.
Spacing(f, n, x, E, L) ==
  /\ f[0] = <<>>
  /\ \A k \in 1..n : f[k] = IF k \in E /\ (f[k - 1] = <<>> \/ x[k] > Last(f[k - 1]) + L)
                              THEN Append(f[k - 1], x[k]) ELSE f[k - 1]

\* Two numbers of t are further apart than L.
Spaced(t, L) == \A a, b \in DOMAIN t : a < b => t[a] + L < t[b]
\* Each number x at E, up to k, is a number of t or within L after one.
Reached(t, k, x, E, L) == \A j \in 1..k : j \in E => \E a \in DOMAIN t : t[a] <= x[j] /\ x[j] <= t[a] + L

\* The numbers listed are further apart than L, and reach all those at E.
LEMMA SpacingWorks ==
  ASSUME NEW n \in Nat, NEW x \in [1..n -> Int], NEW E, NEW L \in Nat, NEW f, Spacing(f, n, x, E, L)
  PROVE  /\ f[n] \in Seq(Int)
         /\ \A a \in DOMAIN f[n] : \E k \in 1..n : k \in E /\ f[n][a] = x[k]
         /\ (\A a, b \in 1..n : a < b => x[a] <= x[b]) => Spaced(f[n], L) /\ Reached(f[n], n, x, E, L)
<1> DEFINE Up == \A a, b \in 1..n : a < b => x[a] <= x[b]
           Good(k, t) == /\ t \in Seq(Int)
                         /\ \A a \in DOMAIN t : \E j \in 1..k : j \in E /\ t[a] = x[j]
                         /\ Up => Spaced(t, L) /\ Reached(t, k, x, E, L)
           G == {k \in Nat : k <= n => Good(k, f[k])}
<1>1. 0 \in G
  <2>1. f[0] = <<>>
    BY DEF Spacing
  <2>2. Good(0, <<>>)
    BY DEF Spaced, Reached
  <2> QED BY <2>1, <2>2
<1>2. ASSUME NEW k \in Nat, k \in G PROVE k + 1 \in G
  <2>1. SUFFICES ASSUME k + 1 <= n PROVE Good(k + 1, f[k + 1])
    OBVIOUS
  <2>2. k + 1 \in 1..n /\ (k + 1) - 1 = k /\ \A j \in 1..k : j \in 1..n /\ j \in 1..(k + 1)
    BY <2>1
  <2>3. PICK t : t = f[k]
    OBVIOUS
  <2>4. Good(k, t)
    BY <1>2, <2>1, <2>3
  <2>5. PICK l \in Nat : l = Len(t) /\ DOMAIN t = 1..l
    BY <2>4
  <2>6. PICK v \in Int : v = x[k + 1]
    BY <2>2
  <2>7. f[k + 1] = IF k + 1 \in E /\ (t = <<>> \/ v > Last(t) + L) THEN Append(t, v) ELSE t
    BY <2>2, <2>3, <2>6 DEF Spacing
  <2>8. \A a \in 1..l : t[a] \in Int
    BY <2>4, <2>5
  <2>9. t # <<>> => l \in 1..l /\ Last(t) = t[l]
    BY <2>4, <2>5 DEF Last
  <2>10. ASSUME Up, NEW a \in 1..l PROVE t[a] <= v
    <3>1. PICK j \in 1..k : t[a] = x[j]
      BY <2>4, <2>5
    <3>2. j < k + 1 /\ j \in 1..n
      BY <2>2
    <3> QED BY <2>2, <2>6, <2>10, <3>1, <3>2
  <2>11. \A j \in 1..(k + 1) : j \in 1..k \/ j = k + 1
    OBVIOUS
  <2>12. CASE k + 1 \in E /\ (t = <<>> \/ v > Last(t) + L)
    <3>1. PICK u : u = Append(t, v)
      OBVIOUS
    <3>2. u \in Seq(Int) /\ DOMAIN u = 1..(l + 1) /\ u[l + 1] = v /\ \A a \in 1..l : u[a] = t[a]
      BY <2>4, <2>5, <3>1
    <3>3. \A a \in 1..(l + 1) : a \in 1..l \/ a = l + 1
      OBVIOUS
    <3>4. \A a \in DOMAIN u : \E j \in 1..(k + 1) : j \in E /\ u[a] = x[j]
      <4>1. ASSUME NEW a \in DOMAIN u PROVE \E j \in 1..(k + 1) : j \in E /\ u[a] = x[j]
        <5>1. CASE a \in 1..l
          BY <2>2, <2>4, <2>5, <3>2, <5>1
        <5>2. CASE a = l + 1
          <6>1. k + 1 \in 1..(k + 1)
            OBVIOUS
          <6> QED BY <2>6, <2>12, <3>2, <5>2, <6>1
        <5> QED BY <3>2, <3>3, <4>1, <5>1, <5>2
      <4> QED BY <4>1
    <3>5. ASSUME Up PROVE Spaced(u, L)
      <4>1. ASSUME NEW a \in DOMAIN u, NEW b \in DOMAIN u, a < b PROVE u[a] + L < u[b]
        <5>1. CASE b \in 1..l
          <6>1. a \in 1..l
            BY <3>2, <4>1, <5>1
          <6> QED BY <2>4, <2>5, <3>2, <3>5, <4>1, <5>1, <6>1 DEF Spaced
        <5>2. CASE b = l + 1
          <6>0. a \in 1..(l + 1) /\ a < l + 1
            BY <3>2, <4>1, <5>2
          <6>1. a \in 1..l /\ l \in 1..l /\ t # <<>>
            <7>1. a \in 1..l /\ l \in 1..l
              BY ONLY l \in Nat, <6>0
            <7>2. t # <<>>
              BY <2>5, <7>1
            <7> QED BY <7>1, <7>2
          <6>2. t[a] \in Int /\ t[l] \in Int /\ v > t[l] + L
            BY <2>8, <2>9, <2>12, <6>1
          <6>3. t[a] <= t[l]
            <7>1. CASE a = l
              BY <6>2, <7>1
            <7>2. CASE a # l
              <8>0. a < l
                BY <6>1, <7>2
              <8>1. t[a] + L < t[l]
                BY <2>4, <2>5, <3>5, <6>1, <8>0 DEF Spaced
              <8> QED BY <6>2, <8>1
            <7> QED BY <7>1, <7>2
          <6>4. t[a] + L < v
            BY <6>2, <6>3
          <6> QED BY <3>2, <5>2, <6>1, <6>4
        <5> QED BY <3>2, <3>3, <4>1, <5>1, <5>2
      <4> QED BY <4>1 DEF Spaced
    <3>6. ASSUME Up PROVE Reached(u, k + 1, x, E, L)
      <4>1. ASSUME NEW j \in 1..(k + 1), j \in E
            PROVE  \E a \in DOMAIN u : u[a] <= x[j] /\ x[j] <= u[a] + L
        <5>1. CASE j \in 1..k
          <6>1. PICK a \in 1..l : t[a] <= x[j] /\ x[j] <= t[a] + L
            BY <2>4, <2>5, <3>6, <4>1, <5>1 DEF Reached
          <6>2. a \in DOMAIN u /\ u[a] = t[a]
            BY <3>2
          <6> QED BY <6>1, <6>2
        <5>2. CASE j = k + 1
          <6>1. l + 1 \in DOMAIN u /\ u[l + 1] = v
            BY <3>2
          <6>2. v <= x[j] /\ x[j] <= v + L
            BY <2>6, <5>2
          <6> QED BY ONLY <6>1, <6>2
        <5> QED BY <2>11, <4>1, <5>1, <5>2
      <4> QED BY <4>1 DEF Reached
    <3>7. f[k + 1] = u
      BY <2>7, <2>12, <3>1
    <3> QED BY <3>2, <3>4, <3>5, <3>6, <3>7
  <2>13. CASE ~(k + 1 \in E /\ (t = <<>> \/ v > Last(t) + L))
    <3>1. \A a \in DOMAIN t : \E j \in 1..(k + 1) : j \in E /\ t[a] = x[j]
      BY <2>2, <2>4
    <3>2. ASSUME Up PROVE Reached(t, k + 1, x, E, L)
      <4>1. ASSUME NEW j \in 1..(k + 1), j \in E
            PROVE  \E a \in DOMAIN t : t[a] <= x[j] /\ x[j] <= t[a] + L
        <5>1. CASE j \in 1..k
          BY <2>4, <3>2, <4>1, <5>1 DEF Reached
        <5>2. CASE j = k + 1
          <6>1. t # <<>> /\ ~(v > Last(t) + L)
            BY <2>13, <4>1, <5>2
          <6>2. l \in 1..l /\ Last(t) = t[l] /\ t[l] \in Int
            BY <2>8, <2>9, <6>1
          <6>3. v <= t[l] + L /\ t[l] <= v
            BY <2>10, <3>2, <6>1, <6>2
          <6> QED BY <2>5, <2>6, <5>2, <6>2, <6>3
        <5> QED BY <2>11, <4>1, <5>1, <5>2
      <4> QED BY <4>1 DEF Reached
    <3> QED BY <2>4, <2>7, <2>13, <3>1, <3>2
  <2> QED BY <2>12, <2>13
<1>3. Nat \subseteq G
  <2> HIDE DEF G
  <2> QED BY <1>1, <1>2, NumbersByInduction
<1>4. Good(n, f[n])
  BY <1>3
<1> QED BY <1>4

\* The trigger pulses of a list of photons are front-end times of photons that
\* count; each of those is in the lockout of one if the list is sorted.
LEMMA PMTPulsesAre ==
  ASSUME NEW s \in Seq(MCPhoton), DAQ \in DAQs
  PROVE  /\ PMTPulses(s) \in Seq(Int)
         /\ Ascending(s) =>
              /\ Spaced(PMTPulses(s), DAQ["pmt_lockout"])
              /\ \A k \in DOMAIN s : Triggering(s[k]) =>
                   \E a \in DOMAIN PMTPulses(s) :
                     PMTPulses(s)[a] <= s[k].fet /\ s[k].fet <= PMTPulses(s)[a] + DAQ["pmt_lockout"]
<1>1. PICK n \in Nat : n = Len(s) /\ DOMAIN s = 1..n
  OBVIOUS
<1>2. \A k \in 1..n : s[k] \in MCPhoton /\ s[k].fet \in Int
  <2>1. \A ph \in MCPhoton : ph.fet \in Int
    BY DEF MCPhoton
  <2> QED BY <1>1, <2>1
<1>3. PICK L \in Nat : L = DAQ["pmt_lockout"]
  BY DAQTyped
<1> DEFINE D == 1..n
           I == Seq(Int)
           E == {k \in D : Triggering(s[k])}
           x == [k \in D |-> s[k].fet]
           Op(k, acc) == IF ~Triggering(s[k]) \/ (acc # <<>> /\ s[k].fet <= Last(acc) + DAQ["pmt_lockout"])
                           THEN acc ELSE Append(acc, s[k].fet)
           Step(g) == [z \in SUBSET D |->
                         IF z = {} THEN <<>> ELSE LET k == Max(z) IN Op(k, g[z \ {k}])]
           it == CHOOSE g : g = Step(g)
           ch == [z \in SUBSET D |-> Max(z)]
           h == [p \in D \X I |-> Op(p[1], p[2])]
           f == [k \in 0..n |-> it[1..k]]
<1>4. ASSUME NEW k \in D, NEW acc \in I
      PROVE  /\ Op(k, acc) \in I
             /\ Op(k, acc) = IF k \in E /\ (acc = <<>> \/ x[k] > Last(acc) + L) THEN Append(acc, x[k]) ELSE acc
  <2>1. PICK v \in Int : v = s[k].fet
    BY <1>2
  <2>2. acc # <<>> => Last(acc) \in Int
    BY DEF Last
  <2>3. Append(acc, v) \in I /\ x[k] = v /\ (k \in E <=> Triggering(s[k]))
    BY <2>1
  <2>4. acc # <<>> => (v <= Last(acc) + L <=> ~(v > Last(acc) + L))
    BY <2>2
  <2> HIDE DEF x, E, I
  <2> QED BY <1>3, <2>1, <2>3, <2>4
<1> HIDE DEF Op, I, E, x
<1>5. <<>> \in I
  BY DEF I
<1>6. PICK g : FoldOver(g, D, <<>>, ch, h) /\ \A z \in SUBSET D : g[z] \in I
  <2>1. Chooses(ch, D) /\ IsFiniteSet(D)
    BY LastIsMax
  <2>2. Keeps(h, D, I)
    BY <1>4 DEF Keeps
  <2> HIDE DEF ch, h, D
  <2> QED BY ONLY <1>5, <2>1, <2>2, FoldExists
<1>7. g = Step(g)
  <2>1. ASSUME NEW z \in SUBSET D, z # {}
        PROVE  h[ch[z], g[z \ {ch[z]}]] = Op(Max(z), g[z \ {Max(z)}])
    <3>1. ch[z] \in z
      BY <2>1, LastIsMax DEF Chooses
    <3>2. ch[z] = Max(z) /\ Max(z) \in D /\ g[z \ {Max(z)}] \in I
      BY <1>6, <3>1
    <3> QED BY <3>2
  <2>2. g = [z \in SUBSET D |-> IF z = {} THEN <<>> ELSE h[ch[z], g[z \ {ch[z]}]]]
    BY <1>6 DEF FoldOver
  <2> HIDE DEF ch, h, D
  <2> QED BY <2>1, <2>2
<1>8. it = Step(it)
  <2> HIDE DEF Step
  <2> QED BY <1>7
<1> HIDE DEF it
<1>9. it[1..0] = <<>> /\ \A k \in D : it[1..k] = Op(k, it[1..(k - 1)])
  <2>1. 1..0 = {} /\ {} \in SUBSET D
    OBVIOUS
  <2>2. it[1..0] = <<>>
    BY <1>8, <2>1
  <2>3. ASSUME NEW k \in D PROVE it[1..k] = Op(k, it[1..(k - 1)])
    <3>1. Max(1..k) = k /\ 1..k \in SUBSET D /\ (1..k) \ {k} = 1..(k - 1) /\ 1..k # {}
      <4>1. k \in 1..k
        OBVIOUS
      <4> QED BY <4>1, LastIsMax
    <3> HIDE DEF D
    <3> QED BY <1>8, <3>1
  <2> QED BY <2>2, <2>3
<1>10. PMTPulses(s) = it[1..n]
  BY <1>1 DEF PMTPulses, FoldLeft, MapThenFoldSet, it, Op
<1>11. \A k \in 0..n : it[1..k] \in I
  <2> DEFINE G == {k \in Nat : k <= n => it[1..k] \in I}
  <2>1. 0 \in G
    BY <1>5, <1>9
  <2>2. ASSUME NEW k \in Nat, k \in G PROVE k + 1 \in G
    <3>1. SUFFICES ASSUME k + 1 <= n PROVE it[1..(k + 1)] \in I
      OBVIOUS
    <3>2. k + 1 \in D /\ (k + 1) - 1 = k /\ it[1..k] \in I
      BY <2>2, <3>1
    <3>3. it[1..(k + 1)] = Op(k + 1, it[1..k])
      BY ONLY <1>9, <3>2
    <3> QED BY <1>4, <3>2, <3>3
  <2>3. Nat \subseteq G
    <3> HIDE DEF G
    <3> QED BY <2>1, <2>2, NumbersByInduction
  <2> QED BY <2>3
<1>12. Spacing(f, n, x, E, L)
  <2>1. f[0] = <<>>
    BY <1>9
  <2>2. ASSUME NEW k \in 1..n
        PROVE  f[k] = IF k \in E /\ (f[k - 1] = <<>> \/ x[k] > Last(f[k - 1]) + L)
                        THEN Append(f[k - 1], x[k]) ELSE f[k - 1]
    <3>1. k - 1 \in 0..n /\ k \in 0..n
      OBVIOUS
    <3>2. f[k] = Op(k, f[k - 1]) /\ f[k - 1] \in I
      BY <1>9, <1>11, <3>1
    <3> HIDE DEF f
    <3> QED BY <1>4, <3>2
  <2> QED BY <2>1, <2>2 DEF Spacing
<1>13. x \in [1..n -> Int] /\ \A k \in 1..n : x[k] = s[k].fet /\ (k \in E <=> Triggering(s[k]))
  BY <1>2 DEF x, E
<1>14. PICK t : t = PMTPulses(s)
  OBVIOUS
<1>15. t = f[n]
  BY <1>10, <1>14
<1>16. /\ t \in Seq(Int)
       /\ (\A a, b \in 1..n : a < b => x[a] <= x[b]) => Spaced(t, L) /\ Reached(t, n, x, E, L)
  <2> HIDE DEF f
  <2> QED BY <1>12, <1>13, <1>15, SpacingWorks
<1>17. ASSUME Ascending(s) PROVE Spaced(t, L) /\ Reached(t, n, x, E, L)
  <2>1. \A a, b \in 1..n : a < b => x[a] <= x[b]
    BY <1>1, <1>13, <1>17 DEF Ascending
  <2> QED BY <1>16, <2>1
<1>18. ASSUME Reached(t, n, x, E, L), NEW k \in DOMAIN s, Triggering(s[k])
       PROVE  \E a \in DOMAIN t : t[a] <= s[k].fet /\ s[k].fet <= t[a] + L
  BY <1>1, <1>13, <1>18 DEF Reached
<1> QED BY <1>3, <1>14, <1>16, <1>17, <1>18

\* With the lists sorted, each hit that counts is in the lockout of a pulse.
LEMMA LockoutHolds ==
  ASSUME mc \in Seq(MCPMT), Sorted(mc), DAQ \in DAQs
  PROVE  LockoutCoversHits
<1>1. SUFFICES ASSUME NEW i \in DOMAIN mc
               PROVE  LET pulses == ToSet(PMTPulses(mc[i].photons)) IN
                      /\ \A k \in DOMAIN mc[i].photons : Triggering(mc[i].photons[k]) =>
                           \E t \in pulses : t <= mc[i].photons[k].fet
                                             /\ mc[i].photons[k].fet <= t + DAQ["pmt_lockout"]
                      /\ \A t, u \in pulses : t < u => t + DAQ["pmt_lockout"] < u
  BY DEF LockoutCoversHits
<1>2. PICK s \in Seq(MCPhoton) : s = mc[i].photons
  BY PhotonsAre
<1>3. Ascending(s)
  BY <1>2 DEF Sorted
<1>4. PICK t \in Seq(Int) : t = PMTPulses(s)
  BY PMTPulsesAre
<1>5. PICK L \in Nat : L = DAQ["pmt_lockout"]
  BY DAQTyped
<1>6. /\ Spaced(t, L)
      /\ \A k \in DOMAIN s : Triggering(s[k]) => \E a \in DOMAIN t : t[a] <= s[k].fet /\ s[k].fet <= t[a] + L
  BY <1>3, <1>4, <1>5, PMTPulsesAre
<1>7. \A k \in DOMAIN s : Triggering(s[k]) => \E y \in ToSet(t) : y <= s[k].fet /\ s[k].fet <= y + L
  BY <1>6 DEF ToSet
<1>8. ASSUME NEW y \in ToSet(t), NEW z \in ToSet(t), y < z PROVE y + L < z
  <2>1. PICK a \in DOMAIN t, b \in DOMAIN t : y = t[a] /\ z = t[b]
    BY DEF ToSet
  <2>2. PICK n \in Nat : DOMAIN t = 1..n
    OBVIOUS
  <2>3. y \in Int /\ z \in Int /\ a \in Int /\ b \in Int
    BY <2>1, <2>2
  <2>4. CASE a < b
    BY <1>6, <2>1, <2>4 DEF Spaced
  <2>5. CASE b < a
    <3>1. z + L < y
      BY <1>6, <2>1, <2>5 DEF Spaced
    <3> QED BY <1>8, <2>3, <3>1
  <2>6. CASE a = b
    BY <1>8, <2>1, <2>3, <2>6
  <2> QED BY <2>3, <2>4, <2>5, <2>6
<1> QED BY <1>2, <1>4, <1>5, <1>7, <1>8

\* The trigger pulses of an event are numbers.
LEMMA TrigPulsesAre ==
  ASSUME NEW m \in Seq(MCPMT), DAQ \in DAQs
  PROVE  TrigPulses(m) \in Seq(Int)
<1> DEFINE q == [i \in DOMAIN m |-> PMTPulses(m[i].photons)]
<1>1. DOMAIN m = 1..Len(m) /\ Len(m) \in Nat /\ \A i \in DOMAIN m : m[i].photons \in Seq(MCPhoton)
  BY PhotonsAre
<1>2. \A i \in DOMAIN m : PMTPulses(m[i].photons) \in Seq(Int)
  BY <1>1, PMTPulsesAre
<1>3. q \in Seq(Seq(Int))
  BY <1>1, <1>2
<1>4. TrigPulses(m) = FlattenSeq(q)
  BY DEF TrigPulses
<1> HIDE DEF q
<1> QED BY <1>3, <1>4, FlattenEntries

\* A multiple that is reached within a resolution is the quotient.
LEMMA Exact ==
  ASSUME NEW R \in Nat \ {0}, NEW t \in Int, NEW q \in Int, q * R <= t, t < q * R + R
  PROVE  t \div R = q
<1>1. PICK p \in Int : p = t \div R /\ p * R <= t /\ t < p * R + R
  BY Divided
<1>2. ~(p < q) /\ ~(q < p)
  <2>1. p < q => p * R + R <= q * R
    BY Steps
  <2>2. q < p => q * R + R <= p * R
    BY Steps
  <2>3. p * R \in Int /\ q * R \in Int
    OBVIOUS
  <2> QED BY <1>1, <2>1, <2>2, <2>3
<1> QED BY <1>1, <1>2

\* The greater of two numbers.
LEMMA MaxOfTwo ==
  ASSUME NEW a \in Int, NEW b \in Int
  PROVE  Max({a, b}) = (IF a >= b THEN a ELSE b) /\ Min({a, b}) = (IF a <= b THEN a ELSE b)
BY DEF Max, Min

\* The grid of the trigger: its ends, and the bin of a time.
LEMMA GridIs ==
  ASSUME NEW p \in Seq(Int), p # <<>>, DAQ \in DAQs
  PROVE  /\ Start(p) \in Int /\ End(p) \in Int /\ Start(p) <= End(p)
         /\ \E s \in Int : Start(p) = s * Resolution /\ \A t \in Int : Bin(p, t) = (t \div Resolution) - s
         /\ NBins(p) \in Nat \ {0} /\ (NBins(p) - 1) * Resolution + Start(p) <= End(p)
         /\ \A b \in Int : b * Resolution + Start(p) <= End(p) => b <= NBins(p) - 1
<1>1. PICK R \in Nat \ {0} : R = Resolution
  BY DAQTyped
<1>2. PICK lo \in Int, hi \in Int : lo = Min(ToSet(p)) /\ hi = Max(ToSet(p)) /\ lo <= hi
  <2>1. /\ Max(ToSet(p)) \in ToSet(p) /\ Min(ToSet(p)) \in ToSet(p) /\ ToSet(p) \in SUBSET Int
        /\ \A x \in ToSet(p) : x <= Max(ToSet(p))
    BY ListExtremes
  <2> QED BY <2>1
<1>3. PICK s \in Int, e \in Int : s = lo \div R /\ e = hi \div R /\ s * R \in Int /\ e * R \in Int
  BY Divided, Steps
<1>4. s <= e
  <2>1. s * R <= lo /\ hi < e * R + R
    BY <1>3, Divided
  <2>2. e < s => e * R + R <= s * R
    BY <1>3, Steps
  <2>3. PICK u \in Int, v \in Int, r \in Int : u = s * R /\ v = e * R /\ r = R
    BY <1>3
  <2> QED BY <1>2, <2>1, <2>2, <2>3
<1>5. s * R <= e * R
  BY <1>4, Steps
<1>6. Start(p) = s * R
  BY <1>1, <1>2, <1>3 DEF Start, Floor
<1>7. PICK d \in Int : d = DAQ["max_hit_duration"]
  BY DAQTyped
<1>8. End(p) = IF d > 0 THEN Min({e * R + R, s * R + d}) ELSE e * R + R
  BY <1>1, <1>2, <1>3, <1>6, <1>7 DEF End, Floor
<1>9. PICK z \in Int : z = End(p) /\ s * R <= z
  <2>1. PICK u \in Int, v \in Int : u = e * R + R /\ v = s * R + d
    <3>1. PICK a \in Int, y \in Int, r \in Int : a = e * R /\ y = s * R /\ r = R
      BY <1>3
    <3>2. a + r \in Int /\ y + d \in Int
      BY <1>7
    <3> QED BY <3>1, <3>2
  <2>2. Min({u, v}) = IF u <= v THEN u ELSE v
    BY MaxOfTwo
  <2> QED BY <1>3, <1>5, <1>8, <2>1, <2>2
<1>10. ASSUME NEW t \in Int PROVE (t - s * R) \div R = (t \div R) - s
  <2>1. PICK q \in Int : q = t \div R /\ q * R <= t /\ t < q * R + R
    BY Divided
  <2>2. (q - s) * R = q * R - s * R /\ q * R \in Int /\ s * R \in Int
    BY <1>3
  <2>3. t - s * R \in Int /\ q - s \in Int
    BY <2>2
  <2>4. (q - s) * R <= t - s * R /\ t - s * R < (q - s) * R + R
    BY <2>1, <2>2
  <2>5. (t - s * R) \div R = q - s
    BY ONLY <2>3, <2>4, R \in Nat \ {0}, Exact
  <2> QED BY <2>1, <2>5
<1>11. \A t \in Int : Bin(p, t) = (t \div R) - s
  BY <1>1, <1>6, <1>10 DEF Bin
<1>12. PICK c \in Int : c = z \div R /\ c * R \in Int /\ c * R <= z /\ z < c * R + R
  BY Divided, Steps
<1>13. NBins(p) = c - s + 1
  BY <1>9, <1>11, <1>12 DEF NBins
<1>14. c >= s
  <2>1. c < s => c * R + R <= s * R
    BY Steps
  <2>2. PICK u \in Int, v \in Int, r \in Int : u = c * R /\ v = s * R /\ r = R
    BY <1>3, <1>12
  <2>3. v <= z /\ z < u + r /\ (c < s => u + r <= v)
    BY <1>9, <1>12, <2>1, <2>2
  <2> QED BY ONLY <2>3, c \in Int, s \in Int, u \in Int, v \in Int, r \in Int, z \in Int
<1>15. ASSUME NEW b \in Int PROVE b * R + s * R \in Int /\ (b * R + s * R <= z <=> b <= c - s)
  <2>1. (b + s) * R = b * R + s * R /\ b + s \in Int /\ (b + s) * R \in Int
    OBVIOUS
  <2>2. b + s <= c => (b + s) * R <= c * R
    BY <2>1, Steps
  <2>3. c < b + s => c * R + R <= (b + s) * R
    BY <2>1, Steps
  <2> QED BY <1>12, <2>1, <2>2, <2>3
<1>16. PICK N \in Int : N = c - s + 1 /\ N - 1 = c - s
  OBVIOUS
<1>17. N \in Nat \ {0} /\ (N - 1) * R + s * R <= z
  <2>1. N \in Nat \ {0} /\ N - 1 \in Int /\ N - 1 <= c - s
    BY <1>14, <1>16
  <2> QED BY <1>15, <2>1
<1>18. NBins(p) = N
  BY <1>13, <1>16
<1> QED BY <1>1, <1>3, <1>6, <1>9, <1>11, <1>15, <1>16, <1>17, <1>18

\* The height of a bin is the trigger sum at its time, which is on the grid.
LEMMA HistogramIsSum ==
  ASSUME NEW p \in Seq(Int), p # <<>>, DAQ \in DAQs, NEW b \in 0 .. NBins(p) - 1
  PROVE  /\ TriggerHistogram(p)[b] = SumAt(p, b * Resolution + Start(p))
         /\ TriggerHistogram(p)[b] \in Nat
         /\ b * Resolution + Start(p) \in Start(p) .. End(p)
         /\ Floor(b * Resolution + Start(p)) = b * Resolution + Start(p)
<1>1. PICK R \in Nat \ {0} : R = Resolution
  BY DAQTyped
<1>2. PICK s \in Int : Start(p) = s * R /\ \A t \in Int : Bin(p, t) = (t \div R) - s
  BY <1>1, GridIs
<1>3. PICK z \in Int, N \in Nat \ {0} : z = End(p) /\ N = NBins(p) /\ (N - 1) * R + s * R <= z
  BY <1>1, <1>2, GridIs
<1>4. b \in Nat /\ b <= N - 1
  BY <1>3
<1>5. PICK c \in Int, t \in Int : c = b + s /\ t = b * R + s * R /\ t = c * R /\ s * R \in Int
  OBVIOUS
<1>6. t \in (s * R)..z
  <2>1. s <= c /\ c <= (N - 1) + s
    BY <1>4, <1>5
  <2>2. s * R <= c * R /\ c * R <= ((N - 1) + s) * R
    BY <2>1, Steps
  <2>3. ((N - 1) + s) * R = (N - 1) * R + s * R
    BY ONLY N \in Int, s \in Int, R \in Int
  <2>4. PICK u \in Int, v \in Int, w \in Int : u = s * R /\ v = c * R /\ w = ((N - 1) + s) * R
    BY <1>5
  <2>5. u <= v /\ v <= w /\ w <= z /\ v = t
    BY <1>3, <1>5, <2>2, <2>3, <2>4
  <2> QED BY <2>4, <2>5
<1>7. Floor(t) = t
  <2>1. c * R <= t /\ t < c * R + R
    BY <1>5
  <2>2. t \div R = c
    BY ONLY <2>1, R \in Nat \ {0}, c \in Int, t \in Int, Exact
  <2> QED BY <1>1, <1>5, <2>2 DEF Floor
<1>8. PICK w \in Nat : w = DAQ["pulse_width"] \div R
  <2>1. PICK pw \in Nat : pw = DAQ["pulse_width"]
    BY DAQTyped
  <2>2. PICK q \in Int : q = pw \div R /\ q * R <= pw /\ pw < q * R + R
    BY Divided
  <2>3. q >= 0
    <3>1. q < 0 => q * R + R <= 0 * R
      BY Steps
    <3> QED BY <2>2, <3>1
  <2> QED BY <2>1, <2>2, <2>3
<1>9. PICK B \in Nat : B = PulseBins /\ B * R = Max({R, w * R})
  <2>1. PICK u \in Int : u = w * R
    OBVIOUS
  <2>2. Max({1, w}) = (IF 1 >= w THEN 1 ELSE w) /\ Max({R, u}) = (IF R >= u THEN R ELSE u)
    BY MaxOfTwo
  <2>3. (w <= 1 => u <= R) /\ (1 < w => R < u)
    <3>1. w <= 1 => w * R <= 1 * R
      BY Steps
    <3>2. 1 < w => 1 * R + R <= w * R
      BY Steps
    <3> QED BY <2>1, <3>1, <3>2
  <2> QED BY <1>1, <1>8, <2>1, <2>2, <2>3 DEF PulseBins
<1>10. \A k \in DOMAIN p : p[k] \in Int
  OBVIOUS
<1>11. ASSUME NEW x \in Int
       PROVE  (b - B < Bin(p, x) /\ Bin(p, x) <= b) <=> (Floor(x) <= t /\ t < Floor(x) + B * R)
  <2>1. PICK q \in Int : q = x \div R /\ q * R \in Int /\ Floor(x) = q * R
    BY <1>1, Divided, Steps DEF Floor
  <2>2. Bin(p, x) = q - s
    BY <1>2, <2>1
  <2>3. q <= c <=> q * R <= c * R
    <3>1. q <= c => q * R <= c * R
      BY Steps
    <3>2. c < q => c * R + R <= q * R
      BY Steps
    <3> QED BY <1>5, <2>1, <3>1, <3>2
  <2>4. c < q + B <=> c * R < (q + B) * R
    <3>1. c < q + B => c * R + R <= (q + B) * R
      BY Steps
    <3>2. q + B <= c => (q + B) * R <= c * R
      BY Steps
    <3> QED BY <1>5, <2>1, <3>1, <3>2
  <2>5. (q + B) * R = q * R + B * R
    OBVIOUS
  <2> QED BY <1>4, <1>5, <2>1, <2>2, <2>3, <2>4, <2>5
<1> DEFINE K == {k \in DOMAIN p : p[k] <= End(p) /\ b - PulseBins < Bin(p, p[k]) /\ Bin(p, p[k]) <= b}
           J == {k \in DOMAIN p :
                   /\ p[k] <= End(p)
                   /\ Floor(p[k]) <= t
                   /\ t < Floor(p[k]) + Max({Resolution, Floor(DAQ["pulse_width"])})}
<1>12. Floor(DAQ["pulse_width"]) = w * R
  BY <1>1, <1>8 DEF Floor
<1>13. K = J
  <2>1. ASSUME NEW k \in DOMAIN p
        PROVE  (b - PulseBins < Bin(p, p[k]) /\ Bin(p, p[k]) <= b)
                 <=> (Floor(p[k]) <= t /\ t < Floor(p[k]) + Max({Resolution, Floor(DAQ["pulse_width"])}))
    <3>1. Max({Resolution, Floor(DAQ["pulse_width"])}) = B * R
      BY <1>1, <1>9, <1>12
    <3> QED BY <1>9, <1>10, <1>11, <3>1
  <2> QED BY <2>1
<1>14. TriggerHistogram(p)[b] = Cardinality(K)
  BY DEF TriggerHistogram
<1>15. SumAt(p, t) = Cardinality(J)
  BY DEF SumAt
<1>16. Cardinality(K) \in Nat
  <2>1. PICK n \in Nat : DOMAIN p = 1..n
    OBVIOUS
  <2>2. IsFiniteSet(1..n)
    BY FS_Interval
  <2>3. K \in SUBSET (1..n)
    BY <2>1
  <2> HIDE DEF K
  <2> QED BY <2>2, <2>3, FS_Subset, FS_CardinalityType
<1> HIDE DEF K, J
<1>17. b * Resolution + Start(p) = t
  BY <1>1, <1>2, <1>5
<1> QED BY <1>2, <1>3, <1>6, <1>7, <1>13, <1>14, <1>15, <1>16, <1>17

\* The times over threshold.
OverThreshold(p) ==
  {t \in Start(p) .. End(p) : Floor(t) = t /\ SumAt(p, t) >= fTriggerThreshold}

\* The triggers are over threshold and further apart than the dead time, and a
\* time over threshold is a trigger's or in the dead time of one.
LEMMA TriggerTimesAre ==
  ASSUME NEW p \in Seq(Int), p # <<>>, DAQ \in DAQs, fTriggerThreshold \in Int
  PROVE  /\ TriggerTimes(p) \in Seq(Int)
         /\ \A a \in DOMAIN TriggerTimes(p) : TriggerTimes(p)[a] \in OverThreshold(p)
         /\ Spaced(TriggerTimes(p), DeadTime)
         /\ \A o \in OverThreshold(p) : \E a \in DOMAIN TriggerTimes(p) :
              TriggerTimes(p)[a] <= o /\ o <= TriggerTimes(p)[a] + DeadTime
<1>1. PICK R \in Nat \ {0}, L \in Nat : R = Resolution /\ L = DeadTime
  BY DAQTyped
<1>2. PICK n \in Nat \ {0}, S \in Int : n = NBins(p) /\ S = Start(p)
  BY GridIs
<1>3. PICK thr \in Int : thr = fTriggerThreshold
  OBVIOUS
<1>4. PICK hist : hist = TriggerHistogram(p)
  OBVIOUS
<1>5. ASSUME NEW b \in 0..(n - 1)
      PROVE  /\ hist[b] = SumAt(p, b * R + S) /\ hist[b] \in Nat /\ b * R + S \in Int
             /\ b * R + S \in Start(p)..End(p) /\ Floor(b * R + S) = b * R + S
  <2>1. b \in 0 .. NBins(p) - 1
    BY <1>2
  <2>2. b * R \in Int
    OBVIOUS
  <2> QED BY <1>1, <1>2, <1>4, <2>1, <2>2, HistogramIsSum
<1> DEFINE D == 1..n
           I == Seq(Int)
           E == {k \in D : hist[k - 1] >= thr}
           x == [k \in D |-> (k - 1) * R + S]
           Op(k, acc) == IF hist[k - 1] >= fTriggerThreshold /\ Armed(acc, (k - 1) * Resolution + Start(p))
                           THEN Append(acc, (k - 1) * Resolution + Start(p)) ELSE acc
           Step(g) == [z \in SUBSET D |->
                         IF z = {} THEN <<>> ELSE LET k == Max(z) IN Op(k, g[z \ {k}])]
           it == CHOOSE g : g = Step(g)
           ch == [z \in SUBSET D |-> Max(z)]
           h == [q \in D \X I |-> Op(q[1], q[2])]
           f == [k \in 0..n |-> it[1..k]]
<1>6. \A k \in D : k - 1 \in 0..(n - 1)
  OBVIOUS
<1>7. x \in [1..n -> Int] /\ \A k \in D : x[k] = (k - 1) * R + S /\ (k \in E <=> hist[k - 1] >= thr)
  BY <1>5, <1>6
<1>8. ASSUME NEW k \in D, NEW acc \in I
      PROVE  /\ Op(k, acc) \in I
             /\ Op(k, acc) = IF k \in E /\ (acc = <<>> \/ x[k] > Last(acc) + L) THEN Append(acc, x[k]) ELSE acc
  <2>1. PICK v \in Int : v = x[k]
    BY <1>7
  <2>2. (k - 1) * Resolution + Start(p) = v
    BY <1>1, <1>2, <1>7, <2>1
  <2>3. Append(acc, v) \in I
    OBVIOUS
  <2>4. Armed(acc, v) <=> acc = <<>> \/ v > Last(acc) + L
    BY <1>1 DEF Armed
  <2> HIDE DEF x, E, I
  <2> QED BY <1>3, <1>7, <2>1, <2>2, <2>3, <2>4
<1> HIDE DEF Op, I, E, x
<1>9. <<>> \in I
  BY DEF I
<1>10. PICK g : FoldOver(g, D, <<>>, ch, h) /\ \A z \in SUBSET D : g[z] \in I
  <2>1. Chooses(ch, D) /\ IsFiniteSet(D)
    BY LastIsMax
  <2>2. Keeps(h, D, I)
    BY <1>8 DEF Keeps
  <2> HIDE DEF ch, h, D
  <2> QED BY ONLY <1>9, <2>1, <2>2, FoldExists
<1>11. g = Step(g)
  <2>1. ASSUME NEW z \in SUBSET D, z # {}
        PROVE  h[ch[z], g[z \ {ch[z]}]] = Op(Max(z), g[z \ {Max(z)}])
    <3>1. ch[z] \in z
      BY <2>1, LastIsMax DEF Chooses
    <3>2. ch[z] = Max(z) /\ Max(z) \in D /\ g[z \ {Max(z)}] \in I
      BY <1>10, <3>1
    <3> QED BY <3>2
  <2>2. g = [z \in SUBSET D |-> IF z = {} THEN <<>> ELSE h[ch[z], g[z \ {ch[z]}]]]
    BY <1>10 DEF FoldOver
  <2> HIDE DEF ch, h, D
  <2> QED BY <2>1, <2>2
<1>12. it = Step(it)
  <2> HIDE DEF Step
  <2> QED BY <1>11
<1>13. TriggerTimes(p) = it[1..n]
  <2> DEFINE s == [k \in 1 .. NBins(p) |-> k - 1]
             Raw(q) == [z \in SUBSET DOMAIN s |->
                         IF z = {} THEN <<>>
                         ELSE LET k == Max(z) IN
                              IF TriggerHistogram(p)[s[k]] >= fTriggerThreshold
                                 /\ Armed(q[z \ {k}], s[k] * Resolution + Start(p))
                                THEN Append(q[z \ {k}], s[k] * Resolution + Start(p)) ELSE q[z \ {k}]]
  <2>1. TriggerTimes(p) = (CHOOSE q : q = Raw(q))[DOMAIN s]
    BY DEF TriggerTimes, FoldLeft, MapThenFoldSet
  <2>2. DOMAIN s = D
    BY <1>2
  <2>3. \A k \in D : s[k] = k - 1
    BY <1>2
  <2> HIDE DEF s
  <2>4. ASSUME NEW r PROVE Raw(r) = Step(r)
    <3>1. ASSUME NEW z \in SUBSET D, z # {} PROVE Max(z) \in D
      BY <3>1, LastIsMax DEF Chooses
    <3>2. ASSUME NEW z \in SUBSET D, z # {}
          PROVE  (IF TriggerHistogram(p)[s[Max(z)]] >= fTriggerThreshold
                     /\ Armed(r[z \ {Max(z)}], s[Max(z)] * Resolution + Start(p))
                    THEN Append(r[z \ {Max(z)}], s[Max(z)] * Resolution + Start(p)) ELSE r[z \ {Max(z)}])
                  = Op(Max(z), r[z \ {Max(z)}])
      <4>1. s[Max(z)] = Max(z) - 1
        BY <2>3, <3>1, <3>2
      <4> QED BY <1>4, <4>1 DEF Op
    <3> HIDE DEF D
    <3> QED BY <2>2, <3>2
  <2>5. (CHOOSE q : q = Raw(q)) = it
    <3> HIDE DEF Raw, Step
    <3> QED BY <2>4 DEF it
  <2> QED BY <2>1, <2>2, <2>5
<1> HIDE DEF it
<1>14. it[1..0] = <<>> /\ \A k \in D : it[1..k] = Op(k, it[1..(k - 1)])
  <2>1. 1..0 = {} /\ {} \in SUBSET D
    OBVIOUS
  <2>2. it[1..0] = <<>>
    BY <1>12, <2>1
  <2>3. ASSUME NEW k \in D PROVE it[1..k] = Op(k, it[1..(k - 1)])
    <3>1. Max(1..k) = k /\ 1..k \in SUBSET D /\ (1..k) \ {k} = 1..(k - 1) /\ 1..k # {}
      <4>1. k \in 1..k
        OBVIOUS
      <4> QED BY <4>1, LastIsMax
    <3> HIDE DEF D
    <3> QED BY <1>12, <3>1
  <2> QED BY <2>2, <2>3
<1>15. \A k \in 0..n : it[1..k] \in I
  <2> DEFINE G == {k \in Nat : k <= n => it[1..k] \in I}
  <2>1. 0 \in G
    BY <1>9, <1>14
  <2>2. ASSUME NEW k \in Nat, k \in G PROVE k + 1 \in G
    <3>1. SUFFICES ASSUME k + 1 <= n PROVE it[1..(k + 1)] \in I
      OBVIOUS
    <3>2. k + 1 \in D /\ (k + 1) - 1 = k /\ it[1..k] \in I
      BY <2>2, <3>1
    <3> QED BY <1>8, <1>14, <3>2
  <2>3. Nat \subseteq G
    <3> HIDE DEF G
    <3> QED BY <2>1, <2>2, NumbersByInduction
  <2> QED BY <2>3
<1>16. Spacing(f, n, x, E, L)
  <2>1. f[0] = <<>>
    BY <1>14
  <2>2. ASSUME NEW k \in 1..n
        PROVE  f[k] = IF k \in E /\ (f[k - 1] = <<>> \/ x[k] > Last(f[k - 1]) + L)
                        THEN Append(f[k - 1], x[k]) ELSE f[k - 1]
    <3>1. k - 1 \in 0..n /\ k \in 0..n
      OBVIOUS
    <3>2. f[k] = Op(k, f[k - 1]) /\ f[k - 1] \in I
      BY <1>14, <1>15, <3>1
    <3> HIDE DEF f
    <3> QED BY <1>8, <3>2
  <2> QED BY <2>1, <2>2 DEF Spacing
<1>17. PICK t : t = TriggerTimes(p)
  OBVIOUS
<1>18. t = f[n]
  BY <1>13, <1>17
<1>19. \A a, b \in 1..n : a < b => x[a] <= x[b]
  <2>1. ASSUME NEW a \in 1..n, NEW b \in 1..n, a < b PROVE x[a] <= x[b]
    <3>1. PICK c \in Int, d \in Int : c = a - 1 /\ d = b - 1
      OBVIOUS
    <3>2. c * R <= d * R /\ c * R \in Int /\ d * R \in Int
      BY <2>1, <3>1, Steps
    <3>3. x[a] = c * R + S /\ x[b] = d * R + S
      BY <1>7, <3>1
    <3>4. PICK u \in Int, v \in Int : u = c * R /\ v = d * R /\ u <= v
      BY ONLY <3>2
    <3>5. u + S <= v + S
      BY <3>4
    <3> QED BY <3>3, <3>4, <3>5
  <2> QED BY <2>1
<1>20. /\ t \in Seq(Int) /\ Spaced(t, L) /\ Reached(t, n, x, E, L)
       /\ \A a \in DOMAIN t : \E k \in 1..n : k \in E /\ t[a] = x[k]
  <2> HIDE DEF f
  <2>1. n \in Nat /\ x \in [1..n -> Int] /\ L \in Nat
    BY <1>7
  <2>2. /\ f[n] \in Seq(Int)
        /\ \A a \in DOMAIN f[n] : \E k \in 1..n : k \in E /\ f[n][a] = x[k]
        /\ (\A a, b \in 1..n : a < b => x[a] <= x[b]) => Spaced(f[n], L) /\ Reached(f[n], n, x, E, L)
    BY ONLY <1>16, <2>1, SpacingWorks
  <2> QED BY ONLY <1>18, <1>19, <2>2
<1>21. ASSUME NEW a \in DOMAIN t PROVE t[a] \in OverThreshold(p)
  <2>1. PICK k \in 1..n : k \in E /\ t[a] = x[k]
    BY <1>20
  <2>2. PICK b \in 0..(n - 1) : b = k - 1
    BY <1>6
  <2>3. t[a] = b * R + S /\ hist[b] >= thr
    BY <1>7, <2>1, <2>2
  <2> QED BY <1>3, <1>5, <2>3 DEF OverThreshold
<1>22. ASSUME NEW o \in OverThreshold(p) PROVE \E a \in DOMAIN t : t[a] <= o /\ o <= t[a] + L
  <2>1. o \in Start(p)..End(p) /\ Floor(o) = o /\ SumAt(p, o) >= thr
    BY <1>3 DEF OverThreshold
  <2>2. o \in Int /\ S <= o /\ o <= End(p) /\ End(p) \in Int
    BY <1>2, <2>1, GridIs
  <2>3. PICK s \in Int : S = s * R
    BY <1>1, <1>2, GridIs
  <2>4. PICK q \in Int : q = o \div R /\ o = q * R
    <3>1. o \div R \in Int
      BY <2>2, Divided
    <3> QED BY <1>1, <2>1, <3>1 DEF Floor
  <2>5. PICK b \in Int : b = q - s
    OBVIOUS
  <2>6. b * R + S = o
    <3>1. (q - s) * R = q * R - s * R /\ q * R \in Int /\ s * R \in Int
      OBVIOUS
    <3> QED BY <2>3, <2>4, <2>5, <3>1
  <2>7. b >= 0
    <3>1. q < s => q * R + R <= s * R
      BY Steps
    <3>2. PICK u \in Int, r \in Nat \ {0} : u = s * R /\ r = R
      BY <2>3
    <3> QED BY <2>2, <2>3, <2>4, <2>5, <3>1, <3>2
  <2>8. b <= n - 1
    BY <1>1, <1>2, <2>2, <2>5, <2>6, GridIs
  <2>9. b \in 0..(n - 1) /\ b + 1 \in 1..n /\ (b + 1) - 1 = b
    BY <2>7, <2>8
  <2>10. hist[b] >= thr
    BY <1>5, <2>1, <2>6, <2>9
  <2>11. b + 1 \in E /\ x[b + 1] = o
    BY <1>7, <2>6, <2>9, <2>10
  <2> QED BY <1>20, <2>9, <2>11 DEF Reached
<1> QED BY <1>1, <1>17, <1>20, <1>21, <1>22

-----------------------------------------------------------------------------
(* The triggered events.                                                   *)

\* The photons of MCPMT i, and those of the event, in the window of a trigger.
InsideAt(m, i, tt) == {k \in DOMAIN m[i].photons : InWindow(m[i].photons[k].fet, tt)}
\* The same over the whole event.
Inside(m, tt) == {ik \in Photons(m) : InWindow(PhotonAt(m, ik).fet, tt)}

\* WindowHits are the front-end times of the photons in the window.
LEMMA WindowHitsAre ==
  ASSUME NEW m \in Seq(MCPMT), NEW i \in DOMAIN m, NEW tt
  PROVE  /\ WindowHits(m[i], tt) \in Seq(Int)
         /\ ToSet(WindowHits(m[i], tt)) = {m[i].photons[k].fet : k \in InsideAt(m, i, tt)}
         /\ IsFiniteSet(InsideAt(m, i, tt)) /\ Cardinality(InsideAt(m, i, tt)) \in Nat
         /\ Len(WindowHits(m[i], tt)) = Cardinality(InsideAt(m, i, tt))
         /\ WindowHits(m[i], tt) = <<>> <=> InsideAt(m, i, tt) = {}
<1>1. PICK s \in Seq(MCPhoton) : s = m[i].photons
  BY PhotonsAre
<1>2. PICK K : K = {k \in DOMAIN s : InWindow(s[k].fet, tt)}
  OBVIOUS
<1>3. K = InsideAt(m, i, tt) /\ K \in SUBSET DOMAIN s
  BY <1>1, <1>2 DEF InsideAt
<1>4. PICK own \in Seq(MCPhoton) :
         /\ own = Kept(s, K) /\ ToSet(own) = {s[k] : k \in K} /\ Len(own) = Cardinality(K) /\ IsFiniteSet(K)
  BY <1>3, KeptEntries
<1>5. PICK n \in Nat : n = Len(own) /\ DOMAIN own = 1..n
  OBVIOUS
<1>6. PICK t : t = WindowHits(m[i], tt)
  OBVIOUS
<1>7. t = [k \in 1..n |-> own[k].fet]
  BY <1>1, <1>2, <1>4, <1>5, <1>6 DEF WindowHits
<1>8. \A k \in 1..n : own[k].fet \in Int
  <2>1. \A ph \in MCPhoton : ph.fet \in Int
    BY DEF MCPhoton
  <2>2. \A k \in 1..n : own[k] \in MCPhoton
    BY <1>5
  <2> QED BY <2>1, <2>2
<1>9. t \in Seq(Int) /\ Len(t) = n /\ DOMAIN t = 1..n
  BY <1>7, <1>8
<1>10. ToSet(t) = {s[k].fet : k \in K}
  <2>1. ToSet(t) = {own[k].fet : k \in 1..n} /\ ToSet(own) = {own[k] : k \in 1..n}
    BY <1>5, <1>7, <1>9 DEF ToSet
  <2>2. ToSet(t) = {ph.fet : ph \in ToSet(own)}
    BY ONLY <2>1
  <2> QED BY <1>4, <2>2
<1>11. t = <<>> <=> K = {}
  <2>1. t = <<>> <=> n = 0
    BY <1>9
  <2>2. Cardinality(K) = 0 <=> K = {}
    BY <1>4, FS_EmptySet
  <2> QED BY <1>4, <1>5, <2>1, <2>2
<1>12. Cardinality(K) \in Nat
  BY <1>4, FS_CardinalityType
<1> QED BY <1>1, <1>3, <1>4, <1>5, <1>6, <1>9, <1>10, <1>11, <1>12

\* The number of photons in the window, as BuildEV adds it up.
ChargeOf(m, tt) ==
  MapThenSumSet(LAMBDA i : Len(WindowHits(m[i], tt)), {i \in DOMAIN m : WindowHits(m[i], tt) # <<>>})

\* The charge of an event is the number of photons in its window.
LEMMA ChargeIs ==
  ASSUME NEW m \in Seq(MCPMT), NEW tt
  PROVE  /\ ChargeOf(m, tt) = Cardinality(Inside(m, tt))
         /\ IsFiniteSet(Inside(m, tt)) /\ Cardinality(Inside(m, tt)) \in Nat
<1> DEFINE hit == {i \in DOMAIN m : WindowHits(m[i], tt) # <<>>}
           A == [i \in DOMAIN m |-> InsideAt(m, i, tt)]
           w == [i \in hit |-> Cardinality(A[i])]
           Step(g) == [s \in SUBSET hit |->
                         IF s = {} THEN 0
                         ELSE LET x == CHOOSE y \in s : TRUE IN Len(WindowHits(m[x], tt)) + g[s \ {x}]]
           it == CHOOSE g : g = Step(g)
<1>1. PICK n \in Nat : DOMAIN m = 1..n
  BY PhotonsAre
<1>2. \A i \in DOMAIN m : /\ IsFiniteSet(A[i]) /\ Cardinality(A[i]) \in Nat
                          /\ Len(WindowHits(m[i], tt)) = Cardinality(A[i])
                          /\ (i \in hit <=> A[i] # {})
  BY WindowHitsAre
<1>3. hit \in SUBSET DOMAIN m /\ IsFiniteSet(hit)
  <2>1. IsFiniteSet(1..n) /\ hit \in SUBSET (1..n)
    BY <1>1, FS_Interval
  <2> QED BY <1>1, <2>1, FS_Subset
<1>4. w \in [hit -> Nat] /\ \A i \in hit : w[i] = Len(WindowHits(m[i], tt)) /\ IsFiniteSet(A[i]) /\ w[i] = Cardinality(A[i])
  BY <1>2, <1>3
<1>5. Inside(m, tt) = PairsOf(A, hit)
  <2>1. ASSUME NEW ik \in Inside(m, tt) PROVE ik \in PairsOf(A, hit)
    <3>1. ik \in Photons(m) /\ InWindow(PhotonAt(m, ik).fet, tt)
      BY <2>1 DEF Inside
    <3>2. PICK i, k : ik = <<i, k>> /\ i \in DOMAIN m /\ k \in DOMAIN m[i].photons /\ PhotonAt(m, ik) = m[i].photons[k]
      BY <3>1, PhotonsAre
    <3>3. k \in A[i]
      BY <3>1, <3>2 DEF InsideAt
    <3>4. i \in hit
      BY <1>2, <3>2, <3>3
    <3> HIDE DEF A
    <3> QED BY <3>2, <3>3, <3>4 DEF PairsOf
  <2>2. ASSUME NEW ik \in PairsOf(A, hit) PROVE ik \in Inside(m, tt)
    <3>1. PICK i \in hit : \E k \in A[i] : ik = <<i, k>>
      <4> HIDE DEF A
      <4> QED BY <2>2 DEF PairsOf
    <3>a. PICK k \in A[i] : ik = <<i, k>>
      BY <3>1
    <3>2. i \in DOMAIN m /\ k \in DOMAIN m[i].photons /\ InWindow(m[i].photons[k].fet, tt)
      BY <1>3, <3>a DEF InsideAt
    <3>3. ik \in Photons(m) /\ PhotonAt(m, ik) = m[i].photons[k]
      BY <3>a, <3>2, PhotonsAre
    <3> QED BY <3>2, <3>3 DEF Inside
  <2> QED BY <2>1, <2>2
<1> HIDE DEF A, hit
<1> HIDE DEF w
<1>10. ASSUME NEW h PROVE h = Step(h) <=> SumsUp(h, hit, w)
  <2>1. ASSUME NEW s \in SUBSET hit, s # {}
        PROVE  Len(WindowHits(m[CHOOSE y \in s : TRUE], tt)) = w[CHOOSE y \in s : TRUE]
    BY <1>4, <2>1
  <2>2. Step(h) = [s \in SUBSET hit |-> IF s = {} THEN 0 ELSE LET x == CHOOSE y \in s : TRUE IN w[x] + h[s \ {x}]]
    BY <2>1
  <2> HIDE DEF Step
  <2> QED BY <2>2 DEF SumsUp
<1>11. SumOver(it, hit, w)
  <2>1. IsFiniteSet(hit) /\ w \in [hit -> Nat] /\ Nat \in {Nat, Int}
    BY <1>3, <1>4
  <2>2. (\E g : SumsUp(g, hit, w)) /\ \A g : SumsUp(g, hit, w) => SumOver(g, hit, w)
    BY ONLY <2>1, SumsUpIsSum
  <2>3. it = Step(it)
    <3> HIDE DEF Step
    <3> QED BY <1>10, <2>2
  <2> HIDE DEF Step, it
  <2> QED BY <1>10, <2>2, <2>3
<1>12. ChargeOf(m, tt) = it[hit]
  BY DEF ChargeOf, MapThenSumSet, MapThenFoldSet, hit
<1> HIDE DEF it
<1>13. IsSum(it, hit, w)
  BY <1>3, <1>4, <1>11 DEF IsSum
<1>14. w = [i \in hit |-> Cardinality(A[i])] /\ \A i \in hit : IsFiniteSet(A[i])
  BY <1>4
<1>15. IsFiniteSet(PairsOf(A, hit)) /\ Cardinality(PairsOf(A, hit)) = it[hit]
  BY ONLY <1>3, <1>13, <1>14, PairsAddUp
<1> QED BY <1>5, <1>12, <1>15, FS_CardinalityType

\* What an EV may be.
PMTResults == UNION {[ids -> [time : Int, charge : Nat]] : ids \in SUBSET PMTs}
EV == [id : Nat, time : Int, deltaT : Int, peak : Nat, pmts : PMTResults, charge : Nat]

\* The peak of the trigger signal in a window.
LEMMA PeakIs ==
  ASSUME NEW p \in Seq(Int), p # <<>>, DAQ \in DAQs, NEW tt
  PROVE  TriggerPeak(p, tt) \in Nat
<1> DEFINE hist == TriggerHistogram(p)
           ceil(t) == -((-t) \div Resolution)
           bins == {b \in DOMAIN hist :
                      /\ b >= ceil(tt - DAQ["lookback"] - Start(p))
                      /\ b <= Bin(p, tt + DAQ["trigger_window"])}
           S == {0} \cup {hist[b] : b \in bins}
           f == [b \in bins |-> hist[b]]
<1>1. TriggerPeak(p, tt) = Max(S)
  BY DEF TriggerPeak
<1>2. DOMAIN hist = 0 .. NBins(p) - 1
  BY DEF TriggerHistogram
<1>3. bins \in SUBSET (0 .. NBins(p) - 1)
  BY <1>2
<1>4. \A b \in 0 .. NBins(p) - 1 : hist[b] \in Nat
  BY HistogramIsSum
<1>5. IsFiniteSet(0 .. NBins(p) - 1)
  <2>1. NBins(p) \in Nat
    BY GridIs
  <2>2. PICK n \in Int : n = NBins(p) - 1
    BY <2>1
  <2> QED BY <2>2, FS_Interval
<1> HIDE DEF bins, hist
<1>6. S \in SUBSET Nat /\ 0 \in S
  BY <1>3, <1>4
<1>7. IsFiniteSet(S)
  <2>1. IsFiniteSet(bins)
    BY <1>3, <1>5, FS_Subset
  <2>2. f \in Surjection(bins, {hist[b] : b \in bins})
    BY DEF Surjection
  <2> HIDE DEF f
  <2>3. IsFiniteSet({hist[b] : b \in bins})
    BY <2>1, <2>2, FS_Surjection
  <2>4. IsFiniteSet({0})
    BY FS_Singleton
  <2> QED BY <2>3, <2>4, FS_Union
<1> HIDE DEF S
<1>8. Max(S) \in S
  BY <1>6, <1>7, Extremes
<1> QED BY <1>1, <1>6, <1>8

\* The MCPMTs of PMT q with a photon in the window.
Hit(m, tt, q) == {i \in DOMAIN m : WindowHits(m[i], tt) # <<>> /\ m[i].id = q}

\* What ev holds is what the window of tt holds.
HeldAt(ev, m, tt) ==
  /\ DOMAIN ev.pmts = {q \in PMTs : Hit(m, tt, q) # {}}
  /\ ev.charge = Cardinality(Inside(m, tt))
  /\ \A q \in DOMAIN ev.pmts : \E i \in Hit(m, tt, q) :
       /\ ev.pmts[q].time = Min(ToSet(WindowHits(m[i], tt))) - tt
       /\ ev.pmts[q].charge = Len(WindowHits(m[i], tt))

\* The fields of an event that is built.
IsBuilt(ev, m, tt, last, id) ==
  /\ ev \in EV /\ ev.id = id /\ ev.time = tt /\ ev.deltaT = tt - last
  /\ HeldAt(ev, m, tt)

\* What BuildEV makes of the photons in the window.
LEMMA BuildEVIs ==
  ASSUME NEW m \in Seq(MCPMT), NEW p \in Seq(Int), p # <<>>, DAQ \in DAQs,
         NEW tt \in Int, NEW last \in Int, NEW id \in Nat,
         NEW ev, ev = BuildEV(m, p, tt, last, id)
  PROVE  IsBuilt(ev, m, tt, last, id)
<1> DEFINE hit == {i \in DOMAIN m : WindowHits(m[i], tt) # <<>>}
           ids == {m[i].id : i \in hit}
           writer(q) == Max({i \in hit : m[i].id = q})
           pmts == [q \in ids |-> [time |-> Min(ToSet(WindowHits(m[writer(q)], tt))) - tt,
                                   charge |-> Len(WindowHits(m[writer(q)], tt))]]
<1>1. PICK n \in Nat : DOMAIN m = 1..n
  BY PhotonsAre
<1>2. \A i \in DOMAIN m : m[i].id \in PMTs
  BY PhotonsAre
<1>3. ids = {q \in PMTs : Hit(m, tt, q) # {}} /\ ids \in SUBSET PMTs
  BY <1>2 DEF Hit
<1>4. \A q : {i \in hit : m[i].id = q} = Hit(m, tt, q)
  BY DEF Hit
<1>5. ASSUME NEW q \in ids PROVE writer(q) \in Hit(m, tt, q)
  <2>1. Hit(m, tt, q) # {} /\ Hit(m, tt, q) \in SUBSET (1..n)
    BY <1>1, <1>3 DEF Hit
  <2>2. IsFiniteSet(1..n)
    <3>1. 1 \in Int /\ n \in Int
      OBVIOUS
    <3> QED BY ONLY <3>1, FS_Interval
  <2>3. IsFiniteSet(Hit(m, tt, q)) /\ Hit(m, tt, q) \in SUBSET Int
    <3>1. IsFiniteSet(Hit(m, tt, q))
      BY <2>1, <2>2, FS_Subset
    <3>2. 1..n \in SUBSET Int
      OBVIOUS
    <3> QED BY <2>1, <3>1, <3>2
  <2>4. Max(Hit(m, tt, q)) \in Hit(m, tt, q)
    BY <2>1, <2>3, Extremes
  <2> QED BY <1>4, <2>4
<1>6. PICK e : e = BuildEV(m, p, tt, last, id)
  OBVIOUS
<1>7. e = [id |-> id, time |-> tt, deltaT |-> tt - last, peak |-> TriggerPeak(p, tt), pmts |-> pmts,
           charge |-> ChargeOf(m, tt)]
  BY <1>6 DEF BuildEV, ChargeOf
<1> HIDE DEF writer, hit, ids
<1>8. ASSUME NEW q \in ids
      PROVE  /\ pmts[q] = [time |-> Min(ToSet(WindowHits(m[writer(q)], tt))) - tt,
                           charge |-> Len(WindowHits(m[writer(q)], tt))]
             /\ pmts[q] \in [time : Int, charge : Nat]
  <2>1. PICK i : i = writer(q)
    OBVIOUS
  <2>2. i \in DOMAIN m /\ WindowHits(m[i], tt) # <<>>
    BY <1>5, <2>1 DEF Hit
  <2>3. PICK t \in Seq(Int) : t = WindowHits(m[i], tt)
    BY <2>2, WindowHitsAre
  <2>4. Min(ToSet(t)) \in Int
    BY <2>2, <2>3, ListExtremes
  <2>5. pmts[q] = [time |-> Min(ToSet(t)) - tt, charge |-> Len(t)]
    BY <2>1, <2>3
  <2>6. Min(ToSet(t)) - tt \in Int /\ Len(t) \in Nat
    BY <2>4
  <2> HIDE DEF pmts
  <2> QED BY <2>1, <2>3, <2>5, <2>6
<1>9. DOMAIN pmts = ids
  OBVIOUS
<1>10. pmts = [q \in ids |-> pmts[q]]
  OBVIOUS
<1> HIDE DEF pmts
<1>11. pmts \in PMTResults
  <2>1. pmts \in [ids -> [time : Int, charge : Nat]]
    BY <1>8, <1>10
  <2> QED BY <1>3, <2>1 DEF PMTResults
<1>12. TriggerPeak(p, tt) \in Nat
  BY PeakIs
<1>13. ChargeOf(m, tt) = Cardinality(Inside(m, tt)) /\ ChargeOf(m, tt) \in Nat
  BY ChargeIs
<1>14. tt - last \in Int
  OBVIOUS
<1>15. e \in EV /\ e.id = id /\ e.time = tt /\ e.deltaT = tt - last /\ e.pmts = pmts
       /\ e.charge = Cardinality(Inside(m, tt))
  BY <1>7, <1>11, <1>12, <1>13, <1>14 DEF EV
<1>16. \A q \in DOMAIN e.pmts : \E i \in Hit(m, tt, q) :
         /\ e.pmts[q].time = Min(ToSet(WindowHits(m[i], tt))) - tt
         /\ e.pmts[q].charge = Len(WindowHits(m[i], tt))
  <2>1. ASSUME NEW q \in ids
        PROVE  \E i \in Hit(m, tt, q) :
                 /\ pmts[q].time = Min(ToSet(WindowHits(m[i], tt))) - tt
                 /\ pmts[q].charge = Len(WindowHits(m[i], tt))
    <3>1. PICK i \in Hit(m, tt, q) : i = writer(q)
      BY <1>5
    <3>2. pmts[q] = [time |-> Min(ToSet(WindowHits(m[i], tt))) - tt, charge |-> Len(WindowHits(m[i], tt))]
      BY <1>8, <3>1
    <3> QED BY <3>2
  <2> QED BY <1>9, <1>15, <2>1
<1>17. HeldAt(e, m, tt)
  BY <1>3, <1>9, <1>15, <1>16 DEF HeldAt
<1> QED BY <1>6, <1>15, <1>17 DEF IsBuilt

\* BuildEVs with the count of earlier events as a parameter.
EVsFrom(m, base) ==
  LET pulses == TrigPulses(m)
      times == IF pulses = <<>> THEN <<>> ELSE TriggerTimes(pulses)
  IN [k \in DOMAIN times |->
        BuildEV(m, pulses, times[k], IF k = 1 THEN 0 ELSE times[k - 1], base + k - 1)]

\* The times of the event's grid that are over threshold.
Over(m) == IF TrigPulses(m) = <<>> THEN {} ELSE OverThreshold(TrigPulses(m))

\* What is in ev is what the window holds.
HoldsItsHits(ev, m) == HeldAt(ev, m, ev.time)

\* e are the events of m, numbered from base.
EventsOf(e, m, base) ==
  /\ e \in Seq(EV)
  /\ \A k \in DOMAIN e :
       /\ e[k].id = base + k - 1 /\ e[k].time \in Over(m) /\ e[k].time \in Int
       /\ e[k].deltaT = e[k].time - (IF k = 1 THEN 0 ELSE e[k - 1].time)
       /\ HoldsItsHits(e[k], m)
  /\ \A a, b \in DOMAIN e : a < b => e[a].time + DeadTime < e[b].time
  /\ \A o \in Over(m) : \E k \in DOMAIN e : e[k].time <= o /\ o <= e[k].time + DeadTime

\* BuildEVs makes the events of the list.
LEMMA EVsAre ==
  ASSUME NEW m \in Seq(MCPMT), DAQ \in DAQs, fTriggerThreshold \in Int, NEW base \in Nat
  PROVE  EventsOf(EVsFrom(m, base), m, base)
<1>1. PICK p \in Seq(Int) : p = TrigPulses(m)
  BY TrigPulsesAre
<1>2. PICK e : e = EVsFrom(m, base)
  OBVIOUS
<1>3. CASE p = <<>>
  <2>1. e = <<>>
    BY <1>1, <1>2, <1>3 DEF EVsFrom
  <2>2. Over(m) = {}
    BY <1>1, <1>3 DEF Over
  <2>3. <<>> \in Seq(EV)
    OBVIOUS
  <2> QED BY <1>2, <2>1, <2>2, <2>3 DEF EventsOf
<1>4. CASE p # <<>>
  <2>1. PICK t \in Seq(Int) :
          /\ t = TriggerTimes(p)
          /\ \A a \in DOMAIN t : t[a] \in OverThreshold(p)
          /\ Spaced(t, DeadTime)
          /\ \A o \in OverThreshold(p) : \E a \in DOMAIN t : t[a] <= o /\ o <= t[a] + DeadTime
    BY <1>4, TriggerTimesAre
  <2>2. PICK n \in Nat : DOMAIN t = 1..n
    OBVIOUS
  <2>3. e = [k \in 1..n |-> BuildEV(m, p, t[k], IF k = 1 THEN 0 ELSE t[k - 1], base + k - 1)]
    BY <1>1, <1>2, <1>4, <2>1, <2>2 DEF EVsFrom
  <2>4. Over(m) = OverThreshold(p)
    BY <1>1, <1>4 DEF Over
  <2>5. ASSUME NEW k \in 1..n
        PROVE  /\ e[k] \in EV /\ e[k].id = base + k - 1 /\ e[k].time = t[k] /\ t[k] \in Int
               /\ e[k].deltaT = t[k] - (IF k = 1 THEN 0 ELSE t[k - 1])
               /\ HoldsItsHits(e[k], m)
    <3>1. PICK tt \in Int, last \in Int, id \in Nat :
            tt = t[k] /\ last = (IF k = 1 THEN 0 ELSE t[k - 1]) /\ id = base + k - 1
      <4>1. t[k] \in Int /\ (k # 1 => t[k - 1] \in Int)
        <5>1. k # 1 => k - 1 \in 1..n
          OBVIOUS
        <5> QED BY <2>2, <5>1
      <4>2. base + k - 1 \in Nat
        <5>1. \A b \in Nat, j \in Nat : j > 0 => b + j - 1 \in Nat
          OBVIOUS
        <5>2. k \in Nat /\ k > 0
          OBVIOUS
        <5> QED BY ONLY <5>1, <5>2, base \in Nat
      <4>3. (IF k = 1 THEN 0 ELSE t[k - 1]) \in Int
        BY <4>1
      <4> QED BY ONLY <4>1, <4>2, <4>3
    <3>2. PICK v : v = BuildEV(m, p, tt, last, id)
      OBVIOUS
    <3>3. e[k] = v
      BY <2>3, <3>1, <3>2
    <3>4. m \in Seq(MCPMT) /\ DAQ \in DAQs
      OBVIOUS
    <3>5. v \in EV /\ v.id = id /\ v.time = tt /\ v.deltaT = tt - last /\ HeldAt(v, m, tt)
      <4>1. IsBuilt(v, m, tt, last, id)
        BY ONLY <1>4, <3>2, <3>4, BuildEVIs, tt \in Int, last \in Int, id \in Nat, p \in Seq(Int)
      <4> QED BY ONLY <4>1 DEF IsBuilt
    <3>6. HoldsItsHits(v, m)
      BY <3>5 DEF HoldsItsHits
    <3> QED BY <3>1, <3>3, <3>5, <3>6
  <2>6. e \in Seq(EV) /\ DOMAIN e = 1..n
    <3>1. e = [k \in 1..n |-> e[k]]
      BY <2>3
    <3>2. \A k \in 1..n : e[k] \in EV
      BY <2>5
    <3>3. [k \in 1..n |-> e[k]] \in Seq(EV)
      BY ONLY <3>2, n \in Nat
    <3> QED BY ONLY <3>1, <3>3
  <2>7. ASSUME NEW k \in DOMAIN e
        PROVE  /\ e[k].id = base + k - 1 /\ e[k].time \in Over(m) /\ e[k].time \in Int
               /\ e[k].deltaT = e[k].time - (IF k = 1 THEN 0 ELSE e[k - 1].time)
               /\ HoldsItsHits(e[k], m)
    <3>1. k \in 1..n /\ (k # 1 => k - 1 \in 1..n)
      BY <2>6
    <3>2. e[k].time \in Over(m)
      <4>1. t[k] \in OverThreshold(p)
        BY <2>1, <2>2, <3>1
      <4>2. e[k].time = t[k]
        BY <2>5, <3>1
      <4> QED BY ONLY <2>4, <4>1, <4>2
    <3>3. k # 1 => e[k - 1].time = t[k - 1]
      BY <2>5, <3>1
    <3> QED BY <2>5, <3>1, <3>2, <3>3
  <2>8. \A a, b \in DOMAIN e : a < b => e[a].time + DeadTime < e[b].time
    <3>1. ASSUME NEW a \in DOMAIN e, NEW b \in DOMAIN e, a < b PROVE e[a].time + DeadTime < e[b].time
      <4>1. a \in DOMAIN t /\ b \in DOMAIN t
        BY <2>2, <2>6
      <4>2. t[a] + DeadTime < t[b]
        BY ONLY <2>1, <3>1, <4>1 DEF Spaced
      <4>3. e[a].time = t[a] /\ e[b].time = t[b]
        BY <2>5, <2>6
      <4> QED BY ONLY <4>2, <4>3
    <3> QED BY <3>1
  <2>9. \A o \in Over(m) : \E k \in DOMAIN e : e[k].time <= o /\ o <= e[k].time + DeadTime
    <3>1. ASSUME NEW o \in Over(m) PROVE \E k \in DOMAIN e : e[k].time <= o /\ o <= e[k].time + DeadTime
      <4>1. PICK k \in 1..n : t[k] <= o /\ o <= t[k] + DeadTime
        BY <2>1, <2>2, <2>4
      <4>2. k \in DOMAIN e /\ e[k].time = t[k]
        BY <2>5, <2>6
      <4> QED BY <4>1, <4>2
    <3> QED BY <3>1
  <2> QED BY <1>2, <2>6, <2>7, <2>8, <2>9 DEF EventsOf
<1> QED BY <1>3, <1>4

\* The sum of the deltaTs up to an event.
DeltaSum(e, k) == MapThenSumSet(LAMBDA n : e[n].deltaT, 1 .. k)

\* It is the event's time.
LEMMA DeltasAddUp ==
  ASSUME NEW e \in Seq(EV), NEW k \in DOMAIN e,
         \A j \in DOMAIN e : e[j].deltaT = e[j].time - (IF j = 1 THEN 0 ELSE e[j - 1].time)
  PROVE  DeltaSum(e, k) = e[k].time
<1> DEFINE D == 1..k
           w == [j \in D |-> e[j].deltaT]
           Step(g) == [s \in SUBSET D |->
                         IF s = {} THEN 0 ELSE LET x == CHOOSE y \in s : TRUE IN e[x].deltaT + g[s \ {x}]]
           it == CHOOSE g : g = Step(g)
<1>1. PICK n \in Nat : DOMAIN e = 1..n
  OBVIOUS
<1>2. k \in Nat \ {0} /\ \A j \in 1..k : j \in 1..n
  BY <1>1
<1>3. \A j \in 1..n : e[j].deltaT \in Int /\ e[j].time \in Int
  <2>1. \A ev \in EV : ev.deltaT \in Int /\ ev.time \in Int
    BY DEF EV
  <2>2. \A j \in 1..n : e[j] \in EV
    BY <1>1
  <2> QED BY <2>1, <2>2
<1>4. w \in [D -> Int] /\ \A j \in D : w[j] = e[j].deltaT
  BY <1>2, <1>3
<1>5. IsFiniteSet(D)
  BY <1>2, FS_Interval
<1> HIDE DEF w, D
<1>6. ASSUME NEW h PROVE h = Step(h) <=> SumsUp(h, D, w)
  <2>1. ASSUME NEW s \in SUBSET D, s # {}
        PROVE  e[CHOOSE y \in s : TRUE].deltaT = w[CHOOSE y \in s : TRUE]
    BY <1>4, <2>1
  <2>2. Step(h) = [s \in SUBSET D |-> IF s = {} THEN 0 ELSE LET x == CHOOSE y \in s : TRUE IN w[x] + h[s \ {x}]]
    BY <2>1
  <2> HIDE DEF Step
  <2> QED BY <2>2 DEF SumsUp
<1>7. SumOver(it, D, w)
  <2>1. Int \in {Nat, Int}
    OBVIOUS
  <2>2. (\E g : SumsUp(g, D, w)) /\ \A g : SumsUp(g, D, w) => SumOver(g, D, w)
    BY ONLY <1>4, <1>5, <2>1, SumsUpIsSum
  <2>3. it = Step(it)
    <3> HIDE DEF Step
    <3> QED BY <1>6, <2>2
  <2> HIDE DEF Step, it
  <2> QED BY <1>6, <2>2, <2>3
<1>8. DeltaSum(e, k) = it[D]
  BY DEF DeltaSum, MapThenSumSet, MapThenFoldSet, D
<1> HIDE DEF it
<1>9. it[{}] = 0 /\ \A s \in SUBSET D : \A x \in s : it[s] = it[s \ {x}] + w[x]
  <2>1. Int \in {Nat, Int} /\ w \in [D -> Int]
    BY <1>4
  <2>2. it[{}] = 0 /\ \A s \in SUBSET D : it[s] \in Int /\ \A x \in s : it[s] = it[s \ {x}] + w[x]
    BY ONLY <1>5, <1>7, <2>1, SumsTakeAny
  <2> QED BY ONLY <2>2
<1> DEFINE G == {j \in Nat : j <= k => it[1..j] = IF j = 0 THEN 0 ELSE e[j].time}
<1>10. 0 \in G
  <2>1. 1..0 = {}
    OBVIOUS
  <2> QED BY <1>9, <2>1
<1>11. ASSUME NEW j \in Nat, j \in G PROVE j + 1 \in G
  <2>1. SUFFICES ASSUME j + 1 <= k PROVE it[1..(j + 1)] = e[j + 1].time
    OBVIOUS
  <2>2. j + 1 \in 1..k /\ j + 1 \in 1..(j + 1) /\ (1..(j + 1)) \ {j + 1} = 1..j /\ 1..(j + 1) \in SUBSET (1..k)
    BY <1>2, <2>1
  <2>3. it[1..(j + 1)] = it[1..j] + w[j + 1]
    <3>1. 1..(j + 1) \in SUBSET D /\ j + 1 \in 1..(j + 1)
      BY <2>2 DEF D
    <3>2. it[1..(j + 1)] = it[(1..(j + 1)) \ {j + 1}] + w[j + 1]
      BY ONLY <1>9, <3>1
    <3> QED BY <2>2, <3>2
  <2>4. w[j + 1] = e[j + 1].deltaT /\ j + 1 \in 1..n
    BY <1>2, <1>4, <2>2 DEF D
  <2>5. e[j + 1].deltaT = e[j + 1].time - (IF j = 0 THEN 0 ELSE e[j].time)
    <3>1. (j + 1) - 1 = j /\ (j + 1 = 1 <=> j = 0)
      OBVIOUS
    <3> QED BY <1>1, <2>4, <3>1
  <2>6. it[1..j] = IF j = 0 THEN 0 ELSE e[j].time
    BY <1>11, <2>1
  <2>7. PICK a \in Int, b \in Int : a = e[j + 1].time /\ b = IF j = 0 THEN 0 ELSE e[j].time
    <3>1. e[j + 1].time \in Int /\ (j # 0 => e[j].time \in Int)
      <4>1. j # 0 => j \in 1..n
        BY <2>4
      <4> QED BY <1>3, <2>4, <4>1
    <3> QED BY <3>1
  <2>8. it[1..(j + 1)] = b + (a - b)
    BY <2>3, <2>4, <2>5, <2>6, <2>7
  <2>9. b + (a - b) = a
    OBVIOUS
  <2> QED BY <2>7, <2>8, <2>9
<1>12. Nat \subseteq G
  <2> HIDE DEF G
  <2> QED BY <1>10, <1>11, NumbersByInduction
<1>13. it[1..k] = e[k].time
  BY <1>2, <1>12
<1> QED BY <1>8, <1>13 DEF D

\* The photons of PMT q in the window of tt.
From(m, tt, q) == {ik \in Inside(m, tt) : m[ik[1]].id = q}

\* They are those of the MCPMTs of q.
LEMMA FromAre ==
  ASSUME NEW m \in Seq(MCPMT), NEW tt, NEW q
  PROVE  From(m, tt, q) = UNION {{<<i, k>> : k \in InsideAt(m, i, tt)} : i \in Hit(m, tt, q)}
<1>1. ASSUME NEW ik \in From(m, tt, q)
      PROVE  \E i \in Hit(m, tt, q) : \E k \in InsideAt(m, i, tt) : ik = <<i, k>>
  <2>1. ik \in Photons(m) /\ InWindow(PhotonAt(m, ik).fet, tt) /\ m[ik[1]].id = q
    BY DEF From, Inside
  <2>2. PICK i, k : ik = <<i, k>> /\ i \in DOMAIN m /\ k \in DOMAIN m[i].photons /\ PhotonAt(m, ik) = m[i].photons[k]
    BY <2>1, PhotonsAre
  <2>3. k \in InsideAt(m, i, tt)
    BY <2>1, <2>2 DEF InsideAt
  <2>4. WindowHits(m[i], tt) # <<>>
    BY <2>2, <2>3, WindowHitsAre
  <2>5. i \in Hit(m, tt, q)
    BY <2>1, <2>2, <2>4 DEF Hit
  <2> QED BY <2>2, <2>3, <2>5
<1>2. ASSUME NEW i \in Hit(m, tt, q), NEW k \in InsideAt(m, i, tt) PROVE <<i, k>> \in From(m, tt, q)
  <2>1. i \in DOMAIN m /\ m[i].id = q
    BY DEF Hit
  <2>2. k \in DOMAIN m[i].photons /\ InWindow(m[i].photons[k].fet, tt)
    BY DEF InsideAt
  <2>3. <<i, k>> \in Photons(m) /\ PhotonAt(m, <<i, k>>) = m[i].photons[k]
    BY <2>1, <2>2, PhotonsAre
  <2> QED BY <2>1, <2>2, <2>3 DEF From, Inside
<1> QED BY <1>1, <1>2

\* What EventContents says of an event.
Contents(ev, m) ==
  /\ DOMAIN ev.pmts = {q \in PMTs : From(m, ev.time, q) # {}}
  /\ ev.charge = Cardinality(Inside(m, ev.time))
  /\ \A q \in DOMAIN ev.pmts : Cardinality({i \in DOMAIN m : m[i].id = q}) = 1 =>
       /\ ev.pmts[q].charge = Cardinality(From(m, ev.time, q))
       /\ ev.pmts[q].time = Min({PhotonAt(m, ik).fet : ik \in From(m, ev.time, q)}) - ev.time

\* An event that holds its window has these contents.
LEMMA ContentsHold ==
  ASSUME NEW m \in Seq(MCPMT), NEW ev, HeldAt(ev, m, ev.time)
  PROVE  Contents(ev, m)
<1>1. PICK tt : tt = ev.time
  OBVIOUS
<1>2. \A q : Hit(m, tt, q) # {} <=> From(m, tt, q) # {}
  <2>1. ASSUME NEW q, NEW i \in Hit(m, tt, q) PROVE \E k : <<i, k>> \in From(m, tt, q)
    <3>1. i \in DOMAIN m /\ WindowHits(m[i], tt) # <<>>
      BY DEF Hit
    <3>2. PICK k \in InsideAt(m, i, tt) : TRUE
      BY <3>1, WindowHitsAre
    <3>3. <<i, k>> \in UNION {{<<j, l>> : l \in InsideAt(m, j, tt)} : j \in Hit(m, tt, q)}
      OBVIOUS
    <3> QED BY ONLY <3>3, FromAre, m \in Seq(MCPMT)
  <2>2. ASSUME NEW q, NEW ik \in From(m, tt, q) PROVE Hit(m, tt, q) # {}
    BY FromAre
  <2> QED BY <2>1, <2>2
<1>3. ASSUME NEW q \in DOMAIN ev.pmts, Cardinality({i \in DOMAIN m : m[i].id = q}) = 1
      PROVE  /\ ev.pmts[q].charge = Cardinality(From(m, tt, q))
             /\ ev.pmts[q].time = Min({PhotonAt(m, ik).fet : ik \in From(m, tt, q)}) - tt
  <2>1. PICK i \in Hit(m, tt, q) :
          /\ ev.pmts[q].time = Min(ToSet(WindowHits(m[i], tt))) - tt
          /\ ev.pmts[q].charge = Len(WindowHits(m[i], tt))
    BY <1>1 DEF HeldAt
  <2>2. i \in DOMAIN m /\ m[i].id = q
    BY DEF Hit
  <2>3. Hit(m, tt, q) = {i}
    <3>1. PICK S : S = {j \in DOMAIN m : m[j].id = q}
      OBVIOUS
    <3>2. IsFiniteSet(S)
      <4>1. Len(m) \in Nat /\ S \in SUBSET (1..Len(m))
        BY <3>1, PhotonsAre
      <4>2. PICK n \in Int : n = Len(m)
        BY <4>1
      <4>3. IsFiniteSet(1..n)
        BY FS_Interval
      <4> QED BY <4>1, <4>2, <4>3, FS_Subset
    <3>3. \E x : S = {x}
      BY <1>3, <3>1, <3>2, FS_Singleton
    <3>4. i \in S /\ Hit(m, tt, q) \subseteq S
      BY <2>2, <3>1 DEF Hit
    <3> QED BY <3>3, <3>4
  <2>4. From(m, tt, q) = {<<i, k>> : k \in InsideAt(m, i, tt)}
    BY <2>3, FromAre
  <2>5. /\ ToSet(WindowHits(m[i], tt)) = {m[i].photons[k].fet : k \in InsideAt(m, i, tt)}
        /\ IsFiniteSet(InsideAt(m, i, tt))
        /\ Len(WindowHits(m[i], tt)) = Cardinality(InsideAt(m, i, tt))
    BY <2>2, WindowHitsAre
  <2>6. Cardinality(From(m, tt, q)) = Cardinality(InsideAt(m, i, tt))
    <3>1. PICK K, F : K = InsideAt(m, i, tt) /\ F = From(m, tt, q)
      OBVIOUS
    <3>2. PICK f : f = [k \in K |-> <<i, k>>]
      OBVIOUS
    <3>3. F = {<<i, k>> : k \in K}
      BY <2>4, <3>1
    <3>4. f \in Bijection(K, F)
      BY ONLY <3>2, <3>3 DEF Bijection, Injection, Surjection, IsInjective
    <3>5. IsFiniteSet(K)
      BY <2>5, <3>1
    <3>6. Cardinality(F) = Cardinality(K)
      <4>1. ExistsBijection(K, F)
        BY ONLY <3>4 DEF ExistsBijection
      <4> QED BY ONLY <3>5, <4>1, FS_Bijection
    <3> QED BY <3>1, <3>6
  <2>7. {PhotonAt(m, ik).fet : ik \in From(m, tt, q)} = ToSet(WindowHits(m[i], tt))
    <3>1. \A k \in InsideAt(m, i, tt) : PhotonAt(m, <<i, k>>) = m[i].photons[k]
      BY DEF PhotonAt
    <3>2. {PhotonAt(m, ik).fet : ik \in From(m, tt, q)} = {PhotonAt(m, <<i, k>>).fet : k \in InsideAt(m, i, tt)}
      BY ONLY <2>4
    <3>3. {PhotonAt(m, <<i, k>>).fet : k \in InsideAt(m, i, tt)} = {m[i].photons[k].fet : k \in InsideAt(m, i, tt)}
      BY ONLY <3>1
    <3> QED BY ONLY <2>5, <3>2, <3>3
  <2> QED BY <2>1, <2>5, <2>6, <2>7
<1> QED BY <1>1, <1>2, <1>3 DEF HeldAt, Contents

\* No photon is in the windows of two events when the lookback is no longer
\* than the trigger lockout.
LEMMA OneWindowEach ==
  ASSUME NEW e \in Seq(EV), DAQ \in DAQs, DAQ["lookback"] <= DAQ["trigger_lockout"], NEW t \in Int,
         \A a, b \in DOMAIN e : a < b => e[a].time + DeadTime < e[b].time
  PROVE  Cardinality({k \in DOMAIN e : InWindow(t, e[k].time)}) <= 1
<1>1. PICK K : K = {k \in DOMAIN e : InWindow(t, e[k].time)}
  OBVIOUS
<1>2. ASSUME NEW a \in K, NEW b \in K, a < b PROVE FALSE
  <2>1. PICK w \in Nat, l \in Nat, d \in Nat : w = DAQ["trigger_window"] /\ l = DAQ["trigger_lockout"] /\ d = DAQ["lookback"]
    BY DAQAssumption
  <2>2. PICK x \in Int, y \in Int : x = e[a].time /\ y = e[b].time
    <3>1. \A ev \in EV : ev.time \in Int
      BY DEF EV
    <3>2. e[a] \in EV /\ e[b] \in EV
      BY <1>1
    <3> QED BY <3>1, <3>2
  <2>3. InWindow(t, x) /\ InWindow(t, y)
    BY <1>1, <2>2
  <2>4. y - d < t /\ t < x + w
    BY <2>1, <2>3 DEF InWindow
  <2>5. x + (w + l) < y
    BY <1>1, <1>2, <2>1, <2>2 DEF DeadTime
  <2>6. d <= l
    BY <2>1
  <2> QED BY ONLY <2>4, <2>5, <2>6, x \in Int, y \in Int, t \in Int, w \in Nat, l \in Nat, d \in Nat
<1>3. K \in SUBSET Int
  <2>1. PICK n \in Nat : DOMAIN e = 1..n
    OBVIOUS
  <2> QED BY <1>1, <2>1
<1>4. K = {} \/ \E x : K = {x}
  <2>1. ASSUME NEW x \in K, NEW y \in K PROVE x = y
    <3>1. x \in Int /\ y \in Int
      BY <1>3
    <3>2. ~(x < y) /\ ~(y < x)
      BY <1>2
    <3> QED BY ONLY <3>1, <3>2
  <2>2. CASE K # {}
    <3>1. PICK x \in K : TRUE
      BY <2>2
    <3>2. K = {x}
      BY ONLY <2>1, x \in K
    <3> QED BY <3>2
  <2> QED BY <2>2
<1>5. Cardinality({}) = 0 /\ \A x : Cardinality({x}) = 1
  BY FS_EmptySet, FS_Singleton
<1>6. Cardinality(K) = 0 \/ Cardinality(K) = 1
  BY ONLY <1>4, <1>5
<1> QED BY <1>1, <1>6

\* The events of the list hold what EventContents says.
LEMMA EventContentsHolds ==
  ASSUME mc \in Seq(MCPMT), DAQ \in DAQs, NEW base, EventsOf(evs, mc, base)
  PROVE  EventContents
<1>1. evs \in Seq(EV) /\ (\A k \in DOMAIN evs : HoldsItsHits(evs[k], mc))
      /\ \A a, b \in DOMAIN evs : a < b => evs[a].time + DeadTime < evs[b].time
  BY DEF EventsOf
<1>2. \A k \in DOMAIN evs : Contents(evs[k], mc)
  BY <1>1, ContentsHold DEF HoldsItsHits
<1>3. ASSUME NEW k \in DOMAIN evs
      PROVE  LET inside == {ik \in Photons(mc) :
                              /\ evs[k].time - DAQ["lookback"] < PhotonAt(mc, ik).fet
                              /\ PhotonAt(mc, ik).fet < evs[k].time + DAQ["trigger_window"]}
                 of(p) == {ik \in inside : mc[ik[1]].id = p}
             IN /\ DOMAIN evs[k].pmts = {p \in PMTs : of(p) # {}}
                /\ evs[k].charge = Cardinality(inside)
                /\ \A p \in DOMAIN evs[k].pmts :
                     Cardinality({i \in DOMAIN mc : mc[i].id = p}) = 1 =>
                       /\ evs[k].pmts[p].charge = Cardinality(of(p))
                       /\ evs[k].pmts[p].time =
                            Min({PhotonAt(mc, ik).fet : ik \in of(p)}) - evs[k].time
  <2> DEFINE inside == {ik \in Photons(mc) :
                          /\ evs[k].time - DAQ["lookback"] < PhotonAt(mc, ik).fet
                          /\ PhotonAt(mc, ik).fet < evs[k].time + DAQ["trigger_window"]}
             of(p) == {ik \in inside : mc[ik[1]].id = p}
  <2>1. inside = Inside(mc, evs[k].time)
    BY DEF Inside, InWindow
  <2> HIDE DEF inside
  <2>2. \A p : of(p) = From(mc, evs[k].time, p)
    BY <2>1 DEF From
  <2> HIDE DEF of
  <2>3. Contents(evs[k], mc)
    BY <1>2
  <2>4. /\ DOMAIN evs[k].pmts = {p \in PMTs : of(p) # {}}
        /\ evs[k].charge = Cardinality(inside)
        /\ \A p \in DOMAIN evs[k].pmts :
             Cardinality({i \in DOMAIN mc : mc[i].id = p}) = 1 =>
               /\ evs[k].pmts[p].charge = Cardinality(of(p))
               /\ evs[k].pmts[p].time = Min({PhotonAt(mc, ik).fet : ik \in of(p)}) - evs[k].time
    BY <2>1, <2>2, <2>3 DEF Contents
  <2> QED BY <2>4 DEF of, inside
<1>4. ASSUME DAQ["lookback"] <= DAQ["trigger_lockout"], NEW ik \in Photons(mc)
      PROVE  Cardinality({k \in DOMAIN evs : InWindow(PhotonAt(mc, ik).fet, evs[k].time)}) <= 1
  <2>1. PICK t \in Int : t = PhotonAt(mc, ik).fet
    <3>1. PhotonAt(mc, ik) \in MCPhoton
      BY PhotonsAre
    <3> QED BY <3>1 DEF MCPhoton
  <2> QED BY <1>1, <1>4, <2>1, OneWindowEach
<1> QED BY <1>3, <1>4 DEF EventContents

\* The events of the list are those EventsSplitRight asks for.
LEMMA EventsSplitRightHolds ==
  ASSUME mc \in Seq(MCPMT), DAQ \in DAQs, NEW base \in Nat, EventsOf(evs, mc, base),
         fEventCounter = base + Len(evs)
  PROVE  EventsSplitRight
<1>1. /\ evs \in Seq(EV)
      /\ \A k \in DOMAIN evs :
           /\ evs[k].id = base + k - 1 /\ evs[k].time \in Over(mc) /\ evs[k].time \in Int
           /\ evs[k].deltaT = evs[k].time - (IF k = 1 THEN 0 ELSE evs[k - 1].time)
      /\ \A a, b \in DOMAIN evs : a < b => evs[a].time + DeadTime < evs[b].time
      /\ \A o \in Over(mc) : \E k \in DOMAIN evs : evs[k].time <= o /\ o <= evs[k].time + DeadTime
  BY DEF EventsOf
<1>2. PICK n \in Nat : DOMAIN evs = 1..n /\ Len(evs) = n
  BY <1>1
<1>3. TriggersJustified
  <2> DEFINE pulses == TrigPulses(mc)
             over == IF pulses = <<>> THEN {}
                     ELSE {t \in Start(pulses) .. End(pulses) : Floor(t) = t /\ SumAt(pulses, t) >= fTriggerThreshold}
  <2>1. over = Over(mc)
    BY DEF Over, OverThreshold
  <2>2. ASSUME NEW k \in DOMAIN evs, k > 1 PROVE evs[k].time - evs[k - 1].time > DeadTime
    <3>1. k - 1 \in DOMAIN evs /\ k - 1 < k
      BY <1>2, <2>2
    <3>2. PICK x \in Int, y \in Int : x = evs[k - 1].time /\ y = evs[k].time
      BY <1>1, <3>1
    <3>3. PICK d \in Nat : d = DeadTime
      BY DAQTyped
    <3>4. x + d < y
      BY <1>1, <3>1, <3>2, <3>3
    <3> QED BY <3>2, <3>3, <3>4
  <2> HIDE DEF over
  <2>3. /\ \A k \in DOMAIN evs : evs[k].time \in over
        /\ \A k \in DOMAIN evs : k > 1 => evs[k].time - evs[k - 1].time > DeadTime
        /\ \A t \in over : \E k \in DOMAIN evs : evs[k].time <= t /\ t <= evs[k].time + DeadTime
    BY <1>1, <2>1, <2>2
  <2> QED BY <2>3 DEF over, TriggersJustified
<1>4. EventsNumbered
  <2>1. ASSUME NEW k \in DOMAIN evs PROVE evs[k].id = fEventCounter - Len(evs) + k - 1
    <3>1. evs[k].id = base + k - 1 /\ fEventCounter = base + n /\ k \in Int
      BY <1>1, <1>2
    <3> QED BY <1>2, <3>1
  <2>2. \A j \in DOMAIN evs : evs[j].deltaT = evs[j].time - (IF j = 1 THEN 0 ELSE evs[j - 1].time)
    BY <1>1
  <2>3. ASSUME NEW k \in DOMAIN evs PROVE evs[k].time = MapThenSumSet(LAMBDA l : evs[l].deltaT, 1 .. k)
    <3>1. DeltaSum(evs, k) = evs[k].time
      BY ONLY <1>1, <2>2, DeltasAddUp, k \in DOMAIN evs
    <3> QED BY <3>1 DEF DeltaSum
  <2> QED BY <2>1, <2>3 DEF EventsNumbered
<1> QED BY <1>3, <1>4 DEF EventsSplitRight

-----------------------------------------------------------------------------
(* Between triggers the parameters stay, and with them what an event is.   *)

\* The events of a list are the same while the parameters are.
LEMMA SameEvents ==
  ASSUME DAQ' = DAQ, fTriggerThreshold' = fTriggerThreshold, NEW e, NEW m, NEW base
  PROVE  EventsOf(e, m, base)' <=> EventsOf(e, m, base)
<1>1. DeadTime' = DeadTime /\ Resolution' = Resolution
  BY DEF DeadTime, Resolution
<1>2. \A t : Floor(t)' = Floor(t)
  BY <1>1 DEF Floor
<1>3. \A s : PMTPulses(s)' = PMTPulses(s)
  BY DEF PMTPulses, Triggering, FoldLeft, MapThenFoldSet
<1>4. \A p : Start(p)' = Start(p)
  BY <1>2 DEF Start
<1>5. \A p : End(p)' = End(p)
  BY <1>1, <1>2, <1>4 DEF End
<1>6. TrigPulses(m)' = TrigPulses(m)
  <2>1. [i \in DOMAIN m |-> PMTPulses(m[i].photons)'] = [i \in DOMAIN m |-> PMTPulses(m[i].photons)]
    BY <1>3
  <2> QED BY <2>1 DEF TrigPulses
<1>7. \A p, t : SumAt(p, t)' = SumAt(p, t)
  BY <1>1, <1>2, <1>5 DEF SumAt
<1>8. \A p : OverThreshold(p)' = OverThreshold(p)
  BY <1>2, <1>4, <1>5, <1>7 DEF OverThreshold
<1>9. Over(m)' = Over(m)
  BY <1>6, <1>8 DEF Over
<1>10. \A t, tt : InWindow(t, tt)' <=> InWindow(t, tt)
  BY DEF InWindow
<1>11. \A x, tt : WindowHits(x, tt)' = WindowHits(x, tt)
  BY DEF WindowHits, InWindow
<1>12. \A tt : Inside(m, tt)' = Inside(m, tt) /\ \A q : Hit(m, tt, q)' = Hit(m, tt, q)
  BY <1>10, <1>11 DEF Inside, Hit
<1>13. \A ev : HoldsItsHits(ev, m)' <=> HoldsItsHits(ev, m)
  BY <1>11, <1>12 DEF HoldsItsHits, HeldAt
<1> QED BY <1>1, <1>9, <1>13 DEF EventsOf

-----------------------------------------------------------------------------
(* The inductive invariant.                                                *)

\* Every photon is smeared by PickTime, and the real ones are Gsim's.
Smeared(m) ==
  \A v \in Values(m) : v.fet - v.hit \in Jitter /\ (v.kind = "real" => FirstTime + v.fet \in Nat)

\* The values have their types.
Types ==
  /\ mc \in Seq(MCPMT) /\ Smeared(mc)
  /\ fNearHits \in NearHits /\ noisy \in BOOLEAN /\ hits \in Nat /\ inWindow \in Nat
  /\ numDark \in Nat \cup {Uninitialised} /\ windows \in Seq(Window)
  /\ objects0 \in [PMTs -> 0 .. Len(mc)] /\ objects \in [PMTs -> 0 .. Len(mc)]
  /\ eventTime \in Nat /\ eventTime >= FirstTime /\ saturates \in BOOLEAN /\ memory \in [PMTs -> Seq(Nat)]
  /\ DAQ \in DAQs /\ dbThreshold \in Thresholds /\ fTriggerThreshold \in Thresholds
  /\ fEventCounter \in Nat /\ evs \in Seq(EV)
  /\ chain \in Chains /\ phase \in {"macro", "idle", "chain"} /\ at \in 1 .. Len(chain) + 1
  /\ events \in 0 .. MaxEvents /\ rereads \in 0 .. MaxRereads

\* The noise processor works in its place in the block, and leaves no indices.
Places ==
  /\ noisy => Running("noise")
  /\ ~noisy => objects0 = [p \in PMTs |-> 0] /\ objects = [p \in PMTs |-> 0]

\* The dark hits are those counted so far, and then numDarkHits.
Counts ==
  /\ noisy => hits = CountIn(mc, "dark")
  /\ Ran("noise") => numDark = CountIn(mc, "dark")

\* A time that is no further from a hit that is not dark than the look times.
NearReal(x, m) == \E w \in Values(m) : w.kind # "dark" /\ x - w.hit \in -WindowGap .. WindowGap

\* The times of the windows, and the dark hits drawn from them, are near hits.
NearHitsOnly ==
  noisy /\ fNearHits =>
    /\ \A i \in DOMAIN windows : \A x \in windows[i][1] .. windows[i][2] : NearReal(x, mc)
    /\ \A v \in Values(mc) : v.kind = "dark" => NearReal(v.hit, mc)

\* The lists are in order since the after-pulse processor sorted them.
SortedAfter == Ran("afterpulse") => Sorted(mc)

\* The after-pulses are those remembered near the hits.
DetectedAll == Done("afterpulse") => \A p \in PMTs : Seen(mc, p) = Remembered(mc, memory, p)

\* The events are those of the list, numbered from the counter before.
Built ==
  Done("splitevdaq") =>
    \E base \in Nat : fEventCounter = base + Len(evs) /\ EventsOf(evs, mc, base)

\* The inductive invariant.
DaqInv == Types /\ Places /\ Counts /\ NearHitsOnly /\ SortedAfter /\ DetectedAll /\ Built

\* The times of after-pulses are the same while the event's is.
LEMMA SameAfterPulses ==
  ASSUME eventTime' = eventTime, saturates' = saturates, NEW m, NEW mem, NEW p
  PROVE  Seen(m, p)' = Seen(m, p) /\ Remembered(m, mem, p)' = Remembered(m, mem, p)
<1>1. \A ap, v : Near(ap, v)' <=> Near(ap, v)
  BY DEF Near, ToUInt64
<1> QED BY <1>1 DEF Seen, Remembered

\* The types of TypeOK.
LEMMA TypesSuffice ==
  ASSUME Types PROVE TypeOK
<1>1. MCTypeOK
  <2>1. \A ik \in Photons(mc) : PhotonAt(mc, ik) \in Values(mc)
    BY DEF Values
  <2> QED BY <2>1 DEF Types, Smeared, MCTypeOK
<1>2. NoiseTypeOK
  <2>1. \A i \in DOMAIN windows : windows[i][1] <= windows[i][2]
    <3>1. \A w \in Window : w[1] <= w[2]
      BY DEF Window
    <3>2. \A i \in DOMAIN windows : windows[i] \in Window
      BY DEF Types
    <3> QED BY <3>1, <3>2
  <2> QED BY <2>1 DEF Types, NoiseTypeOK
<1>3. \A ev \in EV : IsEV(ev)
  <2>1. ASSUME NEW ev \in EV PROVE IsEV(ev)
    <3>1. /\ ev.id \in Nat /\ ev.peak \in Nat /\ ev.charge \in Nat /\ ev.time \in Int /\ ev.deltaT \in Int
          /\ ev.pmts \in PMTResults
      BY DEF EV
    <3>2. PICK ids \in SUBSET PMTs : ev.pmts \in [ids -> [time : Int, charge : Nat]]
      BY <3>1 DEF PMTResults
    <3>3. PICK r : r = ev.pmts
      OBVIOUS
    <3>4. DOMAIN r \subseteq PMTs /\ r \in [DOMAIN r -> [time : Int, charge : Nat]]
      BY <3>2, <3>3
    <3> QED BY <3>1, <3>3, <3>4 DEF IsEV
  <2> QED BY <2>1
<1>4. \A k \in DOMAIN evs : IsEV(evs[k])
  BY <1>3 DEF Types
<1> QED BY <1>1, <1>2, <1>4 DEF Types, TypeOK

\* What AfterPulsesDetected says, of photons.
LEMMA AfterPulsesStated ==
  ASSUME mc \in Seq(MCPMT), DetectedAll
  PROVE  AfterPulsesDetected
<1>1. ASSUME Done("afterpulse"), NEW p \in PMTs
      PROVE  LET own(after) == {ik \in Photons(mc) : /\ mc[ik[1]].id = p
                                                     /\ (PhotonAt(mc, ik).kind = "after") = after}
                 seen == {PhotonAt(mc, ik).hit + eventTime : ik \in own(TRUE)}
             IN seen = {ap \in ToSet(memory[p]) : \E ik \in own(FALSE) : Near(ap, PhotonAt(mc, ik))}
  <2> DEFINE own(after) == {ik \in Photons(mc) : /\ mc[ik[1]].id = p
                                                 /\ (PhotonAt(mc, ik).kind = "after") = after}
             U == UNION {ToSet(mc[i].photons) : i \in {j \in DOMAIN mc : mc[j].id = p}}
  <2>1. ASSUME NEW ik \in Photons(mc), mc[ik[1]].id = p PROVE PhotonAt(mc, ik) \in U
    <3>1. ik[1] \in DOMAIN mc /\ ik[2] \in DOMAIN mc[ik[1]].photons /\ PhotonAt(mc, ik) = mc[ik[1]].photons[ik[2]]
      BY PhotonsAre
    <3>2. PhotonAt(mc, ik) \in ToSet(mc[ik[1]].photons)
      BY <3>1 DEF ToSet
    <3> QED BY <2>1, <3>1, <3>2
  <2>2. ASSUME NEW v \in U PROVE \E ik \in Photons(mc) : mc[ik[1]].id = p /\ PhotonAt(mc, ik) = v
    <3>1. PICK i \in DOMAIN mc : mc[i].id = p /\ v \in ToSet(mc[i].photons)
      OBVIOUS
    <3>2. PICK k \in DOMAIN mc[i].photons : v = mc[i].photons[k]
      BY <3>1 DEF ToSet
    <3>3. <<i, k>> \in Photons(mc) /\ PhotonAt(mc, <<i, k>>) = v
      BY <3>2, PhotonsAre
    <3> QED BY <3>1, <3>3
  <2> HIDE DEF U
  <2>3. \A ik : ik \in own(TRUE) <=> ik \in Photons(mc) /\ mc[ik[1]].id = p /\ PhotonAt(mc, ik).kind = "after"
    BY Zenon
  <2>4. \A ik : ik \in own(FALSE) <=> ik \in Photons(mc) /\ mc[ik[1]].id = p /\ PhotonAt(mc, ik).kind # "after"
    BY Zenon
  <2> HIDE DEF own
  <2>5. {PhotonAt(mc, ik).hit + eventTime : ik \in own(TRUE)}
          = {v.hit + eventTime : v \in {u \in U : u.kind = "after"}}
    <3>1. {PhotonAt(mc, ik) : ik \in own(TRUE)} = {u \in U : u.kind = "after"}
      BY <2>1, <2>2, <2>3
    <3>2. {PhotonAt(mc, ik).hit + eventTime : ik \in own(TRUE)}
            = {v.hit + eventTime : v \in {PhotonAt(mc, ik) : ik \in own(TRUE)}}
      OBVIOUS
    <3> QED BY ONLY <3>1, <3>2
  <2>6. \A ap : (\E ik \in own(FALSE) : Near(ap, PhotonAt(mc, ik))) <=> (\E v \in U : v.kind # "after" /\ Near(ap, v))
    BY <2>1, <2>2, <2>4
  <2>7. Seen(mc, p) = Remembered(mc, memory, p)
    BY <1>1 DEF DetectedAll
  <2>8. Seen(mc, p) = {v.hit + eventTime : v \in {u \in U : u.kind = "after"}}
    BY DEF Seen, U
  <2>9. Remembered(mc, memory, p) = {ap \in ToSet(memory[p]) : \E v \in U : v.kind # "after" /\ Near(ap, v)}
    BY DEF Remembered, U
  <2>10. {PhotonAt(mc, ik).hit + eventTime : ik \in own(TRUE)}
           = {ap \in ToSet(memory[p]) : \E ik \in own(FALSE) : Near(ap, PhotonAt(mc, ik))}
    BY ONLY <2>5, <2>6, <2>7, <2>8, <2>9
  <2> QED BY <2>10 DEF own
<1> QED BY <1>1 DEF AfterPulsesDetected

\* What NoiseAsAsked says, of photons.
LEMMA NoiseStated ==
  ASSUME mc \in Seq(MCPMT), Counts, NearHitsOnly
  PROVE  NoiseAsAsked
<1>1. DarkHitsCounted
  BY DEF Counts, DarkHitsCounted, CountKind, CountIn
<1>2. ASSUME noisy, fNearHits, NEW ik \in Photons(mc), PhotonAt(mc, ik).kind = "dark"
      PROVE  \E jl \in Photons(mc) :
               /\ PhotonAt(mc, jl).kind # "dark"
               /\ PhotonAt(mc, ik).hit - PhotonAt(mc, jl).hit \in -WindowGap .. WindowGap
  <2>1. PhotonAt(mc, ik) \in Values(mc)
    BY DEF Values
  <2>2. NearReal(PhotonAt(mc, ik).hit, mc)
    BY <1>2, <2>1 DEF NearHitsOnly
  <2>3. PICK w \in Values(mc) : w.kind # "dark" /\ PhotonAt(mc, ik).hit - w.hit \in -WindowGap .. WindowGap
    BY <2>2 DEF NearReal
  <2>4. PICK jl \in Photons(mc) : w = PhotonAt(mc, jl)
    BY <2>3 DEF Values
  <2> QED BY <2>3, <2>4
<1> QED BY <1>1, <1>2 DEF NoiseNearHits, NoiseAsAsked

-----------------------------------------------------------------------------
(* The steps between processors.                                           *)

\* The processors of the block.
LEMMA ChainsAre ==
  ASSUME Types
  PROVE  /\ Len(chain) \in Nat /\ DOMAIN chain = 1..Len(chain) /\ at \in 1 .. Len(chain) + 1
         /\ \A k \in 1..Len(chain) : chain[k] \in {"noise", "afterpulse", "splitevdaq"}
         /\ \A k, l \in 1..Len(chain) : chain[k] = chain[l] => k = l
<1>1. chain \in Seq({"noise", "afterpulse", "splitevdaq"}) /\ \A k, l \in DOMAIN chain : chain[k] = chain[l] => k = l
  BY ChainAssumption DEF Types
<1> QED BY <1>1 DEF Types

\* A processor that is running has not run before in the event.
LEMMA OnlyOnce ==
  ASSUME Types, NEW q, Running(q)
  PROVE  ~Ran(q)
<1>1. at \in 1..Len(chain) /\ chain[at] = q
  BY ChainsAre DEF Running
<1>2. ASSUME NEW k \in 1 .. at - 1 PROVE chain[k] # q
  <2>1. k \in 1..Len(chain) /\ k # at
    BY <1>1, ChainsAre
  <2> QED BY <1>1, <2>1, ChainsAre
<1> QED BY <1>2 DEF Ran

\* The block moves on to the next processor.
LEMMA MovesOn ==
  ASSUME Types, NEW q, Running(q), NextProcessor
  PROVE  /\ at' \in 1 .. Len(chain') + 1
         /\ \A proc : Ran(proc)' => Ran(proc) \/ proc = q
         /\ \A proc : Done(proc)' => proc = q
         /\ UNCHANGED <<chain, phase, events, rereads>>
<1>1. at \in 1..Len(chain) /\ chain[at] = q /\ Len(chain) \in Nat
  BY ChainsAre DEF Running
<1>2. at' = at + 1 /\ UNCHANGED <<chain, phase, events, rereads>>
  BY DEF NextProcessor
<1>3. at' \in 1 .. Len(chain') + 1 /\ at' - 1 = at
  BY <1>1, <1>2
<1>4. ASSUME NEW proc, Ran(proc)' PROVE Ran(proc) \/ proc = q
  <2>1. PICK k \in 1..at : chain[k] = proc
    BY <1>2, <1>3, <1>4 DEF Ran
  <2>2. k = at \/ k \in 1 .. at - 1
    BY <1>1
  <2> QED BY <1>1, <2>1, <2>2 DEF Ran
<1>5. \A proc : Done(proc)' => proc = q
  BY <1>1, <1>2, <1>3 DEF Done
<1> QED BY <1>2, <1>3, <1>4, <1>5

\* Outside the block, and beyond its last processor, no noise is added.
LEMMA QuietOutside ==
  ASSUME Types, Places, phase # "chain" \/ at > Len(chain)
  PROVE  noisy = FALSE
<1>1. ~noisy
  BY ChainsAre DEF Places, Running
<1> QED BY <1>1 DEF Types

\* The indices a noise processor leaves when it returns.
NoIndices == [p \in PMTs |-> 0]

\* The initial states.
LEMMA DaqInit ==
  ASSUME Init PROVE DaqInv
<1>1. Photons(<<>>) = {}
  BY DEF Photons
<1>2. Values(<<>>) = {}
  BY <1>1 DEF Values
<1>3. chain \in Seq({"noise", "afterpulse", "splitevdaq"})
  BY ChainAssumption DEF Init
<1>4. Types
  <2>1. Smeared(mc)
    BY <1>2 DEF Init, Smeared
  <2>2. mc \in Seq(MCPMT) /\ evs \in Seq(EV) /\ windows \in Seq(Window) /\ Len(mc) = 0
    BY DEF Init, NoiseInit
  <2>3. objects0 \in [PMTs -> 0 .. Len(mc)] /\ objects \in [PMTs -> 0 .. Len(mc)]
    BY <2>2 DEF Init, NoiseInit
  <2>4. memory \in [PMTs -> Seq(Nat)]
    BY DEF Init
  <2>5. at \in 1 .. Len(chain) + 1 /\ events \in 0 .. MaxEvents /\ rereads \in 0 .. MaxRereads
    BY <1>3, ChainAssumption DEF Init
  <2>6. FirstTime \in Nat /\ FirstTime >= FirstTime
    BY ChainAssumption
  <2> QED BY <2>1, <2>2, <2>3, <2>4, <2>5, <2>6 DEF Init, NoiseInit, Types
<1>5. ~noisy /\ phase = "macro" /\ at = 1
  BY DEF Init, NoiseInit
<1>6. Places
  BY <1>5 DEF Init, NoiseInit, Places
<1>7. \A proc : ~Ran(proc) /\ ~Done(proc)
  BY <1>5 DEF Ran, Done
<1> QED BY <1>4, <1>5, <1>6, <1>7 DEF DaqInv, Counts, NearHitsOnly, SortedAfter, DetectedAll, Built

\* A step that stays outside the block, or leaves it.
LEMMA OutsideSteps ==
  ASSUME DaqInv, phase # "chain" \/ at > Len(chain),
         UNCHANGED <<mc, noiseVars, apVars, DAQ, dbThreshold, evs, chain, at, events, rereads>>,
         phase' \in {"macro", "idle"}, fTriggerThreshold' \in Thresholds, fEventCounter' \in Nat
  PROVE  DaqInv'
<1>1. Types /\ Places /\ Counts /\ SortedAfter
  BY DEF DaqInv
<1>2. ~noisy
  BY <1>1, QuietOutside
<1>3. UNCHANGED <<mc, fNearHits, noisy, windows, objects0, objects, hits, inWindow, numDark,
                  eventTime, memory, saturates, DAQ, dbThreshold, evs, chain, at, events, rereads>>
  BY DEF noiseVars, apVars
<1>4. Types'
  BY <1>1, <1>3 DEF Types
<1>5. Places' /\ NearHitsOnly'
  BY <1>1, <1>2, <1>3 DEF Places, NearHitsOnly
<1>6. \A proc : (Ran(proc)' => Ran(proc)) /\ ~Done(proc)'
  BY <1>3 DEF Ran, Done
<1>7. Counts'
  BY <1>1, <1>2, <1>3, <1>6 DEF Counts
<1>8. SortedAfter'
  BY <1>1, <1>3, <1>6 DEF SortedAfter
<1> QED BY <1>4, <1>5, <1>6, <1>7, <1>8 DEF DaqInv, DetectedAll, Built

\* The block begins: with a new event, or with the last one in a new job.
LEMMA BlockBegins ==
  ASSUME DaqInv, phase = "idle", phase' = "chain", at' = 1, UNCHANGED chain,
         UNCHANGED <<fNearHits, noisy, windows, objects0, objects, hits, inWindow, saturates, DAQ, dbThreshold>>,
         mc' \in Seq(MCPMT), Smeared(mc'), numDark' \in Nat \cup {Uninitialised},
         eventTime' \in Nat, eventTime' >= FirstTime, memory' \in [PMTs -> Seq(Nat)],
         fTriggerThreshold' \in Thresholds, fEventCounter' \in Nat, evs' \in Seq(EV),
         events' \in 0 .. MaxEvents, rereads' \in 0 .. MaxRereads
  PROVE  DaqInv'
<1>1. Types /\ Places
  BY DEF DaqInv
<1>2. ~noisy /\ ~noisy'
  BY <1>1, QuietOutside
<1>3. objects0' = NoIndices /\ objects' = NoIndices
  BY <1>1, <1>2 DEF Places, NoIndices
<1>4. Types'
  <2>1. Len(mc') \in Nat
    OBVIOUS
  <2>2. NoIndices \in [PMTs -> 0 .. Len(mc')]
    BY <2>1 DEF NoIndices
  <2>3. at' \in 1 .. Len(chain') + 1
    BY <1>1, ChainsAre
  <2>4. phase' \in {"macro", "idle", "chain"}
    OBVIOUS
  <2>5. /\ fNearHits' \in NearHits /\ noisy' \in BOOLEAN /\ hits' \in Nat /\ inWindow' \in Nat
        /\ windows' \in Seq(Window) /\ saturates' \in BOOLEAN
        /\ DAQ' \in DAQs /\ dbThreshold' \in Thresholds /\ chain' \in Chains
    BY <1>1 DEF Types
  <2> QED BY <1>3, <2>2, <2>3, <2>4, <2>5 DEF Types
<1>5. Places' /\ NearHitsOnly'
  BY <1>2, <1>3 DEF Places, NearHitsOnly, NoIndices
<1>6. \A proc : ~Ran(proc)' /\ ~Done(proc)'
  BY DEF Ran, Done
<1> QED BY <1>2, <1>4, <1>5, <1>6 DEF DaqInv, Counts, SortedAfter, DetectedAll, Built

-----------------------------------------------------------------------------
(* The steps of the noise processor.                                       *)

\* What is near a hit stays near it when hits are added.
LEMMA NearReals ==
  ASSUME NEW m, NEW n, \A v \in Values(m) : v.kind # "dark" => v \in Values(n), NEW x, NearReal(x, m)
  PROVE  NearReal(x, n)
BY DEF NearReal

\* The noise processor running, no other has just returned.
LEMMA NoiseAlone ==
  ASSUME Types, Places, noisy
  PROVE  /\ Running("noise") /\ ~Ran("noise") /\ phase = "chain" /\ at \in 1..Len(chain)
<1>1. Running("noise")
  BY DEF Places
<1> QED BY <1>1, OnlyOnce, ChainsAre DEF Running

\* mcpmtObjects are indices of the list.
LEMMA ObjectsAre ==
  ASSUME NEW m \in Seq(MCPMT)
  PROVE  MCPMTObjects(m) \in [PMTs -> 0 .. Len(m)]
<1>1. PICK n \in Nat : n = Len(m) /\ DOMAIN m = 1..n
  OBVIOUS
<1>2. ASSUME NEW p PROVE Max({0} \cup {i \in DOMAIN m : m[i].id = p}) \in 0..n
  <2>1. PICK S : S = {0} \cup {i \in DOMAIN m : m[i].id = p}
    OBVIOUS
  <2>2. S \in SUBSET (0..n) /\ S # {}
    BY <1>1, <2>1
  <2>3. IsFiniteSet(0..n)
    BY ONLY n \in Nat, FS_Interval
  <2>4. IsFiniteSet(S) /\ S \in SUBSET Int
    <3>1. IsFiniteSet(S)
      BY <2>2, <2>3, FS_Subset
    <3>2. 0..n \in SUBSET Int
      OBVIOUS
    <3> QED BY <2>2, <3>1, <3>2
  <2>5. Max(S) \in S
    BY <2>2, <2>4, Extremes
  <2> QED BY <2>1, <2>2, <2>5
<1> QED BY <1>1, <1>2 DEF MCPMTObjects

\* DSEvent begins: the dark hits of an earlier pass go, and the windows are found.
LEMMA NoiseBegins ==
  ASSUME DaqInv, BeginNoise
  PROVE  DaqInv'
<1>1. Types /\ Places /\ Counts /\ SortedAfter
  BY DEF DaqInv
<1>2. mc \in Seq(MCPMT) /\ fNearHits \in BOOLEAN
  BY <1>1, NoiseAssumption DEF Types
<1>3. PICK m \in Seq(MCPMT) : m = Pruned(mc, "dark")
  BY <1>2, PrunedEvent
<1>4. /\ DOMAIN m = DOMAIN mc /\ Values(m) = {v \in Values(mc) : v.kind # "dark"}
      /\ (Sorted(mc) => Sorted(m)) /\ CountIn(m, "dark") = 0
  BY <1>2, <1>3, PrunedEvent
<1>5. /\ noisy' = TRUE /\ mc' = m /\ windows' = NoiseWindows(RealHitTimes(m))
      /\ objects0' = MCPMTObjects(mc) /\ objects' = MCPMTObjects(mc) /\ hits' = 0 /\ inWindow' = 0
      /\ UNCHANGED <<fNearHits, numDark, eventTime, memory, saturates, DAQ, dbThreshold, fTriggerThreshold,
                     fEventCounter, evs, chain, phase, at, events, rereads>>
  BY <1>3 DEF BeginNoise, StartNoise, PruneNoise, PruneAll, Pruned, apVars, daqVars, chainVars
<1>6. Running("noise") /\ ~noisy
  BY DEF BeginNoise, StartNoise
<1>7. PICK t \in Seq(Int) :
        /\ t = RealHitTimes(m) /\ Rising(t)
        /\ \A k \in DOMAIN t : \E v \in Values(m) : v.kind # "dark" /\ t[k] = v.hit
  BY RealHitTimesAre
<1>8. /\ NoiseWindows(t) \in Seq(Window)
      /\ fNearHits => \A i \in DOMAIN NoiseWindows(t) :
           \A x \in NoiseWindows(t)[i][1] .. NoiseWindows(t)[i][2] : Around(x, t, Len(t), WindowGap)
  BY <1>2, <1>7, NoiseWindowsAre
<1>9. Types'
  <2>1. Len(m) = Len(mc)
    BY <1>2, <1>4
  <2>2. MCPMTObjects(mc) \in [PMTs -> 0 .. Len(m)]
    BY <1>2, <2>1, ObjectsAre
  <2>3. Smeared(m)
    BY <1>1, <1>4 DEF Types, Smeared
  <2> QED BY <1>1, <1>5, <1>7, <1>8, <2>2, <2>3 DEF Types
<1>10. Places'
  BY <1>5, <1>6 DEF Places, Running
<1>11. \A proc : (Ran(proc)' => Ran(proc)) /\ ~Done(proc)'
  BY <1>5 DEF Ran, Done
<1>12. Counts'
  BY <1>1, <1>4, <1>5, <1>6, <1>11, OnlyOnce DEF Counts
<1>13. NearHitsOnly'
  <2>1. ASSUME fNearHits, NEW i \in DOMAIN NoiseWindows(t), NEW x \in NoiseWindows(t)[i][1] .. NoiseWindows(t)[i][2]
        PROVE  NearReal(x, m)
    <3>1. Around(x, t, Len(t), WindowGap)
      BY <1>8, <2>1
    <3>2. PICK k \in DOMAIN t : x - t[k] \in -WindowGap .. WindowGap
      BY <3>1 DEF Around
    <3> QED BY <1>7, <3>2 DEF NearReal
  <2>2. \A v \in Values(m) : v.kind # "dark"
    BY <1>4
  <2> QED BY <1>5, <1>7, <2>1, <2>2 DEF NearHitsOnly
<1>14. SortedAfter'
  BY <1>1, <1>4, <1>5, <1>11 DEF SortedAfter
<1> QED BY <1>9, <1>10, <1>11, <1>12, <1>13, <1>14 DEF DaqInv, DetectedAll, Built

\* What a dark hit changes.
LEMMA HitAdded ==
  ASSUME Types, NEW p \in PMTs, NEW t, NEW jitter \in Jitter, AddNoiseHit(p, t, jitter)
  PROVE  /\ t \in Int /\ windows # <<>> /\ t \in windows[1][1] .. windows[1][2]
         /\ mc' \in Seq(MCPMT) /\ Len(mc') \in Nat /\ Len(mc) <= Len(mc')
         /\ Values(mc') = Values(mc) \cup {NewPhoton(t, jitter, "dark")}
         /\ Sorted(mc) => Sorted(mc')
         /\ CountIn(mc', "dark") = CountIn(mc, "dark") + 1
         /\ objects' \in [PMTs -> 0 .. Len(mc')]
<1>1. mc \in Seq(MCPMT) /\ objects \in [PMTs -> 0 .. Len(mc)] /\ windows \in Seq(Window)
  BY DEF Types
<1>2. windows # <<>> /\ t \in windows[1][1] .. windows[1][2]
  BY DEF AddNoiseHit
<1>3. t \in Int
  <2>1. windows[1] \in Window
    BY <1>1, <1>2
  <2>2. windows[1][1] \in Int /\ windows[1][2] \in Int
    BY <2>1 DEF Window
  <2> QED BY <1>2, <2>2
<1>4. PICK ph \in MCPhoton : ph = NewPhoton(t, jitter, "dark") /\ ph.kind = "dark"
  <2>1. jitter \in Int
    BY HitsAssumption
  <2>2. PICK f \in Int : f = t + jitter
    BY <1>3, <2>1
  <2>3. NewPhoton(t, jitter, "dark") = [hit |-> t, fet |-> f, kind |-> "dark"]
    BY <2>2 DEF NewPhoton
  <2>4. [hit |-> t, fet |-> f, kind |-> "dark"] \in MCPhoton
    BY <1>3 DEF MCPhoton, Kinds
  <2> QED BY <2>3, <2>4
<1>5. Len(mc) \in Nat /\ DOMAIN mc = 1..Len(mc)
  BY <1>1
<1>6. CASE objects[p] = 0
  <2>1. mc' = Append(mc, [id |-> p, photons |-> <<ph>>]) /\ objects' = [objects EXCEPT ![p] = Len(mc) + 1]
    BY <1>4, <1>6 DEF AddNoiseHit
  <2>2. /\ mc' \in Seq(MCPMT) /\ Len(mc') = Len(mc) + 1
        /\ Values(mc') = Values(mc) \cup {ph}
        /\ Sorted(mc) => Sorted(mc')
        /\ CountIn(mc', "dark") = CountIn(mc, "dark") + 1
    <3>1. PICK n : n = mc'
      OBVIOUS
    <3>2. n = WithPMT(mc, p, ph)
      BY <2>1, <3>1 DEF WithPMT
    <3>3. OneMore(n, mc, ph) /\ Len(n) = Len(mc) + 1
      BY ONLY <1>1, <3>2, PMTAdded, p \in PMTs, ph \in MCPhoton
    <3> QED BY <1>4, <3>1, <3>3 DEF OneMore
  <2>3. objects' \in [PMTs -> 0 .. Len(mc')]
    <3>1. PICK l \in Nat : l = Len(mc)
      BY <1>5
    <3>2. objects \in [PMTs -> 0..(l + 1)] /\ l + 1 \in 0..(l + 1)
      BY <1>1, <3>1
    <3> QED BY <2>1, <2>2, <3>1, <3>2
  <2> QED BY <1>2, <1>3, <1>4, <1>5, <2>2, <2>3
<1>7. CASE objects[p] # 0
  <2>1. PICK j \in DOMAIN mc : j = objects[p]
    BY <1>1, <1>5, <1>7
  <2>2. mc' = [mc EXCEPT ![j].photons = SortMCPhotons(Append(@, ph))] /\ objects' = objects
    BY <1>4, <1>7, <2>1 DEF AddNoiseHit
  <2>3. /\ mc' \in Seq(MCPMT) /\ Len(mc') = Len(mc)
        /\ Values(mc') = Values(mc) \cup {ph}
        /\ Sorted(mc) => Sorted(mc')
        /\ CountIn(mc', "dark") = CountIn(mc, "dark") + 1
    <3>1. PICK n : n = mc'
      OBVIOUS
    <3>2. n = Inserted(mc, j, ph)
      BY <2>2, <3>1 DEF Inserted
    <3>3. OneMore(n, mc, ph) /\ Len(n) = Len(mc)
      BY ONLY <1>1, <3>2, PhotonAdded, j \in DOMAIN mc, ph \in MCPhoton
    <3> QED BY <1>4, <3>1, <3>3 DEF OneMore
  <2>4. objects' \in [PMTs -> 0 .. Len(mc')] /\ Len(mc') \in Nat /\ Len(mc) <= Len(mc')
    BY <1>1, <1>5, <2>2, <2>3
  <2> QED BY <1>2, <1>3, <1>4, <2>3, <2>4
<1> QED BY <1>6, <1>7

\* A dark hit is added.
LEMMA HitsAdd ==
  ASSUME DaqInv, NEW p \in PMTs, NEW t, NEW jitter \in Jitter, DarkHit(p, t, jitter)
  PROVE  DaqInv'
<1>1. Types /\ Places /\ Counts /\ NearHitsOnly /\ SortedAfter
  BY DEF DaqInv
<1>2. AddNoiseHit(p, t, jitter) /\ noisy
  BY DEF DarkHit, AddNoiseHit
<1>3. PICK m \in Seq(MCPMT) :
        /\ m = mc' /\ Len(m) \in Nat /\ Len(mc) <= Len(m)
        /\ Values(m) = Values(mc) \cup {NewPhoton(t, jitter, "dark")}
        /\ Sorted(mc) => Sorted(m)
        /\ CountIn(m, "dark") = CountIn(mc, "dark") + 1
  BY <1>1, <1>2, HitAdded
<1>4. t \in Int /\ windows # <<>> /\ t \in windows[1][1] .. windows[1][2] /\ objects' \in [PMTs -> 0 .. Len(m)]
  BY <1>1, <1>2, <1>3, HitAdded
<1>5. /\ hits' = hits + 1 /\ inWindow' = inWindow + 1
      /\ UNCHANGED <<fNearHits, noisy, windows, objects0, numDark, eventTime, memory, saturates, DAQ, dbThreshold,
                     fTriggerThreshold, fEventCounter, evs, chain, phase, at, events, rereads>>
  BY <1>2 DEF DarkHit, AddNoiseHit, apVars, daqVars, chainVars
<1>6. PICK ph : ph = NewPhoton(t, jitter, "dark") /\ ph.hit = t /\ ph.fet = t + jitter /\ ph.kind = "dark"
  <2>1. PICK f : f = t + jitter
    OBVIOUS
  <2>2. PICK ph : ph = [hit |-> t, fet |-> f, kind |-> "dark"]
    OBVIOUS
  <2>3. NewPhoton(t, jitter, "dark") = ph
    BY <2>1, <2>2 DEF NewPhoton
  <2> QED BY <2>1, <2>2, <2>3
<1>7. Types'
  <2>1. Smeared(m)
    <3>1. ph.fet - ph.hit \in Jitter
      BY <1>4, <1>6, HitsAssumption
    <3> QED BY <1>1, <1>3, <1>6, <3>1 DEF Types, Smeared
  <2>2. objects0 \in [PMTs -> 0 .. Len(m)]
    <3>1. PICK l \in Nat : l = Len(mc)
      BY <1>1 DEF Types
    <3>2. objects0 \in [PMTs -> 0 .. l]
      BY <1>1, <3>1 DEF Types
    <3> QED BY <1>3, <3>1, <3>2
  <2>3. hits' \in Nat /\ inWindow' \in Nat
    BY <1>1, <1>5 DEF Types
  <2>4. objects0' \in [PMTs -> 0 .. Len(mc')] /\ objects' \in [PMTs -> 0 .. Len(mc')] /\ mc' \in Seq(MCPMT) /\ Smeared(mc')
    BY <1>3, <1>4, <1>5, <2>1, <2>2
  <2> QED BY <1>1, <1>5, <2>3, <2>4 DEF Types
<1>8. Places'
  BY <1>1, <1>2, <1>5 DEF Places, Running
<1>9. \A proc : (Ran(proc)' => Ran(proc)) /\ ~Done(proc)'
  BY <1>2, <1>5 DEF Ran, Done
<1>10. Counts'
  BY <1>1, <1>2, <1>3, <1>5, <1>9, NoiseAlone DEF Counts
<1>11. NearHitsOnly'
  <2>1. \A x : NearReal(x, mc) => NearReal(x, m)
    BY <1>3, NearReals
  <2>2. fNearHits => NearReal(t, mc)
    <3>1. 1 \in DOMAIN windows
      BY <1>1, <1>4 DEF Types
    <3> QED BY <1>1, <1>2, <1>4, <3>1 DEF NearHitsOnly
  <2>3. fNearHits => \A v \in Values(m) : v.kind = "dark" => NearReal(v.hit, m)
    <3>1. ASSUME fNearHits, NEW v \in Values(m), v.kind = "dark" PROVE NearReal(v.hit, m)
      <4>1. CASE v \in Values(mc)
        BY <1>1, <1>2, <2>1, <3>1, <4>1 DEF NearHitsOnly
      <4>2. CASE v = ph
        BY <1>6, <2>1, <2>2, <3>1, <4>2
      <4> QED BY <1>3, <1>6, <4>1, <4>2
    <3> QED BY <3>1
  <2> QED BY <1>1, <1>2, <1>3, <1>5, <2>1, <2>3 DEF NearHitsOnly
<1>12. SortedAfter'
  BY <1>1, <1>3, <1>5, <1>9 DEF SortedAfter
<1> QED BY <1>7, <1>8, <1>9, <1>10, <1>11, <1>12 DEF DaqInv, DetectedAll, Built

\* GenerateNoiseInWindow returns.
LEMMA WindowsPass ==
  ASSUME DaqInv, WindowDone
  PROVE  DaqInv'
<1>1. Types /\ Places /\ Counts /\ NearHitsOnly /\ SortedAfter
  BY DEF DaqInv
<1>2. /\ noisy /\ windows # <<>> /\ windows' = Tail(windows) /\ objects' = objects0 /\ inWindow' = 0
      /\ UNCHANGED <<mc, fNearHits, noisy, objects0, hits, numDark, eventTime, memory, saturates, DAQ, dbThreshold,
                     fTriggerThreshold, fEventCounter, evs, chain, phase, at, events, rereads>>
  BY DEF WindowDone, LeaveWindow, apVars, daqVars, chainVars
<1>3. windows \in Seq(Window)
  BY <1>1 DEF Types
<1>4. windows' \in Seq(Window) /\ \A i \in DOMAIN windows' : i + 1 \in DOMAIN windows /\ windows'[i] = windows[i + 1]
  BY <1>2, <1>3
<1>5. Types'
  BY <1>1, <1>2, <1>4 DEF Types
<1>6. Places'
  BY <1>1, <1>2 DEF Places, Running
<1>7. \A proc : (Ran(proc)' => Ran(proc)) /\ ~Done(proc)'
  BY <1>2 DEF Ran, Done
<1>8. Counts' /\ SortedAfter'
  BY <1>1, <1>2, <1>7 DEF Counts, SortedAfter
<1>9. NearHitsOnly'
  BY <1>1, <1>2, <1>4 DEF NearHitsOnly
<1> QED BY <1>5, <1>6, <1>7, <1>8, <1>9 DEF DaqInv, DetectedAll, Built

\* DSEvent returns: numDarkHits is set.
LEMMA NoiseReturns ==
  ASSUME DaqInv, NoiseDone
  PROVE  DaqInv'
<1>1. Types /\ Places /\ Counts /\ SortedAfter
  BY DEF DaqInv
<1>2. /\ noisy /\ noisy' = FALSE /\ numDark' = hits /\ hits' = 0 /\ inWindow' = 0
      /\ objects0' = NoIndices /\ objects' = NoIndices
      /\ UNCHANGED <<mc, fNearHits, windows, eventTime, memory, saturates, DAQ, dbThreshold,
                     fTriggerThreshold, fEventCounter, evs>>
  BY DEF NoiseDone, FinishNoise, apVars, daqVars, NoIndices
<1>3. Running("noise") /\ NextProcessor
  BY <1>1, <1>2, NoiseAlone DEF NoiseDone
<1>4. /\ at' \in 1 .. Len(chain') + 1
      /\ \A proc : Ran(proc)' => Ran(proc) \/ proc = "noise"
      /\ \A proc : Done(proc)' => proc = "noise"
      /\ UNCHANGED <<chain, phase, events, rereads>>
  BY <1>1, <1>3, MovesOn
<1>5. Types'
  <2>1. NoIndices \in [PMTs -> 0 .. Len(mc)]
    <3>1. Len(mc) \in Nat
      BY <1>1 DEF Types
    <3> QED BY <3>1 DEF NoIndices
  <2> QED BY <1>1, <1>2, <1>4, <2>1 DEF Types
<1>6. Places' /\ NearHitsOnly'
  BY <1>2 DEF Places, NearHitsOnly, NoIndices
<1>7. Counts'
  BY <1>1, <1>2 DEF Counts
<1>8. SortedAfter'
  BY <1>1, <1>2, <1>4 DEF SortedAfter
<1> QED BY <1>4, <1>5, <1>6, <1>7, <1>8 DEF DaqInv, DetectedAll, Built

-----------------------------------------------------------------------------
(* The steps of the after-pulse and trigger processors.                    *)

\* DSEvent of the after-pulse processor.
LEMMA AfterPulses ==
  ASSUME DaqInv, AfterPulse
  PROVE  DaqInv'
<1>1. Types /\ Places /\ Counts
  BY DEF DaqInv
<1>2. Running("afterpulse") /\ AfterPulseDSEvent /\ NextProcessor
  BY DEF AfterPulse
<1>3. ~noisy
  BY <1>1, <1>2 DEF Places, Running
<1>4. mc \in Seq(MCPMT) /\ Smeared(mc) /\ eventTime \in Nat /\ eventTime >= FirstTime /\ saturates \in BOOLEAN
      /\ memory \in [PMTs -> Seq(Nat)]
  BY <1>1 DEF Types
<1>5. PICK m \in Seq(MCPMT) : m = Pruned(mc, "after")
  BY <1>4, PrunedEvent
<1>6. /\ DOMAIN m = DOMAIN mc /\ Values(m) = {v \in Values(mc) : v.kind # "after"}
      /\ CountIn(m, "dark") = CountIn(mc, "dark")
  <2>1. "dark" # "after"
    OBVIOUS
  <2> QED BY <1>4, <1>5, <2>1, PrunedEvent
<1>7. PruneAll("after") = m
  BY <1>5 DEF PruneAll, Pruned
<1>8. PICK draw \in [{ik \in Photons(m) : PhotonAt(m, ik).kind # "dark"} -> Delays \cup {0}],
           jitter \in [DOMAIN m -> Jitter] :
        LET mem == GenerateAfterPulses(m, draw)
            New(i) == LET aps == Detected(m[i], mem) IN
              [k \in DOMAIN aps |-> NewPhoton(AfterPulseHit(aps[k]), jitter[i], "after")]
        IN /\ memory' = mem
           /\ mc' = [i \in DOMAIN m |-> [m[i] EXCEPT !.photons = AppendSorted(@, New(i))]]
           /\ UNCHANGED <<eventTime, saturates>>
  <2> DEFINE Taken(n) ==
        \E draw \in [{ik \in Photons(n) : PhotonAt(n, ik).kind # "dark"} -> Delays \cup {0}],
           jitter \in [DOMAIN n -> Jitter] :
          LET mem == GenerateAfterPulses(n, draw)
              New(i) == LET aps == Detected(n[i], mem) IN
                [k \in DOMAIN aps |-> NewPhoton(AfterPulseHit(aps[k]), jitter[i], "after")]
          IN /\ memory' = mem
             /\ mc' = [i \in DOMAIN n |-> [n[i] EXCEPT !.photons = AppendSorted(@, New(i))]]
             /\ UNCHANGED <<eventTime, saturates>>
  <2>1. Taken(PruneAll("after"))
    BY <1>2 DEF AfterPulseDSEvent
  <2> HIDE DEF Taken
  <2>2. Taken(m)
    BY ONLY <1>7, <2>1
  <2> QED BY ONLY <2>2 DEF Taken
<1>9. PICK mem \in [PMTs -> Seq(Nat)] : mem = GenerateAfterPulses(m, draw)
  <2>1. \A v \in Values(m) : v.kind # "dark" => eventTime + v.fet \in Nat
    <3>1. ASSUME NEW v \in Values(m), v.kind # "dark" PROVE eventTime + v.fet \in Nat
      <4>1. v \in Values(mc) /\ v.kind # "after" /\ v \in MCPhoton
        <5>1. Values(m) \subseteq MCPhoton
          BY ValuesAre
        <5> QED BY <1>6, <5>1
      <4>2. v.kind = "real" /\ v.fet \in Int
        BY <3>1, <4>1 DEF MCPhoton, Kinds
      <4>3. FirstTime + v.fet \in Nat
        BY <1>4, <4>1, <4>2 DEF Smeared
      <4>4. FirstTime \in Nat
        BY ChainAssumption
      <4>5. PICK f \in Int, e \in Nat, g \in Nat : f = v.fet /\ e = eventTime /\ g = FirstTime
        BY <1>4, <4>2, <4>4
      <4> QED BY <1>4, <4>3, <4>5
    <3> QED BY <3>1
  <2>2. GenerateAfterPulses(m, draw) \in [PMTs -> Seq(Nat)]
    BY <1>4, <2>1, MemoryTyped
  <2> QED BY <2>2
<1>10. memory' = mem /\ mc' = AfterPulsed(m, mem, jitter) /\ UNCHANGED <<eventTime, saturates>>
  BY <1>8, <1>9 DEF AfterPulsed, NewOnes
<1>11. PICK n : n = AfterPulsed(m, mem, jitter)
  OBVIOUS
<1>12. n \in Seq(MCPMT) /\ DOMAIN n = DOMAIN m /\ Sorted(n) /\ CountIn(n, "dark") = CountIn(m, "dark")
  <2>1. m \in Seq(MCPMT) /\ mem \in [PMTs -> Seq(Nat)] /\ eventTime \in Nat /\ jitter \in [DOMAIN m -> Jitter]
    BY <1>4
  <2> QED BY ONLY <1>11, <2>1, AfterPulsesAdded
<1>13. /\ \A p \in PMTs : Seen(n, p) = Remembered(n, mem, p)
       /\ \A v \in Values(n) : v \in Values(m) \/ (v.kind = "after" /\ v.fet - v.hit \in Jitter)
  <2>1. m \in Seq(MCPMT) /\ mem \in [PMTs -> Seq(Nat)] /\ eventTime \in Nat /\ jitter \in [DOMAIN m -> Jitter]
    BY <1>4
  <2>2. \A v \in Values(m) : v.kind # "after"
    BY <1>6
  <2> QED BY ONLY <1>11, <2>1, <2>2, DetectedEvent
<1>14. UNCHANGED <<fNearHits, noisy, windows, objects0, objects, hits, inWindow, numDark, DAQ, dbThreshold,
                   fTriggerThreshold, fEventCounter, evs>>
  BY DEF AfterPulse, noiseVars, daqVars
<1>15. /\ at' \in 1 .. Len(chain') + 1
       /\ \A proc : Ran(proc)' => Ran(proc) \/ proc = "afterpulse"
       /\ \A proc : Done(proc)' => proc = "afterpulse"
       /\ UNCHANGED <<chain, phase, events, rereads>>
  BY <1>1, <1>2, MovesOn
<1>16. mc' = n
  BY <1>10, <1>11
<1>17. Types'
  <2>1. Smeared(n)
    <3>1. \A v \in Values(m) : v \in Values(mc)
      BY <1>6
    <3> QED BY <1>4, <1>13, <3>1 DEF Smeared
  <2>2. Len(n) = Len(mc)
    <3>1. mc \in Seq(MCPMT) /\ n \in Seq(MCPMT) /\ DOMAIN n = DOMAIN mc
      BY <1>4, <1>6, <1>12
    <3> QED BY ONLY <3>1
  <2> QED BY <1>1, <1>10, <1>12, <1>14, <1>15, <1>16, <2>1, <2>2 DEF Types
<1>18. Places' /\ NearHitsOnly'
  BY <1>1, <1>3, <1>14 DEF Places, NearHitsOnly
<1>19. Counts'
  BY <1>1, <1>3, <1>6, <1>12, <1>14, <1>15, <1>16 DEF Counts
<1>20. SortedAfter'
  BY <1>12, <1>16 DEF SortedAfter
<1>21. DetectedAll'
  <2>1. \A p \in PMTs : Seen(n, p)' = Remembered(n, mem, p)'
    BY <1>10, <1>13, SameAfterPulses
  <2> QED BY <1>10, <1>16, <2>1 DEF DetectedAll
<1> QED BY <1>15, <1>17, <1>18, <1>19, <1>20, <1>21 DEF DaqInv, Built

\* DSEvent of the trigger processor.
LEMMA Triggers ==
  ASSUME DaqInv, Trigger
  PROVE  DaqInv'
<1>1. Types /\ Places /\ Counts /\ SortedAfter
  BY DEF DaqInv
<1>2. Running("splitevdaq") /\ SplitDSEvent /\ NextProcessor
  BY DEF Trigger
<1>3. ~noisy
  BY <1>1, <1>2 DEF Places, Running
<1>4. UNCHANGED <<mc, fNearHits, noisy, windows, objects0, objects, hits, inWindow, numDark, eventTime, memory,
                  saturates, DAQ, dbThreshold, fTriggerThreshold>>
  BY <1>2 DEF Trigger, SplitDSEvent, noiseVars, apVars
<1>5. /\ at' \in 1 .. Len(chain') + 1
      /\ \A proc : Ran(proc)' => Ran(proc) \/ proc = "splitevdaq"
      /\ \A proc : Done(proc)' => proc = "splitevdaq"
      /\ UNCHANGED <<chain, phase, events, rereads>>
  BY <1>1, <1>2, MovesOn
<1>6. PICK base \in Nat, m \in Seq(MCPMT) : base = fEventCounter /\ m = mc
  BY <1>1 DEF Types
<1>7. PICK e : e = EVsFrom(m, base)
  OBVIOUS
<1>8. evs' = e /\ fEventCounter' = base + Len(e)
  BY <1>2, <1>6, <1>7 DEF SplitDSEvent, BuildEVs, EVsFrom
<1>9. DAQ \in DAQs /\ fTriggerThreshold \in Int
  BY <1>1, DAQAssumption DEF Types
<1>10. EventsOf(e, m, base)
  BY <1>7, <1>9, EVsAre
<1>11. e \in Seq(EV) /\ fEventCounter' \in Nat
  <2>1. e \in Seq(EV)
    BY <1>10 DEF EventsOf
  <2>2. Len(e) \in Nat
    BY <2>1
  <2> QED BY <1>8, <2>1, <2>2
<1>12. Types'
  BY <1>1, <1>4, <1>5, <1>8, <1>11 DEF Types
<1>13. Places' /\ NearHitsOnly'
  BY <1>1, <1>3, <1>4 DEF Places, NearHitsOnly
<1>14. Counts' /\ SortedAfter'
  BY <1>1, <1>3, <1>4, <1>5 DEF Counts, SortedAfter
<1>15. Built'
  <2>1. EventsOf(e, m, base)'
    BY <1>4, <1>10, SameEvents
  <2>2. mc' = m
    BY <1>4, <1>6
  <2>3. EventsOf(evs, mc, base)'
    BY ONLY <1>8, <2>1, <2>2
  <2>4. fEventCounter' = base + Len(evs')
    BY <1>8
  <2> QED BY <2>3, <2>4 DEF Built
<1> QED BY <1>5, <1>12, <1>13, <1>14, <1>15 DEF DaqInv, DetectedAll

-----------------------------------------------------------------------------
(* The theorems.                                                           *)

\* Every step keeps the inductive invariant.
LEMMA DaqSteps ==
  ASSUME DaqInv, [Next]_vars
  PROVE  DaqInv'
<1>1. Types
  BY DEF DaqInv
<1>2. dbThreshold \in Thresholds /\ fEventCounter \in Nat /\ fTriggerThreshold \in Thresholds /\ eventTime \in Nat
      /\ eventTime >= FirstTime /\ memory \in [PMTs -> Seq(Nat)] /\ numDark \in Nat \cup {Uninitialised}
  BY <1>1 DEF Types
<1>3. ASSUME NEW v \in Thresholds, ProcSet(v) PROVE DaqInv'
  <2>1. phase \notin {"chain"}
    BY <1>3 DEF ProcSet
  <2>2. /\ UNCHANGED <<mc, noiseVars, apVars, DAQ, dbThreshold, evs, chain, at, events, rereads>>
        /\ phase' \in {"macro", "idle"} /\ fTriggerThreshold' \in Thresholds /\ fEventCounter' \in Nat
    BY <1>2, <1>3 DEF ProcSet, SetTriggerThreshold, chainVars
  <2> QED BY <2>1, <2>2, OutsideSteps
<1>4. ASSUME BeginOfRun PROVE DaqInv'
  <2>1. phase \notin {"chain"}
    BY <1>4 DEF BeginOfRun
  <2>2. /\ UNCHANGED <<mc, noiseVars, apVars, DAQ, dbThreshold, evs, chain, at, events, rereads>>
        /\ phase' \in {"macro", "idle"} /\ fTriggerThreshold' \in Thresholds /\ fEventCounter' \in Nat
    BY <1>2, <1>4 DEF BeginOfRun, SplitBeginOfRun
  <2> QED BY <2>1, <2>2, OutsideSteps
<1>5. ASSUME EndOfRun PROVE DaqInv'
  <2>1. phase \notin {"chain"}
    BY <1>5 DEF EndOfRun
  <2>2. /\ UNCHANGED <<mc, noiseVars, apVars, DAQ, dbThreshold, evs, chain, at, events, rereads>>
        /\ phase' \in {"macro", "idle"} /\ fTriggerThreshold' \in Thresholds /\ fEventCounter' \in Nat
    BY <1>2, <1>5 DEF EndOfRun, daqVars
  <2> QED BY <2>1, <2>2, OutsideSteps
<1>6. ASSUME NEW m \in Simulated, NEW gap \in Gaps, Simulate(m, gap) PROVE DaqInv'
  <2>1. m \in Seq(MCPMT) /\ Smeared(m)
    <3>1. /\ m \in Seq(MCPMT)
          /\ \A ik \in Photons(m) : LET ph == PhotonAt(m, ik) IN
               ph.kind = "real" /\ ph.fet - ph.hit \in Jitter /\ FirstTime + ph.fet \in Nat
      BY ChainAssumption
    <3> QED BY <3>1 DEF Smeared, Values
  <2>2. eventTime + gap \in Nat /\ eventTime + gap >= FirstTime
    <3>1. gap \in Nat /\ FirstTime \in Nat
      BY ChainAssumption
    <3> QED BY <1>2, <3>1
  <2>3. events' \in 0 .. MaxEvents /\ rereads' \in 0 .. MaxRereads
    <3>1. events \in 0 .. MaxEvents /\ rereads \in 0 .. MaxRereads
      BY <1>1 DEF Types
    <3>2. MaxEvents \in Nat
      BY ChainAssumption
    <3>3. events' = events + 1 /\ rereads' = rereads /\ events < MaxEvents
      BY <1>6 DEF Simulate
    <3> QED BY <3>1, <3>2, <3>3
  <2>4. /\ phase = "idle" /\ phase' = "chain" /\ at' = 1
        /\ UNCHANGED <<chain, fNearHits, noisy, windows, objects0, objects, hits, inWindow, saturates, DAQ, dbThreshold>>
        /\ mc' = m /\ numDark' = Uninitialised /\ eventTime' = eventTime + gap /\ evs' = <<>>
        /\ UNCHANGED <<memory, fTriggerThreshold, fEventCounter>>
    BY <1>6 DEF Simulate
  <2>5. mc' \in Seq(MCPMT) /\ Smeared(mc')
    BY <2>1, <2>4
  <2>6. /\ numDark' \in Nat \cup {Uninitialised} /\ eventTime' \in Nat /\ eventTime' >= FirstTime
        /\ memory' \in [PMTs -> Seq(Nat)]
        /\ fTriggerThreshold' \in Thresholds /\ fEventCounter' \in Nat /\ evs' \in Seq(EV)
    BY <1>2, <2>2, <2>4
  <2> QED BY <2>3, <2>4, <2>5, <2>6, BlockBegins
<1>7. ASSUME Reread PROVE DaqInv'
  <2>1. events' \in 0 .. MaxEvents /\ rereads' \in 0 .. MaxRereads
    <3>1. events \in 0 .. MaxEvents /\ rereads \in 0 .. MaxRereads
      BY <1>1 DEF Types
    <3>2. MaxRereads \in Nat
      BY ChainAssumption
    <3>3. rereads' = rereads + 1 /\ events' = events /\ rereads < MaxRereads
      BY <1>7 DEF Reread
    <3> QED BY <3>1, <3>2, <3>3
  <2>2. /\ phase = "idle" /\ phase' = "chain" /\ at' = 1
        /\ UNCHANGED <<chain, fNearHits, noisy, windows, objects0, objects, hits, inWindow, saturates, DAQ, dbThreshold>>
        /\ UNCHANGED <<mc, numDark, eventTime, evs>>
        /\ fTriggerThreshold' = dbThreshold /\ fEventCounter' = 0 /\ memory' = [p \in PMTs |-> <<>>]
    BY <1>7 DEF Reread, noiseVars
  <2>3. mc' \in Seq(MCPMT) /\ Smeared(mc') /\ evs' \in Seq(EV)
    BY <1>1, <2>2 DEF Types
  <2>4. [p \in PMTs |-> <<>>] \in [PMTs -> Seq(Nat)]
    OBVIOUS
  <2>5. /\ numDark' \in Nat \cup {Uninitialised} /\ eventTime' \in Nat /\ eventTime' >= FirstTime
        /\ memory' \in [PMTs -> Seq(Nat)] /\ fTriggerThreshold' \in Thresholds /\ fEventCounter' \in Nat
    BY <1>2, <2>2, <2>4
  <2> QED BY <2>1, <2>2, <2>3, <2>5, BlockBegins
<1>8. ASSUME EndOfEvent PROVE DaqInv'
  <2>1. at > Len(chain)
    BY <1>8 DEF EndOfEvent
  <2>2. /\ UNCHANGED <<mc, noiseVars, apVars, DAQ, dbThreshold, evs, chain, at, events, rereads>>
        /\ phase' \in {"macro", "idle"} /\ fTriggerThreshold' \in Thresholds /\ fEventCounter' \in Nat
    BY <1>2, <1>8 DEF EndOfEvent, daqVars
  <2> QED BY <2>1, <2>2, OutsideSteps
<1>9. ASSUME NEW p \in PMTs, NEW t \in DarkTimes, NEW jitter \in Jitter, DarkHit(p, t, jitter) PROVE DaqInv'
  BY <1>9, HitsAdd
<1>10. CASE UNCHANGED vars
  <2>1. UNCHANGED <<mc, fNearHits, noisy, windows, objects0, objects, hits, inWindow, numDark, eventTime, memory,
                    saturates, DAQ, dbThreshold, fTriggerThreshold, fEventCounter, evs, chain, phase, at, events, rereads>>
    BY <1>10 DEF vars, noiseVars, apVars, daqVars, chainVars
  <2>2. \A proc : (Ran(proc)' <=> Ran(proc)) /\ (Done(proc)' <=> Done(proc))
    BY <2>1 DEF Ran, Done
  <2>3. Types'
    BY <1>1, <2>1 DEF Types
  <2>4. Places' /\ Counts' /\ NearHitsOnly' /\ SortedAfter'
    BY <2>1, <2>2 DEF DaqInv, Places, Running, Counts, NearHitsOnly, SortedAfter
  <2>5. DetectedAll'
    <3>1. PICK m, mem : m = mc /\ mem = memory
      OBVIOUS
    <3>2. ASSUME Done("afterpulse"), NEW p \in PMTs PROVE Seen(mc, p)' = Remembered(mc, memory, p)'
      <4>1. Seen(m, p) = Remembered(m, mem, p)
        BY <3>1, <3>2 DEF DaqInv, DetectedAll
      <4>2. Seen(m, p)' = Remembered(m, mem, p)'
        BY <2>1, <4>1, SameAfterPulses
      <4>3. mc' = m /\ memory' = mem
        BY <2>1, <3>1
      <4> QED BY ONLY <4>2, <4>3
    <3> QED BY <2>2, <3>2 DEF DetectedAll
  <2>6. Built'
    <3>1. PICK m, e : m = mc /\ e = evs
      OBVIOUS
    <3>2. ASSUME Done("splitevdaq")
          PROVE  \E base \in Nat : fEventCounter' = base + Len(evs') /\ EventsOf(evs, mc, base)'
      <4>1. PICK base \in Nat : fEventCounter = base + Len(evs) /\ EventsOf(evs, mc, base)
        BY <3>2 DEF DaqInv, Built
      <4>2. EventsOf(e, m, base)
        BY <3>1, <4>1
      <4>3. EventsOf(e, m, base)'
        BY <2>1, <4>2, SameEvents
      <4>4. mc' = m /\ evs' = e
        BY <2>1, <3>1
      <4>5. EventsOf(evs, mc, base)'
        BY ONLY <4>3, <4>4
      <4>6. fEventCounter' = base + Len(evs')
        BY <2>1, <4>1
      <4> QED BY <4>5, <4>6
    <3> QED BY <2>2, <3>2 DEF Built
  <2> QED BY <2>3, <2>4, <2>5, <2>6 DEF DaqInv
<1> QED BY <1>3, <1>4, <1>5, <1>6, <1>7, <1>8, <1>9, <1>10, NoiseBegins, WindowsPass, NoiseReturns, AfterPulses,
           Triggers
        DEF Next

\* The inductive invariant holds in every state the processors reach.
THEOREM DaqInvariant == Spec => []DaqInv
<1>1. Init => DaqInv
  BY DaqInit
<1>2. DaqInv /\ [Next]_vars => DaqInv'
  BY DaqSteps
<1> QED BY <1>1, <1>2, PTL DEF Spec

\* The values have their types: indices of the lists are indices, windows are
\* not empty, the times remembered are unsigned.
THEOREM DaqTypes == Spec => []TypeOK
<1>1. DaqInv => TypeOK
  BY TypesSuffice DEF DaqInv
<1> QED BY <1>1, DaqInvariant, PTL

\* NoiseProc: every dark hit is near a hit, and counted once.
THEOREM NoiseIsAsAsked == Spec => []NoiseAsAsked
<1>1. DaqInv => NoiseAsAsked
  BY NoiseStated DEF DaqInv, Types
<1> QED BY <1>1, DaqInvariant, PTL

\* AfterPulseProc: the event has the after-pulses remembered near its hits.
THEOREM AfterPulsesAreDetected == Spec => []AfterPulsesDetected
<1>1. DaqInv => AfterPulsesDetected
  BY AfterPulsesStated DEF DaqInv, Types
<1> QED BY <1>1, DaqInvariant, PTL

\* SplitEVDAQProc: the lockout after a pulse covers the hits that make none.
THEOREM HitsAreCovered == Spec => []LockoutCoversHits
<1>1. ASSUME DaqInv PROVE LockoutCoversHits
  <2>1. mc \in Seq(MCPMT) /\ DAQ \in DAQs
    BY <1>1 DEF DaqInv, Types
  <2>2. Ran("afterpulse") => Sorted(mc)
    BY <1>1 DEF DaqInv, SortedAfter
  <2>3. CASE Ran("afterpulse")
    BY <2>1, <2>2, <2>3, LockoutHolds
  <2>4. CASE ~Ran("afterpulse")
    BY <2>4 DEF LockoutCoversHits
  <2> QED BY <2>3, <2>4
<1>2. DaqInv => LockoutCoversHits
  BY <1>1
<1> QED BY <1>2, DaqInvariant, PTL

\* SplitEVDAQProc: an EV has the PMTs with a hit inside its window, and no hit
\* is in two EVs.
THEOREM EventsHoldTheirHits == Spec => []EventContents
<1>1. ASSUME DaqInv PROVE EventContents
  <2>1. mc \in Seq(MCPMT) /\ DAQ \in DAQs
    BY <1>1 DEF DaqInv, Types
  <2>2. CASE Done("splitevdaq")
    <3>1. PICK base \in Nat : fEventCounter = base + Len(evs) /\ EventsOf(evs, mc, base)
      BY <1>1, <2>2 DEF DaqInv, Built
    <3> QED BY <2>1, <3>1, EventContentsHolds
  <2>3. CASE ~Done("splitevdaq")
    BY <2>3 DEF EventContents
  <2> QED BY <2>2, <2>3
<1>2. DaqInv => EventContents
  BY <1>1
<1> QED BY <1>2, DaqInvariant, PTL

\* SplitEVDAQProc: the EVs are the triggers over threshold outside the dead
\* time of the one before, numbered through the run.
THEOREM EventsAreSplitRight == Spec => []EventsSplitRight
<1>1. ASSUME DaqInv PROVE EventsSplitRight
  <2>1. mc \in Seq(MCPMT) /\ DAQ \in DAQs
    BY <1>1 DEF DaqInv, Types
  <2>2. CASE Done("splitevdaq")
    <3>1. PICK base \in Nat : fEventCounter = base + Len(evs) /\ EventsOf(evs, mc, base)
      BY <1>1, <2>2 DEF DaqInv, Built
    <3> QED BY <2>1, <3>1, EventsSplitRightHolds
  <2>3. CASE ~Done("splitevdaq")
    BY <2>3 DEF EventsSplitRight, TriggersJustified, EventsNumbered
  <2> QED BY <2>2, <2>3
<1>2. DaqInv => EventsSplitRight
  BY <1>1
<1> QED BY <1>2, DaqInvariant, PTL
=============================================================================
