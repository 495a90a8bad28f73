--------------------------- MODULE Ratdb_proofs ---------------------------
(***************************************************************************)
(* Proofs about Ratdb, for any tables, fields, runs, files and servers:    *)
(* set fields win, a dump says what links read, and reads, links and dumps *)
(* change nothing that is read.                                            *)
(***************************************************************************)
EXTENDS Ratdb, Induction

-----------------------------------------------------------------------------
(* The inductive invariant.                                                *)

Tables == Table \cup {NoTable}

\* Every table is stored under keys of its own: its name and one of its runs.
OnePlane(t) == t.runs \in {{User}, {Default}} \/ t.runs \subseteq Runs
Placed(t, k) == t.id = k[1] /\ k[2] \in t.runs /\ OnePlane(t)
Caches ==
  {c \in [tables : [Keys -> Tables], absent : SUBSET Keys] :
     \A k \in Keys : c.tables[k] # NoTable => Placed(c.tables[k], k)}

\* The user table of id holds v in f, and no attachment will come over it.
UserHas(t, f, v) == t # NoTable /\ f \notin t.deferred /\ t.fields[f] = v

\* What was set is in the user plane.
Holds(c, set) ==
  \A id \in Ids, f \in Fields :
    set[id][f] # Absent => UserHas(c.tables[<<id, User>>], f, set[id][f])

RatdbInv ==
  /\ cache \in Caches
  /\ server \in Servers \cup {NoServer}
  /\ run \in Runs
  /\ links \subseteq Ids \X Runs /\ commands \in Nat
  /\ lastSet \in [Ids -> [Fields -> Values \cup {Absent}]]
  /\ Holds(cache, lastSet)

-----------------------------------------------------------------------------
(* The cache and lookups.                                                  *)

\* The planes are different.
LEMMA PlanesApart ==
  /\ User \notin Runs /\ Default \notin Runs /\ User # Default /\ 1 \in Runs
  /\ Runs \subseteq Planes /\ User \in Planes /\ Default \in Planes
BY PlaneAssumption DEF Planes, User, Default

\* No document of a server mixes planes, and its arrays are values.
LEMMA ServerFacts ==
  ASSUME server \in Servers \cup {NoServer}
  PROVE  /\ \A d \in Contents[server].docs : d \in Table /\ OnePlane(d)
         /\ \A f \in Fields : Contents[server].arrays[f] \in Values \cup {Garbage}
<1>1. CASE server = NoServer
  BY <1>1, PlaneAssumption
<1>2. CASE server \in Servers
  <2>1. \A d \in Contents[server].docs : d \in UNION {Contents[s].docs : s \in Servers}
    BY <1>2
  <2>2. \A d \in Contents[server].docs : d \in Table /\ OnePlane(d)
    BY <2>1, PlaneAssumption DEF OnePlane
  <2>3. Contents[server].arrays \in [Fields -> Values \cup {Garbage}]
    BY <1>2, PlaneAssumption
  <2> QED BY <2>2, <2>3
<1> QED BY <1>1, <1>2

\* What Put leaves.
LEMMA PutLeaves ==
  ASSUME NEW c \in Caches, NEW keys, NEW t
  PROVE  /\ \A k \in Keys : Put(c, keys, t).tables[k] = IF k \in keys THEN t ELSE c.tables[k]
         /\ Put(c, keys, t).absent = c.absent
         /\ t \in Table /\ (\A k \in keys \cap Keys : Placed(t, k)) => Put(c, keys, t) \in Caches
<1> DEFINE d == Put(c, keys, t)
           p == [k \in Keys |-> IF k \in keys THEN t ELSE c.tables[k]]
<1>1. c \in [tables : [Keys -> Tables], absent : SUBSET Keys]
  BY DEF Caches
<1>2. d.tables = p /\ d.absent = c.absent /\ d = [tables |-> p, absent |-> c.absent]
  BY <1>1 DEF Put
<1>3. ASSUME t \in Table, \A k \in keys \cap Keys : Placed(t, k)
      PROVE  d \in Caches
  <2>1. p \in [Keys -> Tables]
    BY <1>1, <1>3 DEF Tables
  <2>2. d \in [tables : [Keys -> Tables], absent : SUBSET Keys]
    <3> HIDE DEF d, p
    <3> QED BY <1>1, <1>2, <2>1
  <2>3. ASSUME NEW k \in Keys, d.tables[k] # NoTable PROVE Placed(d.tables[k], k)
    BY <1>2, <1>3, <2>3 DEF Caches
  <2> HIDE DEF d
  <2> QED BY <2>2, <2>3 DEF Caches
<1> QED BY <1>2, <1>3

\* What FindTable does: nothing, or note that a key is not on the server, or
\* fetch a document for a key that has no table.
Noted(d, c, key) == d.tables = c.tables /\ d.absent = c.absent \cup {key}
Fetched(d, c, key) ==
  /\ c.tables[key] = NoTable /\ key \notin c.absent
  /\ d.absent = c.absent
  /\ \E doc \in Docs(key) :
       /\ doc.id = key[1] /\ key[2] \in doc.runs /\ OnePlane(doc) /\ doc # NoTable /\ doc \in Table
       /\ \A k \in Keys : d.tables[k] = IF k \in ValidKeys(doc) THEN doc ELSE c.tables[k]
FindsTable(d, c, key) ==
  \/ d = c /\ (c.tables[key] # NoTable \/ key[1] \notin Contents[server].names \/ key \in c.absent)
  \/ c.tables[key] = NoTable /\ Noted(d, c, key)
  \/ Fetched(d, c, key)

LEMMA FindTableCases ==
  ASSUME NEW c \in Caches, NEW key \in Keys, server \in Servers \cup {NoServer}
  PROVE  FindTable(c, key) \in Caches /\ FindsTable(FindTable(c, key), c, key)
<1> DEFINE d == FindTable(c, key)
<1>1. CASE c.tables[key] # NoTable \/ key[1] \notin Contents[server].names \/ key \in c.absent
  <2>1. d = c
    BY <1>1 DEF FindTable
  <2> HIDE DEF d
  <2>2. d \in Caches /\ FindsTable(d, c, key)
    BY <1>1, <2>1 DEF FindsTable
  <2> QED BY <2>2 DEF d
<1>2. CASE ~(c.tables[key] # NoTable \/ key[1] \notin Contents[server].names \/ key \in c.absent)
           /\ Docs(key) = {}
  <2>1. d = [c EXCEPT !.absent = @ \cup {key}]
    BY <1>2 DEF FindTable
  <2> HIDE DEF d
  <2>2. c \in [tables : [Keys -> Tables], absent : SUBSET Keys]
    BY DEF Caches
  <2>3. d.tables = c.tables /\ d.absent = c.absent \cup {key}
        /\ d \in [tables : [Keys -> Tables], absent : SUBSET Keys]
    BY <2>1, <2>2
  <2>4. d \in Caches
    BY <2>3 DEF Caches
  <2>5. FindsTable(d, c, key)
    BY <1>2, <2>3 DEF FindsTable, Noted
  <2> QED BY <2>4, <2>5 DEF d
<1>3. CASE ~(c.tables[key] # NoTable \/ key[1] \notin Contents[server].names \/ key \in c.absent)
           /\ Docs(key) # {}
  <2>1. PICK doc \in Docs(key) : d = Put(c, ValidKeys(doc), doc)
    BY <1>3 DEF FindTable
  <2>2. doc \in Table /\ OnePlane(doc) /\ doc.id = key[1] /\ key[2] \in doc.runs /\ doc # NoTable
    BY ServerFacts, PlaneAssumption DEF Docs
  <2>3. \A k \in ValidKeys(doc) \cap Keys : Placed(doc, k)
    BY <2>2 DEF ValidKeys, Placed
  <2>4. d \in Caches /\ d.absent = c.absent
        /\ \A k \in Keys : d.tables[k] = IF k \in ValidKeys(doc) THEN doc ELSE c.tables[k]
    <3> HIDE DEF d
    <3> QED BY <2>1, <2>2, <2>3, PutLeaves
  <2> HIDE DEF d
  <2>5. Fetched(d, c, key)
    BY <1>3, <2>2, <2>4 DEF Fetched
  <2> QED BY <2>4, <2>5 DEF d, FindsTable
<1> QED BY <1>1, <1>2, <1>3

\* A lookup never replaces a user table, so what was set stays.
LEMMA FindTableHolds ==
  ASSUME NEW c \in Caches, NEW key \in Keys, server \in Servers \cup {NoServer}, NEW set,
         Holds(c, set)
  PROVE  FindTable(c, key) \in Caches /\ Holds(FindTable(c, key), set)
<1> DEFINE d == FindTable(c, key)
<1>1. d \in Caches /\ FindsTable(d, c, key)
  BY FindTableCases
<1> HIDE DEF d
<1>2. ASSUME NEW id \in Ids, NEW f \in Fields, set[id][f] # Absent
      PROVE  UserHas(d.tables[<<id, User>>], f, set[id][f])
  <2> DEFINE u == <<id, User>>
  <2>1. u \in Keys /\ c.tables[u] # NoTable /\ UserHas(c.tables[u], f, set[id][f])
    BY <1>2, PlanesApart DEF Keys, Holds, UserHas
  <2>2. d.tables[u] = c.tables[u]
    <3>1. ASSUME Fetched(d, c, key) PROVE d.tables[u] = c.tables[u]
      <4>1. PICK doc \in Docs(key) :
              /\ doc.id = key[1] /\ key[2] \in doc.runs /\ OnePlane(doc)
              /\ \A k \in Keys : d.tables[k] = IF k \in ValidKeys(doc) THEN doc ELSE c.tables[k]
        BY <3>1 DEF Fetched
      <4>2. ASSUME u \in ValidKeys(doc) PROVE FALSE
        <5>1. doc.id = id /\ User \in doc.runs
          BY <4>2 DEF ValidKeys
        <5>2. doc.runs = {User}
          BY <4>1, <5>1, PlanesApart DEF OnePlane
        <5>3. key = u
          <6>1. key = <<key[1], key[2]>>
            BY DEF Keys
          <6>2. key[1] = id /\ key[2] = User
            BY <4>1, <5>1, <5>2
          <6> QED BY <6>1, <6>2
        <5> QED BY <2>1, <3>1, <5>3 DEF Fetched
      <4> QED BY <2>1, <4>1, <4>2
    <3> QED BY <1>1, <3>1 DEF FindsTable, Noted
  <2> QED BY <2>1, <2>2
<1>3. Holds(d, set)
  BY <1>2 DEF Holds
<1> QED BY <1>1, <1>3 DEF d

\* What an attachment brings for a table.
Arrived(t, f) ==
  IF \E d \in Contents[server].docs : d.id = t.id /\ d.runs = t.runs
    THEN Contents[server].arrays[f] ELSE Garbage

\* The table u is t with the attachment for f.
WithArray(u, t, f) ==
  /\ u \in Table /\ u.id = t.id /\ u.runs = t.runs /\ u.deferred = t.deferred \ {f}
  /\ u.fields[f] = Arrived(t, f) /\ \A g \in Fields : g # f => u.fields[g] = t.fields[g]
Replaced(d, c, t, u) ==
  /\ d.absent = c.absent
  /\ \A k \in Keys : d.tables[k] = IF c.tables[k] = t THEN u ELSE c.tables[k]

\* FetchArray puts the table with the attachment wherever the table was.
LEMMA FetchArrayPuts ==
  ASSUME NEW c \in Caches, NEW key \in Keys, server \in Servers \cup {NoServer},
         c.tables[key] # NoTable, NEW f \in Fields
  PROVE  /\ FetchArray(c, c.tables[key], f) \in Caches
         /\ \E u : /\ WithArray(u, c.tables[key], f)
                   /\ Replaced(FetchArray(c, c.tables[key], f), c, c.tables[key], u)
<1> DEFINE t == c.tables[key]
           x == Arrived(t, f)
           ks == {k \in Keys : c.tables[k] = t}
           u == [t EXCEPT !.fields[f] = x, !.deferred = @ \ {f}]
           fs == [t.fields EXCEPT ![f] = x]
           d == FetchArray(c, t, f)
<1>1. t \in Table /\ x \in Values \cup {Garbage}
  BY ServerFacts DEF Caches, Tables, Arrived
<1>2. d = Put(c, ks, u)
  BY DEF FetchArray, Arrived
<1> HIDE DEF x, d
<1>3. WithArray(u, t, f)
  <2>1. /\ t \in [id : Ids, runs : SUBSET Planes, fields : [Fields -> Values \cup {Absent, Garbage}],
                  deferred : SUBSET Fields]
    BY <1>1 DEF Table
  <2> HIDE DEF t
  <2>2. fs \in [Fields -> Values \cup {Absent, Garbage}] /\ fs[f] = x /\ \A g \in Fields : g # f => fs[g] = t.fields[g]
    BY <1>1, <2>1
  <2>3. u = [[t EXCEPT !.fields = fs] EXCEPT !.deferred = t.deferred \ {f}]
    BY <2>1
  <2> HIDE DEF fs
  <2>4. u = [id |-> t.id, runs |-> t.runs, fields |-> fs, deferred |-> t.deferred \ {f}]
    <3> DEFINE R == [id : Ids, runs : SUBSET Planes,
                     fields : [Fields -> Values \cup {Absent, Garbage}], deferred : SUBSET Fields]
               v == [t EXCEPT !.fields = fs]
    <3>1. v \in R /\ v.id = t.id /\ v.runs = t.runs /\ v.fields = fs /\ v.deferred = t.deferred
      BY <2>1, <2>2
    <3> HIDE DEF v
    <3>2. [v EXCEPT !.deferred = t.deferred \ {f}]
            = [id |-> v.id, runs |-> v.runs, fields |-> v.fields, deferred |-> t.deferred \ {f}]
      BY <3>1
    <3> QED BY <2>3, <3>1, <3>2 DEF v
  <2> HIDE DEF u
  <2>5. u \in Table /\ u.id = t.id /\ u.runs = t.runs /\ u.deferred = t.deferred \ {f} /\ u.fields = fs
    BY <2>1, <2>2, <2>4 DEF Table
  <2> QED BY <2>2, <2>5 DEF WithArray, x
<1> HIDE DEF u
<1>4. \A k \in ks \cap Keys : Placed(u, k)
  BY <1>1, <1>3, PlaneAssumption DEF Caches, Placed, OnePlane, WithArray
<1>5. d \in Caches /\ Replaced(d, c, t, u)
  BY <1>2, <1>3, <1>4, PutLeaves DEF Replaced, WithArray
<1> QED BY <1>3, <1>5 DEF d

\* An attachment only comes over a field that it was to come over.
LEMMA FetchArrayHolds ==
  ASSUME NEW c \in Caches, NEW key \in Keys, server \in Servers \cup {NoServer},
         NEW f \in Fields, Deferred(c, key, f), NEW set, Holds(c, set)
  PROVE  /\ FetchArray(c, c.tables[key], f) \in Caches
         /\ Holds(FetchArray(c, c.tables[key], f), set)
<1> DEFINE t == c.tables[key]
           d == FetchArray(c, t, f)
<1>1. t # NoTable /\ f \in t.deferred
  BY DEF Deferred
<1>2. PICK u : WithArray(u, t, f) /\ Replaced(d, c, t, u)
  BY <1>1, FetchArrayPuts
<1>3. d \in Caches
  BY <1>1, FetchArrayPuts
<1> HIDE DEF d
<1>4. ASSUME NEW id \in Ids, NEW g \in Fields, set[id][g] # Absent
      PROVE  UserHas(d.tables[<<id, User>>], g, set[id][g])
  <2>1. <<id, User>> \in Keys
    BY PlanesApart DEF Keys
  <2>2. UserHas(c.tables[<<id, User>>], g, set[id][g])
    BY <1>4 DEF Holds
  <2>3. CASE c.tables[<<id, User>>] # t
    BY <1>2, <2>1, <2>2, <2>3 DEF Replaced
  <2>4. CASE c.tables[<<id, User>>] = t
    <3>1. g # f /\ d.tables[<<id, User>>] = u
      BY <1>1, <1>2, <2>1, <2>2, <2>4 DEF UserHas, Replaced
    <3> QED BY <1>2, <2>2, <2>4, <3>1, PlaneAssumption DEF UserHas, WithArray
  <2> QED BY <2>3, <2>4
<1>5. Holds(d, set)
  BY <1>4 DEF Holds
<1> QED BY <1>3, <1>5 DEF d

-----------------------------------------------------------------------------
(* What is read.  The reads of a run look at the three planes in turn, and *)
(* a table on one of them says nothing of the other two.                   *)

\* The table that a lookup of k gives, and what the table says of f.
SeenAt(c, k) == FindTable(c, k).tables[k]
Value(t, f) ==
  IF t = NoTable THEN Absent
  ELSE IF f \in t.deferred THEN Arrived(t, f)
  ELSE t.fields[f]
FirstOf(u, v, w) == IF u # Absent THEN u ELSE IF v # Absent THEN v ELSE w

ReadKeys(r) == Ids \X {User, r, Default}
SameReads(d, c, r) ==
  \A k \in ReadKeys(r), f \in Fields : Value(SeenAt(d, k), f) = Value(SeenAt(c, k), f)

\* A lookup depends on what is known of its own key only.
LEMMA SeenAtIs ==
  ASSUME NEW c \in Caches, NEW k \in Keys, server \in Servers \cup {NoServer}
  PROVE  SeenAt(c, k) = IF c.tables[k] # NoTable \/ k[1] \notin Contents[server].names \/ k \in c.absent
                          THEN c.tables[k]
                        ELSE IF Docs(k) = {} THEN NoTable ELSE CHOOSE d \in Docs(k) : TRUE
<1>1. CASE c.tables[k] # NoTable \/ k[1] \notin Contents[server].names \/ k \in c.absent
  BY <1>1 DEF SeenAt, FindTable
<1>2. CASE ~(c.tables[k] # NoTable \/ k[1] \notin Contents[server].names \/ k \in c.absent)
           /\ Docs(k) = {}
  <2>1. FindTable(c, k) = [c EXCEPT !.absent = @ \cup {k}]
    BY <1>2 DEF FindTable
  <2>2. FindTable(c, k).tables = c.tables
    BY <2>1 DEF Caches
  <2> QED BY <1>2, <2>2 DEF SeenAt
<1>3. CASE ~(c.tables[k] # NoTable \/ k[1] \notin Contents[server].names \/ k \in c.absent)
           /\ Docs(k) # {}
  <2> DEFINE doc == CHOOSE d \in Docs(k) : TRUE
  <2>1. doc \in Docs(k)
    BY <1>3
  <2>2. FindTable(c, k) = Put(c, ValidKeys(doc), doc)
    BY <1>3 DEF FindTable
  <2>3. k \in ValidKeys(doc)
    <3> HIDE DEF doc
    <3>1. k = <<k[1], k[2]>> /\ doc.id = k[1] /\ k[2] \in doc.runs
      BY <2>1 DEF Keys, Docs
    <3> QED BY <3>1 DEF ValidKeys
  <2>4. Put(c, ValidKeys(doc), doc).tables[k] = doc
    BY <2>3, PutLeaves
  <2> QED BY <1>3, <2>2, <2>4 DEF SeenAt
<1> QED BY <1>1, <1>2, <1>3

\* A table has a field if it says something of it.
LEMMA HasIsValue ==
  ASSUME NEW c \in Caches, NEW k \in Keys, NEW f \in Fields, server \in Servers \cup {NoServer}
  PROVE  /\ Has(c, k, f) <=> Value(c.tables[k], f) # Absent
         /\ ~Deferred(c, k, f) =>
              /\ Member(c, k, f) <=> Value(c.tables[k], f) # Absent
              /\ Member(c, k, f) => c.tables[k].fields[f] = Value(c.tables[k], f)
<1>1. \A t : Arrived(t, f) # Absent
  BY ServerFacts, PlaneAssumption DEF Arrived
<1> QED BY <1>1 DEF Has, Member, Deferred, Value

\* A lookup leaves what other planes and tables say, and a second lookup of
\* its own key gives the same.
LEMMA FindTableSame ==
  ASSUME NEW c \in Caches, NEW r \in Runs, NEW key \in ReadKeys(r), server \in Servers \cup {NoServer}
  PROVE  /\ FindTable(c, key) \in Caches
         /\ FindTable(c, key).tables[key] = SeenAt(c, key)
         /\ \A k \in ReadKeys(r) : /\ SeenAt(FindTable(c, key), k) = SeenAt(c, k)
                                   /\ k # key => FindTable(c, key).tables[k] = c.tables[k]
<1> DEFINE d == FindTable(c, key)
<1>1. ReadKeys(r) \subseteq Keys
  BY PlanesApart DEF ReadKeys, Keys
<1>2. d \in Caches /\ FindsTable(d, c, key)
  BY <1>1, FindTableCases
<1>3. d.tables[key] = SeenAt(c, key)
  BY DEF SeenAt
<1> HIDE DEF d
<1>4. SeenAt(d, key) = d.tables[key]
  <2>1. d.tables[key] # NoTable \/ key[1] \notin Contents[server].names \/ key \in d.absent
    <3>1. CASE Fetched(d, c, key)
      <4>1. PICK doc \in Docs(key) :
              /\ doc.id = key[1] /\ key[2] \in doc.runs /\ doc # NoTable
              /\ \A k \in Keys : d.tables[k] = IF k \in ValidKeys(doc) THEN doc ELSE c.tables[k]
        BY <3>1 DEF Fetched
      <4>2. key = <<key[1], key[2]>>
        BY DEF ReadKeys
      <4>3. key \in ValidKeys(doc)
        BY <4>1, <4>2 DEF ValidKeys
      <4> QED BY <1>1, <4>1, <4>3
    <3> QED BY <1>2, <3>1 DEF FindsTable, Noted
  <2> QED BY <1>1, <1>2, <2>1, SeenAtIs
<1>5. ASSUME NEW k \in ReadKeys(r), k # key
      PROVE  d.tables[k] = c.tables[k] /\ SeenAt(d, k) = SeenAt(c, k)
  <2>1. d.tables[k] = c.tables[k]
    <3>1. ASSUME Fetched(d, c, key) PROVE d.tables[k] = c.tables[k]
      <4>1. PICK doc \in Docs(key) :
              /\ doc.id = key[1] /\ key[2] \in doc.runs /\ OnePlane(doc)
              /\ \A l \in Keys : d.tables[l] = IF l \in ValidKeys(doc) THEN doc ELSE c.tables[l]
        BY <3>1 DEF Fetched
      <4>2. ASSUME k \in ValidKeys(doc) PROVE FALSE
        <5>1. k[1] = key[1] /\ k[2] \in doc.runs
          BY <4>1, <4>2 DEF ValidKeys
        <5>2. k[2] \in {User, r, Default} /\ key[2] \in {User, r, Default}
          BY DEF ReadKeys
        <5>3. k[2] = key[2]
          BY <4>1, <5>1, <5>2, PlanesApart DEF OnePlane
        <5>4. k = <<k[1], k[2]>> /\ key = <<key[1], key[2]>>
          BY DEF ReadKeys
        <5> QED BY <1>5, <5>1, <5>3, <5>4
      <4> QED BY <1>1, <4>1, <4>2
    <3> QED BY <1>2, <3>1 DEF FindsTable, Noted
  <2>2. k \in d.absent <=> k \in c.absent
    BY <1>2, <1>5 DEF FindsTable, Noted, Fetched
  <2>3. k \in Keys
    BY <1>1
  <2> QED BY <1>2, <2>1, <2>2, <2>3, SeenAtIs
<1>6. \A k \in ReadKeys(r) : SeenAt(d, k) = SeenAt(c, k)
  BY <1>3, <1>4, <1>5
<1> QED BY <1>2, <1>3, <1>5, <1>6 DEF d

\* An attachment is what its table said already.
LEMMA FetchArraySame ==
  ASSUME NEW c \in Caches, NEW key \in Keys, server \in Servers \cup {NoServer},
         NEW f \in Fields, Deferred(c, key, f)
  PROVE  /\ \A k \in Keys, g \in Fields :
              Value(SeenAt(FetchArray(c, c.tables[key], f), k), g) = Value(SeenAt(c, k), g)
         /\ Member(FetchArray(c, c.tables[key], f), key, f)
         /\ FetchArray(c, c.tables[key], f).tables[key].fields[f] = Value(c.tables[key], f)
<1> DEFINE t == c.tables[key]
           d == FetchArray(c, t, f)
<1>1. t # NoTable /\ f \in t.deferred
  BY DEF Deferred
<1>2. PICK u : WithArray(u, t, f) /\ Replaced(d, c, t, u)
  BY <1>1, FetchArrayPuts
<1>3. d \in Caches
  BY <1>1, FetchArrayPuts
<1> HIDE DEF d
<1>4. u # NoTable /\ u.id = t.id /\ u.runs = t.runs /\ u.deferred = t.deferred \ {f}
  BY <1>2, PlaneAssumption DEF WithArray
<1>5. ASSUME NEW g \in Fields PROVE Value(u, g) = Value(t, g)
  <2>1. Arrived(u, g) = Arrived(t, g)
    BY <1>4 DEF Arrived
  <2> QED BY <1>1, <1>2, <1>4, <2>1 DEF Value, WithArray
<1>6. ASSUME NEW k \in Keys, NEW g \in Fields
      PROVE  Value(SeenAt(d, k), g) = Value(SeenAt(c, k), g)
  <2>1. CASE c.tables[k] = t
    <3>1. d.tables[k] = u
      BY <1>2, <2>1 DEF Replaced
    <3>2. SeenAt(d, k) = u /\ SeenAt(c, k) = t
      BY <1>1, <1>3, <1>4, <2>1, <3>1, SeenAtIs
    <3> QED BY <1>5, <3>2
  <2>2. CASE c.tables[k] # t
    <3>1. d.tables[k] = c.tables[k] /\ d.absent = c.absent
      BY <1>2, <2>2 DEF Replaced
    <3>2. SeenAt(d, k) = SeenAt(c, k)
      BY <1>3, <3>1, SeenAtIs
    <3> QED BY <3>2
  <2> QED BY <2>1, <2>2
<1>7. d.tables[key] = u
  BY <1>2 DEF Replaced
<1>8. u.fields[f] = Arrived(t, f) /\ Arrived(t, f) # Absent /\ Value(t, f) = Arrived(t, f)
  BY <1>1, <1>2, ServerFacts, PlaneAssumption DEF Arrived, WithArray, Value
<1>9. Member(d, key, f) /\ d.tables[key].fields[f] = Value(t, f)
  BY <1>4, <1>7, <1>8 DEF Member
<1> QED BY <1>6, <1>9 DEF d

-----------------------------------------------------------------------------
(* Reads, dumps and loading.                                               *)

\* What an operation that only fills the cache may do: d is c after it.
Fills(d, c, r) ==
  /\ d \in Caches /\ SameReads(d, c, r)
  /\ \A set \in [Ids -> [Fields -> Values \cup {Absent}]] : Holds(c, set) => Holds(d, set)

\* Filling twice is filling.
LEMMA FillsOnce ==
  ASSUME NEW c, NEW d, NEW e, NEW r, Fills(d, c, r), Fills(e, d, r)
  PROVE  Fills(e, c, r)
<1>1. SameReads(e, c, r)
  BY DEF Fills, SameReads
<1>2. \A set \in [Ids -> [Fields -> Values \cup {Absent}]] : Holds(c, set) => Holds(e, set)
  BY DEF Fills
<1> QED BY <1>1, <1>2 DEF Fills

\* A lookup only fills the cache.
LEMMA FindTableFills ==
  ASSUME NEW c \in Caches, NEW r \in Runs, NEW key \in ReadKeys(r), server \in Servers \cup {NoServer}
  PROVE  Fills(FindTable(c, key), c, r)
<1>1. key \in Keys
  BY PlanesApart DEF ReadKeys, Keys
<1>2. SameReads(FindTable(c, key), c, r)
  BY FindTableSame DEF SameReads
<1> QED BY <1>1, <1>2, FindTableSame, FindTableHolds DEF Fills

\* So does the read of a field of a table in the cache, and it returns what the
\* table says.
ReadAt(c, key, f) == IF Deferred(c, key, f) THEN FetchArray(c, c.tables[key], f) ELSE c
LEMMA ReadAtReads ==
  ASSUME NEW c \in Caches, NEW r \in Runs, NEW key \in ReadKeys(r), NEW f \in Fields,
         server \in Servers \cup {NoServer}
  PROVE  /\ Fills(ReadAt(c, key, f), c, r)
         /\ (IF Has(ReadAt(c, key, f), key, f) THEN ReadAt(c, key, f).tables[key].fields[f] ELSE Absent)
              = Value(c.tables[key], f)
<1>1. key \in Keys /\ ReadKeys(r) \subseteq Keys
  BY PlanesApart DEF ReadKeys, Keys
<1>2. CASE Deferred(c, key, f)
  <2> DEFINE d == FetchArray(c, c.tables[key], f)
  <2>1. d \in Caches
    BY <1>1, <1>2, FetchArrayPuts DEF Deferred
  <2>2. /\ \A k \in Keys, g \in Fields : Value(SeenAt(d, k), g) = Value(SeenAt(c, k), g)
        /\ Member(d, key, f) /\ d.tables[key].fields[f] = Value(c.tables[key], f)
    BY <1>1, <1>2, FetchArraySame
  <2>3. \A set : Holds(c, set) => Holds(d, set)
    BY <1>1, <1>2, FetchArrayHolds
  <2>4. ReadAt(c, key, f) = d
    BY <1>2 DEF ReadAt
  <2> HIDE DEF d
  <2>5. SameReads(d, c, r)
    BY <1>1, <2>2 DEF SameReads
  <2>6. Fills(d, c, r)
    BY <2>1, <2>3, <2>5 DEF Fills
  <2> QED BY <2>2, <2>4, <2>6 DEF Has
<1>3. CASE ~Deferred(c, key, f)
  <2>1. ReadAt(c, key, f) = c
    BY <1>3 DEF ReadAt
  <2>2. Fills(c, c, r)
    BY DEF Fills, SameReads
  <2>3. (IF Has(c, key, f) THEN c.tables[key].fields[f] ELSE Absent) = Value(c.tables[key], f)
    BY <1>1, <1>3, HasIsValue DEF Has
  <2> QED BY <2>1, <2>2, <2>3
<1> QED BY <1>2, <1>3

\* A read only fills the cache, and returns the field from the first plane
\* that says something of it.
LEMMA GetReads ==
  ASSUME NEW c \in Caches, NEW id \in Ids, NEW r \in Runs, NEW f \in Fields,
         server \in Servers \cup {NoServer}
  PROVE  /\ Fills(Get(c, id, r, f).cache, c, r)
         /\ Get(c, id, r, f).value = FirstOf(Value(SeenAt(c, <<id, User>>), f),
                                             Value(SeenAt(c, <<id, r>>), f),
                                             Value(SeenAt(c, <<id, Default>>), f))
<1> DEFINE u == <<id, User>>
           m == <<id, r>>
           e == <<id, Default>>
           c1 == FindTable(c, u)
           c2 == FindTable(c1, m)
           c3 == FindTable(c2, e)
           Result(d, k) == [cache |-> ReadAt(d, k, f),
                            value |-> IF Has(ReadAt(d, k, f), k, f)
                                        THEN ReadAt(d, k, f).tables[k].fields[f] ELSE Absent]
<1>1. u \in ReadKeys(r) /\ m \in ReadKeys(r) /\ e \in ReadKeys(r) /\ ReadKeys(r) \subseteq Keys
  BY PlanesApart DEF ReadKeys, Keys
<1>2. Get(c, id, r, f) = IF Has(c1, u, f) THEN Result(c1, u)
                         ELSE IF Has(c2, m, f) THEN Result(c2, m) ELSE Result(c3, e)
  <2>1. CASE Has(c1, u, f)
    BY <2>1 DEF Get, ReadAt
  <2>2. CASE ~Has(c1, u, f) /\ Has(c2, m, f)
    BY <2>2 DEF Get, ReadAt
  <2>3. CASE ~Has(c1, u, f) /\ ~Has(c2, m, f)
    BY <2>3 DEF Get, ReadAt
  <2> QED BY <2>1, <2>2, <2>3
<1> HIDE DEF u, m, e
<1>3. c1 \in Caches /\ Fills(c1, c, r) /\ c1.tables[u] = SeenAt(c, u)
      /\ \A k \in ReadKeys(r) : SeenAt(c1, k) = SeenAt(c, k)
  BY <1>1, FindTableSame, FindTableFills
<1> HIDE DEF c1
<1>4. c2 \in Caches /\ Fills(c2, c1, r) /\ c2.tables[m] = SeenAt(c, m)
      /\ \A k \in ReadKeys(r) : SeenAt(c2, k) = SeenAt(c, k)
  BY <1>1, <1>3, FindTableSame, FindTableFills
<1> HIDE DEF c2
<1>5. c3 \in Caches /\ Fills(c3, c2, r) /\ c3.tables[e] = SeenAt(c, e)
  BY <1>1, <1>4, FindTableSame, FindTableFills
<1> HIDE DEF c3
<1>6. Fills(c2, c, r) /\ Fills(c3, c, r)
  BY <1>3, <1>4, <1>5, FillsOnce
<1>7. ASSUME NEW d \in Caches, NEW k \in ReadKeys(r), Fills(d, c, r)
      PROVE  Fills(Result(d, k).cache, c, r) /\ Result(d, k).value = Value(d.tables[k], f)
  <2>1. Fills(ReadAt(d, k, f), d, r) /\ Result(d, k).value = Value(d.tables[k], f)
    BY ReadAtReads
  <2>2. Fills(ReadAt(d, k, f), c, r)
    BY <1>7, <2>1, FillsOnce
  <2> QED BY <2>1, <2>2
<1> HIDE DEF Result
<1>8. /\ Has(c1, u, f) <=> Value(SeenAt(c, u), f) # Absent
      /\ Has(c2, m, f) <=> Value(SeenAt(c, m), f) # Absent
  BY <1>1, <1>3, <1>4, HasIsValue
<1>9. /\ Fills(Get(c, id, r, f).cache, c, r)
      /\ Get(c, id, r, f).value = FirstOf(Value(SeenAt(c, u), f), Value(SeenAt(c, m), f), Value(SeenAt(c, e), f))
  <2>1. CASE Has(c1, u, f)
    BY <1>1, <1>2, <1>3, <1>7, <1>8, <2>1 DEF FirstOf
  <2>2. CASE ~Has(c1, u, f) /\ Has(c2, m, f)
    BY <1>1, <1>2, <1>4, <1>6, <1>7, <1>8, <2>2 DEF FirstOf
  <2>3. CASE ~Has(c1, u, f) /\ ~Has(c2, m, f)
    BY <1>1, <1>2, <1>5, <1>6, <1>7, <1>8, <2>3 DEF FirstOf
  <2> QED BY <2>1, <2>2, <2>3
<1> QED BY <1>9 DEF u, m, e

\* The lookups of a dump only fill the cache, and have each plane as a read
\* of the default run would see it.
LEMMA DumpLookupsSee ==
  ASSUME NEW c \in Caches, NEW id \in Ids, server \in Servers \cup {NoServer}, run \in Runs
  PROVE  /\ Fills(DumpLookups(c, id), c, run)
         /\ \A p \in {User, run, Default} :
              DumpLookups(c, id).tables[<<id, p>>] = SeenAt(c, <<id, p>>)
<1> DEFINE u == <<id, User>>
           m == <<id, run>>
           e == <<id, Default>>
           c1 == FindTable(c, e)
           c2 == FindTable(c1, m)
           c3 == FindTable(c2, u)
<1>1. u \in ReadKeys(run) /\ m \in ReadKeys(run) /\ e \in ReadKeys(run)
  BY DEF ReadKeys
<1>2. u # m /\ u # e /\ m # e
  BY PlanesApart
<1>3. DumpLookups(c, id) = c3
  BY DEF DumpLookups
<1> HIDE DEF u, m, e
<1>4. c1 \in Caches /\ Fills(c1, c, run) /\ c1.tables[e] = SeenAt(c, e)
      /\ \A k \in ReadKeys(run) : SeenAt(c1, k) = SeenAt(c, k)
  BY <1>1, FindTableSame, FindTableFills
<1> HIDE DEF c1
<1>5. c2 \in Caches /\ Fills(c2, c1, run) /\ c2.tables[m] = SeenAt(c, m) /\ c2.tables[e] = SeenAt(c, e)
      /\ \A k \in ReadKeys(run) : SeenAt(c2, k) = SeenAt(c, k)
  BY <1>1, <1>2, <1>4, FindTableSame, FindTableFills
<1> HIDE DEF c2
<1>6. Fills(c3, c2, run) /\ c3.tables[u] = SeenAt(c, u) /\ c3.tables[m] = SeenAt(c, m)
      /\ c3.tables[e] = SeenAt(c, e)
  BY <1>1, <1>2, <1>5, FindTableSame, FindTableFills
<1> HIDE DEF c3
<1>7. Fills(c3, c, run)
  BY <1>4, <1>5, <1>6, FillsOnce
<1> QED BY <1>3, <1>6, <1>7 DEF u, m, e

\* The set of caches that hold what was set.
Holding(set) == {c \in Caches : Holds(c, set)}

\* Storing a file's table keeps what was set elsewhere.
LEMMA PutHolds ==
  ASSUME NEW c, NEW set, c \in Holding(set), NEW t \in Table, OnePlane(t), NEW r \in t.runs,
         User \in t.runs => \A f \in Fields : set[t.id][f] = Absent
  PROVE  Put(c, {<<t.id, r>>}, t) \in Holding(set)
<1> DEFINE d == Put(c, {<<t.id, r>>}, t)
<1>1. c \in Caches /\ Holds(c, set)
  BY DEF Holding
<1>2. Placed(t, <<t.id, r>>)
  BY DEF Placed
<1>3. d \in Caches /\ \A k \in Keys : d.tables[k] = IF k \in {<<t.id, r>>} THEN t ELSE c.tables[k]
  BY <1>1, <1>2, PutLeaves
<1> HIDE DEF d
<1>4. ASSUME NEW id \in Ids, NEW f \in Fields, set[id][f] # Absent
      PROVE  UserHas(d.tables[<<id, User>>], f, set[id][f])
  <2>1. <<id, User>> \in Keys /\ UserHas(c.tables[<<id, User>>], f, set[id][f])
    BY <1>1, <1>4, PlanesApart DEF Keys, Holds
  <2>2. <<id, User>> # <<t.id, r>>
    BY <1>4
  <2> QED BY <1>3, <2>1, <2>2
<1>5. Holds(d, set)
  BY <1>4 DEF Holds
<1> QED BY <1>3, <1>5 DEF d, Holding

\* Loading a table, run by run, keeps what was set, unless it is a new user
\* table.
LEMMA LoadTableHolds ==
  ASSUME NEW c, NEW set, c \in Holding(set), NEW t \in Table, OnePlane(t),
         User \in t.runs => \A f \in Fields : set[t.id][f] = Absent,
         server \in Servers \cup {NoServer}
  PROVE  LoadTable(c, t) \in Holding(set)
<1> DEFINE D == t.runs
           I == Holding(set)
           Op(r, d) == Put(FindTable(d, <<t.id, r>>), {<<t.id, r>>}, t)
           Step(g) == [s \in SUBSET D |->
                         IF s = {} THEN c ELSE LET x == Max(s) IN Op(x, g[s \ {x}])]
           it == CHOOSE g : g = Step(g)
           ch == [s \in SUBSET D |-> Max(s)]
           h == [p \in D \X I |-> Op(p[1], p[2])]
<1>1. D \subseteq Planes /\ D \subseteq Int /\ IsFiniteSet(D)
  <2>1. t.runs \subseteq Planes
    BY DEF Table
  <2>2. Planes \subseteq Int
    BY PlaneAssumption DEF Planes, User, Default
  <2>3. IsFiniteSet({User}) /\ IsFiniteSet({Default}) /\ IsFiniteSet(Runs)
    BY FS_Singleton, PlaneAssumption
  <2>4. IsFiniteSet(t.runs)
    BY <2>3, FS_Subset DEF OnePlane
  <2> QED BY <2>1, <2>2, <2>4
<1>2. ASSUME NEW r \in D, NEW d \in I PROVE Op(r, d) \in I
  <2>1. <<t.id, r>> \in Keys
    BY <1>1 DEF Keys, Table
  <2>2. FindTable(d, <<t.id, r>>) \in Holding(set)
    BY <2>1, FindTableHolds DEF Holding
  <2> QED BY <2>2, PutHolds
<1>3. ASSUME NEW s \in SUBSET D, s # {} PROVE Max(s) \in s
  <2>1. s \in SUBSET Int /\ IsFiniteSet(s)
    BY <1>1, FS_Subset
  <2> QED BY <1>3, <2>1, LargestNumber DEF Max
<1> HIDE DEF Op, D, I
<1>4. PICK g : FoldOver(g, D, c, ch, h) /\ \A s \in SUBSET D : g[s] \in I
  <2>1. Chooses(ch, D)
    BY <1>3 DEF Chooses
  <2>2. Keeps(h, D, I)
    BY <1>2 DEF Keeps
  <2>3. c \in I
    BY DEF I
  <2> HIDE DEF ch, h
  <2>4. IsFiniteSet(D)
    BY <1>1
  <2> QED BY ONLY <2>1, <2>2, <2>3, <2>4, FoldExists
<1>5. g = Step(g)
  <2>1. ASSUME NEW s \in SUBSET D, s # {}
        PROVE  h[ch[s], g[s \ {ch[s]}]] = Op(Max(s), g[s \ {Max(s)}])
    <3>1. ch[s] = Max(s) /\ Max(s) \in D /\ g[s \ {Max(s)}] \in I
      BY <1>3, <1>4, <2>1
    <3> QED BY <3>1
  <2>2. g = [s \in SUBSET D |-> IF s = {} THEN c ELSE h[ch[s], g[s \ {ch[s]}]]]
    BY <1>4 DEF FoldOver
  <2> HIDE DEF ch, h
  <2> QED BY <2>1, <2>2
<1>6. it = Step(it)
  <2> HIDE DEF Step
  <2> QED BY <1>5
<1> HIDE DEF it
<1>7. \A s \in SUBSET D : it[s] \in I
  <2> DEFINE F == {s \in SUBSET D : it[s] \in I}
  <2>1. {} \in F
    BY <1>6 DEF I
  <2>2. ASSUME NEW s \in SUBSET D, s # {}, \A x \in s : s \ {x} \in F PROVE s \in F
    <3>1. Max(s) \in s /\ Max(s) \in D
      BY <1>3, <2>2
    <3>2. it[s \ {Max(s)}] \in I
      BY <2>2, <3>1
    <3>3. it[s] = Op(Max(s), it[s \ {Max(s)}])
      BY <1>6, <2>2
    <3>4. it[s] \in I
      BY <1>2, <3>1, <3>2, <3>3
    <3> QED BY <3>4
  <2> HIDE DEF F
  <2>3. SUBSET D \subseteq F
    BY <1>1, <2>1, <2>2, SubsetsByInduction
  <2> QED BY <2>3 DEF F
<1>8. LoadTable(c, t) = it[D]
  BY DEF LoadTable, MapThenFoldSet, it, Op, D
<1> QED BY <1>7, <1>8 DEF I

\* So does the initialisation, which loads the experiment's tables in order.
LEMMA InitializeHolds ==
  ASSUME NEW c, NEW set, c \in Holding(set),
         \A k \in DOMAIN Experiment :
           User \in Experiment[k].runs => \A f \in Fields : set[Experiment[k].id][f] = Absent,
         server \in Servers \cup {NoServer}
  PROVE  FoldLeft(LoadTable, c, Experiment) \in Holding(set)
<1> DEFINE D == DOMAIN Experiment
           I == Holding(set)
           Op(k, d) == LoadTable(d, Experiment[k])
           Step(g) == [s \in SUBSET D |->
                         IF s = {} THEN c ELSE LET x == Max(s) IN Op(x, g[s \ {x}])]
           it == CHOOSE g : g = Step(g)
           ch == [s \in SUBSET D |-> Max(s)]
           h == [p \in D \X I |-> Op(p[1], p[2])]
<1>1. D \subseteq Int /\ IsFiniteSet(D)
  <2> DEFINE n == Len(Experiment)
  <2>1. n \in Nat /\ D = 1..n
    BY PlaneAssumption
  <2> HIDE DEF n, D
  <2> QED BY <2>1, FS_Interval
<1>2. ASSUME NEW k \in D, NEW d \in I PROVE Op(k, d) \in I
  <2>1. Experiment[k] \in Table /\ Experiment[k] \in Range(Experiment)
    BY PlaneAssumption DEF Range
  <2>2. OnePlane(Experiment[k])
    BY <2>1, PlaneAssumption DEF OnePlane
  <2> QED BY <2>1, <2>2, LoadTableHolds
<1>3. ASSUME NEW s \in SUBSET D, s # {} PROVE Max(s) \in s
  <2>1. s \in SUBSET Int /\ IsFiniteSet(s)
    BY <1>1, FS_Subset
  <2> QED BY <1>3, <2>1, LargestNumber DEF Max
<1> HIDE DEF Op, D, I
<1>4. PICK g : FoldOver(g, D, c, ch, h) /\ \A s \in SUBSET D : g[s] \in I
  <2>1. Chooses(ch, D)
    BY <1>3 DEF Chooses
  <2>2. Keeps(h, D, I)
    BY <1>2 DEF Keeps
  <2>3. c \in I
    BY DEF I
  <2>4. IsFiniteSet(D)
    BY <1>1
  <2> HIDE DEF ch, h
  <2> QED BY ONLY <2>1, <2>2, <2>3, <2>4, FoldExists
<1>5. g = Step(g)
  <2>1. ASSUME NEW s \in SUBSET D, s # {}
        PROVE  h[ch[s], g[s \ {ch[s]}]] = Op(Max(s), g[s \ {Max(s)}])
    <3>1. ch[s] = Max(s) /\ Max(s) \in D /\ g[s \ {Max(s)}] \in I
      BY <1>3, <1>4, <2>1
    <3> QED BY <3>1
  <2>2. g = [s \in SUBSET D |-> IF s = {} THEN c ELSE h[ch[s], g[s \ {ch[s]}]]]
    BY <1>4 DEF FoldOver
  <2> HIDE DEF ch, h
  <2> QED BY <2>1, <2>2
<1>6. it = Step(it)
  <2> HIDE DEF Step
  <2> QED BY <1>5
<1> HIDE DEF it
<1>7. \A s \in SUBSET D : it[s] \in I
  <2> DEFINE F == {s \in SUBSET D : it[s] \in I}
  <2>1. {} \in F
    BY <1>6 DEF I
  <2>2. ASSUME NEW s \in SUBSET D, s # {}, \A x \in s : s \ {x} \in F PROVE s \in F
    <3>1. Max(s) \in s /\ Max(s) \in D
      BY <1>3, <2>2
    <3>2. it[s \ {Max(s)}] \in I
      BY <2>2, <3>1
    <3>3. it[s] = Op(Max(s), it[s \ {Max(s)}])
      BY <1>6, <2>2
    <3>4. it[s] \in I
      BY <1>2, <3>1, <3>2, <3>3
    <3> QED BY <3>4
  <2> HIDE DEF F
  <2>3. SUBSET D \subseteq F
    BY <1>1, <2>1, <2>2, SubsetsByInduction
  <2> QED BY <2>3 DEF F
<1>8. FoldLeft(LoadTable, c, Experiment) = it[D]
  BY DEF FoldLeft, MapThenFoldSet, it, Op, D
<1> QED BY <1>7, <1>8 DEF I

\* A dump only fills the cache, whatever tables it looks up and in what order.
DumpedOver(c, known) == FoldSet(LAMBDA id, d : DumpLookups(d, id), c, known)
LEMMA DumpFills ==
  ASSUME NEW c \in Caches, NEW known \in SUBSET Ids, server \in Servers \cup {NoServer}, run \in Runs
  PROVE  Fills(DumpedOver(c, known), c, run)
<1> DEFINE D == known
           I == {d \in Caches : Fills(d, c, run)}
           Op(id, d) == DumpLookups(d, id)
           Step(g) == [s \in SUBSET D |->
                         IF s = {} THEN c ELSE LET x == CHOOSE y \in s : TRUE IN Op(x, g[s \ {x}])]
           it == CHOOSE g : g = Step(g)
           ch == [s \in SUBSET D |-> CHOOSE y \in s : TRUE]
           h == [p \in D \X I |-> Op(p[1], p[2])]
<1>1. IsFiniteSet(D)
  BY PlaneAssumption, FS_Subset
<1>2. ASSUME NEW k \in D, NEW d \in I PROVE Op(k, d) \in I
  <2>1. d \in Caches /\ Fills(d, c, run) /\ k \in Ids
    OBVIOUS
  <2>2. Fills(DumpLookups(d, k), d, run)
    BY <2>1, DumpLookupsSee
  <2>3. Fills(DumpLookups(d, k), c, run)
    BY <2>1, <2>2, FillsOnce
  <2> QED BY <2>3 DEF Fills
<1>3. c \in I
  BY DEF Fills, SameReads
<1>4. ASSUME NEW s \in SUBSET D, s # {} PROVE (CHOOSE y \in s : TRUE) \in s
  BY <1>4
<1>5. \A d \in I : Fills(d, c, run)
  OBVIOUS
<1> HIDE DEF Op, D, I
<1>6. PICK g : FoldOver(g, D, c, ch, h) /\ \A s \in SUBSET D : g[s] \in I
  <2>1. Chooses(ch, D)
    BY <1>4 DEF Chooses
  <2>2. Keeps(h, D, I)
    BY <1>2 DEF Keeps
  <2> HIDE DEF ch, h
  <2> QED BY ONLY <1>1, <1>3, <2>1, <2>2, FoldExists
<1>7. g = Step(g)
  <2>1. ASSUME NEW s \in SUBSET D, s # {}, NEW y, y = CHOOSE z \in s : TRUE
        PROVE  h[ch[s], g[s \ {ch[s]}]] = Op(y, g[s \ {y}])
    <3>1. ch[s] = y /\ y \in D /\ g[s \ {y}] \in I
      BY <1>4, <1>6, <2>1
    <3>2. \A x \in D, d \in I : h[x, d] = Op(x, d)
      OBVIOUS
    <3> HIDE DEF h, ch
    <3> QED BY <3>1, <3>2
  <2>2. g = [s \in SUBSET D |-> IF s = {} THEN c ELSE h[ch[s], g[s \ {ch[s]}]]]
    BY <1>6 DEF FoldOver
  <2> HIDE DEF ch, h
  <2> QED BY <2>1, <2>2
<1>8. it = Step(it)
  <2> HIDE DEF Step
  <2> QED BY <1>7
<1> HIDE DEF it
<1>9. \A s \in SUBSET D : it[s] \in I
  <2> DEFINE F == {s \in SUBSET D : it[s] \in I}
  <2>1. {} \in F
    BY <1>3, <1>8
  <2>2. ASSUME NEW s \in SUBSET D, s # {}, \A x \in s : s \ {x} \in F PROVE s \in F
    <3>1. PICK y \in s : y = CHOOSE z \in s : TRUE
      BY <1>4, <2>2
    <3>2. it[s \ {y}] \in I /\ y \in D
      BY <2>2, <3>1
    <3>3. it[s] = Op(y, it[s \ {y}])
      BY <1>8, <2>2, <3>1
    <3>4. it[s] \in I
      BY <1>2, <3>2, <3>3
    <3> QED BY <3>4
  <2> HIDE DEF F
  <2>3. SUBSET D \subseteq F
    BY <1>1, <2>1, <2>2, SubsetsByInduction
  <2> QED BY <2>3 DEF F
<1>10. DumpedOver(c, known) = it[D]
  BY DEF DumpedOver, FoldSet, MapThenFoldSet, it, Op, D
<1> QED BY <1>5, <1>9, <1>10

-----------------------------------------------------------------------------
(* The invariant.                                                          *)

\* Nothing is cached at first, and nothing is set.
LEMMA InitInv == Init => RatdbInv
<1> SUFFICES ASSUME Init PROVE RatdbInv
  OBVIOUS
<1>1. cache \in Caches
  <2>1. [k \in Keys |-> NoTable] \in [Keys -> Tables]
    BY DEF Tables
  <2>2. cache = [tables |-> [k \in Keys |-> NoTable], absent |-> {}]
    BY DEF Init, cache
  <2> QED BY <2>1, <2>2 DEF Caches
<1>2. lastSet \in [Ids -> [Fields -> Values \cup {Absent}]] /\ Holds(cache, lastSet)
  BY DEF Init, Holds
<1> QED BY <1>1, <1>2, PlanesApart DEF Init, RatdbInv

\* A step that leaves c in the cache.
LEMMA CacheNext ==
  ASSUME NEW c, c \in Caches, SetCache(c)
  PROVE  cache' = c
<1>1. c \in [tables : [Keys -> Tables], absent : SUBSET Keys]
  BY DEF Caches
<1>2. c = [tables |-> c.tables, absent |-> c.absent]
  BY <1>1
<1> QED BY <1>2 DEF SetCache, cache

\* A step that keeps the rest and only fills the cache keeps the invariant, and
\* changes nothing that is read.
LEMMA FillingInv ==
  ASSUME RatdbInv, NEW c, NEW r, Fills(c, cache, r), SetCache(c),
         UNCHANGED <<server, run, links, commands, lastSet>>
  PROVE  RatdbInv'
<1>1. c \in Caches
  BY DEF Fills
<1>2. cache' = c /\ Holds(c, lastSet)
  BY <1>1, CacheNext DEF Fills, RatdbInv
<1> QED BY <1>1, <1>2 DEF RatdbInv

\* A command keeps the invariant.
LEMMA CommandInv ==
  ASSUME RatdbInv, NEW c, c \in Holding(lastSet'), SetCache(c),
         lastSet' \in [Ids -> [Fields -> Values \cup {Absent}]],
         commands' = commands + 1, UNCHANGED <<server, run, links>>
  PROVE  RatdbInv'
<1>1. c \in Caches /\ Holds(c, lastSet')
  BY DEF Holding
<1>2. cache' = c
  BY <1>1, CacheNext
<1> QED BY <1>1, <1>2 DEF RatdbInv

\* Set makes the user's table say what was set, unless an attachment will
\* still come over it.
LEMMA SetFieldHolds ==
  ASSUME NEW c \in Caches, NEW id \in Ids, NEW f \in Fields, NEW v \in Values,
         server \in Servers \cup {NoServer},
         NEW set \in [Ids -> [Fields -> Values \cup {Absent}]], Holds(c, set)
  PROVE  /\ SetField(c, id, f, v) \in Caches
         /\ ~Deferred(SetField(c, id, f, v), <<id, User>>, f) =>
              SetField(c, id, f, v) \in Holding([set EXCEPT ![id][f] = v])
         /\ Deferred(SetField(c, id, f, v), <<id, User>>, f) =>
              SetField(c, id, f, v) \in Holding(set)
<1> DEFINE k == <<id, User>>
           found == FindTable(c, k)
           old == found.tables[k]
           new == [id |-> id, runs |-> {User}, fields |-> [g \in Fields |-> Absent], deferred |-> {}]
           t == IF old # NoTable THEN old ELSE new
           u == [t EXCEPT !.fields[f] = v]
           d == Put(found, {k}, u)
<1>1. k \in Keys /\ User \in Planes
  BY PlanesApart DEF Keys
<1>2. found \in Caches /\ Holds(found, set)
  BY <1>1, FindTableHolds
<1>3. SetField(c, id, f, v) = d
  BY DEF SetField
<1> HIDE DEF found, d
<1>4. t \in Table /\ Placed(t, k)
  <2>1. new \in Table /\ Placed(new, k)
    BY <1>1 DEF Table, Placed, OnePlane
  <2> HIDE DEF new
  <2>2. old # NoTable => old \in Table /\ Placed(old, k)
    BY <1>1, <1>2 DEF Caches, Tables
  <2> QED BY <2>1, <2>2
<1>6. \A g \in Fields : set[id][g] # Absent => UserHas(t, g, set[id][g])
  BY <1>1, <1>2 DEF Holds, UserHas
<1> HIDE DEF t
<1>7. u \in Table /\ u.id = t.id /\ u.runs = t.runs /\ u.deferred = t.deferred
      /\ u.fields[f] = v /\ \A g \in Fields : g # f => u.fields[g] = t.fields[g]
  <2> DEFINE fs == [t.fields EXCEPT ![f] = v]
  <2>1. t \in [id : Ids, runs : SUBSET Planes, fields : [Fields -> Values \cup {Absent, Garbage}],
               deferred : SUBSET Fields]
    BY <1>4 DEF Table
  <2>2. fs \in [Fields -> Values \cup {Absent, Garbage}] /\ fs[f] = v
        /\ \A g \in Fields : g # f => fs[g] = t.fields[g]
    BY <2>1
  <2>3. u = [t EXCEPT !.fields = fs]
    BY <2>1
  <2> HIDE DEF fs, u
  <2>4. u \in Table /\ u.id = t.id /\ u.runs = t.runs /\ u.deferred = t.deferred /\ u.fields = fs
    BY <2>1, <2>2, <2>3 DEF Table
  <2> QED BY <2>2, <2>4
<1> HIDE DEF u
<1>8. u # NoTable /\ Placed(u, k)
  BY <1>4, <1>7, PlaneAssumption DEF Placed, OnePlane
<1>9. d \in Caches /\ d.tables[k] = u /\ \A l \in Keys : l # k => d.tables[l] = found.tables[l]
  BY <1>1, <1>2, <1>7, <1>8, PutLeaves DEF d
<1>10. ASSUME NEW s \in [Ids -> [Fields -> Values \cup {Absent}]],
              \A i \in Ids : i # id => s[i] = set[i],
              \A g \in Fields : g # f => s[id][g] = set[id][g],
              s[id][f] # Absent => UserHas(u, f, s[id][f])
       PROVE  d \in Holding(s)
  <2>1. ASSUME NEW i \in Ids, NEW g \in Fields, s[i][g] # Absent
        PROVE  UserHas(d.tables[<<i, User>>], g, s[i][g])
    <3>1. CASE i # id
      <4>1. <<i, User>> \in Keys /\ <<i, User>> # k
        BY <1>1, <3>1 DEF Keys
      <4> QED BY <1>2, <1>9, <1>10, <2>1, <3>1, <4>1 DEF Holds
    <3>2. CASE i = id /\ g # f
      <4>1. UserHas(t, g, s[i][g])
        BY <1>6, <1>10, <2>1, <3>2
      <4> QED BY <1>7, <1>8, <1>9, <3>2, <4>1 DEF UserHas
    <3>3. CASE i = id /\ g = f
      BY <1>9, <1>10, <2>1, <3>3
    <3> QED BY <3>1, <3>2, <3>3
  <2> QED BY <1>9, <2>1 DEF Holding, Holds
<1>11. Deferred(d, k, f) <=> f \in u.deferred
  BY <1>8, <1>9 DEF Deferred
<1>12. ASSUME f \notin u.deferred PROVE d \in Holding([set EXCEPT ![id][f] = v])
  <2> DEFINE s == [set EXCEPT ![id][f] = v]
  <2>1. s \in [Ids -> [Fields -> Values \cup {Absent}]] /\ s[id][f] = v
        /\ (\A i \in Ids : i # id => s[i] = set[i]) /\ \A g \in Fields : g # f => s[id][g] = set[id][g]
    OBVIOUS
  <2>2. UserHas(u, f, v)
    BY <1>7, <1>8, <1>12 DEF UserHas
  <2> HIDE DEF s
  <2>3. d \in Holding(s)
    BY <1>10, <2>1, <2>2
  <2> QED BY <2>3 DEF s
<1>13. ASSUME f \in u.deferred PROVE d \in Holding(set)
  <2>1. set[id][f] = Absent
    BY <1>6, <1>7, <1>13 DEF UserHas
  <2> QED BY <1>10, <2>1
<1> QED BY <1>3, <1>9, <1>11, <1>12, <1>13

\* A file's table is loaded over everything but what is set elsewhere.
LEMMA LoadInv ==
  ASSUME RatdbInv, NEW t \in Files, Load(t)
  PROVE  RatdbInv'
<1>1. t \in Table /\ OnePlane(t)
  BY PlaneAssumption DEF OnePlane
<1>2. /\ SetCache(LoadTable(cache, t)) /\ UNCHANGED <<server, run, links>> /\ commands' = commands + 1
      /\ lastSet' = IF User \in t.runs
                      THEN [lastSet EXCEPT ![t.id] = [f \in Fields |-> Absent]] ELSE lastSet
  BY DEF Load, Command
<1>3. cache \in Caches /\ Holds(cache, lastSet) /\ lastSet \in [Ids -> [Fields -> Values \cup {Absent}]]
      /\ server \in Servers \cup {NoServer}
  BY DEF RatdbInv
<1>4. t.id \in Ids
  BY <1>1 DEF Table
<1>5. PICK s : s = IF User \in t.runs
                     THEN [lastSet EXCEPT ![t.id] = [f \in Fields |-> Absent]] ELSE lastSet
  OBVIOUS
<1>6. s \in [Ids -> [Fields -> Values \cup {Absent}]]
  BY <1>3, <1>5
<1>7. User \in t.runs => \A f \in Fields : s[t.id][f] = Absent
  BY <1>3, <1>4, <1>5
<1>8. Holds(cache, s)
  BY <1>3, <1>4, <1>5 DEF Holds
<1>9. LoadTable(cache, t) \in Holding(s)
  <2>1. cache \in Holding(s)
    BY <1>3, <1>8 DEF Holding
  <2> QED BY <1>1, <1>3, <1>7, <2>1, LoadTableHolds
<1>10. lastSet' = s
  BY <1>2, <1>5
<1> QED BY <1>2, <1>6, <1>9, <1>10, CommandInv

\* Set changes the user table of its field only.
LEMMA SetInv ==
  ASSUME RatdbInv, NEW id \in Ids, NEW f \in Fields, NEW v \in Values, Set(id, f, v)
  PROVE  RatdbInv'
<1> DEFINE d == SetField(cache, id, f, v)
<1>1. /\ SetCache(d) /\ UNCHANGED <<server, run, links>> /\ commands' = commands + 1
      /\ lastSet' = IF Deferred(d, <<id, User>>, f) THEN lastSet ELSE [lastSet EXCEPT ![id][f] = v]
  BY DEF Set, Command
<1>2. cache \in Caches /\ Holds(cache, lastSet) /\ lastSet \in [Ids -> [Fields -> Values \cup {Absent}]]
      /\ server \in Servers \cup {NoServer}
  BY DEF RatdbInv
<1>3. /\ ~Deferred(d, <<id, User>>, f) => d \in Holding([lastSet EXCEPT ![id][f] = v])
      /\ Deferred(d, <<id, User>>, f) => d \in Holding(lastSet)
  BY <1>2, SetFieldHolds
<1> HIDE DEF d
<1>4. [lastSet EXCEPT ![id][f] = v] \in [Ids -> [Fields -> Values \cup {Absent}]]
  BY <1>2
<1> QED BY <1>1, <1>2, <1>3, <1>4, CommandInv

\* Initialisation is loading.
LEMMA InitializeInv ==
  ASSUME RatdbInv, Initialize
  PROVE  RatdbInv'
<1> DEFINE Afresh(id) == \E k \in DOMAIN Experiment : Experiment[k].id = id /\ User \in Experiment[k].runs
<1>1. PICK s : s = [id \in Ids |-> IF Afresh(id) THEN [f \in Fields |-> Absent] ELSE lastSet[id]]
  OBVIOUS
<1>2. /\ SetCache(FoldLeft(LoadTable, cache, Experiment)) /\ UNCHANGED <<server, run, links>>
      /\ lastSet' = s /\ commands' = commands + 1
  BY <1>1 DEF Initialize
<1>3. cache \in Caches /\ Holds(cache, lastSet) /\ lastSet \in [Ids -> [Fields -> Values \cup {Absent}]]
      /\ server \in Servers \cup {NoServer}
  BY DEF RatdbInv
<1>4. ASSUME NEW k \in DOMAIN Experiment, User \in Experiment[k].runs, NEW f \in Fields
      PROVE  s[Experiment[k].id][f] = Absent
  <2>1. Experiment[k] \in Table
    BY PlaneAssumption
  <2>2. Experiment[k].id \in Ids
    BY <2>1 DEF Table
  <2> QED BY <1>1, <1>4, <2>2
<1>5. s \in [Ids -> [Fields -> Values \cup {Absent}]] /\ Holds(cache, s)
  <2>1. \A id \in Ids : s[id] = lastSet[id] \/ s[id] = [f \in Fields |-> Absent]
    BY <1>1
  <2>2. s \in [Ids -> [Fields -> Values \cup {Absent}]]
    <3> HIDE DEF Afresh
    <3> QED BY <1>1, <1>3
  <2> QED BY <1>3, <2>1, <2>2 DEF Holds
<1>6. FoldLeft(LoadTable, cache, Experiment) \in Holding(s)
  <2>1. cache \in Holding(s)
    BY <1>3, <1>5 DEF Holding
  <2> QED BY <1>3, <1>4, <2>1, InitializeHolds
<1> QED BY <1>2, <1>5, <1>6, CommandInv

\* A read fills the cache, and so does a dump.
LEMMA ReadFills ==
  ASSUME RatdbInv, NEW l \in links, NEW f \in Fields, Read(l, f)
  PROVE  /\ l[1] \in Ids /\ l[2] \in Runs
         /\ Fills(Get(cache, l[1], l[2], f).cache, cache, l[2])
         /\ SetCache(Get(cache, l[1], l[2], f).cache)
         /\ UNCHANGED <<server, run, links, initialized, commands, lastSet>>
<1>1. l[1] \in Ids /\ l[2] \in Runs
  BY DEF RatdbInv
<1> QED BY <1>1, GetReads DEF Read, RatdbInv

LEMMA DumpFillsCache ==
  ASSUME RatdbInv, Dump
  PROVE  /\ \E c : Fills(c, cache, run) /\ SetCache(c)
         /\ UNCHANGED <<server, run, links, initialized, commands, lastSet>>
<1> DEFINE known == {id \in Ids : \E r \in Planes : tables[<<id, r>>] # NoTable}
<1>1. SetCache(DumpedOver(cache, known)) /\ UNCHANGED <<server, run, links, initialized, commands, lastSet>>
  BY DEF Dump, DumpedOver
<1>2. known \in SUBSET Ids
  OBVIOUS
<1> HIDE DEF known
<1>3. Fills(DumpedOver(cache, known), cache, run)
  BY <1>2, DumpFills DEF RatdbInv
<1> QED BY <1>1, <1>3

\* No step leads out of the invariant.
LEMMA NextInv == RatdbInv /\ [Next]_vars => RatdbInv'
<1> SUFFICES ASSUME RatdbInv, [Next]_vars PROVE RatdbInv'
  OBVIOUS
<1>1. ASSUME NEW t \in Files, Load(t) PROVE RatdbInv'
  BY <1>1, LoadInv
<1>2. ASSUME NEW id \in Ids, NEW f \in Fields, NEW v \in Values, Set(id, f, v) PROVE RatdbInv'
  BY <1>2, SetInv
<1>3. ASSUME NEW s \in Servers, SetServer(s) PROVE RatdbInv'
  <2>1. cache' = cache /\ UNCHANGED <<run, links, lastSet>> /\ server' = s
        /\ commands' = commands + 1
    BY <1>3 DEF SetServer, Command, cache
  <2> QED BY <2>1 DEF RatdbInv
<1>4. ASSUME NEW r \in Runs, SetDefaultRun(r) PROVE RatdbInv'
  <2>1. cache' = cache /\ UNCHANGED <<server, links, lastSet>> /\ run' = r
        /\ commands' = commands + 1
    BY <1>4 DEF SetDefaultRun, Command, cache
  <2> QED BY <2>1 DEF RatdbInv
<1>5. CASE Initialize
  BY <1>5, InitializeInv
<1>6. ASSUME NEW id \in Ids, GetLink(id) PROVE RatdbInv'
  <2>1. cache' = cache /\ UNCHANGED <<server, run, commands, lastSet>> /\ links' = links \cup {<<id, run>>}
    BY <1>6 DEF GetLink, cache
  <2> QED BY <2>1 DEF RatdbInv
<1>7. ASSUME NEW l \in links, NEW f \in Fields, Read(l, f) PROVE RatdbInv'
  BY <1>7, ReadFills, FillingInv
<1>8. CASE Dump
  BY <1>8, DumpFillsCache, FillingInv
<1>9. CASE UNCHANGED vars
  <2>1. cache' = cache /\ UNCHANGED <<server, run, links, commands, lastSet>>
    BY <1>9 DEF vars, cache
  <2> QED BY <2>1 DEF RatdbInv
<1> QED BY <1>1, <1>2, <1>3, <1>4, <1>5, <1>6, <1>7, <1>8, <1>9 DEF Next

-----------------------------------------------------------------------------
(* The theorems.                                                           *)

\* RatdbInv holds in every state: tables are stored under keys of their own,
\* no document mixes planes, and what was set is in the user plane.
THEOREM RatdbInvariant == Spec => []RatdbInv
<1>1. Init => RatdbInv
  BY InitInv
<1>2. RatdbInv /\ [Next]_vars => RatdbInv'
  BY NextInv
<1> QED BY <1>1, <1>2, PTL DEF Spec

\* What /rat/db/set gave a field is what every link reads, whatever is loaded,
\* fetched or dumped afterwards, until a file brings a new user table.
THEOREM SetFieldsWin == Spec => []SetWins
<1>1. RatdbInv => SetWins
  <2>1. SUFFICES ASSUME RatdbInv, NEW id \in Ids, NEW f \in Fields, NEW r \in Runs,
                        lastSet[id][f] # Absent
                 PROVE  Get(cache, id, r, f).value = lastSet[id][f]
    BY DEF SetWins
  <2> DEFINE u == <<id, User>>
  <2>2. u \in Keys /\ cache \in Caches /\ server \in Servers \cup {NoServer}
    BY <2>1, PlanesApart DEF RatdbInv, Keys
  <2>3. UserHas(cache.tables[u], f, lastSet[id][f])
    BY <2>1 DEF RatdbInv, Holds
  <2>4. SeenAt(cache, u) = cache.tables[u]
    BY <2>2, <2>3, SeenAtIs DEF UserHas
  <2>5. Value(SeenAt(cache, u), f) = lastSet[id][f]
    BY <2>3, <2>4 DEF UserHas, Value
  <2> QED BY <2>1, <2>2, <2>5, GetReads DEF FirstOf
<1> QED BY <1>1, RatdbInvariant, PTL

\* The dump holds what a link of the default run would read, also when it has
\* to ask the server first, for any tables, fields and planes.
THEOREM DumpTellsReads == Spec => []DumpIsEffective
<1>1. RatdbInv => DumpIsEffective
  <2>1. SUFFICES ASSUME RatdbInv, NEW id \in Ids, NEW f \in Fields,
                        \A r \in {User, run, Default} : ~Deferred(DumpLookups(cache, id), <<id, r>>, f)
                 PROVE  DumpField(cache, id, f) = Get(cache, id, run, f).value
    BY DEF DumpIsEffective
  <2> DEFINE d == DumpLookups(cache, id)
  <2>2. cache \in Caches /\ server \in Servers \cup {NoServer} /\ run \in Runs
    BY <2>1 DEF RatdbInv
  <2>3. d \in Caches /\ \A p \in {User, run, Default} : d.tables[<<id, p>>] = SeenAt(cache, <<id, p>>)
    BY <2>2, DumpLookupsSee DEF Fills
  <2> HIDE DEF d
  <2>4. ASSUME NEW p \in {User, run, Default}
        PROVE  /\ Member(d, <<id, p>>, f) <=> Value(SeenAt(cache, <<id, p>>), f) # Absent
               /\ Member(d, <<id, p>>, f) => d.tables[<<id, p>>].fields[f] = Value(SeenAt(cache, <<id, p>>), f)
    <3>1. <<id, p>> \in Keys
      BY <2>2, PlanesApart DEF Keys
    <3>2. ~Deferred(d, <<id, p>>, f)
      BY <2>1 DEF d
    <3> QED BY <2>2, <2>3, <3>1, <3>2, HasIsValue
  <2>5. DumpField(cache, id, f) = FirstOf(Value(SeenAt(cache, <<id, User>>), f),
                                          Value(SeenAt(cache, <<id, run>>), f),
                                          Value(SeenAt(cache, <<id, Default>>), f))
    <3>1. DumpField(cache, id, f) =
            IF Member(d, <<id, User>>, f) THEN d.tables[<<id, User>>].fields[f]
            ELSE IF Member(d, <<id, run>>, f) THEN d.tables[<<id, run>>].fields[f]
            ELSE IF Member(d, <<id, Default>>, f) THEN d.tables[<<id, Default>>].fields[f]
            ELSE Absent
      BY DEF DumpField, d
    <3> QED BY <2>4, <3>1 DEF FirstOf
  <2> QED BY <2>2, <2>5, GetReads
<1> QED BY <1>1, RatdbInvariant, PTL

\* Taking links, reads and dumps change nothing that a read returns, as long
\* as all links are of one run, for any documents that cover several runs.
THEOREM ReadsChangeNothing == Spec => ReadsAreStable
<1> DEFINE Unread ==
      commands' = commands /\ (\A l \in links : l[2] = run) =>
        \A id \in Ids, f \in Fields : Get(cache', id, run, f).value = Get(cache, id, run, f).value
<1>1. ASSUME RatdbInv, [Next]_vars PROVE [Unread]_vars
  <2>1. cache \in Caches /\ server \in Servers \cup {NoServer} /\ run \in Runs
    BY <1>1 DEF RatdbInv
  <2>2. ASSUME NEW c, Fills(c, cache, run), NEW id \in Ids, NEW f \in Fields
        PROVE  Get(c, id, run, f).value = Get(cache, id, run, f).value
    <3>1. c \in Caches /\ SameReads(c, cache, run)
      BY <2>2 DEF Fills
    <3>2. \A p \in {User, run, Default} :
            Value(SeenAt(c, <<id, p>>), f) = Value(SeenAt(cache, <<id, p>>), f)
      BY <3>1 DEF SameReads, ReadKeys
    <3> QED BY <2>1, <3>1, <3>2, GetReads
  <2>3. ASSUME NEW c, Fills(c, cache, run), SetCache(c) PROVE Unread
    <3>1. cache' = c
      BY <2>3, CacheNext DEF Fills
    <3> QED BY <2>2, <2>3, <3>1
  <2>4. ASSUME NEW id \in Ids, GetLink(id) PROVE Unread
    <3>1. cache' = cache
      BY <2>4 DEF GetLink, cache
    <3> QED BY <3>1
  <2>5. ASSUME NEW l \in links, NEW f \in Fields, Read(l, f), l[2] = run PROVE Unread
    BY <1>1, <2>3, <2>5, ReadFills
  <2>6. CASE Dump
    <3>1. PICK c : Fills(c, cache, run) /\ SetCache(c)
      BY <1>1, <2>6, DumpFillsCache
    <3> QED BY <2>3, <3>1
  <2>7. ASSUME Command \/ Initialize PROVE commands' # commands
    BY <1>1, <2>7 DEF Command, Initialize, RatdbInv
  <2> QED BY <1>1, <2>4, <2>5, <2>6, <2>7 DEF Next, Load, Set, SetServer, SetDefaultRun
<1> QED BY <1>1, RatdbInvariant, PTL DEF Spec, ReadsAreStable
=============================================================================
