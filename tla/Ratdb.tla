------------------------------- MODULE Ratdb -------------------------------
(***************************************************************************)
(* RATDB, the database of constants (RAT::DB, DBLink, DBTable): tables of  *)
(* fields on three planes (user, run, default), loaded from files, set by  *)
(* macro commands, or fetched from a CouchDB server when first asked for.  *)
(*                                                                         *)
(* A table stands for its (name, index); fields hold any kind of value.    *)
(* Arrays that a document has as attachments are fetched at first read.    *)
(***************************************************************************)
EXTENDS Integers, Sequences, SequencesExt, FiniteSets, FiniteSetsExt, Folds

CONSTANTS
  Ids,          \* (name, index) pairs
  Fields,
  Values,
  Absent,       \* no such field
  Garbage,      \* what is unpacked from a server's answer to an unknown document
  NoTable,
  Runs,         \* run numbers
  Files,        \* tables that /rat/db/load may load
  Experiment,   \* tables of the experiment's directory, in the order of its files
  Servers,      \* URLs
  NoServer,
  Contents,     \* what a server holds: names it lists, documents
  MaxCommands   \* bound: /rat/db commands

User == -1
Default == 0
Planes == {User, Default} \cup Runs
Keys == Ids \X Planes
Table == [id : Ids, runs : SUBSET Planes,
          fields : [Fields -> Values \cup {Absent, Garbage}],
          deferred : SUBSET Fields]   \* iatbl_deferred, datbl_deferred

\* A table is for the user plane, the default plane, or a set of runs (the
\* special values of run_range), and a server has one document for a key.  Only
\* documents have attachments.  A job names finitely many tables, and a run
\* number is an int.
ASSUME PlaneAssumption ==
  /\ IsFiniteSet(Ids) /\ IsFiniteSet(Runs) /\ Runs \subseteq Nat \ {0} /\ 1 \in Runs
  /\ NoTable \notin Table /\ Absent \notin Values \cup {Garbage} /\ Garbage \notin Values
  /\ Experiment \in Seq(Table)
  /\ \A s \in Servers : Contents[s].arrays \in [Fields -> Values \cup {Garbage}]
  /\ \A t \in Files \cup Range(Experiment) : t.deferred = {}
  /\ \A t \in Files \cup Range(Experiment) \cup UNION {Contents[s].docs : s \in Servers} :
       /\ t \in Table
       /\ t.runs \in {{User}, {Default}} \/ t.runs \subseteq Runs
  /\ NoServer \notin Servers
  /\ Contents[NoServer] = [names |-> {}, docs |-> {}, arrays |-> [f \in Fields |-> Garbage]]
  /\ \A s \in Servers : \A d, e \in Contents[s].docs :
       d.id = e.id /\ d.runs \cap e.runs # {} => d = e

VARIABLES
  tables,       \* DB::tables
  absent,       \* DB::tablesNotOnServer
  server,       \* DB::server; tableNamesOnServer is Contents[server].names
  run,          \* DB::run, given to new links
  links,        \* links handed out: table and run
  initialized,  \* /run/initialize is over
  commands,     \* commands so far
  lastSet       \* history: what /rat/db/set gave a field since the last user table,
                \* unless an attachment was still to be fetched over it

cache == [tables |-> tables, absent |-> absent]
vars == <<tables, absent, server, run, links, initialized, commands, lastSet>>

-----------------------------------------------------------------------------
(* Lookups: each returns the cache as the lookup leaves it.                *)

Docs(key) == {d \in Contents[server].docs : d.id = key[1] /\ key[2] \in d.runs}

Put(c, keys, t) == [c EXCEPT !.tables = [k \in Keys |-> IF k \in keys THEN t ELSE @[k]]]

\* Mutant of ValidKeys: a document is good for every plane.
AllKeys(t) == {t.id} \X Planes

\* The keys a table is stored under: GetValidRuns.
ValidKeys(t) == {t.id} \X t.runs

FindTable(c, key) ==
  IF c.tables[key] # NoTable \/ key[1] \notin Contents[server].names \/ key \in c.absent
    THEN c
  ELSE IF Docs(key) = {} THEN [c EXCEPT !.absent = @ \cup {key}]
  ELSE LET doc == CHOOSE d \in Docs(key) : TRUE IN Put(c, ValidKeys(doc), doc)

\* A member of the table's JSON, and a field that GetFieldType finds.
Member(c, key, f) == c.tables[key] # NoTable /\ c.tables[key].fields[f] # Absent
Deferred(c, key, f) == c.tables[key] # NoTable /\ f \in c.tables[key].deferred
Has(c, key, f) == Member(c, key, f) \/ Deferred(c, key, f)

\* GetIArray and GetDArray take the attachment from the server of the day, over
\* what Set wrote, for every key that the table is stored under.
FetchArray(c, t, f) ==
  Put(c, {k \in Keys : c.tables[k] = t},
      [t EXCEPT !.fields[f] =
                  IF \E d \in Contents[server].docs : d.id = t.id /\ d.runs = t.runs
                    THEN Contents[server].arrays[f] ELSE Garbage,
                !.deferred = @ \ {f}])

\* Mutant of Get: the run plane comes before the user plane.
GetRunFirst(c, id, r, f) ==
  LET c1 == FindTable(c, <<id, r>>)
      c2 == IF Has(c1, <<id, r>>, f) THEN c1 ELSE FindTable(c1, <<id, User>>)
      c3 == IF Has(c2, <<id, r>>, f) \/ Has(c2, <<id, User>>, f)
              THEN c2 ELSE FindTable(c2, <<id, Default>>)
      found == {k \in {<<id, User>>, <<id, r>>, <<id, Default>>} : Has(c3, k, f)}
      key == IF <<id, r>> \in found THEN <<id, r>>
             ELSE IF <<id, User>> \in found THEN <<id, User>> ELSE <<id, Default>>
      c4 == IF Deferred(c3, key, f) THEN FetchArray(c3, c3.tables[key], f) ELSE c3
  IN [cache |-> c4, value |-> IF found = {} THEN Absent ELSE c4.tables[key].fields[f]]

\* DBLink::Get; Absent stands for the DBNotFoundError it throws.
Get(c, id, r, f) ==
  LET c1 == FindTable(c, <<id, User>>)
      c2 == IF Has(c1, <<id, User>>, f) THEN c1 ELSE FindTable(c1, <<id, r>>)
      c3 == IF Has(c1, <<id, User>>, f) \/ Has(c2, <<id, r>>, f)
              THEN c2 ELSE FindTable(c2, <<id, Default>>)
      key == IF Has(c1, <<id, User>>, f) THEN <<id, User>>
             ELSE IF Has(c2, <<id, r>>, f) THEN <<id, r>>
             ELSE <<id, Default>>
      c4 == IF Deferred(c3, key, f) THEN FetchArray(c3, c3.tables[key], f) ELSE c3
  IN [cache |-> c4, value |-> IF Has(c4, key, f) THEN c4.tables[key].fields[f] ELSE Absent]

\* LoadTable looks for the table that it will replace, for each run in turn, the
\* largest last.
LoadTable(c, t) ==
  MapThenFoldSet(LAMBDA r, loaded : Put(FindTable(loaded, <<t.id, r>>), {<<t.id, r>>}, t),
                 c, LAMBDA r : r, LAMBDA runs : Max(runs), t.runs)

\* Set and FindOrCreateTable.
SetField(c, id, f, v) ==
  LET found == FindTable(c, <<id, User>>)
      old == found.tables[<<id, User>>]
      table == IF old # NoTable THEN old
               ELSE [id |-> id, runs |-> {User}, fields |-> [g \in Fields |-> Absent],
                     deferred |-> {}]
  IN Put(found, {<<id, User>>}, [table EXCEPT !.fields[f] = v])

\* DumpContentsToJson, one table: the planes are looked up in turn and their
\* members merged.
DumpLookups(c, id) ==
  FindTable(FindTable(FindTable(c, <<id, Default>>), <<id, run>>), <<id, User>>)

\* Mutant of DumpField: the planes are merged in the wrong order.
DumpDefaultLast(c, id, f) ==
  LET d == DumpLookups(c, id) IN
  IF Member(d, <<id, Default>>, f) THEN d.tables[<<id, Default>>].fields[f]
  ELSE IF Member(d, <<id, User>>, f) THEN d.tables[<<id, User>>].fields[f]
  ELSE IF Member(d, <<id, run>>, f) THEN d.tables[<<id, run>>].fields[f]
  ELSE Absent

DumpField(c, id, f) ==
  LET d == DumpLookups(c, id) IN
  IF Member(d, <<id, User>>, f) THEN d.tables[<<id, User>>].fields[f]
  ELSE IF Member(d, <<id, run>>, f) THEN d.tables[<<id, run>>].fields[f]
  ELSE IF Member(d, <<id, Default>>, f) THEN d.tables[<<id, Default>>].fields[f]
  ELSE Absent

-----------------------------------------------------------------------------
Init ==
  /\ tables = [k \in Keys |-> NoTable] /\ absent = {}
  /\ server = NoServer /\ run = 1 /\ links = {}
  /\ initialized = FALSE /\ commands = 0
  /\ lastSet = [id \in Ids |-> [f \in Fields |-> Absent]]

SetCache(c) == tables' = c.tables /\ absent' = c.absent

\* DBMessenger: the /rat/db commands are for before /run/initialize.
Command == ~initialized /\ commands < MaxCommands /\ commands' = commands + 1

\* /rat/db/load of a file with one table.
Load(t) ==
  /\ Command /\ SetCache(LoadTable(cache, t))
  /\ lastSet' = IF User \in t.runs
                  THEN [lastSet EXCEPT ![t.id] = [f \in Fields |-> Absent]] ELSE lastSet
  /\ UNCHANGED <<server, run, links, initialized>>

\* /rat/db/set.  On an array that the server's user table has attached, the first
\* read undoes it.
Set(id, f, v) ==
  /\ Command /\ SetCache(SetField(cache, id, f, v))
  /\ lastSet' = IF Deferred(SetField(cache, id, f, v), <<id, User>>, f)
                  THEN lastSet ELSE [lastSet EXCEPT ![id][f] = v]
  /\ UNCHANGED <<server, run, links, initialized>>

\* /rat/db/server and the option -b: only the list of names is cleared.
SetServer(s) ==
  /\ Command /\ server' = s
  /\ UNCHANGED <<tables, absent, run, links, initialized, lastSet>>

\* /rat/db/run and the option -r: for links yet to be made.
SetDefaultRun(r) ==
  /\ Command /\ run' = r
  /\ UNCHANGED <<tables, absent, server, links, initialized, lastSet>>

\* DetectorConstruction::Construct loads the experiment's tables.
Initialize ==
  /\ ~initialized /\ initialized' = TRUE
  /\ commands' = commands + 1
  /\ SetCache(FoldLeft(LoadTable, cache, Experiment))
  /\ lastSet' = [id \in Ids |-> IF \E k \in DOMAIN Experiment :
                                     Experiment[k].id = id /\ User \in Experiment[k].runs
                                  THEN [f \in Fields |-> Absent] ELSE lastSet[id]]
  /\ UNCHANGED <<server, run, links>>

\* The rest of the program takes links and reads through them, at any time.
GetLink(id) ==
  /\ links' = links \cup {<<id, run>>}
  /\ UNCHANGED <<tables, absent, server, run, initialized, commands, lastSet>>

Read(link, f) ==
  /\ SetCache(Get(cache, link[1], link[2], f).cache)
  /\ UNCHANGED <<server, run, links, initialized, commands, lastSet>>

\* OutROOTProc and DetectorConstruction dump the tables known so far.
Dump ==
  /\ LET known == {id \in Ids : \E r \in Planes : tables[<<id, r>>] # NoTable}
     IN SetCache(FoldSet(LAMBDA id, c : DumpLookups(c, id), cache, known))
  /\ UNCHANGED <<server, run, links, initialized, commands, lastSet>>

Next ==
  \/ \E t \in Files : Load(t)
  \/ \E id \in Ids, f \in Fields, v \in Values : Set(id, f, v)
  \/ \E s \in Servers : SetServer(s)
  \/ \E r \in Runs : SetDefaultRun(r)
  \/ Initialize
  \/ \E id \in Ids : GetLink(id)
  \/ \E l \in links, f \in Fields : Read(l, f)
  \/ Dump

Spec == Init /\ [][Next]_vars

-----------------------------------------------------------------------------
(* Properties.                                                             *)

(* A field set by /rat/db/set keeps its value for every run, whatever is   *)
(* loaded, fetched or dumped afterwards, until a file brings a new user    *)
(* table (database.rst: the command alters fields in the user plane, so    *)
(* they override any other values).  The exception is an array that the    *)
(* server's user table has as an attachment not fetched before the set.    *)
SetWins ==
  \A id \in Ids, f \in Fields, r \in Runs :
    lastSet[id][f] # Absent => Get(cache, id, r, f).value = lastSet[id][f]

(* The dump holds, for each table it knows, the value of each field that a *)
(* link of the default run would read, also when the dump itself has to    *)
(* ask the server, once the field's attachments have been fetched: before  *)
(* that it lacks them, or has the value of a lower plane.                  *)
DumpIsEffective ==
  \A id \in Ids, f \in Fields :
    /\ \E r \in Planes : tables[<<id, r>>] # NoTable
    /\ \A r \in {User, run, Default} : ~Deferred(DumpLookups(cache, id), <<id, r>>, f)
    => DumpField(cache, id, f) = Get(cache, id, run, f).value

(* Taking links, reading and dumping fill the cache, and yet change no     *)
(* value that another read returns, as long as all links are of one run    *)
(* (FindTable: a document is cached for all its runs at once, over what    *)
(* files said of the other runs).                                          *)
ReadsAreStable ==
  [][commands' = commands /\ (\A l \in links : l[2] = run) =>
       \A id \in Ids, f \in Fields :
         Get(cache', id, run, f).value = Get(cache, id, run, f).value]_vars

=============================================================================
