----------------------------- MODULE GeoBuilder -----------------------------
(***************************************************************************)
(* GeoBuilder::ConstructAll builds the detector from the GEO tables, whose *)
(* order in the map is that of their names: it scans them again and again  *)
(* for the first that can be built, because what it is placed in (or, for  *)
(* a border, what it lies between) has been built, and removes it.  It     *)
(* ends the program when it sees that it cannot go on.                     *)
(*                                                                         *)
(* A table is its name.  Shapes, materials and positions are left out; of  *)
(* a factory remains which volumes it makes, and where it finds its mother *)
(* placed.                                                                 *)
(***************************************************************************)
EXTENDS Naturals, Sequences

CONSTANTS
  Tables,      \* indices of the GEO tables
  Rank,        \* their place in the map
  Geometries,  \* what may be in the tables: functions from Tables to entries
  NoField,     \* a field that is not there
  Outside,     \* the empty mother, that of the world
  NoWorld      \* null world volume

Types == {"box", "tubearray", "wlsp", "pmtarray", "reflector", "border", "unknown"}
Arrays == {"tubearray", "wlsp", "pmtarray"}

\* Logical volumes that the factory of a table makes: one of the table's name,
\* others as well, or only others.
Makes(t, type) ==
  CASE type \in {"box", "tubearray", "wlsp"} -> {t}
    [] type = "reflector" -> {t, <<t, "in_logi">>}
    [] type = "pmtarray" -> {<<t, "body_log">>}
    [] OTHER -> {}

Volumes == Tables \cup (Tables \X {"in_logi", "body_log"})
Entries == [type : Types \cup {NoField}, mother : Volumes \cup {Outside, NoField},
            enable : BOOLEAN, volume1 : Volumes \cup {NoField}, volume2 : Volumes \cup {NoField}]

ASSUME GeoAssumption ==
  /\ Rank \in [Tables -> Nat] /\ \A t, u \in Tables : Rank[t] = Rank[u] => t = u
  /\ Geometries \subseteq [Tables -> Entries]
  /\ {NoField, Outside} \cap Volumes = {} /\ NoField # Outside
  /\ NoField \notin Types /\ NoWorld \notin Tables

VARIABLES
  entry,    \* what is in the tables
  geo,      \* tables still in the list
  checked,  \* those this scan has passed over
  store,    \* names in G4LogicalVolumeStore
  built,    \* history: the tables that were built, in order
  world,    \* table of the world volume
  status    \* "building", "built", or why the program died

builderVars == <<entry, geo, checked, store, built, world, status>>

Deaths == {"no field", "no factory", "no mother volume", "mother not placed",
           "no border volume", "border not found", "circular", "no world"}

BuilderTypes ==
  /\ entry \in [Tables -> Entries]
  /\ geo \subseteq Tables /\ checked \subseteq geo /\ store \subseteq Volumes
  /\ built \in Seq(Tables) /\ world \in Tables \cup {NoWorld}
  /\ status \in {"building", "built"} \cup Deaths

BuilderInit ==
  /\ entry \in Geometries
  /\ geo = Tables /\ checked = {} /\ store = {} /\ built = <<>>
  /\ world = NoWorld /\ status = "building"

-----------------------------------------------------------------------------
(* One turn of the loop looks at the first table of the scan.              *)

Die(why) ==
  /\ status' = why
  /\ UNCHANGED <<entry, geo, checked, store, built, world>>

At(t) ==
  /\ status = "building"
  /\ t \in geo \ checked
  /\ \A u \in geo \ checked : Rank[t] <= Rank[u]

Complete(t) == entry[t].mother # NoField /\ entry[t].type # NoField

\* Mother and type are asked for before the table is seen to be disabled.
FieldMissing(t) == At(t) /\ ~Complete(t) /\ Die("no field")

\* Mutant of Removed: the scan goes on behind the removed table.
RemovedOnTheWay(t) == geo' = geo \ {t} /\ checked' = checked \cup {t}

\* The list changes, so the scan starts again.
Removed(t) == geo' = geo \ {t} /\ checked' = {}

SkipDisabled(t) ==
  /\ At(t) /\ Complete(t) /\ ~entry[t].enable
  /\ Removed(t)
  /\ UNCHANGED <<entry, store, built, world, status>>

IsBorder(t) == entry[t].type = "border"
AtVolume(t) == At(t) /\ Complete(t) /\ entry[t].enable /\ ~IsBorder(t)
AtBorder(t) == At(t) /\ Complete(t) /\ entry[t].enable /\ IsBorder(t)

\* Volumes that must be there before t can be built.
Needs(t) == IF IsBorder(t) THEN {entry[t].volume1, entry[t].volume2}
            ELSE {entry[t].mother} \ {Outside}

\* Mutant of Ready: one volume of a border is enough.
ReadyInOne(t) == Needs(t) = {} \/ \E n \in Needs(t) : n \in store

Ready(t) == Needs(t) \subseteq store

\* Mutant of Hopeless: a volume whose mother is not there yet is given up.
Impatient(t) == \E n \in Needs(t) : n \notin store

\* What t needs is not there, and no table in the list has its name.
Hopeless(t) == \E n \in Needs(t) : n \notin store /\ n \notin geo

\* The type of v, and whether there is a placed volume of v's name: those of
\* an array have numbered names.
Type(v) == IF v \in Tables THEN entry[v].type ELSE NoField
Placed(v, array) == v \in Tables /\ (Type(v) \in Arrays <=> array)

\* PMTInfoParser::ComputeLocalOffset climbs from the mother to the world,
\* from placed volume to placed volume.
PlacedToTheTop(t) ==
  \E S \in SUBSET {v \in Tables : Placed(v, FALSE)} :
    entry[t].mother \in S /\ \A v \in S : entry[v].mother \in S \cup {Outside}

\* A factory of one solid looks for the logical mother, which is there.  The
\* others place theirs in a placed mother, which a world does not have either.
MotherPlaced(t) ==
  CASE entry[t].type \in {"tubearray", "wlsp"} -> Placed(entry[t].mother, FALSE)
    [] entry[t].type \in {"pmtarray", "reflector"} -> PlacedToTheTop(t)
    [] OTHER -> TRUE

\* ConstructWithFactory for anything but a border.
BuildVolume(t) ==
  /\ AtVolume(t) /\ Ready(t)
  /\ entry[t].type # "unknown" /\ MotherPlaced(t)
  /\ Removed(t)
  /\ store' = store \cup Makes(t, entry[t].type)
  /\ built' = Append(built, t)
  /\ world' = IF entry[t].mother = Outside THEN t ELSE world
  /\ UNCHANGED <<entry, status>>

FactoryMissing(t) == AtVolume(t) /\ Ready(t) /\ entry[t].type = "unknown" /\ Die("no factory")

\* The factory ends the program, or follows a null pointer to a volume above
\* the mother.
MotherNotPlaced(t) == AtVolume(t) /\ Ready(t) /\ ~MotherPlaced(t) /\ Die("mother not placed")

VolumeHopeless(t) == AtVolume(t) /\ Hopeless(t) /\ Die("no mother volume")

\* GeoSurfaceFactory::Construct looks for placed volumes.  It takes the second
\* for an array if the first one's type is wlsp, whatever the second's is.
TakenForArray1(t) == Type(entry[t].volume1) \in Arrays
TakenForArray2(t) == Type(entry[t].volume2) \in Arrays \ {"wlsp"} \/ Type(entry[t].volume1) = "wlsp"

BuildBorder(t) ==
  /\ AtBorder(t) /\ NoField \notin Needs(t) /\ Ready(t)
  /\ IF Placed(entry[t].volume1, TakenForArray1(t)) /\ Placed(entry[t].volume2, TakenForArray2(t))
     THEN /\ Removed(t) /\ built' = Append(built, t)
          /\ UNCHANGED <<entry, store, world, status>>
     ELSE Die("border not found")

BorderFieldMissing(t) == AtBorder(t) /\ NoField \in Needs(t) /\ Die("no field")

BorderHopeless(t) ==
  AtBorder(t) /\ NoField \notin Needs(t) /\ Hopeless(t) /\ Die("no border volume")

\* t may be possible later.
PassOver(t) ==
  /\ AtVolume(t) \/ (AtBorder(t) /\ NoField \notin Needs(t))
  /\ ~Ready(t) /\ ~Hopeless(t)
  /\ checked' = checked \cup {t}
  /\ UNCHANGED <<entry, geo, store, built, world, status>>

\* Mutant of ScanWithoutEffect: the check is left out, the scan starts again.
ScanAgain ==
  /\ status = "building" /\ geo # {} /\ checked = geo
  /\ checked' = {} /\ UNCHANGED <<entry, geo, store, built, world, status>>

\* A scan that removed nothing: circular dependency.
ScanWithoutEffect ==
  status = "building" /\ geo # {} /\ checked = geo /\ Die("circular")

Finish ==
  /\ status = "building" /\ geo = {}
  /\ status' = IF world = NoWorld THEN "no world" ELSE "built"
  /\ UNCHANGED <<entry, geo, checked, store, built, world>>

Check(t) ==
  \/ FieldMissing(t) \/ SkipDisabled(t)
  \/ BuildVolume(t) \/ FactoryMissing(t) \/ MotherNotPlaced(t) \/ VolumeHopeless(t)
  \/ BuildBorder(t) \/ BorderFieldMissing(t) \/ BorderHopeless(t)
  \/ PassOver(t)

BuilderNext == (\E t \in Tables : Check(t)) \/ ScanWithoutEffect \/ Finish

BuilderSpec == BuilderInit /\ [][BuilderNext]_builderVars

\* ConstructAll is one call that waits for nothing.
FairBuilderSpec == BuilderSpec /\ WF_builderVars(BuilderNext)

-----------------------------------------------------------------------------
(* Properties.                                                             *)

Enabled == {t \in Tables : entry[t].enable}
MadeBefore(i) == UNION {Makes(built[j], entry[built[j]].type) : j \in 1..i - 1}

\* A detector that is handed to Geant4 holds every enabled table and no other,
\* each built once and after all it lies in or between, and its world.  The
\* order in the map is arbitrary, and every removal restarts the scan.
BuiltWhole ==
  /\ \A i \in 1..Len(built) : Needs(built[i]) \subseteq MadeBefore(i)
  /\ \A i, j \in 1..Len(built) : i # j => built[i] # built[j]
  /\ status = "built" => /\ {built[i] : i \in 1..Len(built)} = Enabled
                         /\ \E t \in Enabled : entry[t].mother = Outside /\ world = t

\* Tables none of which can be built before another of them.
Stuck(S) ==
  /\ S # {} /\ S \subseteq Enabled
  /\ \A t \in S : \E n \in Needs(t) :
       \A u \in Enabled \ S : n \notin Makes(u, entry[u].type)

OwnNamesOnly == \A t, u \in Enabled : \A n \in Needs(t) : n \in Makes(u, entry[u].type) => n = u

\* The builder gives up for lack of a volume only when no order of building
\* would do, as the comment over its loop plans: there is a set of tables none of
\* which can come first.  A volume that another table's factory makes under a
\* name of its own does not count as yet to be built, hence the condition.
GivesUpWithReason ==
  /\ status = "circular" => Stuck(geo)
  /\ status \in {"no mother volume", "no border volume"} /\ OwnNamesOnly
       => \E t \in Enabled : Stuck({t})

\* It comes to an end: each scan removes a table, or is the last.
ComesToAnEnd == <>(status # "building")
=============================================================================
