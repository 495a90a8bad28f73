---------------------------- MODULE MCGeoBuilder ----------------------------
(* A world, or none, and three tables of any kind, before and behind it.   *)
EXTENDS GeoBuilder, TLC

CONSTANTS ta, tb, tc, tw
Others == {ta, tb, tc}
MCTables == Others \cup {tw}
MCRank == (ta :> 1) @@ (tw :> 2) @@ (tb :> 3) @@ (tc :> 4)

Entry(type, mother, enable, volume1, volume2) ==
  [type |-> type, mother |-> mother, enable |-> enable, volume1 |-> volume1, volume2 |-> volume2]

Kinds ==
  {Entry("box", m, TRUE, NoField, NoField) : m \in MCTables \cup {Outside, NoField, <<tc, "in_logi">>}}
  \cup {Entry("reflector", m, TRUE, NoField, NoField) : m \in {ta, tw}}
  \cup {Entry("border", tw, TRUE, v, w) : v \in Others, w \in Others \cup {NoField}}
  \cup {Entry(type, m, TRUE, NoField, NoField) : type \in {"wlsp", "pmtarray"}, m \in {ta, tw}}
  \cup {Entry(type, tw, TRUE, NoField, NoField) : type \in {"unknown", NoField}}
  \cup {Entry("box", tw, FALSE, NoField, NoField)}

Worlds == {Entry("box", Outside, b, NoField, NoField) : b \in BOOLEAN}
          \cup {Entry("reflector", Outside, TRUE, NoField, NoField)}

MCGeometries ==
  {[t \in MCTables |-> IF t = tw THEN world_ ELSE kinds[t]] : world_ \in Worlds, kinds \in [Others -> Kinds]}
=============================================================================
