------------------------------ MODULE MCRatdb ------------------------------
(* Instances of Ratdb for TLC: one table, two fields, two runs, and two    *)
(* servers.                                                                *)
EXTENDS Ratdb

Doc(runs, f, g, arrays) ==
  [id |-> "daq", runs |-> runs, fields |-> ("f" :> f @@ "g" :> g), deferred |-> arrays]

T(runs, f, g) == Doc(runs, f, g, {})

\* A table for each plane, one for both runs, and a default table with one field
\* only.
MCFiles ==
  {T({Default}, 1, 2), T({Default}, 2, Absent), T({1}, 2, Absent), T({1, 2}, 1, 2),
   T({User}, Absent, 1)}

\* The experiment overrides the default plane.
MCExperiment == <<T({Default}, 2, 1)>>

\* One server has a document for both runs, with an array in place of field g; the
\* other has one for the user plane, with an array too, and one for run 2.
MCContents ==
  [s \in {"none", "first", "second"} |->
     CASE s = "none" -> [names |-> {}, docs |-> {}, arrays |-> [f \in Fields |-> Garbage]]
       [] s = "first" -> [names |-> {"daq"}, docs |-> {Doc({1, 2}, 1, Absent, {"g"})},
                          arrays |-> [f \in Fields |-> 1]]
       [] s = "second" -> [names |-> {"daq"},
                           docs |-> {Doc({User}, Absent, Absent, {"g"}), T({2}, 2, Absent)},
                           arrays |-> [f \in Fields |-> 2]]]

=============================================================================
