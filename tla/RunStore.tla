------------------------------ MODULE RunStore ------------------------------
(***************************************************************************)
(* DS::RunStore: the process-wide cache of run records that moves run      *)
(* information from the producers (Gsim creates records, inroot registers  *)
(* a tree to search) to the "runT" trees of the output files.              *)
(*                                                                         *)
(* A run record is abstracted to its run ID.  The module has no Next of    *)
(* its own: EventLoop calls its operations from the handlers that do.      *)
(***************************************************************************)
EXTENDS Naturals

CONSTANTS
  Runs,     \* run IDs that events, files and the simulation may carry
  Outs,     \* outroot processors; each one writes to one output file at a time
  NoRun,    \* no run yet: currentRunID = -9999, or no run begun
  NoTree    \* the null TTree pointer

ASSUME StoreAssumption ==
  /\ NoRun \notin Runs
  /\ NoTree \notin Outs

VARIABLES
  cache,       \* fCache: is there a record of the run, and its writtenToDisk
  currentRun,  \* currentRunID
  readTree,    \* fReadTree: its runs, and whether the TChain still exists
  writeTree,   \* fWriteTree: the output whose runT is registered
  runT         \* how many records of each run were filled in an output's runT

storeVars == <<cache, currentRun, readTree, writeTree, runT>>

RecordState == {"absent", "unwritten", "written"}
ReadTree == [state : {"none", "live", "dangling"}, runs : SUBSET Runs]

StoreTypeOK ==
  /\ cache \in [Runs -> RecordState]
  /\ currentRun \in Runs \cup {NoRun}
  /\ readTree \in ReadTree
  /\ writeTree \in Outs \cup {NoTree}
  /\ runT \in [Outs -> [Runs -> Nat]]

StoreInit ==
  /\ cache = [r \in Runs |-> "absent"]
  /\ currentRun = NoRun
  /\ readTree = [state |-> "none", runs |-> {}]
  /\ writeTree = NoTree
  /\ runT = [o \in Outs |-> [r \in Runs |-> 0]]

-----------------------------------------------------------------------------
(* InstanceGetRun: the cache first, then a scan of the read tree.          *)

Cached(r) == r \in Runs /\ cache[r] # "absent"
Found(r) == Cached(r) \/ (readTree.state = "live" /\ r \in readTree.runs)

\* The scan reads a TChain that was a local of a ReadEvents that returned.
ScansDangling(r) == ~Cached(r) /\ readTree.state = "dangling"

\* Mutant of GetRun: a record that comes from a file counts as written.
GetRunAsWritten(r) ==
  cache' = IF Found(r) /\ ~Cached(r)
             THEN [cache EXCEPT ![r] = "written"] ELSE cache

\* A record read from the tree enters the cache as not yet written.
GetRun(r) ==
  cache' = IF Found(r) /\ ~Cached(r)
             THEN [cache EXCEPT ![r] = "unwritten"] ELSE cache

\* InstanceAddNewRun, and the currentRunID its static wrapper sets.
AddNewRun(r) ==
  /\ cache' = [cache EXCEPT ![r] = "unwritten"]
  /\ currentRun' = r

\* GetCurrentRun() has a record only for a run that AddNewRun announced.
HasCurrentRun == currentRun # NoRun /\ Found(currentRun)

SetReadTree(runs) == readTree' = [state |-> "live", runs |-> runs]

\* SetWriteTree with the empty runT of a file just created.
SetWriteTree(o) ==
  /\ writeTree' = o
  /\ runT' = [runT EXCEPT ![o] = [r \in Runs |-> 0]]

\* InstanceFlushWriteTree: every unwritten record goes to the registered tree.
FlushWriteTree ==
  IF writeTree = NoTree THEN UNCHANGED <<cache, runT>>
  ELSE /\ runT' = [runT EXCEPT ![writeTree] =
                     [r \in Runs |-> @[r] + (IF cache[r] = "unwritten" THEN 1 ELSE 0)]]
       /\ cache' = [r \in Runs |->
                      IF cache[r] = "unwritten" THEN "written" ELSE cache[r]]

=============================================================================
