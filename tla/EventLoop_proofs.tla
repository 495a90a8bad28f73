-------------------------- MODULE EventLoop_proofs --------------------------
(***************************************************************************)
(* Proofs about EventLoop, for any processors, runs, files and bounds: its *)
(* variables keep their types, every event is processed inside its run,    *)
(* every processor sees the life that ProcessorContract describes; and the *)
(* block runs its list, the status of a file is true, and a job with one   *)
(* output writes every run record once.                                    *)
(***************************************************************************)
EXTENDS EventLoop, SequenceTheorems, TLAPS

(* Appending adds one element to a list, and concatenating adds the other  *)
(* list's.                                                                 *)
LEMMA ElemsAppend ==
  ASSUME NEW S, NEW s \in Seq(S), NEW x \in S
  PROVE  /\ Append(s, x) \in Seq(S)
         /\ Elems(Append(s, x)) = Elems(s) \cup {x}
<1> DEFINE a == Append(s, x)
<1>1. /\ a \in Seq(S) /\ Len(a) = Len(s) + 1
      /\ \A i \in 1..Len(s) : a[i] = s[i]
      /\ a[Len(s) + 1] = x
  BY AppendProperties
<1>2. DOMAIN a = 1..Len(s) + 1 /\ DOMAIN s = 1..Len(s) /\ Len(s) \in Nat
  BY <1>1
<1>3. Elems(a) \subseteq Elems(s) \cup {x}
  BY <1>1, <1>2 DEF Elems
<1>4. Elems(s) \cup {x} \subseteq Elems(a)
  BY <1>1, <1>2 DEF Elems
<1> QED BY <1>1, <1>3, <1>4

LEMMA ElemsConcat ==
  ASSUME NEW S, NEW s \in Seq(S), NEW t \in Seq(S)
  PROVE  /\ s \o t \in Seq(S)
         /\ Elems(s \o t) = Elems(s) \cup Elems(t)
<1>1. /\ s \o t \in Seq(S) /\ Len(s \o t) = Len(s) + Len(t)
      /\ \A i \in 1 .. Len(s) + Len(t) :
           (s \o t)[i] = IF i <= Len(s) THEN s[i] ELSE t[i - Len(s)]
  BY ConcatProperties
<1>2. Elems(s \o t) \subseteq Elems(s) \cup Elems(t)
  BY <1>1 DEF Elems
<1>3. ASSUME NEW i \in DOMAIN s PROVE s[i] \in Elems(s \o t)
  BY <1>1, i \in 1 .. Len(s) + Len(t) DEF Elems
<1>4. ASSUME NEW i \in DOMAIN t PROVE t[i] \in Elems(s \o t)
  <2>1. i + Len(s) \in 1 .. Len(s) + Len(t) /\ (s \o t)[i + Len(s)] = t[i]
    BY <1>1
  <2> QED BY <2>1, <1>1 DEF Elems
<1> QED BY <1>1, <1>2, <1>3, <1>4 DEF Elems

-----------------------------------------------------------------------------
(* Types.                                                                  *)

LEMMA InitTypeOK == Init => TypeOK
<1> SUFFICES ASSUME Init PROVE TypeOK
  OBVIOUS
<1>1. StoreTypeOK
  BY DEF Init, StoreInit, StoreTypeOK, RecordState, ReadTree
<1>2. out \in [Outs -> OutputFile]
  BY DEF Init, OutputFile
<1>3. procs \in Seq(Procs) /\ deferred \in Seq(Procs) /\ results \in Seq(Results)
      /\ todo \in Seq(Runs)
  BY DEF Init
<1>4. seenFirst \in BOOLEAN /\ sig \in BOOLEAN /\ dropped \in BOOLEAN
  BY DEF Init
<1> QED BY <1>1, <1>2, <1>3, <1>4 DEF Init, TypeOK, Results, Terminal

(* The four operations of RunStore keep the types of its variables.        *)
LEMMA GetRunType ==
  ASSUME StoreTypeOK, NEW r, GetRun(r)
  PROVE  cache' \in [Runs -> RecordState]
  BY DEF StoreTypeOK, GetRun, Found, Cached, RecordState, ReadTree

LEMMA SetWriteTreeType ==
  ASSUME StoreTypeOK, NEW o \in Outs, SetWriteTree(o)
  PROVE  writeTree' \in Outs \cup {NoTree} /\ runT' \in [Outs -> [Runs -> Nat]]
  BY DEF StoreTypeOK, SetWriteTree

LEMMA FlushType ==
  ASSUME StoreTypeOK, FlushWriteTree
  PROVE  cache' \in [Runs -> RecordState] /\ runT' \in [Outs -> [Runs -> Nat]]
<1>1. CASE writeTree = NoTree
  BY <1>1 DEF StoreTypeOK, FlushWriteTree
<1>2. CASE writeTree # NoTree
  BY <1>2 DEF StoreTypeOK, FlushWriteTree, RecordState
<1> QED BY <1>1, <1>2

(* Opening a file: a fresh record, and the one that was open is kept.      *)
LEMMA OpenFileType ==
  ASSUME out \in [Outs -> OutputFile], left \in [Outs -> Seq(OutputFile)],
         execCount \in [Procs -> Nat], NEW o \in Outs, OpenFile(o)
  PROVE  out' \in [Outs -> OutputFile] /\ left' \in [Outs -> Seq(OutputFile)]
<1> DEFINE file == [state |-> "open", status |-> -1, file |-> "given", tree |-> <<>>,
                    before |-> execCount[o]]
<1>1. file \in OutputFile
  BY LoopAssumption DEF OutputFile
<1>2. out' = [out EXCEPT ![o] = file]
  BY DEF OpenFile
<1>3. Append(left[o], out[o]) \in Seq(OutputFile)
  <2>1. left[o] \in Seq(OutputFile) /\ out[o] \in OutputFile
    OBVIOUS
  <2> QED BY ONLY <2>1, AppendProperties
<1>4. left' = left \/ left' = [left EXCEPT ![o] = Append(left[o], out[o])]
  BY DEF OpenFile
<1> HIDE DEF file
<1> QED BY <1>1, <1>2, <1>3, <1>4

(* Every step keeps every variable in its type.                            *)
LEMMA StepTypeOK == TypeOK /\ Phases /\ [Next]_vars => TypeOK'
<1> SUFFICES ASSUME TypeOK, Phases, [Next]_vars PROVE TypeOK'
  OBVIOUS
<1> USE DEF vars, blockVars, eventVars, sourceVars, histVars, storeVars, Results, Terminal
<1>1. CASE UNCHANGED vars
  <2>1. StoreTypeOK'
    BY <1>1 DEF TypeOK, StoreTypeOK
  <2> QED BY <1>1, <2>1 DEF TypeOK
<1>2. ASSUME NEW why \in {"null_run", "null_tree", "dangling_tree", "dead_branch",
                         "no_current_run"},
             Crash(why)
      PROVE TypeOK'
  BY <1>2 DEF Crash, TypeOK, StoreTypeOK
<1>3. ASSUME NEW p \in Procs, AddProcessor(p) PROVE TypeOK'
  BY <1>3, ElemsAppend DEF AddProcessor, TypeOK, StoreTypeOK
<1>4. ASSUME NEW p \in Procs, DeferAppend(p) PROVE TypeOK'
  BY <1>4, ElemsAppend DEF DeferAppend, TypeOK, StoreTypeOK
<1>5. ASSUME NEW o \in Outs, SetFile(o) \/ UpdateFile(o) PROVE TypeOK'
  <2>1. writeTree' \in Outs \cup {NoTree} /\ runT' \in [Outs -> [Runs -> Nat]]
    BY <1>5, SetWriteTreeType DEF SetFile, UpdateFile, OpenFile, TypeOK
  <2>2. OpenFile(o) /\ out \in [Outs -> OutputFile] /\ left \in [Outs -> Seq(OutputFile)]
    BY <1>5 DEF SetFile, UpdateFile, TypeOK
  <2>3. out' \in [Outs -> OutputFile] /\ left' \in [Outs -> Seq(OutputFile)]
    BY <2>2, OpenFileType DEF TypeOK
  <2>4. StoreTypeOK'
    BY <1>5, <2>1 DEF SetFile, UpdateFile, TypeOK, StoreTypeOK
  <2>5. UNCHANGED <<pc, procs, deferred, lastProc, seenFirst, sourceCount, execCount, cursor,
                    ret, results, source, todo, run, simRun, jobs, sig, fault, begun,
                    destroyed, late, dropped>>
    BY <1>5 DEF SetFile, UpdateFile
  <2> QED BY <2>3, <2>4, <2>5 DEF TypeOK
<1>6. ASSUME NEW n \in 1..MaxBeam, BeamOn(n) PROVE TypeOK'
  <2>1. cache' \in [Runs -> RecordState] /\ currentRun' \in Runs \cup {NoRun}
    BY <1>6, GetRunType DEF BeamOn, AddNewRun, TypeOK, StoreTypeOK, RecordState
  <2>2. procs' \in Seq(Procs) /\ deferred' \in Seq(Procs)
    BY <1>6, ElemsConcat DEF BeamOn, BlockBeginOfRun, TypeOK
  <2>3. begun' \in [Procs -> Runs \cup {NoRun, NullRun}]
    BY <1>6 DEF BeamOn, BlockBeginOfRun, TypeOK
  <2>4. todo' \in Seq(Runs) /\ jobs' \in Nat
    BY <1>6, LoopAssumption DEF BeamOn, TypeOK
  <2> QED BY <1>6, <2>1, <2>2, <2>3, <2>4 DEF BeamOn, TypeOK, StoreTypeOK
<1>7. ASSUME BeginDSEvent, UNCHANGED <<storeVars, procs, deferred, lastProc, execCount,
             sourceVars, begun, destroyed, dropped, sig, out, left, fault>>
      PROVE TypeOK'
  BY <1>7 DEF BeginDSEvent, TypeOK, StoreTypeOK
<1>8. ASSUME EndOfRunAction PROVE TypeOK'
  BY <1>8 DEF EndOfRunAction, BlockEndOfRun, TypeOK, StoreTypeOK
<1>9. ASSUME NEW f \in InFiles, ReadFile(f) PROVE TypeOK'
  <2>1. readTree' \in ReadTree /\ todo' \in Seq(Runs) /\ jobs' \in Nat
    BY <1>9, LoopAssumption DEF ReadFile, SetReadTree, ReadTree, TypeOK, StoreTypeOK
  <2> QED BY <1>9, <2>1 DEF ReadFile, TypeOK, StoreTypeOK
<1>10. ASSUME todo # <<>>, StartRun(Head(todo)) PROVE TypeOK'
  <2>1. Head(todo) \in Runs
    BY <1>10 DEF TypeOK
  <2>2. cache' \in [Runs -> RecordState]
    BY <1>10, GetRunType DEF StartRun, TypeOK
  <2>3. procs' \in Seq(Procs) /\ deferred' \in Seq(Procs)
    BY <1>10, ElemsConcat DEF StartRun, BlockBeginOfRun, TypeOK
  <2>4. run' \in Runs \cup {NullRun}
    BY <1>10, <2>1 DEF StartRun
  <2>5. begun' \in [Procs -> Runs \cup {NoRun, NullRun}]
    BY <1>10, <2>4 DEF StartRun, BlockBeginOfRun, TypeOK
  <2> QED BY <1>10, <2>2, <2>3, <2>4, <2>5 DEF StartRun, BeginDSEvent, TypeOK, StoreTypeOK
<1>11. ASSUME LeaveRun PROVE TypeOK'
  BY <1>11 DEF LeaveRun, BlockEndOfRun, TypeOK, StoreTypeOK
<1>12. ASSUME EndRead PROVE TypeOK'
  <2>1. readTree' \in ReadTree
    BY <1>12 DEF EndRead, ReadTree, TypeOK, StoreTypeOK
  <2>2. begun' \in [Procs -> Runs \cup {NoRun, NullRun}]
    BY <1>12 DEF EndRead, BlockEndOfRun, TypeOK
  <2>3. StoreTypeOK'
    BY <1>12, <2>1 DEF EndRead, TypeOK, StoreTypeOK
  <2>4. UNCHANGED <<out, left>> /\ todo' = <<>> /\ late' = 0 /\ dropped' \in BOOLEAN
    BY <1>12 DEF EndRead, TypeOK
  <2> QED BY <1>12, <2>2, <2>3, <2>4 DEF EndRead, TypeOK
<1>13. ASSUME NEW res \in Results, ProcessorDSEvent(res) PROVE TypeOK'
  <2> DEFINE p == procs[cursor]
  <2>1. p \in Procs
    BY <1>13 DEF ProcessorDSEvent, TypeOK
  <2>2. writeTree' \in Outs \cup {NoTree} /\ runT' \in [Outs -> [Runs -> Nat]]
    BY <1>13, SetWriteTreeType DEF ProcessorDSEvent, OutputDSEvent, TypeOK, StoreTypeOK
  <2>3. out' \in [Outs -> OutputFile]
    <3>1. CASE p \notin Outs
      BY <1>13, <3>1 DEF ProcessorDSEvent, OutputDSEvent, TypeOK
    <3>2. CASE p \in Outs
      <4>1. Append(out[p].tree, Head(todo)) \in Seq(Runs)
        <5>1. Head(todo) \in Runs /\ out[p].tree \in Seq(Runs)
          BY <1>13, <3>2 DEF ProcessorDSEvent, Phases, TypeOK, OutputFile
        <5> QED BY <5>1, AppendProperties
      <4> DEFINE file ==
            [out[p] EXCEPT !.state = "open", !.tree = Append(out[p].tree, Head(todo))]
      <4>2. file \in OutputFile
        <5>1. out[p] \in OutputFile
          BY <3>2 DEF TypeOK
        <5> QED BY <4>1, <5>1 DEF OutputFile
      <4>3. out' = [out EXCEPT ![p] = file]
        BY <1>13, <3>2 DEF ProcessorDSEvent, OutputDSEvent
      <4> QED BY <3>2, <4>2, <4>3 DEF TypeOK
    <3> QED BY <3>1, <3>2
  <2>4. execCount' \in [Procs -> Nat]
    <3>1. execCount' = [execCount EXCEPT ![p] = execCount[p] + 1]
      BY <1>13 DEF ProcessorDSEvent
    <3> QED BY <2>1, <3>1 DEF TypeOK
  <2>5. results' \in Seq(Results) /\ ret' \in Results /\ cursor' \in Nat \ {0}
    BY <1>13 DEF ProcessorDSEvent, BlockRet, TypeOK
  <2>6. StoreTypeOK'
    BY <1>13, <2>2 DEF ProcessorDSEvent, TypeOK, StoreTypeOK
  <2> QED BY <1>13, <2>3, <2>4, <2>5, <2>6 DEF ProcessorDSEvent, TypeOK
<1>14. ASSUME EndDSEvent PROVE TypeOK'
  <2>1. todo' \in Seq(Runs)
    <3>1. todo' \in {Tail(todo), <<>>}
      BY <1>14 DEF EndDSEvent, Remaining
    <3>2. todo \in Seq(Runs) /\ todo # <<>>
      BY <1>14 DEF EndDSEvent, Phases, TypeOK
    <3>3. Tail(todo) \in Seq(Runs) /\ <<>> \in Seq(Runs)
      BY <3>2
    <3> QED BY <3>1, <3>3, Zenon
  <2>2. StoreTypeOK' /\ UNCHANGED <<out, left>> /\ dropped' \in BOOLEAN
    BY <1>14 DEF EndDSEvent, TypeOK, StoreTypeOK
  <2> QED BY <1>14, <2>1, <2>2 DEF EndDSEvent, TypeOK
<1>15. ASSUME DestroyProcessor PROVE TypeOK'
  <2> DEFINE p == (procs \o deferred)[cursor]
  <2>1. p \in Procs
    BY <1>15, ElemsConcat DEF DestroyProcessor, TypeOK
  <2>2. cache' \in [Runs -> RecordState] /\ runT' \in [Outs -> [Runs -> Nat]]
    BY <1>15, FlushType DEF DestroyProcessor, CloseOutput, TypeOK, StoreTypeOK
  <2>3. out' \in [Outs -> OutputFile]
    <3> DEFINE file == [out[p] EXCEPT !.state = "closed", !.status = FinalStatus]
    <3>1. FinalStatus \in {-1, 0, 1}
      <4>1. CASE sig
        BY <4>1 DEF FinalStatus
      <4>2. CASE ~sig
        BY <4>2 DEF FinalStatus
      <4> QED BY <4>1, <4>2
    <3>2. CASE p \in Outs /\ out[p].state = "open"
      <4>1. file \in OutputFile
        <5>1. out[p] \in OutputFile
          BY <3>2 DEF TypeOK
        <5> HIDE DEF p
        <5> QED BY <3>1, <5>1 DEF OutputFile
      <4>2. out' = [out EXCEPT ![p] = file]
        BY <1>15, <3>2 DEF DestroyProcessor, CloseOutput
      <4> QED BY <3>2, <4>1, <4>2 DEF TypeOK
    <3>3. CASE ~(p \in Outs /\ out[p].state = "open")
      BY <1>15, <3>3 DEF DestroyProcessor, CloseOutput, TypeOK
    <3> QED BY <3>2, <3>3
  <2>4. StoreTypeOK'
    BY <1>15, <2>2 DEF DestroyProcessor, TypeOK, StoreTypeOK
  <2>5. destroyed' \subseteq Procs /\ cursor' \in Nat \ {0}
    <3>1. destroyed' = destroyed \cup {p} /\ cursor' = cursor + 1
      BY <1>15 DEF DestroyProcessor
    <3>2. destroyed \subseteq Procs /\ cursor \in Nat \ {0}
      BY DEF TypeOK
    <3> HIDE DEF p
    <3> QED BY <2>1, <3>1, <3>2
  <2> QED BY <1>15, <2>3, <2>4, <2>5 DEF DestroyProcessor, TypeOK
<1>16. ASSUME EndOfMacro \/ Exit PROVE TypeOK'
  <2>1. pc' \in {"destroy", "done"} /\ UNCHANGED <<storeVars, blockVars, eventVars,
          sourceVars, histVars, sig, out, left, fault>>
    BY <1>16 DEF EndOfMacro, Exit
  <2>2. StoreTypeOK'
    BY <2>1 DEF TypeOK, StoreTypeOK
  <2> QED BY <2>1, <2>2 DEF TypeOK
<1>17. ASSUME SigInt PROVE TypeOK'
  BY <1>17 DEF SigInt, TypeOK, StoreTypeOK
<1>18. ASSUME SecondSigInt PROVE TypeOK'
  BY <1>18 DEF SecondSigInt, TypeOK, StoreTypeOK
<1>19. CASE Macro
  BY <1>19, <1>2, <1>3, <1>4, <1>5, <1>6, <1>9, <1>16
  DEF Macro, UpdateFileDies, BeamOnDangling
<1>20. CASE Producer
  BY <1>20, <1>2, <1>7, <1>8, <1>10, <1>11, <1>12
  DEF Producer, GsimEvent, GsimCurrentRunMissing, FirstEvent, SameRunEvent, EnterRun,
      Reading, NullRunDereference, ReadDangling, Phases
<1>21. CASE Block
  BY <1>21, <1>2, <1>13, <1>14, <1>15, <1>16 DEF Block, CurrentRunMissing
<1> QED
  BY <1>1, <1>17, <1>18, <1>19, <1>20, <1>21 DEF Next, User

-----------------------------------------------------------------------------
(* The phases of the thread.                                               *)

LEMMA StepPhases == TypeOK /\ Phases /\ [Next]_vars => Phases'
<1> SUFFICES ASSUME TypeOK, Phases, [Next]_vars PROVE Phases'
  OBVIOUS
<1> USE DEF vars, blockVars, eventVars, sourceVars, histVars
<1>1. CASE UNCHANGED vars
  BY <1>1 DEF Phases
<1>2. CASE Macro
  <2>1. ASSUME NEW n \in 1..MaxBeam, BeamOn(n) PROVE Phases'
    BY <2>1 DEF BeamOn, Phases
  <2>2. ASSUME NEW f \in InFiles, ReadFile(f) PROVE Phases'
    BY <2>2 DEF ReadFile, Phases
  <2> QED BY <1>2, <2>1, <2>2
      DEF Macro, AddProcessor, DeferAppend, SetFile, UpdateFile, UpdateFileDies, MayOpen,
      BeamOnDangling, Crash,
          EndOfMacro, Phases
<1>3. CASE Producer
  <2>1. ASSUME GsimEvent \/ SameRunEvent PROVE Phases'
    <3>1. todo # <<>> /\ run = Head(todo)
      BY <2>1 DEF GsimEvent, SameRunEvent, Reading, Phases, TypeOK
    <3> QED BY <2>1, <3>1 DEF GsimEvent, SameRunEvent, BeginDSEvent, Phases
  <2>2. ASSUME todo # <<>>, source = "inroot", StartRun(Head(todo)) PROVE Phases'
    BY <2>2 DEF StartRun, BeginDSEvent, Phases
  <2>3. ASSUME EndOfRunAction \/ EndRead PROVE Phases'
    BY <2>3 DEF EndOfRunAction, EndRead, Phases
  <2>4. ASSUME LeaveRun PROVE Phases'
    BY <2>4 DEF LeaveRun, Reading, Phases
  <2> QED BY <1>3, <2>1, <2>2, <2>3, <2>4
      DEF Producer, GsimCurrentRunMissing, FirstEvent, EnterRun, Reading,
          NullRunDereference, ReadDangling, Crash, Phases
<1>4. CASE Block
  <2>1. ASSUME EndDSEvent PROVE Phases'
    <3>1. todo' \in {<<>>, Tail(todo)} /\ todo \in Seq(Runs) /\ todo # <<>>
      BY <2>1 DEF EndDSEvent, Remaining, Phases, TypeOK
    <3>2. ASSUME source = "gsim", NEW i \in DOMAIN todo' PROVE todo'[i] = simRun
      BY <2>1, <3>1, <3>2 DEF EndDSEvent, Phases
    <3> QED BY <2>1, <3>2 DEF EndDSEvent, Phases
  <2> QED BY <1>4, <2>1
      DEF Block, ProcessorDSEvent, CurrentRunMissing, Crash, DestroyProcessor, Exit, Phases
<1>5. CASE User
  BY <1>5 DEF User, SigInt, SecondSigInt, Phases
<1> QED BY <1>1, <1>2, <1>3, <1>4, <1>5 DEF Next

-----------------------------------------------------------------------------
(* Runs begin and end around events.                                       *)

(* ProcBlock::BeginOfRun begins exactly the declared processors, and       *)
(* declares nothing new.                                                   *)
LEMMA BlockBegins ==
  ASSUME TypeOK, NEW r, BlockBeginOfRun(r)
  PROVE  /\ deferred' = <<>> /\ Elems(procs') = Declared /\ Declared' = Declared
         /\ \A p \in Procs : begun'[p] = IF p \in Declared THEN r ELSE begun[p]
<1>1. procs' = procs \o deferred /\ deferred' = <<>>
  BY DEF BlockBeginOfRun
<1>2. Elems(procs') = Declared
  BY <1>1, ElemsConcat DEF TypeOK, Declared
<1>3. Elems(deferred') = {}
  BY <1>1 DEF Elems
<1> QED BY <1>1, <1>2, <1>3 DEF BlockBeginOfRun, Declared

LEMMA StepBegunInRun == TypeOK /\ Phases /\ BegunInRun /\ [Next]_vars => BegunInRun'
<1> SUFFICES ASSUME TypeOK, Phases, BegunInRun, [Next]_vars, InRun'
             PROVE  deferred' = <<>> /\ \A p \in Elems(procs') : begun'[p] = run'
  BY DEF BegunInRun
<1> USE DEF vars, blockVars, eventVars, sourceVars, histVars
<1> DEFINE Same == InRun /\ UNCHANGED <<procs, deferred, begun, run>>
           Begun(r) == BlockBeginOfRun(r) /\ run' = r
<1>1. Same \/ (\E r : Begun(r))
  <2>1. CASE UNCHANGED vars
    BY <2>1 DEF InRun
  <2>2. CASE Macro
    BY <2>2 DEF Macro, AddProcessor, DeferAppend, SetFile, UpdateFile, UpdateFileDies, MayOpen,
      BeamOn,
         BeamOnDangling, ReadFile, Crash, EndOfMacro, InRun, Phases
  <2>3. CASE Producer
    <3>1. ASSUME GsimEvent \/ SameRunEvent PROVE Same
      <4>1. run \in Runs
        BY <3>1 DEF GsimEvent, SameRunEvent, Reading, Phases, TypeOK
      <4>2. run # NoRun
        BY <4>1, StoreAssumption
      <4> QED BY <3>1, <4>2 DEF GsimEvent, SameRunEvent, InRun
    <3>2. ASSUME NEW r, StartRun(r) PROVE Begun(run')
      BY <3>2 DEF StartRun
    <3>3. ASSUME EndOfRunAction \/ LeaveRun \/ EndRead PROVE FALSE
      BY <3>3 DEF EndOfRunAction, LeaveRun, EndRead, InRun
    <3>4. ASSUME GsimCurrentRunMissing \/ NullRunDereference \/ ReadDangling PROVE FALSE
      BY <3>4 DEF GsimCurrentRunMissing, NullRunDereference, ReadDangling, Crash, InRun
    <3> QED BY <2>3, <3>1, <3>2, <3>3, <3>4 DEF Producer, FirstEvent, EnterRun
  <2>4. CASE Block
    BY <2>4 DEF Block, ProcessorDSEvent, CurrentRunMissing, Crash, EndDSEvent,
         DestroyProcessor, Exit, InRun, Phases
  <2>5. CASE User
    BY <2>5 DEF User, SigInt, SecondSigInt, InRun
  <2> QED BY <2>1, <2>2, <2>3, <2>4, <2>5 DEF Next
<1>2. CASE Same
  BY <1>2 DEF BegunInRun
<1>3. ASSUME NEW r, Begun(r)
      PROVE  deferred' = <<>> /\ \A p \in Elems(procs') : begun'[p] = run'
  <2>1. Declared \subseteq Procs
    BY DEF Declared, Elems, TypeOK
  <2> QED BY <1>3, <2>1, BlockBegins
<1> QED BY <1>1, <1>2, <1>3

(* ProcBlock::EndOfRun leaves no processor inside a run.                   *)
LEMMA BlockEnds ==
  ASSUME TypeOK, BegunInRun, UndeclaredUntouched, InRun, BlockEndOfRun
  PROVE  \A p \in Procs : begun'[p] = NoRun
<1>1. Elems(deferred) = {}
  BY DEF BegunInRun, Elems
<1> QED BY <1>1 DEF BlockEndOfRun, UndeclaredUntouched, Declared

LEMMA StepIdleOutsideRun ==
  /\ TypeOK /\ Phases /\ BegunInRun /\ IdleOutsideRun /\ UndeclaredUntouched
  /\ [Next]_vars
  => IdleOutsideRun'
<1> SUFFICES ASSUME TypeOK, Phases, BegunInRun, IdleOutsideRun, UndeclaredUntouched,
                    [Next]_vars, OutsideRun', NEW p \in Procs
             PROVE  begun'[p] \in {NoRun, NullRun}
  BY DEF IdleOutsideRun
<1> USE DEF vars, blockVars, eventVars, sourceVars, histVars
<1> DEFINE Same == OutsideRun /\ UNCHANGED begun
           Ended == InRun /\ BlockEndOfRun
<1>1. CASE Same
  BY <1>1 DEF IdleOutsideRun
<1>2. CASE Ended
  BY <1>2, BlockEnds
<1>3. CASE UNCHANGED vars
  BY <1>1, <1>3 DEF OutsideRun
<1>4. CASE Macro
  <2>1. simRun # NoRun
    BY StoreAssumption DEF TypeOK
  <2>2. ASSUME NEW n \in 1..MaxBeam, BeamOn(n) PROVE FALSE
    BY <2>1, <2>2 DEF BeamOn, OutsideRun
  <2> QED BY <1>1, <1>4, <2>2
      DEF Macro, AddProcessor, DeferAppend, SetFile, UpdateFile, UpdateFileDies, MayOpen,
      BeamOnDangling, ReadFile,
          Crash, EndOfMacro, OutsideRun
<1>5. CASE Producer
  <2>1. ASSUME GsimEvent \/ SameRunEvent \/ FirstEvent \/ EnterRun PROVE FALSE
    BY <2>1 DEF GsimEvent, SameRunEvent, FirstEvent, EnterRun, StartRun, BeginDSEvent, OutsideRun
  <2>2. ASSUME EndOfRunAction \/ LeaveRun PROVE Ended
    <3>1. run # NoRun
      BY <2>2, StoreAssumption DEF EndOfRunAction, LeaveRun, Phases, TypeOK
    <3> QED BY <2>2, <3>1 DEF EndOfRunAction, LeaveRun, InRun
  <2>3. ASSUME EndRead PROVE begun'[p] \in {NoRun, NullRun}
    <3>1. CASE run \in Runs
      <4>1. run # NoRun
        BY <3>1, StoreAssumption
      <4> QED BY <1>2, <2>3, <3>1, <4>1 DEF EndRead, InRun
    <3>2. CASE run = NoRun
      BY <1>1, <2>3, <3>2, StoreAssumption DEF EndRead, OutsideRun
    <3>3. CASE run = NullRun
      <4>1. InRun /\ UNCHANGED begun
        BY <2>3, <3>3, LoopAssumption DEF EndRead, InRun
      <4>2. Elems(deferred) = {}
        BY <4>1 DEF BegunInRun, Elems
      <4> QED BY <3>3, <4>1, <4>2 DEF BegunInRun, UndeclaredUntouched, Declared
    <3> QED BY <3>1, <3>2, <3>3 DEF TypeOK
  <2>4. ASSUME GsimCurrentRunMissing \/ NullRunDereference \/ ReadDangling PROVE FALSE
    BY <2>4 DEF GsimCurrentRunMissing, NullRunDereference, ReadDangling, Crash, OutsideRun
  <2> QED BY <1>2, <1>5, <2>1, <2>2, <2>3, <2>4 DEF Producer
<1>6. CASE Block
  <2>1. ASSUME EndDSEvent PROVE FALSE
    <3>1. run # NoRun
      BY <2>1, StoreAssumption, LoopAssumption DEF EndDSEvent, Phases, TypeOK
    <3> QED BY <2>1, <3>1 DEF EndDSEvent, OutsideRun
  <2> QED BY <1>1, <1>6, <2>1
      DEF Block, ProcessorDSEvent, CurrentRunMissing, Crash, DestroyProcessor, Exit, OutsideRun
<1>7. CASE User
  BY <1>1, <1>7 DEF User, SigInt, SecondSigInt, OutsideRun
<1> QED BY <1>3, <1>4, <1>5, <1>6, <1>7 DEF Next

-----------------------------------------------------------------------------
(* The processor list.                                                     *)

(* A step begins and ends only declared processors, and declares for good. *)
LEMMA StepUndeclaredUntouched ==
  TypeOK /\ UndeclaredUntouched /\ [Next]_vars => UndeclaredUntouched'
<1> SUFFICES ASSUME TypeOK, UndeclaredUntouched, [Next]_vars,
                    NEW p \in Procs, p \notin Declared'
             PROVE  begun'[p] = NoRun
  BY DEF UndeclaredUntouched
<1> USE DEF vars, blockVars, eventVars, sourceVars, histVars
<1> DEFINE Kept == Declared \subseteq Declared' /\ begun'[p] = begun[p]
<1>1. CASE Kept
  BY <1>1 DEF UndeclaredUntouched
<1>2. ASSUME NEW r, BlockBeginOfRun(r) PROVE begun'[p] = NoRun
  BY <1>2, BlockBegins DEF UndeclaredUntouched
<1>3. ASSUME BlockEndOfRun PROVE begun'[p] \in {begun[p], NoRun}
  BY <1>3 DEF BlockEndOfRun
<1>4. ASSUME UNCHANGED <<procs, deferred, begun>> PROVE Kept
  BY <1>4 DEF Declared
<1>5. ASSUME NEW q \in Procs, AddProcessor(q) \/ DeferAppend(q) PROVE Kept
  <2>1. CASE AddProcessor(q)
    <3>1. Elems(procs') = Elems(procs) \cup {q} /\ UNCHANGED <<deferred, begun>>
      BY <2>1, ElemsAppend DEF AddProcessor, TypeOK
    <3> QED BY <3>1 DEF Declared
  <2>2. CASE DeferAppend(q)
    <3>1. Elems(deferred') = Elems(deferred) \cup {q} /\ UNCHANGED <<procs, begun>>
      BY <2>2, ElemsAppend DEF DeferAppend, TypeOK
    <3> QED BY <3>1 DEF Declared
  <2> QED BY <1>5, <2>1, <2>2
<1>6. ASSUME BlockEndOfRun, UNCHANGED <<procs, deferred>> PROVE begun'[p] = NoRun
  <2>1. p \notin Declared
    BY <1>6 DEF Declared
  <2> QED BY <1>3, <1>6, <2>1 DEF UndeclaredUntouched
<1>7. CASE UNCHANGED vars
  BY <1>1, <1>4, <1>7
<1>8. CASE Macro
  BY <1>1, <1>2, <1>4, <1>5, <1>8
  DEF Macro, SetFile, UpdateFile, UpdateFileDies, MayOpen,
      BeamOn, BeamOnDangling, ReadFile, Crash, EndOfMacro
<1>9. CASE Producer
  <2>1. ASSUME FirstEvent \/ EnterRun PROVE begun'[p] = NoRun
    BY <2>1, <1>2 DEF FirstEvent, EnterRun, StartRun
  <2>2. ASSUME EndOfRunAction \/ LeaveRun \/ EndRead PROVE begun'[p] = NoRun
    BY <1>1, <1>4, <1>6, <2>2 DEF EndOfRunAction, LeaveRun, EndRead
  <2> QED BY <1>1, <1>4, <1>9, <2>1, <2>2
      DEF Producer, GsimEvent, SameRunEvent, BeginDSEvent, GsimCurrentRunMissing,
          NullRunDereference, ReadDangling, Crash
<1>10. CASE Block
  BY <1>1, <1>4, <1>10
  DEF Block, ProcessorDSEvent, CurrentRunMissing, EndDSEvent, DestroyProcessor, Crash, Exit
<1>11. CASE User
  BY <1>1, <1>4, <1>11 DEF User, SigInt, SecondSigInt
<1> QED BY <1>7, <1>8, <1>9, <1>10, <1>11 DEF Next

(* A list of distinct elements stays one when a new element is appended,   *)
(* or another such list without a common element is.                       *)
LEMMA DistinctAppend ==
  ASSUME NEW S, NEW s \in Seq(S), NEW x \in S, Distinct(s), x \notin Elems(s)
  PROVE  Distinct(Append(s, x))
  BY AppendProperties DEF Distinct, Elems

LEMMA DistinctConcat ==
  ASSUME NEW S, NEW s \in Seq(S), NEW t \in Seq(S), Distinct(s), Distinct(t),
         Elems(s) \cap Elems(t) = {}
  PROVE  Distinct(s \o t)
<1> DEFINE c == s \o t
<1>1. /\ c \in Seq(S) /\ Len(c) = Len(s) + Len(t)
      /\ \A i \in 1 .. Len(s) + Len(t) : c[i] = IF i <= Len(s) THEN s[i] ELSE t[i - Len(s)]
  BY ConcatProperties
<1> SUFFICES ASSUME NEW i \in DOMAIN c, NEW j \in DOMAIN c, c[i] = c[j], i <= j PROVE i = j
  BY <1>1 DEF Distinct
<1>2. CASE j <= Len(s)
  BY <1>1, <1>2 DEF Distinct
<1>3. CASE i > Len(s)
  <2>1. i - Len(s) \in DOMAIN t /\ j - Len(s) \in DOMAIN t
    BY <1>1, <1>3
  <2> QED BY <1>1, <1>3, <2>1 DEF Distinct
<1>4. CASE i <= Len(s) /\ j > Len(s)
  <2>1. i \in DOMAIN s /\ j - Len(s) \in DOMAIN t
    BY <1>1, <1>4
  <2>2. c[i] = s[i] /\ c[j] = t[j - Len(s)]
    BY <1>1, <1>4
  <2> QED BY <2>1, <2>2 DEF Elems
<1> QED BY <1>1, <1>2, <1>3, <1>4

LEMMA StepDeclaredOnce == TypeOK /\ DeclaredOnce /\ [Next]_vars => DeclaredOnce'
<1> SUFFICES ASSUME TypeOK, DeclaredOnce, [Next]_vars PROVE DeclaredOnce'
  OBVIOUS
<1> USE DEF vars, blockVars, eventVars, sourceVars, histVars
<1>1. ASSUME UNCHANGED <<procs, deferred>> PROVE DeclaredOnce'
  BY <1>1 DEF DeclaredOnce
<1>2. ASSUME NEW r, BlockBeginOfRun(r) PROVE DeclaredOnce'
  <2>1. Distinct(procs \o deferred)
    BY DistinctConcat DEF DeclaredOnce, TypeOK
  <2>2. Distinct(<<>>) /\ Elems(<<>>) = {}
    BY DEF Distinct, Elems
  <2> QED BY <1>2, <2>1, <2>2 DEF BlockBeginOfRun, DeclaredOnce
<1>3. ASSUME NEW q \in Procs, AddProcessor(q) \/ DeferAppend(q) PROVE DeclaredOnce'
  <2>1. CASE AddProcessor(q)
    <3>1. q \notin Elems(procs) /\ q \notin Elems(deferred)
      BY <2>1 DEF AddProcessor, Declared
    <3> QED BY <2>1, <3>1, ElemsAppend, DistinctAppend DEF AddProcessor, DeclaredOnce, TypeOK
  <2>2. CASE DeferAppend(q)
    <3>1. q \notin Elems(procs) /\ q \notin Elems(deferred)
      BY <2>2 DEF DeferAppend, Declared
    <3> QED BY <2>2, <3>1, ElemsAppend, DistinctAppend DEF DeferAppend, DeclaredOnce, TypeOK
  <2> QED BY <1>3, <2>1, <2>2
<1>4. CASE Macro
  BY <1>1, <1>2, <1>3, <1>4
  DEF Macro, SetFile, UpdateFile, UpdateFileDies, MayOpen,
      BeamOn, BeamOnDangling, ReadFile, Crash, EndOfMacro
<1>5. CASE Producer
  BY <1>1, <1>2, <1>5
  DEF Producer, FirstEvent, EnterRun, StartRun, EndOfRunAction, LeaveRun, EndRead, GsimEvent,
      SameRunEvent, GsimCurrentRunMissing, NullRunDereference, ReadDangling, Crash
<1>6. CASE Block
  BY <1>1, <1>6
  DEF Block, ProcessorDSEvent, CurrentRunMissing, EndDSEvent, DestroyProcessor, Crash, Exit
<1>7. CASE User \/ UNCHANGED vars
  BY <1>1, <1>7 DEF User, SigInt, SecondSigInt
<1> QED BY <1>4, <1>5, <1>6, <1>7 DEF Next

LEMMA StepDestroyedInOrder ==
  TypeOK /\ Phases /\ DestroyedInOrder /\ [Next]_vars => DestroyedInOrder'
<1> SUFFICES ASSUME TypeOK, Phases, DestroyedInOrder, [Next]_vars PROVE DestroyedInOrder'
  OBVIOUS
<1> USE DEF vars, blockVars, eventVars, sourceVars, histVars
<1> DEFINE Going == {"command", "produce", "switch", "event"}
<1>1. ASSUME pc \in Going, UNCHANGED destroyed PROVE DestroyedInOrder'
  BY <1>1 DEF DestroyedInOrder
<1>2. ASSUME pc' \in Terminal PROVE DestroyedInOrder'
  BY <1>2 DEF DestroyedInOrder, Terminal
<1>3. CASE UNCHANGED <<pc, destroyed, cursor, procs, deferred>>
  BY <1>3 DEF DestroyedInOrder
<1>4. CASE Macro
  BY <1>1, <1>2, <1>4
  DEF Macro, AddProcessor, DeferAppend, SetFile, UpdateFile, UpdateFileDies, MayOpen,
      BeamOn, BeamOnDangling,
      ReadFile, Crash, EndOfMacro, Terminal
<1>5. CASE Producer
  BY <1>1, <1>2, <1>5
  DEF Producer, FirstEvent, EnterRun, StartRun, EndOfRunAction, LeaveRun, EndRead, GsimEvent,
      SameRunEvent, BeginDSEvent, GsimCurrentRunMissing, NullRunDereference, ReadDangling,
      Crash, Terminal
<1>6. CASE DestroyProcessor
  <2> DEFINE list == procs \o deferred
  <2>1. destroyed' = destroyed \cup {list[cursor]} /\ cursor' = cursor + 1
        /\ cursor <= Len(list) /\ UNCHANGED list /\ pc = "destroy" /\ pc' = pc
    BY <1>6 DEF DestroyProcessor
  <2>2. cursor \in Nat \ {0}
    BY DEF TypeOK
  <2> SUFFICES ASSUME NEW p \in destroyed'
               PROVE  \E i \in 1 .. cursor : i <= Len(list) /\ p = list[i]
    BY <2>1, <2>2 DEF DestroyedInOrder
  <2>3. CASE p = list[cursor]
    BY <2>1, <2>2, <2>3
  <2>4. CASE p \in destroyed
    <3>1. PICK i \in 1 .. cursor - 1 : i <= Len(list) /\ p = list[i]
      BY <2>1, <2>4 DEF DestroyedInOrder
    <3> QED BY <2>2, <3>1
  <2> QED BY <2>1, <2>3, <2>4
<1>7. CASE Block /\ ~DestroyProcessor
  BY <1>1, <1>2, <1>7
  DEF Block, ProcessorDSEvent, CurrentRunMissing, EndDSEvent, Crash, Exit, Terminal
<1>8. CASE User \/ UNCHANGED vars
  BY <1>2, <1>3, <1>8 DEF User, SigInt, SecondSigInt, Terminal
<1> QED BY <1>4, <1>5, <1>6, <1>7, <1>8 DEF Next

-----------------------------------------------------------------------------
(* The inductive invariant and what follows from it.                       *)

LEMMA InitLoopInv == Init => LoopInv
<1> SUFFICES ASSUME Init PROVE LoopInv
  OBVIOUS
<1>1. TypeOK
  BY InitTypeOK
<1>2. Elems(<<>>) = {} /\ Distinct(<<>>)
  BY DEF Elems, Distinct
<1> QED BY <1>1, <1>2
    DEF Init, LoopInv, Phases, BegunInRun, InRun, IdleOutsideRun, UndeclaredUntouched,
        DeclaredOnce, DestroyedInOrder

LEMMA StepLoopInv == LoopInv /\ [Next]_vars => LoopInv'
BY StepTypeOK, StepPhases, StepBegunInRun, StepIdleOutsideRun, StepUndeclaredUntouched,
   StepDeclaredOnce, StepDestroyedInOrder DEF LoopInv

(* The invariant holds of every job: any processors, results, input files, *)
(* outputs and macro, with Ctrl-C at any moment.                           *)
THEOREM LoopInvariant == Spec => []LoopInv
<1>1. Init => LoopInv
  BY InitLoopInv
<1>2. LoopInv /\ [Next]_vars => LoopInv'
  BY StepLoopInv
<1> QED BY <1>1, <1>2, PTL DEF Spec

(* Every variable of the loop and of RunStore keeps its type.              *)
THEOREM TypeCorrect == Spec => []TypeOK
<1>1. LoopInv => TypeOK
  BY DEF LoopInv
<1> QED BY <1>1, LoopInvariant, PTL

(* No event is in the block without every listed processor, late additions *)
(* and deferred ones included, having been begun with the event's run.     *)
THEOREM EventsInRun == Spec => []EventInRun
<1>1. LoopInv => EventInRun
  BY DEF LoopInv, Phases, BegunInRun, InRun, EventInRun
<1> QED BY <1>1, LoopInvariant, PTL

-----------------------------------------------------------------------------
(* Every step of the loop is, for each processor, a step of its contract   *)
(* or none.                                                                *)

LEMMA ContractBegin ==
  ASSUME TypeOK, NEW r \in Runs \cup {NullRun}, BlockBeginOfRun(r),
         destroyed = {}, UNCHANGED <<execCount, destroyed>>,
         \A q \in Procs : begun[q] \in {NoRun, NullRun}, NEW p \in Procs
  PROVE  [Contract(p)!Next]_(Contract(p)!vars)
<1>1. CASE p \in Declared
  <2>1. begun'[p] = r
    BY <1>1, BlockBegins
  <2>2. Contract(p)!BeginOfRun(r)
    BY <2>1 DEF Contract!BeginOfRun
  <2> QED BY <2>2 DEF Contract!Next
<1>2. CASE p \notin Declared
  BY <1>2, BlockBegins DEF Contract!vars
<1> QED BY <1>1, <1>2

LEMMA ContractEnd ==
  ASSUME TypeOK, BlockEndOfRun, BegunInRun, InRun, run \in Runs,
         destroyed = {}, UNCHANGED <<execCount, destroyed>>, NEW p \in Procs
  PROVE  [Contract(p)!Next]_(Contract(p)!vars)
<1>1. CASE p \in Elems(procs)
  <2>1. begun[p] = run /\ begun'[p] = NoRun
    BY <1>1 DEF BegunInRun, BlockEndOfRun
  <2>2. Contract(p)!EndOfRun
    BY <2>1 DEF Contract!EndOfRun
  <2> QED BY <2>2 DEF Contract!Next
<1>2. CASE p \notin Elems(procs)
  BY <1>2 DEF BlockEndOfRun, Contract!vars
<1> QED BY <1>1, <1>2

LEMMA ContractStep ==
  ASSUME LoopInv, [Next]_vars, NEW p \in Procs
  PROVE  [Contract(p)!Next]_(Contract(p)!vars)
<1> USE DEF vars, blockVars, eventVars, sourceVars, histVars
<1>1. TypeOK /\ Phases /\ BegunInRun /\ IdleOutsideRun /\ DeclaredOnce /\ DestroyedInOrder
  BY DEF LoopInv
<1>2. ASSUME UNCHANGED <<begun, execCount, destroyed>>
      PROVE  UNCHANGED Contract(p)!vars
  BY <1>2 DEF Contract!vars
<1>3. CASE UNCHANGED vars
  BY <1>2, <1>3
<1>4. CASE Macro
  <2>1. ASSUME NEW n \in 1..MaxBeam, BeamOn(n) PROVE [Contract(p)!Next]_(Contract(p)!vars)
    <3>1. destroyed = {} /\ \A q \in Procs : begun[q] \in {NoRun, NullRun}
      BY <1>1, <2>1 DEF BeamOn, DestroyedInOrder, IdleOutsideRun, OutsideRun
    <3>2. simRun \in Runs
      BY <1>1 DEF TypeOK
    <3> QED BY <1>1, <2>1, <3>1, <3>2, ContractBegin DEF BeamOn
  <2> QED BY <1>2, <1>4, <2>1
      DEF Macro, AddProcessor, DeferAppend, SetFile, UpdateFile, UpdateFileDies, MayOpen,
      BeamOnDangling, ReadFile,
          Crash, EndOfMacro
<1>5. CASE Producer
  <2>1. ASSUME FirstEvent \/ EnterRun PROVE [Contract(p)!Next]_(Contract(p)!vars)
    <3>1. destroyed = {} /\ \A q \in Procs : begun[q] \in {NoRun, NullRun}
      BY <1>1, <2>1 DEF FirstEvent, EnterRun, DestroyedInOrder, IdleOutsideRun, OutsideRun
    <3>2. Head(todo) \in Runs
      BY <1>1, <2>1 DEF FirstEvent, EnterRun, Reading, Phases, TypeOK
    <3>3. run' \in Runs \cup {NullRun} /\ BlockBeginOfRun(run')
          /\ UNCHANGED <<execCount, destroyed>>
      BY <2>1, <3>2 DEF FirstEvent, EnterRun, StartRun
    <3> QED BY <1>1, <3>1, <3>3, ContractBegin
  <2>2. ASSUME EndOfRunAction \/ LeaveRun \/ (EndRead /\ run \in Runs)
        PROVE [Contract(p)!Next]_(Contract(p)!vars)
    <3>1. run \in Runs /\ pc = "produce"
      BY <1>1, <2>2 DEF EndOfRunAction, LeaveRun, EndRead, Phases, TypeOK
    <3>2. InRun /\ destroyed = {}
      BY <1>1, <3>1, StoreAssumption DEF InRun, DestroyedInOrder
    <3>3. BlockEndOfRun /\ UNCHANGED <<execCount, destroyed>>
      BY <2>2 DEF EndOfRunAction, LeaveRun, EndRead
    <3> QED BY <1>1, <3>1, <3>2, <3>3, ContractEnd
  <2> QED BY <1>2, <1>5, <2>1, <2>2
      DEF Producer, EndRead, GsimEvent, SameRunEvent, BeginDSEvent, GsimCurrentRunMissing,
          NullRunDereference, ReadDangling, Crash
<1>6. ASSUME NEW res \in Results, ProcessorDSEvent(res)
      PROVE  [Contract(p)!Next]_(Contract(p)!vars)
  <2> DEFINE q == procs[cursor]
  <2>1. q \in Elems(procs) /\ q \in Procs
    BY <1>1, <1>6 DEF ProcessorDSEvent, Elems, TypeOK
  <2>2. begun[q] # NoRun /\ destroyed = {}
    <3>1. run # NoRun
      BY <1>1, <1>6, StoreAssumption, LoopAssumption DEF ProcessorDSEvent, Phases, TypeOK
    <3> QED BY <1>1, <1>6, <2>1, <3>1
        DEF ProcessorDSEvent, BegunInRun, InRun, DestroyedInOrder
  <2>3. execCount' = [execCount EXCEPT ![q] = execCount[q] + 1]
        /\ UNCHANGED <<begun, destroyed>>
    BY <1>6 DEF ProcessorDSEvent
  <2>4. CASE p = q
    BY <1>1, <2>2, <2>3, <2>4 DEF Contract!Next, Contract!Event, TypeOK
  <2>5. CASE p # q
    BY <1>1, <2>1, <2>3, <2>5 DEF Contract!vars, TypeOK
  <2> QED BY <2>4, <2>5
<1>7. CASE DestroyProcessor
  <2> DEFINE list == procs \o deferred
             q == list[cursor]
  <2>1. list \in Seq(Procs) /\ Distinct(list) /\ cursor \in 1 .. Len(list)
    BY <1>1, <1>7, ElemsConcat, DistinctConcat DEF DestroyProcessor, DeclaredOnce, TypeOK
  <2>2. q \notin destroyed
    BY <1>1, <1>7, <2>1 DEF DestroyProcessor, DestroyedInOrder, Distinct
  <2>3. begun[q] \in {NoRun, NullRun}
    BY <1>1, <1>7, <2>1 DEF DestroyProcessor, IdleOutsideRun, OutsideRun
  <2>4. destroyed' = destroyed \cup {q} /\ UNCHANGED <<begun, execCount>>
    BY <1>7 DEF DestroyProcessor
  <2>5. CASE p = q
    BY <2>2, <2>3, <2>4, <2>5 DEF Contract!Next, Contract!Destroy
  <2>6. CASE p # q
    BY <2>4, <2>6 DEF Contract!vars
  <2> QED BY <2>5, <2>6
<1>8. CASE User
  BY <1>2, <1>8 DEF User, SigInt, SecondSigInt
<1> QED BY <1>2, <1>3, <1>4, <1>5, <1>6, <1>7, <1>8
    DEF Next, Block, CurrentRunMissing, Crash, EndDSEvent, Exit

(* The event loop implements ProcessorContract for each of its processors. *)
THEOREM ContractRefined == Spec => ProcessorsSeeTheContract
<1>1. Init => \A p \in Procs : Contract(p)!Init
  BY DEF Init, Contract!Init
<1>2. LoopInv /\ [Next]_vars =>
        [\A p \in Procs : [Contract(p)!Next]_(Contract(p)!vars)]_<<begun, execCount, destroyed>>
  BY ContractStep
<1> QED BY <1>1, <1>2, LoopInvariant, PTL DEF Spec, ProcessorsSeeTheContract

-----------------------------------------------------------------------------
(* What the loop leaves behind: the block runs its list in order and       *)
(* returns what its processors returned together, the status of an output  *)
(* file is true, and a job with one output writes every run record once.   *)

Going == {"command", "produce", "switch", "event"}
Has(res) == \E i \in DOMAIN results : results[i] = res

-----------------------------------------------------------------------------
(* The block.  BlockRunsItsList speaks of the end of an event only; these  *)
(* speak of every step on the way there.                                   *)

\* What is not in the list has not executed, so a late addition fits its end.
UnlistedNeverRan == \A p \in Procs \ Elems(procs) : execCount[p] = 0

\* In the middle of an event, those before the cursor are one ahead.
Ahead ==
  pc = "event" =>
    \A i, j \in DOMAIN procs : i < cursor /\ cursor <= j =>
      execCount[procs[j]] < execCount[procs[i]]

BetweenEvents ==
  pc \in {"command", "produce", "switch"} => cursor = 1 /\ ret = "OK" /\ results = <<>>

ResultSoFar ==
  pc = "event" =>
    /\ cursor <= Len(procs) + 1
    /\ ret = IF Has("ABORT") THEN "ABORT" ELSE IF Has("FAIL") THEN "FAIL" ELSE "OK"
    /\ \A i \in DOMAIN results : results[i] = "ABORT" =>
         i = Len(results) /\ cursor = Len(procs) + 1
    /\ ~Has("ABORT") => Len(results) = cursor - 1

BlockInv == ExecInListOrder /\ UnlistedNeverRan /\ Ahead /\ BetweenEvents /\ ResultSoFar

LEMMA InitBlockInv == Init => BlockInv
BY DEF Init, BlockInv, ExecInListOrder, UnlistedNeverRan, Ahead, BetweenEvents, ResultSoFar

(* Appending a list of processors that have not executed keeps the order,  *)
(* as BlockBeginOfRun does with the deferred ones and AddProcessor with    *)
(* one.                                                                    *)
LEMMA ListGrows ==
  ASSUME TypeOK, ExecInListOrder, UnlistedNeverRan, NEW new \in Seq(Procs),
         Elems(procs) \cap Elems(new) = {}, procs' = procs \o new, UNCHANGED execCount
  PROVE  ExecInListOrder' /\ UnlistedNeverRan'
<1>1. /\ procs' \in Seq(Procs) /\ Len(procs') = Len(procs) + Len(new)
      /\ \A i \in DOMAIN procs' :
           procs'[i] = IF i <= Len(procs) THEN procs[i] ELSE new[i - Len(procs)]
  BY ConcatProperties DEF TypeOK
<1>2. Elems(procs') = Elems(procs) \cup Elems(new)
  BY ElemsConcat DEF TypeOK
<1>3. ASSUME NEW j \in DOMAIN procs', j > Len(procs) PROVE execCount[procs'[j]] = 0
  <2>1. j - Len(procs) \in DOMAIN new
    BY <1>1, <1>3 DEF TypeOK
  <2>2. procs'[j] = new[j - Len(procs)]
    BY <1>1, <1>3 DEF TypeOK
  <2>3. procs'[j] \in Procs \ Elems(procs)
    BY <2>1, <2>2 DEF Elems
  <2> QED BY <2>3 DEF UnlistedNeverRan
<1>4. ASSUME NEW i \in DOMAIN procs', NEW j \in DOMAIN procs', i < j
      PROVE  execCount[procs'[j]] <= execCount[procs'[i]]
  <2>1. procs'[i] \in Procs
    BY <1>1
  <2>2. i \in Nat \ {0} /\ j \in Nat \ {0} /\ Len(procs) \in Nat
        /\ DOMAIN procs = 1..Len(procs)
    BY <1>1 DEF TypeOK
  <2>3. CASE j > Len(procs)
    <3>1. execCount[procs'[i]] \in Nat
      BY <2>1 DEF TypeOK
    <3> QED BY <1>3, <2>3, <3>1
  <2>4. CASE j <= Len(procs)
    <3>1. procs'[i] = procs[i] /\ procs'[j] = procs[j] /\ i \in DOMAIN procs
          /\ j \in DOMAIN procs
      BY <1>1, <1>4, <2>2, <2>4
    <3> QED BY <1>4, <3>1 DEF ExecInListOrder
  <2> QED BY <2>2, <2>3, <2>4
<1> QED BY <1>2, <1>4 DEF ExecInListOrder, UnlistedNeverRan

(* One processor's turn.                                                   *)
LEMMA TurnOrder ==
  ASSUME TypeOK, DeclaredOnce, BlockInv, NEW res \in Results, ProcessorDSEvent(res)
  PROVE  ExecInListOrder' /\ UnlistedNeverRan' /\ Ahead'
<1> DEFINE p == procs[cursor]
<1>1. /\ pc = "event" /\ pc' = "event" /\ procs' = procs /\ cursor \in DOMAIN procs
      /\ execCount' = [execCount EXCEPT ![p] = execCount[p] + 1]
      /\ cursor' \in {cursor + 1, Len(procs) + 1}
  BY DEF ProcessorDSEvent, TypeOK
<1>2. p \in Procs /\ execCount \in [Procs -> Nat] /\ \A i \in DOMAIN procs : procs[i] \in Procs
  BY <1>1 DEF TypeOK
<1>3. \A i \in DOMAIN procs :
        execCount'[procs[i]] = IF i = cursor THEN execCount[p] + 1 ELSE execCount[procs[i]]
  BY <1>1, <1>2 DEF DeclaredOnce, Distinct
<1>4. \A i \in DOMAIN procs : execCount[procs[i]] \in Nat
  BY <1>2
<1>5. DOMAIN procs = 1..Len(procs) /\ Len(procs) \in Nat
  BY DEF TypeOK
<1>6. ASSUME NEW i \in DOMAIN procs, NEW j \in DOMAIN procs, i < j
      PROVE  execCount'[procs[j]] <= execCount'[procs[i]]
  <2>1. CASE j = cursor
    <3>1. execCount[procs[j]] < execCount[procs[i]]
      BY <1>1, <1>6, <2>1, <1>5 DEF BlockInv, Ahead
    <3> QED BY <1>3, <1>4, <1>5, <1>6, <2>1, <3>1
  <2>2. CASE j # cursor
    <3>1. execCount[procs[j]] <= execCount[procs[i]]
      BY <1>6 DEF BlockInv, ExecInListOrder
    <3> QED BY <1>3, <1>4, <2>2, <3>1
  <2> QED BY <2>1, <2>2
<1>7. ASSUME NEW i \in DOMAIN procs, NEW j \in DOMAIN procs, i < cursor', cursor' <= j
      PROVE  execCount'[procs[j]] < execCount'[procs[i]]
  <2>1. cursor' = cursor + 1
    BY <1>1, <1>5, <1>7
  <2>2. CASE i = cursor
    <3>1. execCount[procs[j]] <= execCount[procs[i]]
      BY <1>5, <1>7, <2>1, <2>2 DEF BlockInv, ExecInListOrder
    <3> QED BY <1>3, <1>4, <1>5, <1>7, <2>1, <2>2, <3>1
  <2>3. CASE i # cursor
    <3>1. execCount[procs[j]] < execCount[procs[i]]
      BY <1>1, <1>5, <1>7, <2>1, <2>3 DEF BlockInv, Ahead
    <3> QED BY <1>3, <1>4, <1>5, <1>7, <2>1, <2>3, <3>1
  <2> QED BY <2>2, <2>3
<1>8. \A q \in Procs \ Elems(procs) : execCount'[q] = execCount[q]
  BY <1>1, <1>2 DEF Elems
<1> QED BY <1>1, <1>6, <1>7, <1>8
    DEF BlockInv, ExecInListOrder, UnlistedNeverRan, Ahead

LEMMA TurnResult ==
  ASSUME TypeOK, BlockInv, NEW res \in Results, ProcessorDSEvent(res)
  PROVE  ResultSoFar'
<1>1. /\ pc = "event" /\ procs' = procs /\ cursor <= Len(procs)
      /\ results' = Append(results, res) /\ ret' = BlockRet(res)
      /\ cursor' = IF res = "ABORT" THEN Len(procs) + 1 ELSE cursor + 1
  BY DEF ProcessorDSEvent
<1>2. cursor \in Nat \ {0} /\ Len(procs) \in Nat /\ results \in Seq(Results)
  BY DEF TypeOK
<1>3. ~Has("ABORT") /\ Len(results) = cursor - 1
      /\ ret = IF Has("FAIL") THEN "FAIL" ELSE "OK"
  <2>1. ~Has("ABORT")
    BY <1>1, <1>2 DEF BlockInv, ResultSoFar, Has
  <2> QED BY <1>1, <2>1 DEF BlockInv, ResultSoFar
<1>4. /\ Len(results') = Len(results) + 1 /\ DOMAIN results' = 1 .. Len(results) + 1
      /\ DOMAIN results = 1 .. Len(results) /\ Len(results) \in Nat
      /\ \A i \in 1 .. Len(results) : results'[i] = results[i]
      /\ results'[Len(results) + 1] = res
  BY <1>1, <1>2, AppendProperties
<1>5. ASSUME NEW x PROVE Has(x)' <=> Has(x) \/ res = x
  BY <1>4 DEF Has
<1>6. ret' = IF Has("ABORT")' THEN "ABORT" ELSE IF Has("FAIL")' THEN "FAIL" ELSE "OK"
  BY <1>1, <1>3, <1>5 DEF BlockRet, Results
<1>7. ASSUME NEW i \in DOMAIN results', results'[i] = "ABORT"
      PROVE  i = Len(results') /\ cursor' = Len(procs) + 1
  BY <1>1, <1>3, <1>4, <1>7 DEF Has
<1>8. ~Has("ABORT")' => Len(results') = cursor' - 1
  BY <1>1, <1>2, <1>3, <1>4, <1>5
<1>9. cursor' <= Len(procs') + 1
  BY <1>1, <1>2
<1> QED BY <1>1, <1>6, <1>7, <1>8, <1>9 DEF ResultSoFar, Has

LEMMA StepBlockInv == LoopInv /\ BlockInv /\ [Next]_vars => BlockInv'
<1> SUFFICES ASSUME LoopInv, BlockInv, [Next]_vars PROVE BlockInv'
  OBVIOUS
<1> USE DEF vars, blockVars, eventVars, sourceVars, histVars
<1> DEFINE Outside == {"command", "produce", "switch"}
           Kept == UNCHANGED <<procs, execCount, eventVars>>
<1>1. TypeOK /\ DeclaredOnce
  BY DEF LoopInv
<1>2. ASSUME UNCHANGED <<procs, execCount>> PROVE ExecInListOrder' /\ UnlistedNeverRan'
  BY <1>2 DEF BlockInv, ExecInListOrder, UnlistedNeverRan
<1>3. CASE Kept /\ pc' = pc
  BY <1>2, <1>3 DEF BlockInv, Ahead, BetweenEvents, ResultSoFar, Has
<1>4. CASE Kept /\ pc \in Outside /\ pc' \in Outside
  BY <1>2, <1>4 DEF BlockInv, Ahead, BetweenEvents, ResultSoFar
<1>5. CASE Kept /\ pc' \in {"destroy"} \cup Terminal
  BY <1>2, <1>5 DEF BlockInv, Ahead, BetweenEvents, ResultSoFar, Terminal
\* An event begins: the cursor is at the first processor.
<1>6. ASSUME pc \in Outside, BeginDSEvent, ExecInListOrder', UnlistedNeverRan',
             procs' \in Seq(Procs)
      PROVE  BlockInv'
  <2>1. pc' = "event" /\ cursor' = 1 /\ ret' = "OK" /\ results' = <<>>
    BY <1>6 DEF BeginDSEvent, BlockInv, BetweenEvents
  <2>2. Ahead' /\ BetweenEvents'
    BY <1>6, <2>1 DEF Ahead, BetweenEvents
  <2>3. Len(procs') \in Nat /\ ~Has("ABORT")' /\ ~Has("FAIL")'
    BY <1>6, <2>1 DEF Has
  <2>4. ResultSoFar'
    BY <2>1, <2>3 DEF ResultSoFar
  <2> QED BY <1>6, <2>2, <2>4 DEF BlockInv
\* The list grows between events.
<1>7. ASSUME NEW new \in Seq(Procs), Elems(procs) \cap Elems(new) = {},
             procs' = procs \o new, UNCHANGED execCount
      PROVE  ExecInListOrder' /\ UnlistedNeverRan' /\ procs' \in Seq(Procs)
  BY <1>1, <1>7, ListGrows, ElemsConcat DEF BlockInv, TypeOK
<1>8. ASSUME NEW r, BlockBeginOfRun(r), UNCHANGED execCount
      PROVE  ExecInListOrder' /\ UnlistedNeverRan' /\ procs' \in Seq(Procs)
  BY <1>1, <1>7, <1>8 DEF BlockBeginOfRun, DeclaredOnce, TypeOK
<1>9. ASSUME NEW p \in Procs, AddProcessor(p) PROVE BlockInv'
  <2>1. <<p>> \in Seq(Procs) /\ Elems(<<p>>) = {p} /\ procs' = procs \o <<p>>
    BY <1>1, <1>9 DEF AddProcessor, Elems, TypeOK
  <2>2. ExecInListOrder' /\ UnlistedNeverRan'
    BY <1>7, <1>9, <2>1 DEF AddProcessor, Declared
  <2> QED BY <1>9, <2>2 DEF AddProcessor, BlockInv, Ahead, BetweenEvents, ResultSoFar
<1>10. ASSUME NEW n \in 1..MaxBeam, BeamOn(n) PROVE BlockInv'
  <2>1. ExecInListOrder' /\ UnlistedNeverRan'
    BY <1>8, <1>10 DEF BeamOn
  <2> QED BY <1>10, <2>1 DEF BeamOn, BlockInv, Ahead, BetweenEvents, ResultSoFar
<1>11. CASE Macro
  BY <1>4, <1>5, <1>9, <1>10, <1>11
  DEF Macro, DeferAppend, SetFile, UpdateFile, UpdateFileDies, MayOpen,
      BeamOnDangling, ReadFile, Crash, EndOfMacro,
      Terminal
<1>12. CASE Producer
  <2>1. ASSUME GsimEvent \/ SameRunEvent PROVE BlockInv'
    <3>1. pc \in Outside /\ BeginDSEvent /\ UNCHANGED <<procs, execCount>>
      BY <2>1 DEF GsimEvent, SameRunEvent
    <3> QED BY <1>1, <1>2, <1>6, <3>1 DEF TypeOK
  <2>2. ASSUME FirstEvent \/ EnterRun PROVE BlockInv'
    <3>1. pc \in Outside /\ BeginDSEvent /\ BlockBeginOfRun(run') /\ UNCHANGED execCount
      BY <2>2 DEF FirstEvent, EnterRun, StartRun
    <3> QED BY <1>6, <1>8, <3>1
  <2>3. ASSUME EndOfRunAction \/ LeaveRun \/ EndRead PROVE BlockInv'
    BY <1>4, <2>3 DEF EndOfRunAction, LeaveRun, EndRead
  <2> QED BY <1>5, <1>12, <2>1, <2>2, <2>3
      DEF Producer, GsimCurrentRunMissing, NullRunDereference, ReadDangling, Crash, Terminal
<1>13. ASSUME NEW res \in Results, ProcessorDSEvent(res) PROVE BlockInv'
  <2>1. BetweenEvents'
    BY <1>13 DEF ProcessorDSEvent, BetweenEvents
  <2> QED BY <1>1, <1>13, <2>1, TurnOrder, TurnResult DEF BlockInv
<1>14. ASSUME EndDSEvent PROVE BlockInv'
  BY <1>2, <1>14 DEF EndDSEvent, BlockInv, Ahead, BetweenEvents, ResultSoFar
<1>15. ASSUME DestroyProcessor PROVE BlockInv'
  BY <1>2, <1>15 DEF DestroyProcessor, BlockInv, Ahead, BetweenEvents, ResultSoFar
<1>16. CASE Block
  BY <1>5, <1>13, <1>14, <1>15, <1>16 DEF Block, CurrentRunMissing, Crash, Exit, Terminal
<1>17. CASE User \/ UNCHANGED vars
  BY <1>3, <1>5, <1>17 DEF User, SigInt, SecondSigInt, Terminal
<1> QED BY <1>11, <1>12, <1>16, <1>17 DEF Next

(* The block runs its list in order, cut only by an abort, and returns the *)
(* conjunction of its processors' results, for any number of them and any  *)
(* results, whichever producers call it (ProcBlock::DSEvent).              *)
THEOREM ListIsRun == Spec => []BlockRunsItsList
<1>1. Init => BlockInv
  BY InitBlockInv
<1>2. LoopInv /\ BlockInv /\ [Next]_vars => BlockInv'
  BY StepBlockInv
<1>3. LoopInv /\ BlockInv => BlockRunsItsList
  <2> SUFFICES ASSUME TypeOK, BlockInv, pc = "event", cursor > Len(procs) PROVE BlockResult
    BY DEF LoopInv, BlockInv, BlockRunsItsList, BlockResult
  <2>1. cursor = Len(procs) + 1
    BY DEF BlockInv, ResultSoFar, TypeOK
  <2> QED BY <2>1 DEF BlockInv, ResultSoFar, BlockResult, Has, TypeOK
<1> QED BY <1>1, <1>2, <1>3, LoopInvariant, PTL DEF Spec

-----------------------------------------------------------------------------
(* The output files.                                                       *)

\* While producers can still run every file is open; only Ctrl-C and, for the
\* status, a simulation's end drop events.
FileInv(o) ==
  /\ pc \in Going => out[o].state # "closed"
  /\ out[o].state # "closed" => out[o].status = -1
  /\ out[o].state = "closed" => out[o].status \in {0, 1}
  /\ out[o].status = 1 => ~dropped
  /\ out[o].state = "none" => out[o].tree = <<>>
  /\ Len(out[o].tree) = execCount[o] - out[o].before

\* What an output's earlier files hold: each from its opening to the next one's.
LeftInv(o) ==
  \A i \in DOMAIN left[o] :
    /\ left[o][i].status = -1
    /\ Len(left[o][i].tree) =
         (IF i = Len(left[o]) THEN out[o].before ELSE left[o][i + 1].before) - left[o][i].before

FilesInv == (dropped => sig) /\ \A o \in Outs : FileInv(o) /\ LeftInv(o)

LEMMA InitFilesInv == Init => FilesInv
BY LoopAssumption DEF Init, FilesInv, FileInv, LeftInv

(* Filling an output's tree: the file was not closed before.               *)
LEMMA TurnFile ==
  ASSUME TypeOK, Phases, FilesInv, NEW res \in Results, ProcessorDSEvent(res)
  PROVE  FilesInv'
<1> DEFINE p == procs[cursor]
<1>1. /\ pc \in Going /\ UNCHANGED <<dropped, sig, left>> /\ OutputDSEvent(p) /\ p \in Procs
      /\ execCount' = [execCount EXCEPT ![p] = execCount[p] + 1]
  BY DEF ProcessorDSEvent, Going, histVars, TypeOK
<1>2. execCount \in [Procs -> Nat] /\ Outs \subseteq Procs /\ out \in [Outs -> OutputFile]
  BY LoopAssumption DEF TypeOK
<1> SUFFICES ASSUME NEW o \in Outs PROVE FileInv(o)' /\ LeftInv(o)'
  BY <1>1 DEF FilesInv
<1>3. FileInv(o) /\ LeftInv(o)
  BY DEF FilesInv
<1>4. CASE o = p
  <2> DEFINE e == Head(todo)
  <2>1. out'[o] = [out[o] EXCEPT !.state = "open", !.tree = Append(out[o].tree, e)]
    BY <1>1, <1>2, <1>4 DEF OutputDSEvent
  <2>2. out[o] \in OutputFile /\ e \in Runs
    BY <1>2 DEF ProcessorDSEvent, Phases, TypeOK
  <2>3. /\ out'[o].state = "open" /\ out'[o].status = -1
        /\ out'[o].before = out[o].before /\ out[o].before \in Nat
    BY <1>1, <1>3, <2>1, <2>2 DEF FileInv, OutputFile
  <2>4. Len(out'[o].tree) = Len(out[o].tree) + 1 /\ Len(out[o].tree) \in Nat
    <3>1. out'[o].tree = Append(out[o].tree, e) /\ out[o].tree \in Seq(Runs)
      BY <2>1, <2>2 DEF OutputFile
    <3> QED BY <2>2, <3>1, AppendProperties
  <2>5. execCount'[o] = execCount[o] + 1 /\ execCount[o] \in Nat
    BY <1>1, <1>2, <1>4
  <2>6. Len(out'[o].tree) = execCount'[o] - out'[o].before
    BY <1>3, <2>3, <2>4, <2>5 DEF FileInv
  <2> QED BY <1>1, <1>3, <2>3, <2>6 DEF FileInv, LeftInv
<1>5. CASE o # p
  <2>1. out'[o] = out[o] /\ execCount'[o] = execCount[o]
    BY <1>1, <1>2, <1>5 DEF OutputDSEvent
  <2>2. pc' = pc /\ UNCHANGED <<dropped, left>>
    BY DEF ProcessorDSEvent, histVars
  <2> QED BY <1>3, <2>1, <2>2 DEF FileInv, LeftInv
<1> QED BY <1>4, <1>5

(* Opening a file: what the earlier one holds ends where this one begins.  *)
LEMMA OpenedFile ==
  ASSUME TypeOK, FilesInv, NEW o \in Outs, OpenFile(o), pc = "command",
         UNCHANGED <<pc, execCount, dropped, sig>>
  PROVE  FilesInv'
<1>1. /\ out \in [Outs -> OutputFile] /\ left \in [Outs -> Seq(OutputFile)]
      /\ execCount \in [Procs -> Nat] /\ Outs \subseteq Procs
  BY LoopAssumption DEF TypeOK
<1> SUFFICES ASSUME NEW q \in Outs PROVE FileInv(q)' /\ LeftInv(q)'
  BY DEF FilesInv
<1>2. FileInv(q) /\ LeftInv(q) /\ out[q] \in OutputFile /\ left[q] \in Seq(OutputFile)
  BY <1>1 DEF FilesInv
<1>3. CASE q # o
  <2>1. out'[q] = out[q] /\ left'[q] = left[q]
    BY <1>1, <1>3 DEF OpenFile
  <2> QED BY <1>2, <2>1 DEF FileInv, LeftInv
<1>4. CASE q = o
  <2> DEFINE n == Len(left[q])
  <2>1. out'[q] = [state |-> "open", status |-> -1, file |-> "given", tree |-> <<>>,
                   before |-> execCount[q]]
    BY <1>1, <1>4 DEF OpenFile
  <2>2. FileInv(q)'
    <3>1. execCount[q] \in Nat
      BY <1>1
    <3>2. execCount[q] - execCount[q] = 0
      BY ONLY <3>1
    <3> QED BY <2>1, <3>2 DEF FileInv, Going
  <2>3. Len(out[q].tree) = execCount[q] - out[q].before
    BY <1>2 DEF FileInv
  <2>4. CASE out[q].state = "none"
    <3>1. left' = left
      BY <1>4, <2>4 DEF OpenFile
    <3>2. out[q].tree = <<>> /\ execCount[q] \in Nat /\ out[q].before \in Nat
      BY <1>1, <1>2, <2>4 DEF FileInv, OutputFile
    <3>3. out'[q].before = out[q].before
      <4>1. 0 = execCount[q] - out[q].before
        BY <2>3, <3>2
      <4>2. execCount[q] = out[q].before
        BY ONLY <3>2, <4>1
      <4> QED BY <2>1, <4>2
    <3> QED BY <1>2, <2>2, <3>1, <3>3 DEF LeftInv
  <2>5. CASE out[q].state # "none"
    <3>1. left'[q] = Append(left[q], out[q])
      BY <1>1, <1>4, <2>5 DEF OpenFile
    <3>2. /\ Len(left'[q]) = n + 1 /\ n \in Nat
          /\ left'[q][n + 1] = out[q]
          /\ \A i \in 1 .. n : left'[q][i] = left[q][i]
      BY ONLY <1>2, <3>1, AppendProperties
    <3>3. DOMAIN left'[q] = 1 .. n + 1 /\ DOMAIN left[q] = 1 .. n
      <4>1. left'[q] \in Seq(OutputFile)
        BY ONLY <1>2, <3>1, AppendProperties
      <4> QED BY <1>2, <3>2, <4>1
    <3>4. out[q].status = -1
      BY <1>2 DEF FileInv, Going
    <3> SUFFICES ASSUME NEW i \in 1 .. n + 1
                 PROVE  /\ left'[q][i].status = -1
                        /\ Len(left'[q][i].tree) =
                             (IF i = n + 1 THEN out'[q].before ELSE left'[q][i + 1].before)
                               - left'[q][i].before
      BY <2>2, <3>2, <3>3 DEF LeftInv
    <3>5. CASE i = n + 1
      BY <2>1, <2>3, <3>2, <3>4, <3>5
    <3>6. CASE i = n /\ i # n + 1
      <4>1. i \in 1 .. n /\ i \in DOMAIN left[q]
        BY <3>2, <3>3, <3>6
      <4>2. left[q][i].status = -1 /\ Len(left[q][i].tree) = out[q].before - left[q][i].before
        BY <1>2, <3>6, <4>1 DEF LeftInv
      <4>3. left'[q][i] = left[q][i] /\ left'[q][i + 1] = out[q]
        BY <3>2, <3>6, <4>1
      <4> QED BY <3>6, <4>2, <4>3
    <3>7. CASE i # n /\ i # n + 1
      <4>1. i \in 1 .. n /\ i + 1 \in 1 .. n /\ i \in DOMAIN left[q]
        BY <3>2, <3>3, <3>7
      <4>2. /\ left[q][i].status = -1
            /\ Len(left[q][i].tree) = left[q][i + 1].before - left[q][i].before
        BY <1>2, <3>7, <4>1 DEF LeftInv
      <4>3. left'[q][i] = left[q][i] /\ left'[q][i + 1] = left[q][i + 1]
        BY <3>2, <4>1
      <4> QED BY <3>7, <4>2, <4>3
    <3> QED BY <3>5, <3>6, <3>7
  <2> QED BY <2>4, <2>5
<1> QED BY <1>3, <1>4

(* Closing an output: the status is 1 only if Ctrl-C never came, so that   *)
(* nothing was dropped.                                                    *)
LEMMA DestroyFile ==
  ASSUME TypeOK, FilesInv, DestroyProcessor
  PROVE  FilesInv'
<1> DEFINE p == (procs \o deferred)[cursor]
<1>1. /\ pc = "destroy" /\ pc' = "destroy" /\ CloseOutput(p)
      /\ UNCHANGED <<dropped, sig, execCount, left>>
  BY DEF DestroyProcessor, blockVars
<1>2. out \in [Outs -> OutputFile]
  BY DEF TypeOK
<1> SUFFICES ASSUME NEW o \in Outs PROVE FileInv(o)' /\ LeftInv(o)'
  BY <1>1 DEF FilesInv
<1>3. FileInv(o) /\ LeftInv(o) /\ (dropped => sig)
  BY DEF FilesInv
<1>4. CASE o = p /\ out[p].state = "open"
  <2>1. out'[o] = [out[o] EXCEPT !.state = "closed", !.status = FinalStatus]
    BY <1>1, <1>2, <1>4 DEF CloseOutput
  <2>2. out[o] \in OutputFile
    BY <1>2
  <2>3. /\ out'[o].state = "closed" /\ out'[o].status = FinalStatus
        /\ out'[o].tree = out[o].tree /\ out'[o].before = out[o].before
    BY <2>1, <2>2 DEF OutputFile
  <2>4. FinalStatus \in {0, 1} /\ (FinalStatus = 1 => ~sig)
    BY DEF FinalStatus
  <2> QED BY <1>1, <1>3, <2>3, <2>4 DEF FileInv, LeftInv, Going
<1>5. CASE ~(o = p /\ out[p].state = "open")
  <2>1. out'[o] = out[o]
    BY <1>1, <1>2, <1>5 DEF CloseOutput
  <2> QED BY <1>1, <1>3, <2>1 DEF FileInv, LeftInv, Going
<1> QED BY <1>4, <1>5

LEMMA StepFilesInv == LoopInv /\ FilesInv /\ [Next]_vars => FilesInv'
<1> SUFFICES ASSUME LoopInv, FilesInv, [Next]_vars PROVE FilesInv'
  OBVIOUS
<1> USE DEF vars, blockVars, sourceVars, histVars
<1>1. TypeOK /\ Phases
  BY DEF LoopInv
<1>2. ASSUME UNCHANGED <<out, left, execCount, dropped>>, sig => sig',
             pc' \in Going => pc \in Going
      PROVE  FilesInv'
  BY <1>2 DEF FilesInv, FileInv, LeftInv
\* Events are dropped while no file is closed: none has status 1 yet.
<1>3. ASSUME pc \in Going, pc' \in Going, UNCHANGED <<out, left, execCount, sig>>,
             dropped' => dropped \/ sig
      PROVE  FilesInv'
  BY <1>3 DEF FilesInv, FileInv, LeftInv
<1>4. ASSUME NEW o \in Outs, SetFile(o) \/ UpdateFile(o) PROVE FilesInv'
  BY <1>1, <1>4, OpenedFile DEF SetFile, UpdateFile, MayOpen
<1>5. CASE Macro
  BY <1>2, <1>4, <1>5
  DEF Macro, AddProcessor, DeferAppend, UpdateFileDies, BeamOn, BeamOnDangling, ReadFile, Crash,
      EndOfMacro, Going
<1>6. CASE Producer
  <2>1. ASSUME EndRead PROVE FilesInv'
    <3>1. dropped' => dropped \/ sig
      BY <2>1 DEF EndRead, ReadOver
    <3> QED BY <1>3, <2>1, <3>1 DEF EndRead, Going
  <2> QED BY <1>2, <1>6, <2>1
      DEF Producer, GsimEvent, GsimCurrentRunMissing, EndOfRunAction, FirstEvent,
          SameRunEvent, EnterRun, StartRun, BeginDSEvent, LeaveRun, NullRunDereference,
          ReadDangling, Crash, Going
<1>7. ASSUME EndDSEvent PROVE FilesInv'
  <2>1. dropped' => dropped \/ sig
    BY <1>7 DEF EndDSEvent
  <2> QED BY <1>3, <1>7, <2>1 DEF EndDSEvent, Going
<1>8. CASE Block
  BY <1>1, <1>2, <1>7, <1>8, TurnFile, DestroyFile
  DEF Block, CurrentRunMissing, Crash, Exit, Going
<1>9. CASE User \/ UNCHANGED vars
  BY <1>2, <1>9 DEF User, SigInt, SecondSigInt, Going
<1> QED BY <1>5, <1>6, <1>8, <1>9 DEF Next

(* The files of an output share out its processor's events, and the status *)
(* of each is true: 1 only for the last, closed when Ctrl-C had made no     *)
(* producer skip an event, -1 for one that was left or never closed         *)
(* (OutROOTProc).                                                          *)
THEOREM StatusIsTrue == Spec => []StatusTruthful
<1>1. Init => FilesInv
  BY InitFilesInv
<1>2. LoopInv /\ FilesInv /\ [Next]_vars => FilesInv'
  BY StepFilesInv
<1>3. LoopInv /\ FilesInv => StatusTruthful
  <2> SUFFICES ASSUME TypeOK, FilesInv, NEW o \in Outs
               PROVE  LET files == Files(o) IN
                 /\ \A i \in DOMAIN files :
                      LET upTo == IF i = Len(files) THEN execCount[o]
                                  ELSE files[i + 1].before
                      IN  Len(files[i].tree) = upTo - files[i].before
                 /\ \A i \in DOMAIN left[o] : left[o][i].status = -1
                 /\ out[o].status = 1 => out[o].state = "closed" /\ ~dropped
                 /\ out[o].state = "closed" => out[o].status # -1
    BY DEF LoopInv, StatusTruthful
  <2> DEFINE files == Files(o)
             n == Len(left[o])
  <2>1. FileInv(o) /\ LeftInv(o) /\ out[o] \in OutputFile /\ left[o] \in Seq(OutputFile)
    BY DEF FilesInv, TypeOK
  <2>2. /\ files \in Seq(OutputFile) /\ Len(files) = n + 1 /\ n \in Nat
        /\ files[n + 1] = out[o] /\ \A i \in 1 .. n : files[i] = left[o][i]
    BY <2>1, AppendProperties DEF Files
  <2>3. DOMAIN files = 1 .. n + 1 /\ DOMAIN left[o] = 1 .. n
    BY <2>1, <2>2
  <2>4. ASSUME NEW i \in 1 .. n + 1
        PROVE  Len(files[i].tree) =
                 (IF i = n + 1 THEN execCount[o] ELSE files[i + 1].before) - files[i].before
    <3>1. CASE i = n + 1
      BY <2>1, <2>2, <3>1 DEF FileInv
    <3>2. CASE i # n + 1
      <4>1. i \in 1 .. n
        BY <2>2, <3>2
      <4>2. Len(left[o][i].tree) =
              (IF i = n THEN out[o].before ELSE left[o][i + 1].before) - left[o][i].before
        BY <2>1, <2>3, <4>1 DEF LeftInv
      <4>3. files[i] = left[o][i]
        BY <2>2, <4>1
      <4>4. files[i + 1].before = IF i = n THEN out[o].before ELSE left[o][i + 1].before
        <5>1. CASE i = n
          BY <2>2, <5>1
        <5>2. CASE i # n
          <6>1. i + 1 \in 1 .. n
            BY <2>2, <4>1, <5>2
          <6> QED BY <2>2, <5>2, <6>1
        <5> QED BY <5>1, <5>2
      <4> QED BY <3>2, <4>2, <4>3, <4>4
    <3> QED BY <3>1, <3>2
  <2>5. \A i \in DOMAIN left[o] : left[o][i].status = -1
    BY <2>1 DEF LeftInv
  <2>6. /\ out[o].status = 1 => out[o].state = "closed" /\ ~dropped
        /\ out[o].state = "closed" => out[o].status # -1
    BY <2>1 DEF FileInv
  <2> HIDE DEF files, n
  <2>7. \A i \in DOMAIN files :
          Len(files[i].tree) =
            (IF i = Len(files) THEN execCount[o] ELSE files[i + 1].before) - files[i].before
    BY <2>2, <2>3, <2>4
  <2> QED BY <2>5, <2>6, <2>7 DEF files
<1> QED BY <1>1, <1>2, <1>3, LoopInvariant, PTL DEF Spec

-----------------------------------------------------------------------------
(* The run records.  RunStore has one write tree, so the theorem is about  *)
(* jobs with one output; two_outputs shows what becomes of the others.     *)

OneOutput == \A o, q \in Outs : o = q

\* Nothing is written before the file is closed, and then everything is.
RecordInv(o) ==
  /\ out[o].state = "none" => writeTree = NoTree
  /\ out[o].state = "open" => writeTree = o
  /\ out[o].state # "closed" => \A r \in Runs : cache[r] # "written" /\ runT[o][r] = 0
  /\ out[o].state = "closed" => \A r \in Runs : runT[o][r] = IF Cached(r) THEN 1 ELSE 0

RecordsInv == OneOutput => \A o \in Outs : RecordInv(o)

LEMMA InitRecordsInv == Init => RecordsInv
BY DEF Init, StoreInit, RecordsInv, RecordInv

(* A file is opened: its empty run tree becomes the write tree.            *)
LEMMA OpenedRecords ==
  ASSUME TypeOK, NEW o \in Outs, RecordInv(o), out[o].state # "closed", SetWriteTree(o),
         UNCHANGED cache, out'[o].state = "open"
  PROVE  RecordInv(o)'
<1>1. writeTree' = o /\ runT'[o] = [r \in Runs |-> 0]
  BY DEF SetWriteTree, TypeOK, StoreTypeOK
<1> QED BY <1>1 DEF RecordInv

(* A file is closed: the flush writes each record that was not written.    *)
LEMMA ClosedRecords ==
  ASSUME TypeOK, NEW o \in Outs, RecordInv(o), out[o].state = "open", FlushWriteTree,
         out'[o].state = "closed"
  PROVE  RecordInv(o)'
<1>1. writeTree = o /\ writeTree # NoTree
  BY StoreAssumption DEF RecordInv
<1>2. \A r \in Runs : /\ cache[r] \in {"absent", "unwritten"} /\ runT[o][r] = 0
                      /\ cache[r] \in RecordState
  BY DEF RecordInv, TypeOK, StoreTypeOK, RecordState
<1>3. /\ cache' = [r \in Runs |-> IF cache[r] = "unwritten" THEN "written" ELSE cache[r]]
      /\ runT' = [runT EXCEPT ![o] =
                    [r \in Runs |-> runT[o][r] + (IF cache[r] = "unwritten" THEN 1 ELSE 0)]]
  BY <1>1 DEF FlushWriteTree
<1>4. runT'[o] = [r \in Runs |-> runT[o][r] + (IF cache[r] = "unwritten" THEN 1 ELSE 0)]
  BY <1>3 DEF TypeOK, StoreTypeOK
<1>5. ASSUME NEW r \in Runs PROVE runT'[o][r] = IF cache'[r] # "absent" THEN 1 ELSE 0
  BY <1>2, <1>3, <1>4
<1> QED BY <1>5 DEF RecordInv, Cached

LEMMA StepRecordsInv == LoopInv /\ FilesInv /\ RecordsInv /\ [Next]_vars => RecordsInv'
<1> SUFFICES ASSUME LoopInv, FilesInv, [Next]_vars, OneOutput, NEW o \in Outs, RecordInv(o)
             PROVE  RecordInv(o)'
  BY DEF RecordsInv
<1> USE DEF vars, storeVars
<1>1. TypeOK /\ FileInv(o) /\ \A q \in Outs : q = o
  BY DEF LoopInv, FilesInv, OneOutput
<1>2. ASSUME UNCHANGED <<cache, writeTree, runT, out>> PROVE RecordInv(o)'
  BY <1>2 DEF RecordInv, Cached
\* Records are added by running producers only, before any file is closed.
<1>3. ASSUME pc \in Going, UNCHANGED <<writeTree, runT, out>>,
             \A r \in Runs : cache'[r] \in {cache[r], "unwritten"}
      PROVE  RecordInv(o)'
  BY <1>1, <1>3 DEF FileInv, RecordInv
<1>4. ASSUME NEW r \in Runs, GetRun(r) \/ AddNewRun(r), NEW q \in Runs
      PROVE  cache'[q] \in {cache[q], "unwritten"}
  BY <1>1, <1>4 DEF GetRun, AddNewRun, TypeOK, StoreTypeOK
<1>5. ASSUME NEW q \in Outs, SetFile(q) \/ UpdateFile(q) PROVE RecordInv(o)'
  <2>1. q = o
    BY <1>1
  <2>2. pc \in Going /\ OpenFile(o) /\ UNCHANGED cache
    BY <1>5, <2>1 DEF SetFile, UpdateFile, MayOpen, Going
  <2>3. SetWriteTree(o) /\ out'[o].state = "open" /\ out[o].state # "closed"
    BY <1>1, <2>2 DEF OpenFile, FileInv, TypeOK
  <2> QED BY <1>1, <2>2, <2>3, OpenedRecords
<1>6. ASSUME NEW n \in 1..MaxBeam, BeamOn(n) PROVE RecordInv(o)'
  <2>1. simRun \in Runs
    BY <1>1 DEF TypeOK
  <2>2. pc \in Going /\ UNCHANGED <<writeTree, runT, out>>
        /\ (GetRun(simRun) \/ AddNewRun(simRun))
    BY <1>6 DEF BeamOn, Going
  <2> QED BY <1>3, <1>4, <2>1, <2>2
<1>7. ASSUME pc \in Going, todo # <<>>, StartRun(Head(todo)) PROVE RecordInv(o)'
  <2>1. Head(todo) \in Runs
    BY <1>1, <1>7 DEF TypeOK
  <2>2. GetRun(Head(todo)) /\ UNCHANGED <<writeTree, runT, out>>
    BY <1>7 DEF StartRun
  <2> QED BY <1>3, <1>4, <1>7, <2>1, <2>2
<1>8. ASSUME NEW res \in Results, ProcessorDSEvent(res) PROVE RecordInv(o)'
  <2> DEFINE p == procs[cursor]
  <2>1. OutputDSEvent(p) /\ UNCHANGED cache /\ pc = "event"
    BY <1>8 DEF ProcessorDSEvent
  <2>2. CASE p \notin Outs
    BY <1>2, <2>1, <2>2 DEF OutputDSEvent
  <2>3. CASE p \in Outs
    <3>1. p = o
      BY <1>1, <2>3
    <3>2. out[o].state # "closed" /\ out[o].state \in {"none", "open", "closed"}
      BY <1>1, <2>1 DEF FileInv, Going, TypeOK, OutputFile
    <3>3. out'[o].state = "open"
      BY <1>1, <2>1, <2>3, <3>1 DEF OutputDSEvent, TypeOK, OutputFile
    <3>4. CASE out[o].state = "none"
      BY <1>1, <2>1, <2>3, <3>1, <3>3, <3>4, OpenedRecords DEF OutputDSEvent
    <3>5. CASE out[o].state = "open"
      <4>1. UNCHANGED <<writeTree, runT>>
        BY <2>1, <2>3, <3>1, <3>5 DEF OutputDSEvent
      <4> QED BY <2>1, <3>3, <3>5, <4>1 DEF RecordInv
    <3> QED BY <3>2, <3>4, <3>5
  <2> QED BY <2>2, <2>3
<1>9. ASSUME DestroyProcessor PROVE RecordInv(o)'
  <2> DEFINE p == (procs \o deferred)[cursor]
  <2>1. CloseOutput(p) /\ UNCHANGED writeTree
    BY <1>9 DEF DestroyProcessor
  <2>2. CASE p \in Outs /\ out[p].state = "open"
    <3>1. p = o
      BY <1>1, <2>2
    <3>2. FlushWriteTree
          /\ out' = [out EXCEPT ![o] = [out[o] EXCEPT !.state = "closed", !.status = FinalStatus]]
      BY <2>1, <2>2, <3>1 DEF CloseOutput
    <3>3. out'[o].state = "closed"
      BY <1>1, <3>2 DEF TypeOK, OutputFile
    <3> QED BY <1>1, <2>2, <3>1, <3>2, <3>3, ClosedRecords
  <2>3. CASE ~(p \in Outs /\ out[p].state = "open")
    BY <1>2, <2>1, <2>3 DEF CloseOutput
  <2> QED BY <2>2, <2>3
<1>10. CASE Macro
  BY <1>2, <1>5, <1>6, <1>10
  DEF Macro, AddProcessor, DeferAppend, UpdateFileDies, BeamOnDangling, ReadFile, Crash,
      EndOfMacro
<1>11. CASE Producer
  <2>1. ASSUME FirstEvent \/ EnterRun PROVE RecordInv(o)'
    <3>1. todo # <<>>
      BY <2>1 DEF FirstEvent, EnterRun, Reading, LoopInv, Phases
    <3> QED BY <1>7, <2>1, <3>1 DEF FirstEvent, EnterRun, Going
  <2> QED BY <1>2, <1>11, <2>1
      DEF Producer, GsimEvent, GsimCurrentRunMissing, EndOfRunAction, SameRunEvent,
          LeaveRun, NullRunDereference, ReadDangling, EndRead, Crash
<1>12. CASE Block
  BY <1>2, <1>8, <1>9, <1>12 DEF Block, CurrentRunMissing, EndDSEvent, Crash, Exit
<1>13. CASE User \/ UNCHANGED vars
  BY <1>2, <1>13 DEF User, SigInt, SecondSigInt
<1> QED BY <1>10, <1>11, <1>12, <1>13 DEF Next

(* With one output file, its run tree holds one record of every run that   *)
(* RunStore knew and none of any other, once it is closed, whichever       *)
(* producers ran and in whatever order (~OutROOTProc, FlushWriteTree).     *)
THEOREM RecordsWrittenOnce == Spec => [](OneOutput => RunsWrittenOnce)
<1>1. Init => FilesInv /\ RecordsInv
  BY InitFilesInv, InitRecordsInv
<1>2. LoopInv /\ FilesInv /\ RecordsInv /\ [Next]_vars => FilesInv' /\ RecordsInv'
  BY StepFilesInv, StepRecordsInv
<1>3. RecordsInv => (OneOutput => RunsWrittenOnce)
  BY DEF RecordsInv, RecordInv, RunsWrittenOnce
<1> QED BY <1>1, <1>2, <1>3, LoopInvariant, PTL DEF Spec

=============================================================================
