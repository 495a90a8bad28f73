------------------------------ MODULE EventLoop ------------------------------
(***************************************************************************)
(* One RAT job: the macro declares processors and then runs producers, and *)
(* every producer pushes its events through the main ProcBlock.            *)
(*                                                                         *)
(* The module composes ProcBlock, Gsim's run and event actions, the inroot *)
(* producer, the outroot processor, the SIGINT handler and RunStore.  The  *)
(* job is one thread; the environment is the user, who writes the macro,   *)
(* and presses Ctrl-C at any moment, and each processor's result.          *)
(***************************************************************************)
EXTENDS RunStore, Integers, Sequences

CONSTANTS
  Procs,            \* processor instances the macro may declare
  Outcomes,         \* the results each processor's DSEvent can return
  CurrentRunUsers,  \* those whose DSEvent dereferences GetCurrentRun()
  InFiles,          \* input files
  Content,          \* [events, hasRunT, runT] of each input file
  Existing,         \* outputs whose file, with a runT in it, is on the disk
  NullRun,          \* the null DS::Run pointer
  MaxBeam,          \* bound: events of one /run/beamOn
  MaxJobs,          \* bound: producer commands in the macro
  MaxFiles          \* bound: files the macro opens for one output; each has a name of its own

ASSUME LoopAssumption ==
  /\ Outs \subseteq Procs /\ Existing \subseteq Outs /\ CurrentRunUsers \subseteq Procs
  /\ Outcomes \in [Procs -> SUBSET {"OK", "FAIL", "ABORT"}]
  /\ NullRun \notin Runs /\ NullRun # NoRun
  /\ Content \in [InFiles -> [events : Seq(Runs), hasRunT : BOOLEAN, runT : SUBSET Runs]]
  /\ MaxBeam \in Nat /\ MaxJobs \in Nat /\ MaxFiles \in Nat

VARIABLES
  pc,           \* where the thread is
  procs,        \* fProcessorList
  deferred,     \* fDeferredAppendList
  lastProc,     \* ProcBlockManager's lastProc: what /rat/procset talks to
  seenFirst,    \* fSeenFirstEvent
  sourceCount,  \* fSourceCount
  execCount,    \* fProcessorExecutionCount of each instance
  cursor,       \* position in fProcessorList (DSEvent, destructor)
  ret,          \* retcode of the DSEvent in progress
  results,      \* results appended to the event so far
  source,       \* the producer that runs
  todo,         \* the run of every event the producer still has
  run,          \* the producer's current run
  simRun,       \* the run /rat/db/run chose before initialisation
  jobs,         \* producer commands used up
  sig,          \* sigintPending
  out,          \* the file each output writes to: f, tree and runTree
  left,         \* the files it wrote to before, which nothing closes
  fault,        \* what crashed the job
  begun,        \* history: run each processor was begun with and not ended
  destroyed,    \* history: processors whose destructor has run
  late,         \* history: DSEvents begun after SIGINT in this command
  dropped       \* history: SIGINT made a producer skip events

blockVars == <<procs, deferred, lastProc, seenFirst, sourceCount, execCount>>
eventVars == <<cursor, ret, results>>
sourceVars == <<source, todo, run, simRun, jobs>>
histVars == <<begun, destroyed, late, dropped>>
vars == <<storeVars, blockVars, eventVars, sourceVars, histVars, out, left, pc, sig, fault>>

Results == {"OK", "FAIL", "ABORT"}
Terminal == {"done", "killed", "crashed"}
Elems(s) == {s[i] : i \in DOMAIN s}
Declared == Elems(procs) \cup Elems(deferred)

\* A file's events are those this job filled, "before" the events its processor had got
\* until the file was opened.
OutputFile == [state : {"none", "open", "closed"}, status : {-1, 0, 1},
               file : {"default", "given"}, tree : Seq(Runs), before : Nat]

TypeOK ==
  /\ StoreTypeOK
  /\ pc \in {"command", "produce", "switch", "event", "destroy"} \cup Terminal
  /\ procs \in Seq(Procs) /\ deferred \in Seq(Procs)
  /\ lastProc \in Procs \cup {NoTree}
  /\ seenFirst \in BOOLEAN /\ sourceCount \in Nat
  /\ execCount \in [Procs -> Nat]
  /\ cursor \in Nat \ {0} /\ ret \in Results /\ results \in Seq(Results)
  /\ source \in {"none", "gsim", "inroot"} /\ todo \in Seq(Runs)
  /\ run \in Runs \cup {NoRun, NullRun} /\ simRun \in Runs /\ jobs \in Nat
  /\ sig \in BOOLEAN
  /\ out \in [Outs -> OutputFile] /\ left \in [Outs -> Seq(OutputFile)]
  /\ fault \in {"none", "null_run", "null_tree", "dangling_tree", "dead_branch", "no_current_run"}
  /\ begun \in [Procs -> Runs \cup {NoRun, NullRun}]
  /\ destroyed \subseteq Procs
  /\ late \in Nat /\ dropped \in BOOLEAN

Init ==
  /\ StoreInit
  /\ pc = "command"
  /\ procs = <<>> /\ deferred = <<>> /\ lastProc = NoTree
  /\ seenFirst = FALSE /\ sourceCount = 0
  /\ execCount = [p \in Procs |-> 0]
  /\ cursor = 1 /\ ret = "OK" /\ results = <<>>
  /\ source = "none" /\ todo = <<>> /\ run = NoRun /\ simRun \in Runs /\ jobs = 0
  /\ sig = FALSE
  /\ out = [o \in Outs |-> [state |-> "none", status |-> -1, file |-> "default", tree |-> <<>>,
                            before |-> 0]]
  /\ left = [o \in Outs |-> <<>>]
  /\ fault = "none"
  /\ begun = [p \in Procs |-> NoRun] /\ destroyed = {}
  /\ late = 0 /\ dropped = FALSE

\* Undefined behaviour the build turns into a crash; nothing else is defined after it.
Crash(why) ==
  /\ pc' = "crashed" /\ fault' = why
  /\ UNCHANGED <<storeVars, blockVars, eventVars, sourceVars, histVars, sig, out, left>>

-----------------------------------------------------------------------------
(* Declaring processors: /rat/proc, /rat/proclast, /rat/procset file.      *)

AddProcessor(p) ==
  /\ pc = "command" /\ p \notin Declared
  /\ procs' = Append(procs, p) /\ lastProc' = p
  /\ UNCHANGED <<storeVars, deferred, seenFirst, sourceCount, execCount, eventVars,
                 sourceVars, histVars, pc, sig, out, left, fault>>

DeferAppend(p) ==
  /\ pc = "command" /\ p \notin Declared
  /\ deferred' = Append(deferred, p) /\ lastProc' = p
  /\ UNCHANGED <<storeVars, procs, seenFirst, sourceCount, execCount, eventVars,
                 sourceVars, histVars, pc, sig, out, left, fault>>

\* OpenFile by /rat/procset file: a fresh runT becomes the write tree; the file says "crash"
\* for now, and the one that was open is left as it is.
OpenFile(o) ==
  /\ SetWriteTree(o)
  /\ out' = [out EXCEPT ![o] = [state |-> "open", status |-> -1, file |-> "given",
                                tree |-> <<>>, before |-> execCount[o]]]
  /\ left' = IF out[o].state = "none" THEN left
             ELSE [left EXCEPT ![o] = Append(@, out[o])]

\* /rat/procset talks to the processor declared last, before its first file or after it.
MayOpen(o) ==
  /\ pc = "command" /\ lastProc = o
  /\ out[o].state = "none" \/ Len(left[o]) + 1 < MaxFiles

SetFile(o) ==
  /\ MayOpen(o)
  /\ OpenFile(o)
  /\ UNCHANGED <<cache, currentRun, readTree, blockVars, eventVars, sourceVars,
                 histVars, pc, sig, fault>>

\* Appending to a file with a run tree gives PreloadFromTree the event tree, not the run
\* tree: null before the first file, and with events its branch points to a dead local.
Preloads(o) == o \in Existing /\ (out[o].state = "none" \/ out[o].tree # <<>>)

\* With an event tree without events nothing is preloaded: the records that the file has
\* stay unknown, and runT counts those this job adds.
UpdateFile(o) ==
  /\ MayOpen(o) /\ ~Preloads(o)
  /\ OpenFile(o)
  /\ UNCHANGED <<cache, currentRun, readTree, blockVars, eventVars, sourceVars,
                 histVars, pc, sig, fault>>

UpdateFileDies(o) ==
  /\ MayOpen(o) /\ Preloads(o)
  /\ Crash(IF out[o].state = "none" THEN "null_tree" ELSE "dead_branch")

-----------------------------------------------------------------------------
(* The main block.                                                         *)

\* Mutant of BlockBeginOfRun: begin before splicing.
BeginBeforeFlush(r) ==
  /\ procs' = procs \o deferred
  /\ deferred' = <<>>
  /\ begun' = [p \in Procs |-> IF p \in Elems(procs) THEN r ELSE begun[p]]

\* ProcBlock::BeginOfRun: splice the deferred processors in, then begin all.
BlockBeginOfRun(r) ==
  /\ procs' = procs \o deferred
  /\ deferred' = <<>>
  /\ begun' = [p \in Procs |-> IF p \in Declared THEN r ELSE begun[p]]

\* Mutant of BlockEndOfRun: only the producers are told.
EndOfRunSkipsProcs == UNCHANGED begun

BlockEndOfRun == begun' = [p \in Procs |-> IF p \in Elems(procs) THEN NoRun ELSE begun[p]]

\* The head of ProcBlock::DSEvent; BeginOfRun has flushed the deferred list.
BeginDSEvent ==
  /\ pc' = "event"
  /\ UNCHANGED eventVars
  /\ seenFirst' = TRUE
  /\ sourceCount' = IF seenFirst THEN sourceCount + 1 ELSE 0
  /\ late' = IF sig THEN late + 1 ELSE late

\* Mutant of OutputDSEvent: the run object's ID is saved, not the event's.
OutputRunObject(p) ==
  IF p \notin Outs THEN UNCHANGED <<out, writeTree, runT>>
  ELSE /\ out' = [out EXCEPT ![p].state = "open", ![p].tree = Append(@, run)]
       /\ IF out[p].state = "none" THEN SetWriteTree(p) ELSE UNCHANGED <<writeTree, runT>>

\* outroot opens the default file when no file was set; then it fills the tree.
OutputDSEvent(p) ==
  IF p \notin Outs THEN UNCHANGED <<out, writeTree, runT>>
  ELSE /\ out' = [out EXCEPT ![p].state = "open", ![p].tree = Append(@, Head(todo))]
       /\ IF out[p].state = "none" THEN SetWriteTree(p) ELSE UNCHANGED <<writeTree, runT>>

\* Mutant of BlockRet: the last processor decides.
LastResult(res) == res

\* The block's result so far is the conjunction of its processors' results.
BlockRet(res) == IF res = "OK" THEN ret ELSE res

\* DSEvent of one processor and the block's handling of its result.
ProcessorDSEvent(res) ==
  LET p == procs[cursor] IN
  /\ pc = "event" /\ cursor <= Len(procs)
  /\ p \in CurrentRunUsers => HasCurrentRun
  /\ res \in Outcomes[p]
  /\ OutputDSEvent(p)
  /\ execCount' = [execCount EXCEPT ![p] = @ + 1]
  /\ results' = Append(results, res)
  /\ ret' = BlockRet(res)
  /\ cursor' = IF res = "ABORT" THEN Len(procs) + 1 ELSE cursor + 1
  /\ UNCHANGED <<cache, currentRun, readTree, procs, deferred, lastProc, seenFirst,
                 sourceCount, sourceVars, histVars, left, pc, sig, fault>>

\* GetCurrentRun()->... on the null pointer it returns.
CurrentRunMissing ==
  /\ pc = "event" /\ cursor <= Len(procs)
  /\ procs[cursor] \in CurrentRunUsers /\ ~HasCurrentRun
  /\ Crash("no_current_run")

\* AbortRun(true) drops the events a simulation still has: after Ctrl-C, and once
\* the process has used MaxWallTime, which any event may bring about.
Remaining ==
  {rest \in {Tail(todo), <<>>} : /\ rest # Tail(todo) => source = "gsim"
                                 /\ source = "gsim" /\ sig => rest = <<>>}

\* The block returns and its locals are gone; the producer ignores the result
\* and looks at the signal flag and the time.
EndDSEvent ==
  /\ pc = "event" /\ cursor > Len(procs)
  /\ pc' = "produce"
  /\ todo' \in Remaining
  /\ dropped' = (dropped \/ (sig /\ todo' # Tail(todo)))
  /\ cursor' = 1 /\ ret' = "OK" /\ results' = <<>>
  /\ UNCHANGED <<storeVars, blockVars, source, run, simRun, jobs, begun,
                 destroyed, late, sig, out, left, fault>>

-----------------------------------------------------------------------------
(* Gsim: /run/beamOn.                                                      *)

\* BeginOfRunAction: find or make the run, then begin it in the block.
BeamOn(n) ==
  /\ pc = "command" /\ jobs < MaxJobs
  /\ ~ScansDangling(simRun)
  /\ IF Found(simRun) THEN GetRun(simRun) /\ UNCHANGED currentRun ELSE AddNewRun(simRun)
  /\ source' = "gsim" /\ todo' = [i \in 1..n |-> simRun] /\ run' = simRun
  /\ jobs' = jobs + 1
  /\ BlockBeginOfRun(simRun)
  /\ pc' = "produce"
  /\ UNCHANGED <<readTree, writeTree, runT, lastProc, seenFirst, sourceCount, execCount,
                 eventVars, simRun, destroyed, late, dropped, sig, out, left, fault>>

BeamOnDangling ==
  /\ pc = "command" /\ jobs < MaxJobs /\ ScansDangling(simRun)
  /\ Crash("dangling_tree")

\* A simulated event: one without a PMT hit needs no current run.
GsimEvent ==
  /\ pc = "produce" /\ source = "gsim" /\ todo # <<>>
  /\ BeginDSEvent
  /\ UNCHANGED <<storeVars, procs, deferred, lastProc, execCount, sourceVars, begun,
                 destroyed, dropped, sig, out, left, fault>>

\* Building the first PMT hit of an event dereferences GetCurrentRun().
GsimCurrentRunMissing ==
  /\ pc = "produce" /\ source = "gsim" /\ todo # <<>> /\ ~HasCurrentRun
  /\ Crash("no_current_run")

EndOfRunAction ==
  /\ pc = "produce" /\ source = "gsim" /\ todo = <<>>
  /\ BlockEndOfRun
  /\ pc' = "command" /\ source' = "none" /\ run' = NoRun /\ late' = 0
  /\ UNCHANGED <<storeVars, blockVars, eventVars, todo, simRun, jobs, destroyed,
                 dropped, sig, out, left, fault>>

-----------------------------------------------------------------------------
(* inroot: /rat/inroot/read.                                               *)

ReadFile(f) ==
  /\ pc = "command" /\ jobs < MaxJobs
  /\ IF Content[f].hasRunT THEN SetReadTree(Content[f].runT) ELSE UNCHANGED readTree
  /\ source' = "inroot" /\ todo' = Content[f].events /\ run' = NoRun
  /\ jobs' = jobs + 1
  /\ pc' = "produce"
  /\ UNCHANGED <<cache, currentRun, writeTree, runT, blockVars, eventVars, simRun, begun,
                 destroyed, late, dropped, sig, out, left, fault>>

Reading == source = "inroot" /\ todo # <<>>

\* The next event starts a run: look it up, begin it, process the event.
StartRun(r) ==
  /\ ~ScansDangling(r)
  /\ GetRun(r)
  /\ run' = IF Found(r) THEN r ELSE NullRun
  /\ BlockBeginOfRun(run')
  /\ BeginDSEvent
  /\ UNCHANGED <<currentRun, readTree, writeTree, runT, lastProc, execCount, source, todo,
                 simRun, jobs, destroyed, dropped, sig, out, left, fault>>

FirstEvent == pc = "produce" /\ Reading /\ ~sig /\ run = NoRun /\ StartRun(Head(todo))

SameRunEvent ==
  /\ pc = "produce" /\ Reading /\ ~sig /\ run = Head(todo)
  /\ BeginDSEvent
  /\ UNCHANGED <<storeVars, procs, deferred, lastProc, execCount, sourceVars, begun,
                 destroyed, dropped, sig, out, left, fault>>

\* The run changes: end the old one, and only then look the new one up.
LeaveRun ==
  /\ pc = "produce" /\ Reading /\ ~sig /\ run \in Runs \ {Head(todo)}
  /\ BlockEndOfRun
  /\ pc' = "switch"
  /\ UNCHANGED <<storeVars, blockVars, eventVars, sourceVars, destroyed, late, dropped,
                 sig, out, left, fault>>

EnterRun == pc = "switch" /\ StartRun(Head(todo))

\* branchDS->GetRunID() != run->GetID() after GetRun returned the null pointer.
NullRunDereference ==
  /\ pc = "produce" /\ Reading /\ ~sig /\ run = NullRun
  /\ Crash("null_run")

ReadDangling ==
  /\ Reading
  /\ (pc = "produce" /\ ~sig /\ run = NoRun) \/ pc = "switch"
  /\ ScansDangling(Head(todo))
  /\ Crash("dangling_tree")

\* Mutant of ReadOver: only the end of the file ends the loop.
ReadOverAtEnd == todo = <<>>

ReadOver == todo = <<>> \/ sig

\* The loop ends; the TChain handed to RunStore dies with ReadEvents' frame.
EndRead ==
  /\ pc = "produce" /\ source = "inroot" /\ ReadOver
  /\ IF run \in Runs THEN BlockEndOfRun ELSE UNCHANGED begun
  /\ readTree' = IF readTree.state = "live"
                   THEN [readTree EXCEPT !.state = "dangling"] ELSE readTree
  /\ dropped' = (dropped \/ todo # <<>>)
  /\ todo' = <<>> /\ source' = "none" /\ run' = NoRun /\ late' = 0
  /\ pc' = "command"
  /\ UNCHANGED <<cache, currentRun, writeTree, runT, blockVars, eventVars, simRun, jobs,
                 destroyed, sig, out, left, fault>>

-----------------------------------------------------------------------------
(* The end of the job: ~ProcBlock deletes the processors in order.         *)

EndOfMacro ==
  /\ pc = "command"
  /\ pc' = "destroy"
  /\ UNCHANGED <<storeVars, blockVars, eventVars, sourceVars, histVars, sig, out, left, fault>>

\* Mutant of FinalStatus: the flag is not consulted.
AlwaysComplete == 1

FinalStatus == IF sig THEN 0 ELSE 1

\* ~OutROOTProc: flush the run records, write the trees and the final status.
CloseOutput(p) ==
  IF p \in Outs /\ out[p].state = "open"
    THEN /\ FlushWriteTree
         /\ out' = [out EXCEPT ![p].state = "closed", ![p].status = FinalStatus]
    ELSE UNCHANGED <<cache, runT, out>>

DestroyProcessor ==
  /\ pc = "destroy" /\ cursor <= Len(procs \o deferred)
  /\ LET p == (procs \o deferred)[cursor] IN
     /\ CloseOutput(p)
     /\ destroyed' = destroyed \cup {p}
  /\ cursor' = cursor + 1
  /\ UNCHANGED <<currentRun, readTree, writeTree, blockVars, ret, results, sourceVars, begun,
                 late, dropped, left, pc, sig, fault>>

Exit ==
  /\ pc = "destroy" /\ cursor > Len(procs \o deferred)
  /\ pc' = "done"
  /\ UNCHANGED <<storeVars, blockVars, eventVars, sourceVars, histVars, sig, out, left, fault>>

-----------------------------------------------------------------------------
(* Ctrl-C: the first sets the flag, the second kills the process.          *)

SigInt ==
  /\ pc \notin Terminal /\ ~sig
  /\ sig' = TRUE
  /\ UNCHANGED <<storeVars, blockVars, eventVars, sourceVars, histVars, pc, out, left, fault>>

SecondSigInt ==
  /\ pc \notin Terminal /\ sig
  /\ pc' = "killed"
  /\ UNCHANGED <<storeVars, blockVars, eventVars, sourceVars, histVars, sig, out, left, fault>>

-----------------------------------------------------------------------------
Macro ==
  \/ \E p \in Procs : AddProcessor(p)
  \/ \E p \in Procs : DeferAppend(p)
  \/ \E o \in Outs : SetFile(o)
  \/ \E o \in Outs : UpdateFile(o)
  \/ \E o \in Outs : UpdateFileDies(o)
  \/ \E n \in 1..MaxBeam : BeamOn(n)
  \/ BeamOnDangling
  \/ \E f \in InFiles : ReadFile(f)
  \/ EndOfMacro

Producer ==
  \/ GsimEvent
  \/ GsimCurrentRunMissing
  \/ EndOfRunAction
  \/ FirstEvent
  \/ SameRunEvent
  \/ LeaveRun
  \/ EnterRun
  \/ NullRunDereference
  \/ ReadDangling
  \/ EndRead

Block ==
  \/ \E res \in Results : ProcessorDSEvent(res)
  \/ CurrentRunMissing
  \/ EndDSEvent
  \/ DestroyProcessor
  \/ Exit

User == SigInt \/ SecondSigInt

Next == Macro \/ Producer \/ Block \/ User

\* The thread runs on as long as the processors return; the user owes nothing.
Fairness == WF_vars(Producer) /\ WF_vars(Block)

Spec == Init /\ [][Next]_vars /\ Fairness

-----------------------------------------------------------------------------
(* Properties.                                                             *)

(* While an event of a simulated or read run is in the block, every        *)
(* processor of the list, late additions and deferred ones included, has   *)
(* been begun with the run the event belongs to (ProcBlock::BeginOfRun,    *)
(* Gsim::BeginOfRunAction, InROOTProducer::ReadEvents).                    *)
EventInRun ==
  pc = "event" =>
    /\ deferred = <<>>
    /\ run \in {Head(todo), NullRun}
    /\ \A p \in Elems(procs) : begun[p] = run

(* No processor has executed more often than one that stands before it in  *)
(* the list: aborts cut the tail, additions only extend it.                *)
ExecInListOrder ==
  \A i, j \in DOMAIN procs : i < j => execCount[procs[j]] <= execCount[procs[i]]

(* The block returns ABORT when one processor asked for it, and then that  *)
(* one was the last to see the event; FAIL when one failed and none        *)
(* aborted; OK otherwise (ProcBlock::DSEvent).                             *)
BlockResult ==
  LET Has(res) == \E i \in DOMAIN results : results[i] = res IN
  pc = "event" /\ cursor > Len(procs) =>
    /\ ret = IF Has("ABORT") THEN "ABORT" ELSE IF Has("FAIL") THEN "FAIL" ELSE "OK"
    /\ \A i \in DOMAIN results : results[i] = "ABORT" => i = Len(results)
    /\ ~Has("ABORT") => Len(results) = Len(procs)

(* The block runs its list: in order, cut only by an abort, and with the   *)
(* result that its processors' results make together.                      *)
BlockRunsItsList == ExecInListOrder /\ BlockResult

(* A job with one outroot adds to the file it closes exactly one record of *)
(* every run that RunStore knew, whichever producers ran, in whatever      *)
(* order, and whether or not earlier files were left for this one          *)
(* (OutROOTProc::~OutROOTProc, RunStore::FlushWriteTree).                  *)
RunsWrittenOnce ==
  \A o \in Outs : out[o].state = "closed" =>
    \A r \in Runs : runT[o][r] = IF Cached(r) THEN 1 ELSE 0

(* The files of an output share out the events that reached its processor: *)
(* each has those from its opening to the next one's, none twice and none  *)
(* lost.  Status 1 is given only to the last of them, when it is closed and *)
(* Ctrl-C dropped nothing, and it speaks of that file's events alone; a    *)
(* file left for another, and one of a job that crashed or was killed, say *)
(* -1 (OutROOTProc::OpenFile and the destructor).                          *)
Files(o) == Append(left[o], out[o])
StatusTruthful ==
  \A o \in Outs : LET files == Files(o) IN
    /\ \A i \in DOMAIN files :
         LET upTo == IF i = Len(files) THEN execCount[o] ELSE files[i + 1].before IN
         Len(files[i].tree) = upTo - files[i].before
    /\ \A i \in DOMAIN left[o] : left[o][i].status = -1
    /\ out[o].status = 1 => out[o].state = "closed" /\ ~dropped
    /\ out[o].state = "closed" => out[o].status # -1

(* Ctrl-C is heeded: a producer command starts at most one more event, the *)
(* one a new simulation begins with, or the first of the run a read had    *)
(* just begun to switch to (the checks of IsTermRequested in               *)
(* EndOfEventAction and ReadEvents), and the running producer gives the    *)
(* macro reader back control, unless the job crashes or is killed.         *)
InterruptHeeded ==
  /\ [](late <= 1)
  /\ (sig /\ source # "none") ~> (source = "none" \/ pc \in Terminal)

(* Every processor sees the life that ProcessorContract describes, across  *)
(* all producers of the macro.                                             *)
Contract(p) == INSTANCE ProcessorContract WITH
  open <- begun[p], served <- execCount[p], alive <- p \notin destroyed
ProcessorsSeeTheContract ==
  /\ \A p \in Procs : Contract(p)!Init
  /\ [][\A p \in Procs : [Contract(p)!Next]_(Contract(p)!vars)]_<<begun, execCount, destroyed>>

-----------------------------------------------------------------------------
(* The inductive invariant behind EventInRun and ProcessorsSeeTheContract. *)

\* Which producer, run and events go with each place of the thread.
Phases ==
  /\ pc = "command" => source = "none" /\ run = NoRun
  /\ pc \in {"produce", "switch", "event"} => source # "none"
  /\ pc = "switch" => source = "inroot" /\ todo # <<>>
  /\ pc = "event" => todo # <<>> /\ run \in {Head(todo), NullRun}
  /\ source = "gsim" => run = simRun /\ \A i \in DOMAIN todo : todo[i] = simRun

InRun == pc = "event" \/ (pc = "produce" /\ run # NoRun)
BegunInRun == InRun => deferred = <<>> /\ \A p \in Elems(procs) : begun[p] = run

OutsideRun == pc \in {"command", "switch", "destroy"} \/ (pc = "produce" /\ run = NoRun)
IdleOutsideRun == OutsideRun => \A p \in Procs : begun[p] \in {NoRun, NullRun}

UndeclaredUntouched == \A p \in Procs \ Declared : begun[p] = NoRun

\* No instance is listed twice, so no destructor runs twice.
Distinct(s) == \A i, j \in DOMAIN s : s[i] = s[j] => i = j
DeclaredOnce ==
  /\ Distinct(procs) /\ Distinct(deferred)
  /\ Elems(procs) \cap Elems(deferred) = {}
DestroyedInOrder ==
  /\ pc \in {"command", "produce", "switch", "event"} => destroyed = {}
  /\ pc = "destroy" =>
       \A p \in destroyed : \E i \in 1 .. cursor - 1 :
         i <= Len(procs \o deferred) /\ p = (procs \o deferred)[i]

LoopInv ==
  /\ TypeOK /\ Phases /\ BegunInRun /\ IdleOutsideRun /\ UndeclaredUntouched
  /\ DeclaredOnce /\ DestroyedInOrder

(* "When opening an output ROOT file ... Before closing the file ... call  *)
(* FlushWriteTree() to ensure all cached runs are written to the tree"     *)
(* (RunStore.hh): a closed file has the run of every event in it that      *)
(* RunStore knew, as long as the outputs were given files of their own.    *)
SavedEventsHaveTheirRun ==
  (\A o \in Outs : out[o].file = "given") =>
  \A o \in Outs : out[o].state = "closed" =>
    \A r \in Elems(out[o].tree) : Cached(r) => runT[o][r] >= 1

=============================================================================
