# A TLA+ verification of ratpac-two

ratpac-two simulates particle detectors: a macro declares *processors* and then
runs *producers* (a Geant4 simulation, a file reader, a network listener) which
push events through the processors; a database of constants feeds all of them.
Most of its code is physics and numerics. This project is about the rest: the
order in which things are told to each other, what is kept between events, runs
and commands, and what happens when a step fails, a user interrupts or a
connection breaks.

Run everything from this directory: `tlc -config X.cfg M.tla` for a run,
`tlapm M_proofs.tla` for the proofs of a module. `PROJECT.json` lists the runs,
the mutants that show each property can fail, the source lines behind every
definition, the hazards and the theorems.

## The system

| component | state it keeps | operations | depends on |
|---|---|---|---|
| `ProcBlock`, `ProcBlockManager` | processor list, deferred list, first-event flag, counters | `/rat/proc`, `/rat/proclast`, `/rat/procset`; BeginOfRun, DSEvent, EndOfRun, destruction | called by every producer |
| `Gsim`, run actions | current run, abort flags | begin/end of run, end of event | ProcBlock, RunStore, SIGINT flag |
| `Gsim`, track actions; stepping action; hit collection; trajectories | event summary, stored particles, zero-step count, photoelectron limit, hits | before and after each stretch of a track, each step, each hit, begin and end of event | Geant4's stack, channel status |
| `GLG4PrimaryGeneratorAction`, generators | queue of generators by time to the next vertex, event window, universal time | `/generator/*`; vertices of one event | Gsim, clock |
| `GeoBuilder`, factories | tables still to build, volumes built | build the detector from the GEO tables | RATDB |
| inroot, outroot | input chain, current run; output trees, file status | read a file; open, append, save, close | RunStore, ProcBlock, SIGINT flag |
| `DS::RunStore` | run records, current run, a read tree, a write tree | add, look up, register trees, flush | process-wide, shared by all of the above |
| `SignalHandler` | one flag | first and second Ctrl-C | polled by producers and outroot |
| `NoiseProc`, `AfterPulseProc`, `SplitEVDAQProc` | parameters, memory of after-pulses, event counter | one event each | share the event's lists of hits |
| `Digitizer`, `WaveformPrep`, analyses, other DAQs | channels of the digitizer, waveforms and results in the EVs | digitize, prepare, analyse | hits, EVs, cable delays |
| `RAT::DB` (RATDB) | tables on three planes, what a server lacks, arrays not yet fetched, server, default run | load, set, server, run, link, read, dump | files, CouchDB |
| outnet, innet | sockets, retries; list of clients | pick a server, send, receive; accept, read, answer | TCP, ProcBlock |
| fitters, physics, ntuple output | parameters, results | numerics over one event, copies | DB, RunStore |

The full list, with what is left out of each and why, is `components` in
`PROJECT.json`.

What is hard in this code:

* **Protocol of a long-lived object.** Three producers drive the same processors
  over several commands of one macro, runs switch inside a file, processors may be
  declared late or deferred; each processor must see begin, events, end in order.
* **Shared mutable state without an owner.** RunStore has one read tree, one write
  tree and one current run for the whole process; the lists of hits of an event
  are sorted, pruned and extended by one processor after another; the tracking
  manager's flag is the user's setting and a per-track decision at once.
* **Callbacks in an order somebody else chooses.** Geant4 suspends a track, runs
  its secondaries, and takes it up again: what is counted at the start of a track
  is counted for each stretch unless the code looks out.
* **Relative times.** Generators, hits, pulses and UTC each have their own zero,
  which moves with every event.
* **Interruption.** Ctrl-C may arrive between any two steps and is seen at a few
  places only; a second one kills the process.
* **Caches.** The database caches documents, absences and arrays, across runs,
  servers and commands; processors keep memory across events.
* **Boundaries of intervals.** Noise windows, lockouts, dead times, trigger windows,
  peaks and crossings each have their own idea of open and closed ends.
* **Dependencies found at run time.** Detector tables come in the order of a map,
  and name others that may come later, never, or in a circle.
* **Distribution.** An event is lost, processed twice, or waited for in vain.

`hazards` in `PROJECT.json` has each of them at its line, with the property that
would catch it or the reason why none does. Three have none: a crash that is modelled
and has no property to violate (`RunStore.cc:34`), and two places of the database where what
a read returns does change (`DB.cc:393`, `DBTable.cc:183`), which the properties except;
all three are described below.

## Modules

```
RunStore <- EventLoop <- MCEventLoop          ProcessorContract (abstract)
                      <- EventLoop_proofs
PrimaryGenerator <- MCPrimaryGenerator        RenewalSources (abstract)
                 <- Gsim_proofs (with GeoBuilder)
Tracking <- MCTracking
         <- Tracking_proofs                   Induction (lemmas on data)
MCHits <- NoiseProc, AfterPulseProc, SplitEVDAQ <- DaqChain <- MCDaqChain
                                                            <- DaqChain_proofs
WaveformUtil <- Waveforms <- MCWaveforms
                          <- Waveforms_proofs
Ratdb <- MCRatdb
      <- Ratdb_proofs
GeoBuilder <- MCGeoBuilder
           <- Gsim_proofs (with PrimaryGenerator)
Sockets <- InNetProducer, OutNetProc <- NetDispatch <- MCNetDispatch
                                                    <- NetDispatch_proofs
```

`ProcessorContract` and `RenewalSources` are abstract specifications; `EventLoop`
and `PrimaryGenerator` are shown to implement them, by TLC and by proof. `Induction`
is used by the proofs of tracking, the DAQ chain, the waveforms and the database.
`Gsim_proofs` holds the theorems about the two things the simulation has done for it,
its primary vertices and its detector.

### The event loop: `RunStore`, `EventLoop`, `ProcessorContract`

`EventLoop` is one job: one thread, a user. `pc` is where the thread is, `procs` and
`deferred` are `fProcessorList` and `fDeferredAppendList`, `todo` is the run of each event
the producer still has, `run` the producer's current run, `out` the output files. One
action is one callback: `AddProcessor`, `DeferAppend`, `SetFile`, `UpdateFile` are macro
commands; `SetFile` and `UpdateFile` happen any number of times, also after the default
file was opened: `out` is the file that is written to, `left` has those it wrote to
before, which nothing closes, so that they keep the status that stands for a crash and the
events of their time, as far as ROOT saved them by itself. Each file has a name of its
own. `BeamOn` is a simulation up to its first event with `Gsim::BeginOfRunAction` and
`MakeRun`; `FirstEvent`, `SameRunEvent`, `LeaveRun`, `EnterRun` and `EndRead` are the
paths through an iteration of `InROOTProducer::ReadEvents`; `ProcessorDSEvent` is one turn
of the loop in `ProcBlock::DSEvent`, so that Ctrl-C can fall between two processors.
`EndDSEvent` is the end of `Gsim::EndOfEventAction` too: Ctrl-C or `MaxWallTime` aborts
the run. The time used is not counted: any event of a simulation may be the one that
reaches the limit, which allows more than the code does. A simulated event asks for the
current run at its first PMT hit only, so that one without a hit gets through where
another crashes (`GsimEvent`, `GsimCurrentRunMissing`). `RunStore` holds the operations of
`DS::RunStore`, called from those actions. Undefined behaviour that ends the program, such
as a null dereference, is an action that ends the job with a `fault`.

An event is abstracted to its run, a processor to the results it may return and
whether it asks for the current run. `ProcessorContract` is what one processor is
promised; `EventLoop` is shown to implement it for every processor.

### The generators: `PrimaryGenerator`, `RenewalSources`

`genList` is the priority queue of `GLG4PrimaryGeneratorAction`, with `nextTime`
of each generator relative to the current event. `StartEvent` is `GeneratePrimaries`
up to the first vertex (time zero of the event), `Generate` one vertex of the
pile-up loop with `ResetTime`, `EndEvent` its end at the event window. `Add`,
`SetRate`, `SetWindow`, `Clear` and `BeamOn` are the commands, between runs.
`Missing` is what `GLG4Gen_Combo::SetState` leaves null when a factory is unknown;
asking such a part crashes. Intervals are ticks: exactly the period for a uniform
time part, any up to `MaxDraw` for a Poisson one.

`RenewalSources` has no events, windows or relative times: independent sources on
one time axis, the one due first fires and is due again one of its own intervals
later. The refinement adds the universal time to each relative time.

### Tracking: `Tracking`

One event as a sequence of Geant4's calls: `PreUserTrackingAction`,
`UserSteppingAction` (a step with the physics' choice of its length, hit, secondary
and status, the kills of `GLG4SteppingAction`, `DetectPhoton` of the hit collection
and `AppendStep` of the trajectory), `PostUserTrackingAction` (energy sums,
photoelectron limit, merging of trajectories) and `EndOfEventAction` with
`MakeEvent`. The stack is Geant4's: a suspended track goes back below its
secondaries with the trajectory it has. Charged tracks deposit one unit in each step
that has a length. The commands that matter are those whose effect outlives an
event: the tracking manager's flag and the sets of particles to store or discard.

### The DAQ chain: `MCHits`, `NoiseProc`, `AfterPulseProc`, `SplitEVDAQ`, `DaqChain`

`mc` is the event's list of `DS::MCPMT` with their photons: the hit time, the
front-end time and the kind. Each processor module has its members as variables
and its `DSEvent` as one step, except that the noise processor's draws are steps
(`DarkHit`, `WindowDone`), because the defects are between its windows.
`DaqChain` runs them in the order of the macro, with several events, run
boundaries, a `/rat/procset`, and events read back and processed again. Times are
small integers; a Poisson draw is any number up to `MaxDark`. `InOrder` and `Kept` say
what `std::sort` and `erase` leave of a list; they stand where the library's `SortSeq` and
`SelectSeq` could, because the provers know nothing of those two.

### Waveforms: `WaveformUtil`, `Waveforms`

`WaveformUtil` has the functions of that file which `WaveformPrep` calls, on integer
voltages. `Waveforms` is an event on its way through any sequence of a splitting,
a simple and a forced-trigger DAQ, `WaveformPrep` and an analysis, with the
settings of `/rat/procset`. The code draws a pulse's width for each photon and the
electronic noise of each sample, anew for every EV: `Drawn` is the set of waveforms that
may come of it, for any set of `Pulses` per PMT (its model's shapes, scaled for its
channel) that reach from `Early` before to `Late` after the photon and any set of `Noise`,
so that a DAQ step builds any EV of a set (`AddEV`). `Clamp` is the ADC's limits, and the
digitizer's channels, the `DigitPMT`s and their results are what is kept between
the calls. An event may also come from a detector, with any samples. One sample is
1 ns and one count 1 mV; times of photoelectrons are in sixths of a sample, so that
the means and shares of merged packets are integers.

### The database: `Ratdb`

`tables` is `DB::tables` by key and plane (user -1, default 0, runs), `absent` is
`tablesNotOnServer`. A lookup returns the cache as it leaves it, because in this
code reading changes what is stored. A document of a server may hold an array as an
attachment: it is `Deferred` until its first read, which fetches it from the server
that is current then (`FetchArray`), and `Garbage` when that answer is an error page
or cut. Commands are the actions `Load`, `Set`, `SetServer`, `SetDefaultRun`,
`Initialize`; links, reads and dumps happen at any time.

### The detector: `GeoBuilder`

A table is its type, its mother, whether it is enabled and, for a border surface,
its two volumes; `Rank` is the order of the map's keys, which TLC takes as given and
the proofs leave arbitrary. An action is one look of the loop at the first table
that can be built, or at the end of the map: a volume, a surface, a disabled table
removed, or a way to end (`Die`) with its reason. `Makes` is what a factory leaves
in the volume store: itself, parts of it, or only parts under other names. Arrays,
PMT arrays and reflectors look for a placed volume of their mother's name too, PMT
arrays for one of each volume up to the world: `MotherNotPlaced` is their end where an
array or the empty name of the world's mother has none.

### Network dispatch: `Sockets`, `InNetProducer`, `OutNetProc`, `NetDispatch`

`Sockets` is TCP as the code uses it: a connection, what is on its way in each direction,
who still holds an end. `SetHost` is `/rat/procset host`, before the first event and
between events, any number of times; a dead socket that `PickServer` replaces is dropped
from the model, as nothing is heard of it again, a live one stays. `InNetProducer` is
`Listen` with its pass of accept and select; `OutNetProc` is `SetS`, `PickServer`,
`Connect` and `DSEvent` with the retry loop, one step per call that can wait or fail.
`NetDispatch` puts clients and servers together with a network that breaks connections and
a user who presses Ctrl-C.

## Runs

| run | what it asks | bounds |
|---|---|---|
| `event_loop` | does every processor see its contract, does the block run its list and return its result, are run records written once, do an output's files hold each event once and say truthfully which is complete, does Ctrl-C end a producer, after at most one more event? | three processors (plain, one using the current run, outroot), three input files (two with a run tree, one without), two runs, two producer commands of up to two events, two files for the output |
| `two_outputs` | does every saved event have its run record? Not with two outroot processors | one or two commands, two outputs |
| `generators` | are vertices in time order, in their window, none left behind; does the queue keep the schedule of independent sources; does UTC never go back; does an event get filled? | a uniform and a Poisson generator, periods 1 and 3, draws up to 2, windows 1 and 2, two runs of two events |
| `tracking` | do counts, energies and centroid add up, are hits of this event and of online channels, are the tracks those asked for, are zero steps counted per track? | an online and an offline PMT, two hit times, three tracks, two hits, two events, two commands, limits of two steps |
| `daq_noise` | are dark hits as many and where they are asked for, are photons sorted for the lockout, is each EV what its window holds? | two PMTs, up to two hits, one event and one reprocessing, noise before or after the after-pulses, both window modes, one dark hit per window |
| `daq_events` | are after-pulses detected once they should be, triggers, EV numbers and times right across events and runs? | two events, two trigger tables, two thresholds, two delays, one reprocessing |
| `double_count` | is an after-pulse added once? Not with two photons near it | one event |
| `waveforms` | are times found where a pulse is, and this a photon's, do samples belong to this EV's PMTs and photons, do charges add up over repeated processing? | two PMTs whose cables differ by three samples, one or two pulses for a photon, no noise or some, six samples of two bits, three processors in any order, four simulated events and every recorded waveform of one channel that begins without a pulse |
| `ratdb` | does what the user set win, is the dump what is read, does caching change what is read? | one table, two fields, two runs, files for one plane and for both runs, two servers, documents with an attachment, six commands |
| `geometry` | is the detector whole and in order, is giving up justified, does the builder end? | the world and three tables of any kind, all mothers and volumes that interact |
| `net` | does no client take another's event, or a late answer? | two clients with two events each, two servers whose loads read the same, one retry, one broken connection or one Ctrl-C |
| `net_retries` | is no event skipped, none processed too often, which connections stay up though their client forgot them (only those that a further setting of host replaced), does waiting end? | one client that sets host once or twice, one event, two servers with their true loads, two disturbances, one retry |

The bounds are those at which the interesting things meet. Two runs and two
producer commands give every order of entering and leaving a run and of reading
and simulating; a third command only repeats one. Two generators with
intervals of one to three ticks tie, overtake each other and repeat inside a window,
and a second run starts with times left by the first. Three tracks let a suspended
track wait below two secondaries, of which one may suspend again; two zero steps end
a track, so that a count carried over ends the next one a step early. Two PMTs and
two hits make every relation of two windows, lockouts or dead times; three photons of
one PMT arise from noise and after-pulses. Six database commands allow a load on each
plane, a set, a change of server after a read and a read after it. Three tables make
circles of one, two and three, and a surface between an early and a late volume. One
client with two disturbances uses up its retries, two clients with one disturbance
compete for a server that dies. The second setting of the host replaces a socket that
is alive, dead, or the one a retry found; further ones repeat it, and the theorem has any
number of them. `MaxSockets` is never reached in the passing
runs: a greater one gives the same states. Six samples hold a pulse of three before
and behind another, and a photon that a cable of three samples moves out of the first
EV or into it. Symmetry is not used.

Each passing property has a mutant of a mapped definition that violates it under
the same configuration (`mutants`). `CHECK_DEADLOCK FALSE` is set because jobs,
macros, events and buildings end.

### Fairness

`EventLoop` assumes `WF(Producer)` and `WF(Block)`: the job is one thread that runs
on as long as the called processors return. Nothing is assumed of the macro, which
may end, or of Ctrl-C. `PrimaryGenerator` assumes `WF(Primaries)`: the run manager's
loop calls `GeneratePrimaries` for each event, which is a loop of its own; the commands
between runs owe nothing. `GeoBuilder` assumes `WF(BuilderNext)`: `ConstructAll` is one
sequential function. `NetDispatch` assumes weak fairness of each client's and each
server's next step, which are threads too; a step is enabled only when the call it
stands for can return. The network may break a connection or not, and an event's way
through the server's block is assumed to end. The other modules claim no liveness.

## What disagrees with the documentation

The two violation runs are findings, with the lines they contradict quoted. Other
disagreements, and places where the code does something that its author can hardly
have meant, were met while modelling. Those that the models contain, with the action
or fault that shows them:

* `OutROOTProc.cc:147` gives `PreloadFromTree` the event tree, which is null then,
  instead of the run tree: `/rat/procset updatefile` on a file with runs crashes (fault
  `null_tree`), or reads through a branch whose target is gone when an earlier file has
  events (fault `dead_branch`). Only where neither has anything does it open the file.
* A file without a run tree, which the comments at `InROOTProducer.cc:84` and `:111`
  provide for, crashes at its second event: the current run is null at line 115
  (fault `null_run`).
* Processors that ask for the current run crash when they process such a file again,
  which `outputs.rst:24` offers as a use of outroot files
  (`WaveformAnalysisLucyDDM.cc:49`, fault `no_current_run`).
* `RunStore.cc:34`: the read tree is a `TChain` on the stack of `ReadEvents`; a run
  looked up after it returned reads a dead object (fault `dangling_tree`). The outcome
  is undefined, so that there is nothing to state of a job after it.
* `MaxWallTime` ends a simulation by the same abort as Ctrl-C but leaves the flag
  alone, so that the output says status 1, complete (`Gsim.cc:289`).
* A server hands events to its block without a `BeginOfRun` (`InNetProducer.cc:133`).
* `InNetProducer.cc:120` ends the server for all its clients when one connection
  fails, whereas `producers.rst` says that it runs until Ctrl-C (`ReadError`).
* `OutNetProc.cc:178` reads the load from the letters of a long version string, the same
  for all servers, and keeps the first one (`LoadRead`, in the run `net`); with the
  default version check no server is ever accepted.
* `OutNetProc.cc:145` overwrites a live socket when the macro sets `host` again; the
  server keeps it in its list and its load (`SetHost`, `Picked`). Retries and the search
  itself leave none behind (`GhostsOnlyFromSettings`).
* `OutROOTProc.cc:106` opens another file at a second `/rat/procset file`, also when the
  default one is open, and closes none but the last: the first file keeps its events as
  far as they were saved, and status -1 (`SetFile`, `left`).
* When its retries are used up by sending, `OutNetProc::DSEvent` waits for an answer
  to something it never sent (`WaitsForNothing`).
* `SplitEVDAQProc::BeginOfRun` loads its parameters again after the macro's
  `/rat/procset trigger_threshold`, which therefore has no effect, whereas
  `processors.rst` uses it as the example (`ProcSet`, `BeginOfRun`; the noise and
  after-pulse processors do the same).
* A PMT with dark hits in two of the noise processor's windows gets an `MCPMT` in each
  (`NoiseProc.cc:102`), whereas `pmt.rst:21` has one for each PMT that was hit; the
  digitizer then keeps the last one's pulses (`Digitizer.cc:64`).
* After-pulses meet the event's UTC time through a double, whose step is 256 ns at that
  size (`AfterPulseProc.cc:93`), and their memory only grows (`:146`).
* The UTC of an event is that of its predecessor's next vertex, one interval late
  (`GLG4PrimaryGeneratorAction.cc:117`, `EventInfo.hh:46`).
* The count of zero steps is one static variable (`GLG4SteppingAction.cc:145`): a track that
  is taken up again begins with that of the track before it, and may be ended for steps
  that were not its own. `ZeroStepsAreItsOwn` says that this is the only case.
* The energy centroid counts the deposits of a suspended track again for each
  stretch (`Gsim.cc:403`, `MCSummary.hh:33`), and the energy loss of a primary is
  that of the last track that ended (`Gsim.cc:399`, `EventInfo.hh:43`).
* A second pass of an analysis appends photoelectrons to the results that the first
  one stored, and keeps its time offset (`DigitPMT.hh:81`).
* A document that was fetched for one run is stored for all runs of its validity, over what
  files gave these (`DB.cc:393`): what a read returns depends on the runs read before.
  `ReadsAreStable` is about reads of one run.
* An array that is fetched at its first read replaces what the user set in between
  (`DBTable.cc:183`), which `SetWins` excepts.
* A dump lacks arrays that were not read yet, or shows what a later read contradicts
  (`DB.cc:494`, against the comment at 484), and `SetServer` keeps what the last server
  lacked (`DB.cc:171`), so that a table that only the new one has is not found.
* The result of a transfer is not looked at (`HTTPDownloader.cc:63`): an error page is
  parsed as a document or unpacked as an array (`Garbage`).
* A surface of type `wlsp` is recognised by the table's first type instead of its second
  (`GeoSurfaceFactory.cc:40`). A mother that another table's factory will make under
  another name is not "yet to be built" (`GeoBuilder.cc:90`), so that the builder gives up
  on a detector that could be built (`OwnNamesOnly`). A reflector, an array or a PMT array
  cannot be the world or lie in an array: no volume of the mother's name is placed
  (`GeoReflectorFactory.cc:30`, `PMTFactoryBase.cc:45`,
  `GeoSolidArrayFactoryBase.cc:174`), and a PMT array two below an array follows a null
  pointer (`PMTInfoParser.cc:107`). A disabled table must still name its mother, against
  `geometry.rst:67`.

Met beside the models, and not in them: `/rat/procset` with a floating-point value
calls `SetI` with 1 before it throws (`ProcBlockManager.cc:214`); an array element set
from a macro always ends in an error (`DB.hh:408`, `DBMessenger.cc:79`); the iterator
that was just erased is compared with the end (`GeoBuilder.cc:178`); IDs of optical
photons start one late (`Gsim.cc:705`); in the ntuple, vectors of nested tubes are never
cleared (`OutNtupleProc.cc:570`), fit results of an earlier event stay when a fit fails
(`:598`), a row without trigger keeps the last timestamp and trigger word (`:752`), and
a second run overwrites the first one's file (`:355`).

## Proofs

TLC checks instances; `tlapm` proves the following for every value of the constants, under
the named assumptions of the modules (`RunStore`, `EventLoop`, `PrimaryGenerator`,
`Tracking`, `MCHits`, `NoiseProc`, `AfterPulseProc`, `SplitEVDAQ`, `DaqChain`,
`Waveforms`, `Ratdb`, `GeoBuilder`, `Sockets`, `OutNetProc`). Most say no more than that
sentinels are distinct from what they stand beside and that constants have their types.
What they say beyond:

* network: there are finitely many clients;
* database: a job names finitely many tables and runs, run 1 (the default run) is one of
  them, a table is for the user plane, the default plane or runs, and a server has one
  document for a key;
* DAQ chain: a macro declares each processor at most once (the module has the members of one
  of each); the hits of `Gsim` are real ones, smeared
  by `PickTime`; and the first event's time in ns since 1970 is so much larger than a hit
  time that their sum is not negative;
* waveforms: there are finitely many PMTs; a waveform has no more samples than `INVALID`,
  which stands for "not found" among their numbers; the pedestal window is one that
  `CalculatePedestal` accepts; the constant fraction is between 0 and 1 and the threshold
  is negative, as pulses are; the sliding window has a width; a fit gives its packets in
  order of time, by which `FindHits` sorts them; and the unit of charge is so fine that a
  packet's charge can be shared evenly (the code shares a double).

Every invariant was first checked by TLC on the instances of the runs.

| module | theorem | what it says |
|---|---|---|
| `EventLoop_proofs` | `LoopInvariant`, `TypeCorrect`, `EventsInRun`, `ContractRefined` | the loop's invariant; an event's processors are begun with its run; the loop implements `ProcessorContract` |
| | `ListIsRun`, `StatusIsTrue`, `RecordsWrittenOnce` | the block runs its list and returns the conjunction; an output's files share out its events, and only a complete last one has status 1; run records are written once |
| `Gsim_proofs` | `TypeCorrect`, `NothingLeft`, `InOrder`, `ScheduleKept`, `UTCKept` | no vertex is left behind or out of order; the queue implements `RenewalSources`; UTC never goes back, also over runs |
| | `BuilderInvariant`, `BuilderTypeCorrect`, `WholeDetector`, `NoOrderWouldDo` | a returned detector is whole and in order; giving up is justified |
| `Tracking_proofs` | `TrackingInvariant`, `TrackingTypes`, `SummariesAddUp`, `KeptHits`, `RequestedTracks`, `OwnZeroSteps` | photon counts and centroid add up; hits are this event's, on online channels; the stored tracks are those asked for, whole; a track is ended by its own zero steps only |
| `DaqChain_proofs` | `DaqInvariant`, `DaqTypes`, `NoiseIsAsAsked`, `AfterPulsesAreDetected` | dark hits are as many as counted and near hits when they should be; what is remembered near a hit is in the event |
| | `HitsAreCovered`, `EventsHoldTheirHits`, `EventsAreSplitRight` | every hit that counts is in the lockout after a pulse, and pulses are further apart; an EV has the hits of its window, their earliest time and charge; EVs are those the trigger sum calls for, apart by the dead time and numbered on |
| `Waveforms_proofs` | `WaveInvariant`, `SamplesTheirOwn`, `ChargesSummed` | EVs have waveforms of their own PMTs, with no more than noise where no photon reaches; an EV's charge is that of its channels over threshold |
| | `HitTimeRises`, `HitTimesArePhotons`, `PhotoelectronsAccounted` | the hit time is on the rise to the peak, and missing only if there is none; it is a photon's, up to pulse and cable delay; photoelectrons are in order, apart, and add up to the packets |
| `Ratdb_proofs` | `RatdbInvariant`, `SetFieldsWin`, `DumpTellsReads`, `ReadsChangeNothing` | what a user sets is what every link reads; a dump is what a read would return; as long as links are of one run, reads and dumps change no other read's value |
| `NetDispatch_proofs` | `NetInvariant`, `AnswersOwn`, `GhostsAreFromSettings`, `NothingSkipped`, `ProcessedAsAllowed` | answers are the client's own; a client leaves fewer connections behind than it set hosts; no event goes on unprocessed, nor is one processed more often than the retries allow |

**Event loop.** `EventInRun` alone is not inductive: that an event's processors are begun
with its run says nothing about the loop while no event is in the block. `LoopInv` adds
`Phases` (which producer, run and remaining events go with each `pc`), `BegunInRun`
(between events of a run, too, everything declared is begun with it and nothing is
deferred, which is why a run must begin by splicing the list), `IdleOutsideRun`
(outside a run nothing is begun, or only with the null run, which the loop never ends),
`UndeclaredUntouched` (a late declaration starts clean), `DeclaredOnce` and
`DestroyedInOrder` (no call follows a destructor). Each has a lemma `Step...` with one
step per action. `ContractRefined` maps the initial states and every step to the
abstract specification, using `LoopInv` in the state before it.

**What a job leaves behind.** `BlockRunsItsList` speaks of the end of an event; on the way
there `Ahead` says that the processors before the cursor are one execution ahead,
`UnlistedNeverRan` that what is not in the list has not run, so that a late one fits at
its end, and `ResultSoFar` that `ret` is the conjunction of what was returned.
`FilesInv` says that no file is closed while producers run, and that an event is
dropped only after Ctrl-C; `LeftInv` that the files left for another keep status -1, and
that the events of all files of an output, from its first event on, are those its
processor executed on. `RecordsInv` says that nothing is written before the
closing, which writes every run known. The hypothesis of one output is needed:
`two_outputs` shows what two of them do to RunStore's one write tree.

**Generators.** What holds while an event is filled: the origin of all times is its UTC,
an event without a vertex has a generator at time zero (`ResetTime` moved it there), and
the last vertex is not after any generator's next time. Between events the origin is
not after the last vertex. From these follow the order and the window of vertices, and
each `Generate` is the abstract `Fire` of the source that is due first. For UTC, `ClockInv`
says that the event's time is never after the run's start and the universal time
together, from which the next event's is computed.

**Induction.** A lemma cannot take the hypothesis of an induction as an operator, since
the provers do not instantiate one. `Induction` takes it as a set: a set of numbers that
holds 0 and with each number the next; a family of subsets of a finite set that holds the
empty one and every set whose smaller ones it holds. Both follow from the library's
theorem that strict inclusion of finite sets is well founded. From them come what the
folds of the community modules compute (each is a function on the subsets of a finite
domain, of which `FoldExists` shows that there is one), that sums agree, grow and split
with what is summed, and that a finite table of numbers can be listed in order.

**Tracking.** The four properties speak of a finished event, and of a track's end. On the
way there, `Places` and `Histories` say that a track is once on the stack, in hand or
finished, and that only those never taken up have no steps. `Paths` says which points the
trajectory in hand has (those since step `a`, when it was taken up), what is stored with a
suspended track (those up to its last step), and that every finished track that is wanted
has one trajectory with all its points: merging joins two stretches without a gap or a
double point. It needs `Flags`, that Geant4's flag is the user's setting between events
and the decision about the track in hand within one. `Counts` compares the photon counters
with the tracks taken up at least once, `Weights` the centroid's weight with the energy
deposited as long as none was taken up twice (the finding above), `HitCounts` the
collection with the hits seen, by counting each time at each PMT. `Limit` and `Made` are
where the photoelectron limit is looked at, so that an event is aborted when, and only
when, it is over the limit.

**DAQ chain.** `Types` includes that each photon was smeared once, which relates the two
times of a photon through sorting, pruning and re-reading. `Counts` is needed for the
number of dark hits because the noise processor's draws are steps. `NearHitsOnly` says of
the windows still to be filled, not only of what was drawn from them, that all their times
are near a hit: `FindWindows` cuts the hit times only where two are further apart than the
greater look time, so that no time inside a window is further than that from a hit.
`SortedAfter` is what the lockout relies on; `DetectedAll` and `Built` carry the results
of the two later processors through what follows in the block. Of the operators, the
proofs show that sorting keeps the photons of a list, each as often as before, and pruning
those of the other kinds in their order; that in a sorted list every hit is in the lockout
of a pulse, and pulses are further apart; that a bin of the histogram is as high as the
trigger sum at its time, which rests on how quotients by the resolution round; that
triggers are over the threshold and further apart than the dead time, and what else is
over it is in a dead time; and that an EV's PMTs, times and charges are those of the
window's hits. The thresholds are any integers: nothing depends on their being positive.

**Waveforms.** `WaveInv` says that the digitizer is empty between EVs and that each EV is
what its channels say: `Shaped` (waveforms have all their samples), `Sampled` (each
waveform is one that may be drawn for an MCPMT of its PMT at this EV's trigger),
`Measured` (each `DigitPMT` is `DoAnalysis` of the waveform stored beside it), `Charged`
(what `ChargesAddUp` says) and `Analysed` (the account of photoelectrons over any number
of passes; a result without a pass has none). They need each other: a second
`WaveformPrep` keeps results, an analysis keeps what was measured, and zero suppression
must not leave a `DigitPMT` of an earlier pass behind. From `Measured` follows the hit
time, by three lemmas about the scans of `WaveformUtil`: the highest peak is the first of
the lowest samples, the scan back from it ends at the last sample above the fraction, and
the interpolation stays between that sample and the next. A sample at the threshold is in
a crossing if the one before it is; induction on the samples shows that crossings are
therefore the dips with a sample above the threshold since the dip before. A DAQ step's EV
is any of a set, which is a fold over the MCPMTs; induction along them shows that each
channel is drawn for an MCPMT that was taken. Where no photon's pulse reaches, the height
is a sum of zeros, whatever pulses are drawn, and the sample is one of noise alone
(`Quiet`). The hit time has a sample at most one behind it that is at or below the
fraction (`TimeHasASample`: the one after the rise, or sample 0 where the scan ran into
the start); if noise alone does not get there, it is not quiet, so that a photon's pulse
reaches it. Photons, samples and hit times are all shifted by the cable's delay. For the
packets, clusters are a partition of the fit into stretches, each within the distance and
apart from the next, and a mean time lies between the first and last of its cluster, which
keeps the photoelectrons of two clusters apart.

**Database.** Every stored table is under a key of its own (`Caches`), no table mixes
planes, so that caching a document on all its runs never touches the user plane, and
`Holds` says where a value that was set is: in the user plane's table, with no attachment
that could come over it. From this `SetFieldsWin` follows by how a lookup looks at that
plane first. `ReadsChangeNothing` compares databases: `Fills` says that one is another
with more of the server's answers in it, `SeenAt` is what a lookup finds under a key, and
a lookup, a fetched array or a whole dump leaves what is seen for every key of the link's
run as it was. A dump is a fold over the known names; that it only fills is shown by
induction on sets.

**Geometry.** Every enabled table is either still in the list or in `built`, once; what
is built has its needs before it; and a table that was looked at without effect since
the last change lacks a volume that no table outside the list makes. When all were
looked at, no order of the rest can succeed.

**Network.** Per client: which sockets its locals hold at each place, that they are its
own, distinct and open. Per connection: one that is up is held; a header is on its way
only to the socket that is tried; an event only over the one that is used, while it is
waited for, in one direction. Per server: the event it works on is the one its client
waits for, if that client can still be answered. Frame lemmas (`ClientFrame`,
`ServerFrame`) carry this over a step of somebody else. The bound on passes counts the
tries that reached a server or still may, on a dead connection, too: a try is used
when an event is sent, and reading turns one into a pass. For the connections left behind,
the settings are counted (`GhostInv`): a client has fewer ghosts than it set hosts, and
while a setting still looks for a server, the socket that it is going to overwrite counts
as one. A search by `DSEvent` only replaces a dead socket. So one setting leaves none.

Every safety property that a passing run checks is proved. Only model-checked is liveness
(`InterruptHeeded`, `EventsAreFilled`, `ComesToAnEnd`, `ClientsAreServed`), which the
prover does not handle. No module uses RECURSIVE operators, so that all stay open to
proofs.

## Not modelled

* Ntuple output, track navigation: copies of a finished event, no state between calls
  but the stale values listed above.
* Generators: what the vertex, position and time generators sample, the random trigger
  and external generators, coincidences, a rate of zero, the time since the last event;
  deferred tracks (no physics list registers `DeferTrackProc`).
* Tracking: the stacking action, the maximum global time, IDs of optical photons, a
  muon's special steps, hits in fibres; hit merging (its limit is the largest
  `size_t`).
* Waveforms: fits and deconvolution with `FindPeaks`, `RunAnalysisOnTrigger` (no caller),
  the distribution of pulse widths and noise (any of a set is drawn), the times of PMTs
  and the numbering of EVs of the simple and forced-trigger DAQs.
* Database: link groups, `Clear`, `SetArrayIndex`; parsers of tables and documents, which
  are about characters.
* Output files: an event tree switched off (`savetree`), a file name given twice,
  splitting by size, the macro and database text in the file.
* Physics processes, fitters, materials, optics and the solids of the geometry factories:
  numerics without control that a model checker could explore. They are most of the
  code by lines.
* Geant4, ROOT, CouchDB and TCP, which are modelled by what the code asks of them.

## Plan

1. **Done.** Event loop with its outputs, generators, tracking, DAQ chain, waveforms,
   database, geometry and network dispatch, each with its runs; proofs of all
   the safety properties that the runs check.
2. `NetDispatch` with a server's block replaced by `EventLoop`'s, so that the missing
   `BeginOfRun` meets the contract.
3. `Ratdb`: an abstract database without a cache that it implements as long as the server
   stays the same; `Clear` and link groups.
