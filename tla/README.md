# TrafficEZ in TLA+

TrafficEZ drives the traffic lights of one junction. A parent process switches a
relay board by a table of phases; one child process per approach watches a video
stream and reports how much traffic there is; at the end of a cycle the parent
distributes the next cycle over the phases by what was reported.

This directory specifies that program from its C++ source (paths below are under
`src/src/`), model-checks it on small junctions and proves the most important
facts for all junctions. Every TLA+ definition that stands for code is listed in
`PROJECT.json` under `map`, with the lines it stands for.

## The system

| Component | State | Operations | Talks to |
|---|---|---|---|
| Parent control loop, `MultiprocessTraffic/ParentProcess.cpp` | phase, phase durations, a density per phase and child, accumulators of the cycle | execute a phase, send messages, collect replies, run the timer, lay out the next cycle | relay controller (calls), children (pipes), report server (asynchronous request) |
| Relay controller, `RelayController/TelnetRelayController.cpp` | copy of the phase number, socket | drive a row, drive a transition row, flash yellow, reconnect | relay board over TCP |
| Junction configuration, `MultiprocessTraffic.cpp` from line 230 | phase table, durations, counts of approaches, yellow channels | load each section, check the first row, compare yellow channels | everything started afterwards |
| Process supervision, `MultiprocessTraffic.cpp` to line 211 | list of child pids, kernel's signals and processes | create pipes, fork, handle SIGINT and SIGCHLD | all processes |
| Child process, `MultiprocessTraffic/ChildProcess.cpp` | whether its lane is green, its two pipes | poll, answer, change state, track a frame | parent (pipes), watcher (calls) |
| Vehicle watcher, `WatcherSpawner/WatcherFactory/VehicleWatcher` | traffic state, running sample, last mask | process a frame, report density, counts, speed | tracker, segmentation, stream |
| Pedestrian watcher, `.../PedestrianWatcher` | last mask | process a frame, report a count | segmentation, stream |
| Hull tracker, `HullRecognitionModule/HullTracker` | tracked hulls by id, count and totals | match, drop stale, count crossed, add, reset | hull detector |
| Preprocessing pipeline, `HullRecognitionModule/PreprocessPipeline` | list of steps, each with reported and applied parameters; a file | add, set, update, clear, save, load, process | vehicle watcher, trackbars |
| Relay session, `RelayController/TelnetRelayController.cpp` to line 240 | socket, what the board takes the next text for | connect, sign in, send, reconnect | relay board; interrupted by signal handlers |
| Video streamer and calibration, `VideoStreamer/`, `WatcherFactory/CalibrateWatcher/` | clicked points, matrix, count of lost frames; calibration keys of a file | click, preview, save; read, initialise a perspective, take a frame | both watchers, the file it shares with the pipeline |
| Hull detector, segmentation, reports, program entry | next to none | | |

What is hard about it:

* two kinds of processes that talk through pipes with different habits: the
  parent's reads block, the children's do not, a read may return several
  messages or the end of one, and a full pipe drops a reply;
* answers that are about the phase before the one they are asked in, measured by
  a watcher that changes its method with the colour of its lane;
* a relay board whose channels are counted anew for every row, once for rows and
  once for transition rows;
* signal handlers that run for minutes, nest, never return, and share a
  connection with whatever they interrupt;
* a connection whose loss is noticed late, or not, by commands nobody acknowledges;
* an initialisation with early returns after which the process goes on;
* a configuration that is checked in part;
* durations computed from measurements that may be missing, late or zero.

What makes each component correct:

* control loop and relay controller: exactly one colour per approach, yellow
  between green and red, no two conflicting approaches let through, durations
  within the cycle, every approach served;
* protocol: the parent never waits for a reply that cannot come; a reply is
  stored for the phase it measured;
* supervision: nobody survives the program, the lamps end dark;
* configuration: a table that loads can be driven;
* watcher and tracker: a report is about its phase, a vehicle is counted once;
* pipeline: what is saved is what is applied, and can be loaded again;
* relay session: the board shows what was last asked of it, if it can be reached;
* stream: what is measured is measured through a calibration that was saved.

`PROJECT.json` lists under `hazards` where in the code each of these could go
wrong, and the properties that would show it.

## Modules

| Module | What it specifies |
|---|---|
| `Junction` | operators only: the table, the rows that are driven, the transition rows, the wiring of the board |
| `SignalHeads` | abstract specification: what a road user may rely on |
| `ParentProcess` | `ParentProcess::run` with the relay controller it calls; children are an environment that reports anything |
| `PhaseProtocol` | parent and children over pipes: messages, replies, dropped, merged and cut ones |
| `VehicleLane` | a vehicle child and its watcher: what a report was measured from |
| `VideoStreamer` | a camera's stream: calibration window, file, the stages of `initialize()`, lost frames |
| `PreprocessPipeline` | the builder, the steps, the file they are saved to and loaded from |
| `WatcherProcess` | composes the three above: from calibration and tuning over an initialisation that may fail to the measuring lane |
| `HullTracker` | `HullTracker::update` frame by frame, with vehicles that drive, turn off and are missed by the detector |
| `RelaySession` | the connection to the relay board: sign in, send, reconnect in the middle of itself |
| `Supervisor` | forking, signals, nested handlers, standby, deaths, all over that connection |
| `JunctionConfig` | `loadJunctionConfig`: every section, every exit, the checks of the table |
| `Program` | composes `JunctionConfig` and `Supervisor`: the parent from loading to its exit |
| `Junction_proofs`, `ParentProcess_proofs`, `PhaseProtocol_proofs`, `VehicleLane_proofs`, `HullTracker_proofs`, `WatcherProcess_proofs`, `JunctionConfig_proofs`, `Program_proofs` | theorems; those of `Supervisor` are in `Program_proofs` |
| `MC*` | constants for TLC; `MCWaiting` adds a history variable to `ParentProcess` |

`ParentProcess`, `PhaseProtocol` and `VehicleLane` extend `Junction`.
`WatcherProcess` extends `VehicleLane` and instantiates `VideoStreamer` and
`PreprocessPipeline`, whose variables it shares: one file holds the keys of both,
and saving a calibration truncates it. `Supervisor` extends `RelaySession`: a
command is a list of steps left to do, which a handler replaces by its own.
`Program` extends `Supervisor` and instantiates `JunctionConfig`; only whether
there are channels to flash passes from one to the other.
`ParentProcess` implements `SignalHeads` through the refinement mapping
`lit <- heads`, where `heads` reads the colours of every approach off the powered
channels by the wiring of the board. Of that wiring, the size of each approach's
group of lamps and the yellow lamp are those of `assignChannels`; that red comes
before green is what `executePhase` itself does (`ColourOffset`). The mapping
thus says that the counting of `executePhase` and `executeTransitionPhase` agrees
with `assignChannels` on groups and yellow, and with each other on red and green.
If both had red and green the wrong way round, no run would show it.

### How the state corresponds to the code

* `ParentProcess`: `pc` is the place in `run`, `receivePrevDataFromChildren`,
  `handlePhaseTimer` or `updatePhaseDurations`; the other variables have their
  names from the code. `onChannels` is the relay board. `updatePhaseDurations`
  goes child by child and phase by phase because its early exit
  (`RestoreDurations`) depends on the phase it has reached.
* `PhaseProtocol`: `toChild` and `toParent` are the pipes, `cut` the bytes an
  earlier read took of the first reply, `handling` where a child is between its
  poll and its next poll. Lags are bookkeeping: phases since the message was sent.
* `VehicleLane`: a measurement is represented by its age, in messages answered
  since the frame it comes from. `Older`, which ages what is kept, is bookkeeping of
  this representation and stands for no code.
* `HullTracker`: `trackedHulls` is the map, `todo` the hulls the matching loop
  has not visited yet (the order of an `unordered_map` is arbitrary), `matched`
  the new hulls already taken. `y`, `lost` and `sighted` describe the traffic.
* `Supervisor`: `handlers` is the stack of handlers that interrupt each other;
  a signal being handled is blocked, the other one is not. A forked child is
  `young` until its `ChildProcess` replaces the handlers it inherited.
* `RelaySession`: `todo` is what is left of `sendCommand`, `connectToRelay` and
  `authenticate`, the nested calls included. `link` is the socket as `send` sees
  it: after the board has closed in order a send is lost, and a later one raises
  SIGPIPE; after a reset one send fails and the command is repeated over a new
  connection. `command` is history: the last command given.
* `VideoStreamer`: `stage` is the place in `initialize()`; "dead" stands for the
  exits and the exceptions nobody catches. `roi` says for which perspective the
  matrix was made, from which points, and whether with a frame that had a size.
* `PreprocessPipeline`: a step has `params`, the members `getCurrentParameters`
  reads, and `applied`, what `process` uses: the subtractor of a MOG2 step, the
  structuring element of a morphology step.

### Abstractions

* Densities are whole multiples of a unit and shares are integer divisions where
  the code has floats converted to `int`: both round towards zero. A total of zero
  is the code's own case.
* The seconds of a phase are steps; `sleep` has no duration of its own. In
  `PhaseProtocol` a phase may end at any time, so messages are as late as they like.
* Replies have one length. Replies of different lengths only move the places
  at which a read can cut.
* The lane of `HullTracker` has one dimension, the other one never enters a
  decision except through the distance.
* A parameter of a preprocessing step stands for all parameters of that step
  that are handled alike.
* `heads` shows what is powered; whether a command reaches the board is the
  question of `RelaySession`.
* The relay board takes any text it is sent before it is signed in for an answer
  to its prompt; a text that arrives, arrives at once.
* `Program` follows every configuration up to its acceptance, and two of them
  (`Followed`) beyond; `WatcherProcess` follows pipelines of the step types in
  `Followed` into a lane, and every pipeline by itself.
* `Phases` is `WellFormed`: vehicle columns hold vehicle types in every row. The
  loader checks that of row 0 only, see `JunctionConfig` and the hazards.

## Runs

| Run | Asks | Bounds |
|---|---|---|
| `cycle` | does the control loop implement `SignalHeads`, are conflicting approaches kept apart, do the shares divide the cycle | 3 phases, 2 lanes and 1 crossing; columns of the sample junction with a lane that stays green over a change of phase; reports of 0 and the maximum, any of them failing |
| `short_phases` | are durations bounded and approaches served when the transition row is never reached and the minimum exceeds the cycle | the same table with durations of 1 to 2 s |
| `yellow` | is there always time for yellow, as `ParentProcess.cpp:493` says: no | one configured duration of 4 s |
| `waiting` | are waiting pedestrians prioritised, as `ParentProcess.cpp:505` says: not those counted in a crossing's second red phase; the count of the first is stored under the green phase and prolongs it | as `cycle` |
| `protocol` | can the parent block for ever; how late can a reply be | 2 lanes, 1 crossing, 2 unusable measurements, a read that takes two replies and a half, a pipe of four replies |
| `resync` | do replies fall into step after an unusable one: they need not, unless a read takes the old and the new reply together | 1 lane, 1 crossing, 1 unusable measurement |
| `watcher` | does a saved calibration serve, is what is measured measured through what was set up, are reports of their phase, does a pipeline survive saving and loading, is it loaded entirely or not at all, does a silent stream end its child | green for two phases, red for three; 5 places to click, 5 calibrations written by hand; pipelines of 2 steps, all files of 2 entries out of 6, with a missing and a misspelled type and a parameter that is no number; 3 lost frames borne |
| `red_lane` | is the density that of the previous phase, as `ChildProcess.cpp:152` says: not on a lane that stays red | the same lane, no frame lost |
| `tracker` | is every vehicle seen on both sides of the line counted exactly once | 4 vehicles, ids that wrap after 3, one missed frame bridged, two places to turn off |
| `overcount` | does `getHullCount` count crossings, as its comment says: not with vehicles close together | 2 vehicles |
| `program` | is a table that loads drivable, does anybody survive, does the board show the last command, are the lamps dark at the end, does a crash end the program | all tables of 2 rows of up to 2 entries out of 4; then 2 children, 1 flash, interrupts and crashes at any time, the connection cut, closed or reset once |
| `lost_board` | does a failed send reconnect, as `TelnetRelayController.cpp:126` says: not when the board has closed the connection in order | 1 child |

Why these are enough: a conflict or a wrong colour is a matter of two approaches
and two consecutive rows, and the proofs take over for the rest. A crossing
behind two lanes is the smallest table in which a wrong count of lamps shifts
somebody else's. Two unusable replies are needed for lags to add up, and a pipe
of four replies fills up with them. Four vehicles and three ids make the ids wrap
with the earlier ones still tracked. Two children are a reaped one and one still
to tell, and one disturbance hits every step of a command, of signing in and of
reconnecting, in the main program and in either handler. Two rows are what the
comparison of yellow channels compares. Of the five places four are the corners of
a square and one lies to their right, so that corners that can and cannot be told
apart both occur; five points, two dimensions and a missing model are every way
in which a file fails a watcher. Frames borne count to 3 instead of
`MAX_EMPTY_FRAMES` 30: all that matters is below, at and after the bound. All of
these but the tables of `program` are replaced by arbitrary ones in the proofs.

Deadlock is checked except in `watcher`, `program` and `lost_board`, where the
process really ends.

The findings of the violation runs, with the lines they contradict, are in
`PROJECT.json`. One more disagreement is not a run but an exclusion in a property:
`MOG2BackgroundSubtractionStep::setStepParameters` does not update the members
`getCurrentParameters` reads, so `ReportsWhatIsApplied` excepts that step.

### Fairness

* `ParentProcess!FairSpec`: weak fairness of the whole loop. It is one thread
  that sleeps and reads; that its reads return is what `protocol` checks.
* `PhaseProtocol!FairSpec`: weak fairness of the parent and of each child, the
  kernel's scheduling. Nothing holds a lock, and no message is assumed to arrive
  that was not written.
* `ProgramSpec`: signals are delivered and handlers run, a command under way goes
  on or fails (every wait of the controller has an end), a process sent SIGTERM
  dies. Nothing is assumed of crashes, interrupts, disturbances or the start-up.
* `WatcherProcess!FairWatcherSpec`: the loop of a child whose lane is green takes
  one frame after the other; `getNextFrame` returns with a frame or without.
  Nothing is assumed of the operator, of `initialize()` or of messages.

## Proofs

The theorems hold for every number of phases, lanes and crossings, every
well-formed table, all durations, multipliers and reported densities, any number of
children, vehicles, pipelines, files and disturbances, from the named assumptions
of the modules: types of the constants, a well-formed table and one duration that
is not zero for the control loop, and that pipes hold one reply. `VideoStreamer` has
none, `JunctionConfig` needs its bounds to be numbers. What a theorem assumes
beyond that is its premise, and said below.

* `TypeCorrect` (of `ParentProcess`): `Spec => []TypeOK`. `TypeOK` is inductive; `pc = "receive"`
  bounds the loop index over the children, which makes the stored densities
  total functions. Lemmas give the types of quotients, products and sums.
* `RowShowsItsColours`: powering the channels counted for a row shows each
  approach exactly the colour of its entry. The lemma `RelayIndexIsFirstChannel`
  says that the count of channels up to a column (cardinalities of sets of
  earlier columns, which a well-formed row makes intervals) is where the
  wiring has that approach's group; `ChannelsDisjoint` that groups do not overlap.
* `ConflictFree`: `Spec => []NoConflict`. The invariant behind it,
  `BoardShowsARow`, is that the board is dark, shows a row or shows the
  transition row of one; a transition row lets nobody through that its row does
  not, and `NotGreenShowsRed` does the rest. No assumption on durations.
* `DurationsBounded`: `Spec => []DurationBounded`, for any minimum.
* `SharesPartition`: `Spec => []SharesPartitionCycle`, for any number of phases and
  any densities. The invariant `TotalsInStep` says that the total is at every
  place of `updatePhaseDurations` the sum of the phases gone through, and zero
  outside of it. `Portions` is the arithmetic: portions of a number in the ratio of
  some numbers to their sum, each cut off, add up to it but for less than one
  each. The sum is the community modules' fold over a set, which takes the elements
  in no known order. The library's induction theorems cannot be used, but that the
  numbers are well-founded can: every set of them has a least one (`LeastNumber`),
  and a claim that failed somewhere would fail at a least number, not at the one
  before. `SumsAdd` (the recursive function behind the fold exists), `SumsWithout`
  (any element may be taken first), `PartialSums` and `LastOfSum` (the sum up to a
  phase, and to the next) are shown that way. That the full cycle is positive and
  no phase exceeds it (`CycleType`) follows, and is no longer assumed.
* `HeadsImplemented`: `LongPhases => (Spec => ImplementsSignalHeads)`. Without
  `LongPhases` it is false, see run `yellow`. `NoConflict` and the
  board being at some row are not enough to know the next colour: the
  strengthening `BoardFollowsLoop` says which row the board shows at each place
  of the loop, and that every duration lets the timer pass five seconds. Each
  change of the board is then a row to its transition row, or a transition row to
  the next row, and `ColoursOfRows` turns both into allowed changes of colour.
* `NeverBlocksForGood`: `Spec => []NoLostReply`, of `PhaseProtocol`: what makes a
  blocking read without a timeout safe. It needs `CutNeedsReply` (an empty pipe has
  lost no bytes of a reply), because the one reply a child must not drop is the one
  it writes to an empty pipe, and this fits only if nothing is counted as cut.
  `ReadLeaves`, about quotients and remainders of bytes, says that a read which
  empties a pipe cuts nothing. That every child gets to write is fairness, and
  stays with run `protocol`.
* `GreenReports`: `Spec => []GreenReportOfItsPhase`, of `VehicleLane`. Nothing in
  the property says why old hulls cannot be in a report; the invariant
  `FreshTracker` does: the tracker holds frames of this phase only, none while
  the lane is red, and a sample of this phase has begun whenever it holds one.
  It is what resetting both on every report buys.
* `QueueReports`: `Spec => []QueueOfTheMoment`, inductive with `TypeOK`.
* `RepliesInStep`: `ReplyBytes <= ReadBytes => (Spec => []RepliesMatchPhase)`, of
  `PhaseProtocol`. The code's read takes 127 bytes and a reply is shorter, so the
  premise holds. The invariant `InStep` follows every message through its phase
  (`Posted`, `Measuring`, `Replied`): as long as no reading has failed, each pipe
  holds at most what this phase has put there.
* `StaysFresh`: `ReplyBytes <= ReadBytes => (Spec => []StalenessBounded)`, of
  `PhaseProtocol`. The message of the phase, the one a child is at and the replies
  under way form one queue per child. The invariant `AllFresh` says that lags fall from its
  head to its tail (`InOrder`), that none exceeds the failures, and that of a
  child already read in this phase every one stays below them, which leaves room for
  the phase to pass. A read takes the head of the queue (`ReadTakesHead`), the
  oldest of it. The premise is the code's 127 bytes again; a read of less than
  a reply would leave the rest for the next phase without any failure. Lags and
  failures are counted to `MaxLag`, which may be any number.
* `CountsTheSeen`: `Spec => []CountedWhenSeen`, of `HullTracker`, for any traffic:
  between frames no hull lies beyond the line, because one that does is counted and
  taken out at once, and within a frame only a matched one does (`BeforeLine`).
* `CountsNobodyTwice`: `Separated => (Spec => []NeverOvercounts)`. `Separated` is about
  distances: what a vehicle drives while its hull is kept (`Reach`) is less than
  the distance in which a hull is looked for; other vehicles are further away than
  both together; the line is at least `Reach` from the entrance, and the picture at
  least a gap and a frame's drive long; and who turns off does so a gap
  away from the entrance, or near it if all vehicles look alike. Run `tracker` satisfies it; run `overcount` does not, and there the property
  is false. `Following` is the inductive invariant: every hull follows one vehicle
  or one that has left (`Pairs`, `Alone`, `Leaving`), is at most as far behind as
  its age allows, and resembles it, so that the hull of a vehicle is matched with
  nobody else (`MatchedOwn`). `Counted` strengthens the property: no more are
  counted than have been seen on both sides and are followed no longer.
* `CountsEverybody`: `Separated /\ Complete => (Spec /\ []IdsSuffice => []NeverUndercounts)`.
  `Complete` says that the detector misses no vehicle for longer than its hull is
  kept, `IdsSuffice` that there are ids for the vehicles seen before the line since
  the last reset: 1001 of them in the code, which resets after every green phase.
  `Remembering` follows each vehicle seen before the line to the hull it
  has in the map, by an id nobody else gets (`IdsFresh`), until it is counted. What
  happens when ids start again within a phase is left to run `tracker`, with four
  vehicles and three ids.
* `NobodyLeftBehind`, of `Supervisor`: `KillsAll` says that the children are all
  recorded or reaped once the program runs, that the innermost handler's targets
  and those already sent SIGTERM are all recorded ones, and what that means at an exit.
* `BoardFollows`, of `Supervisor`: `Promised` says that the last command given is
  the last step of what is left to do, or else shown by a board that is reached.
  A failed send puts reconnecting before the command, never after it, and a
  handler that drops what was left gives a command of its own.
* `OffAtExit`, of `Supervisor`: `TurnedOff` says where in a handler the last
  command was the one that turns the lamps off. With `BoardFollows` this is
  `LampsOffAtExit`.
* `VehiclesLit`, of `JunctionConfig`, for tables of any size and content: `Loading`
  says what has been counted of the rows read so far and that the yellow channels
  found in a row are those of the first. Since channels of different columns are
  apart (`ChannelsApart`), equal yellow channels force every vehicle entry of a
  row to light one lamp (`OneYellowEach`, `OneLampEach`).
* `ProgramTypes`, `ProgramLeavesNobody`, `ProgramObeyed`, `ProgramLit`: every
  behaviour of `Program` is one of `Supervisor`, and of `JunctionConfig`, so that
  their theorems carry over. `ProgramDark` needs both: an accepted table with a
  vehicle approach has channels to flash (`Flashes`), which is the condition
  under which the supervision turns the lamps off.
* `WatcherTypes`, `WatcherGreenReports`, `WatcherQueueReports`: a step of
  `WatcherProcess` is a step of the lane, leaves it alone, or sets the detection
  boundaries (`LaneStep`), which no report depends on.
* `CalibrationServes`, `MasksFit`, `PreviewsItsStrategy`: parts of `StreamInv`, which
  says at each stage of `initialize()` whether there is a matrix and for which
  perspective: past it, exactly if the file is readable and has four points.
* `MeasuresReady`: `WatcherSpec => []MeasuresOnlyWhenReady`. `MeasureInv` adds that
  nothing is measured before the loop, and that a vehicle watcher with a matrix has
  loaded its pipeline to the end. A child that loops on after an early return
  of `initialize()` has no matrix, and its first frame ends it.
* `OutlinesClockwise`: two arrangements of four points are orders of each other
  (`Rearranged`); corners that can be told apart are sorted to their places
  (`SortedApart`), and the area is a sum of products of positive numbers.
* `KernelsAccepted`, `ReportsApplied`, `SavedReloads`: every step ever in a pipeline
  is a `GoodStep`, whatever way its parameters took (`CheckedUsable`,
  `CreatedGood`); a good step's report is accepted by its own constructor as it is
  (`ReportedReloads`), so that the entries of a saved file come back one by one.
* `PipelineWhole`: `WatcherSpec => []WholePipelineLoaded`, for files of any length.
  `Halfway` says of every round of the loop that the steps are those of the
  entries gone through: the step of an entry is where the number of entries with a
  type up to it says (`TypedCounts`), and appending moves none of the earlier ones
  (`EntryAddsItsStep`). `WholeInv` adds that only the end of the loop leads past
  `loadPipelineConfig`. An entry that is no step ends the process instead.
* `PipelineTypes`: `ShortFiles => (WatcherSpec => []PipelineTypeOK)`. The bound
  `MaxSteps` is on what a user adds; `ShortFiles` says that no file written by hand
  is longer, as in run `watcher`. Loading then appends no more than the file has
  left (`Lengths`).
* `ProgramLoaderTypes`: `ProgramSpec => []LoaderTypeOK`, if the bounds on the table
  are numbers: `Sized` relates what has been read of the table to those bounds.
* `StreamTypes` and the type theorems of the other modules:
  inductive as they stand.

Model-checked only: the liveness properties (`EveryApproachServed`,
`PhasesKeepRunning`, `CrashEndsProgram`, `SilentStreamEnds`), which need fairness.
Every invariant and every action property that a run checks is a theorem; two
of them, the tracker's counts, under premises which the run satisfies but for
`IdsSuffice`.

## Not modelled

* The image operations, the neural network and the numbers they yield: OpenCV's
  and the model's. Segmentation keeps nothing but its last result, whose age
  `VehicleLane` follows; that its model fails to load is an action.
* Reading the board's status, which nothing calls. Boards of more than sixteen
  channels and rows of different lengths: the program's behaviour there is an
  exception or undefined. A pedestrian entry misspelled behind the last vehicle of
  a later row loads and leaves its child without an answer; `PhaseProtocol`
  assumes a well-formed table.
* Reports: sent and forgotten. Their data is computed, not read back. The threads
  of their HTTP client, on which a signal could be handled, are not modelled.
* What `savePipelineConfig` does with the rest of its file: it reads the file,
  replaces the section and writes everything back, which is modelled as leaving the
  calibration as it is. A file that cannot be parsed, or is no map, is not modelled;
  one that cannot be written stays as it is, which is a step that changes nothing.
* The command line, and the mode that compares a GUI and a headless watcher.
* Totals of area and speed in the tracker, and all drawing.
* Vendored code: `json.hpp`, `cxxopts.hpp` and the headers of the ONNX runtime
  are most of the lines under `src/`, and none of the program's own logic.

## Plan

1. Core (done): `Junction`, `SignalHeads`, `ParentProcess` with proofs.
2. Around it (done): `PhaseProtocol`, `VehicleLane`, `HullTracker`, `Supervisor`,
   `JunctionConfig`, `PreprocessPipeline`.
3. The relay session under the supervision, the stream and the calibration, and
   the compositions `Program` and `WatcherProcess` (done).
4. Proofs of the protocol's pairing, of supervision, configuration, stream and
   pipeline for all constants (done).
5. Proofs of the tracker's counts for all traffic, of how late a reply can be, and of
   the shares for all numbers of phases (done).
6. Left: the tracker inside the vehicle lane, with resets between frames; rows
   behind the first that the loader does not check, composed with `PhaseProtocol`.
