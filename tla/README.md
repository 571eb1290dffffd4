# TLA+ specifications of rs-nexus-plugin-tooling

Specifications of the parts of `nx3-plugin` where threads, callbacks, timeouts
and lost messages meet (the two plugin harnesses, the gateway client they use, the
system test) and of the sequential parts whose steps are easy to get wrong
(the intermediate stage, the assignment wizard, the bundle builder with the
installer, the environments of plugins). All paths below are relative to
`src/packages/cli/src/nexus_n3_plugin_cli/`.

## 1. Inventory

| Component | State it keeps | Operations | What is hard | Module |
|---|---|---|---|---|
| Compute manager (`algorithm_harness/compute_runtime.py`) | queue, pending count, idle event, registrations, result buffers, worker thread | ingest, worker turn, reset, wait, shutdown | count and put are two steps; reset does not stop the others; an error may leave the worker | `ComputeManager` |
| Intermediate stage (`algorithm_harness/compute_runtime.py`), generated executor (`scaffold/algorithm.py`) | result buffers, index of the executor | one result | an index that only grows, into buffers that forget | `IntermediateStage` |
| Algorithm harness (`algorithm_harness/runner.py`) | capture files, intermediate records, progress of the run | one run | callbacks and worker go on through the finally clauses | `AlgorithmHarness` |
| Gateway client (`sensor_harness/adapters/gateway_ble_client.py`) | port, pending requests, buffer, reader thread | start and its handshake, requests, scan, retries, reader, close | ids from a clock, late answers, lookups without a lock, chunks, damage; any request may start or reopen the client, in any thread | `GatewayClient`, `GatewaySession`, `FrameParser` |
| Gateway adapter (`sensor_harness/adapters/gateway_ble_adapter.py`) | transport clients | connect, subscribe, disconnect, three event handlers | event loop and reader thread share clients without a lock | `GatewayAdapter` |
| Sensor harness (`sensor_harness/runner.py`, `sensor_manager.py`, `sensor_controller.py`, the services) | sensors, polling tasks, adapters, recorded events, capture | one run | links drop and calls raise at any await; nested finally clauses; two backends that fail differently | `SensorHarness` |
| System test (`system_test/runner.py`, `client.py`) | event queue, step of the run | one run | PUB/SUB may lose; events name no command; events queue up during prompts | `SystemTest` |
| Wizard and plan (`system_test/runner.py`, `wizard.py`), inventory (`inventory.py`) | assignments; the catalogs on disk | prompts | counts against locations that other families took; a catalog read again at each prompt; ids, names and display names that differ or collide | `AssignmentWizard` |
| Bundle builder (`build.py`), installer (`install.py`) | files, the bundle | build a bundle, install it | fails anywhere; old bundle removed before the new one is there; names that meet | `BuildBundle` |
| Command line (`main.py`), plugin environment (`plugin_env.py`), scaffolding (`scaffold/`) | repositories and their `.venv` on disk | init, test, refresh | any command may be cut off, and the operator may repair by hand; the next one finds what they left | `PluginEnv` |
| Direct BLE adapter | links | connect, disconnect | a disconnect that is refused does not raise | in `SensorHarness` |
| Loaders, configuration, SDK | none of their own | imports, records | - | not modelled |

How they interact: a harness run drives the sensor services through
`SensorController.dispatch`; the services call an adapter; the gateway adapter
sends requests through the gateway client in executor threads, and is called
back by its reader thread; a sample goes from the plugin through the sensor
manager's listeners to the CSV capture and, in the algorithm harness, to the
compute manager; its worker calls the algorithm, whose results come back to the
runner through two listeners. The system test talks to nexus-n3-core over two
ZeroMQ sockets. The command line prepares the environments in which it starts the
harnesses as processes of their own.

What makes each part correct is stated as properties in its module; the list of
hazards behind them, with the line where each bites, is in `PROJECT.json`.

## 2. Modules

Each component has a specification `X.tla`, an `MCX.tla` that gives TLC its
model values and symmetry, and one `.cfg`. Proofs are in modules of their own
(`XProofs.tla`, section 4); `AlgorithmHarnessProofs` has those of the compute manager
and of the plugin environments too, and `SequentialProofs` those of the stage, the wizard
and the builder. Specifications that meet in one module have different names for the
same things: `IntermediateStage` has `SInit`, `SNext`, `SSpec`, `STypeOK`, `BuildBundle`
has `BInit` and so on, `PluginEnv` `EInit`, `FrameParser` `FInit`.

**`WorkBarrier`** is the abstract promise of `wait_until_idle`: items are opened
and closed, those of one thread in order, and the event is set exactly while
none is open.

**`ComputeManager`**. Processes: any number of producers in `ingest_sample`, the
worker in `_run`, an owner in `reset` and `shutdown`. `CountSample`/`PutSample`
are the two halves of `ingest_sample`; `TakeSample`, `TakeToken`,
`FindAlgorithm`, `NotifyListener`, `BufferResult`, `EndSample`, `EscapeError`
and `FinishSample` are the turns of `_run` at the points where another thread
can see the difference; `BeginReset`, `DrainOne`, `FindEmpty`, `Recount` are
`reset` in the order of its statements. No code of the repository calls `reset`: what is said of it holds for whoever would. A sample is a record of its thread, its
number and its address. `Outstanding` is the set the count is about: samples in
a producer's hands, in the queue or with the worker. The module states
`BarrierSpec`, the refinement of `WorkBarrier` with `open <- Outstanding`.

**`AlgorithmHarness`** extends `ComputeManager`: its actions conjoin an action
of the manager with what the runner's callbacks add (the CSV write before the
count, the JSONL writes in the listeners, the list of intermediate records) and
with the run itself, finally clauses included. A first sample makes its CSV file
even after the capture was closed (`csvFile`), a later one meets a closed file.
The wait is three steps: `WaitUntilIdle` looks, `FinishTurn` may set the event and so wake
it (`woken`), `WakeUp` returns; in between a callback may clear the event again, and
`PassDeadline` may come first. `leaving` says that an exception, or the result 1, is on its
way through the finally clauses, where `disconnect_all` or the shutdown of the sensor
manager may raise as well (`DisconnectRaises`): the consolidation is then skipped.

**`RequestReply`** is the abstract promise of the gateway client to its callers: a request
that succeeds took an answer of its own name that was given after it was sent, and no
answer ends two requests. Names may be given twice, and answers may be lost.

**`GatewayClient`**. Requests run in threads of their own: `Register`, `Send`,
then `Receive` or `TimeOut`, each with the finally clause that unregisters
(`End`). A scan is a request that gets a `Report` for each device before it is
`done`: its `Receive` collects matches, and overlooks an `error`. The clock is a
variable, so that ids may collide. The reader is `TakeLine` with the first
lookup of `_route_json`, and `PutAnswer` or `LookupFails` with the second. The
gateway answers in any order, late, or never; lines get lost; `Close` comes at
any time. The deadline of a wait may pass at any time; that it then raises
`queue.Empty` (from `get`) or `TimeoutError` is one outcome here. The module states `ExchangeSpec`, the refinement of `RequestReply`
with `answers <- OnTheWay`: the answers that the line, the reader or a queue has.

**`GatewaySession`** is the same client seen from `start` and `close`. A call of
any request goes through `send`, which calls `start`, which opens the port,
launches a reader, and makes two requests of its own by the same `send`; so each
call has a `stack` of requests, and `Raise` unwinds it through the finally
clauses. `Open`, `ResetInput` and `Launch` are the statements of `start` between
which others run; `StartClose`, `JoinReader`, `ClosePort`, `EndClose` those of
`close`. `hello` has one id in all sessions. A line that was written may be
answered late or never; answers that arrived and are dropped with the input buffer or
the port are not told from those that were lost before. A second attempt of
`subscribe_with_retry` is one more call. Ids of other requests do not collide
here, and chunks, handlers and lookups are in the other two modules. `faults`
is a history of the four things that the code does not exclude: two starts at
once, a close during a start, a port left open when its settings fail, and a
close that gives up joining the reader.

**`FrameParser`** is the reader's other half, `_extract_item`, byte by byte over
an alphabet that keeps what the parser tells apart: `{`, the two bytes of the
magic, version, size, newline, checksum right (`k`) or wrong (`x`). Timestamp,
sensor id and payload are one body of one or two bytes, and the bodies include
bytes that look like the start of another item or like the end of a line. Version,
size and checksum never look like one of these here. A line may have been damaged or
have lost its newline. `Incomplete` is the condition on which extraction returns
`None` and leaves the buffer as it is.

**`GatewayAdapter`**. The loop's operations are split at their awaits (`op`
says where each stands), the reader's handler of `sensor_disconnected` at its
lookup, its check and its callback. The gateway may give the id of a link that
went down to another sensor. Request ids are left out here (see
`GatewayClient`), so an answer reaches the request of its sensor, if it still waits.
The line may lose any message (`LoseMessage`): `FrameParser` has what damage does to one,
of which only damage that makes another valid message is left out. `unheard` keeps the
sensors of which a report that their link went down was lost.

**`IntermediateStage`**. One action, `HandleResult`, since the stage holds its
lock throughout: append to the bounded buffer, `ShouldRun`, and `Taken` with its
index, as the generated executor has them. A result is a number of its sensor.
`AlgorithmHarness` leaves open whether a result yields a record; this module
says which do.

**`SensorHarness`**. One run with its three nested exits. `run` says where it
stands, `todo` what its loop has left, `raisedAt` where exceptions arose; one is on
its way out if there is any. Polling tasks, pushed samples and links that drop
interleave at every await; every call of an adapter or a plugin may raise.
Discovery finds any number of devices. A pushed sample is sent while the `stream` is on
(`SendSample`) and recorded when it arrives (`Arrive`); in between it is in `flight`, a
notification, a frame or a callback that has yet to run, whatever becomes of the stream.
`StopSensor` ends the stream of a sensor that has a `stop_stream` (`Stoppable`), which is
taken to silence it; one that has none goes on until it is disconnected. `loose` keeps the
sensors that `stop_all` could not silence, `after` those of which something was recorded
behind the summary. A polled sample comes as what `request_sample` returns. The `backend`
matters at the end: bleak's adapter may answer that it did not disconnect a sensor, and
has nothing to close, while that of the gateway raises, and closes its port with all
streams; it waits a second for its reader, which may be at a sample still (`abandoned`).
`fail_on_no_data` is taken to be set: without it the result 2 is 0.

**`SystemTest`**. One run over the queue of received events. The module has a
model of nexus-n3-core that answers each command with its event or an error, or
loses it, streams, drains of its own accord, and surprises with errors and
disconnects. An event carries, as a history, the location it was sent for; the
code does not see it. `last` is the step at which the run ended.

**`AssignmentWizard`** is its step `Plan` prompt by prompt: `step` is the prompt,
each prompt may be cancelled, and each error that ends the wizard has an end of its
own. What it may offer is what the core said it supports when the test began and
what the catalogs hold (`inventory.py`): the sensors as of the beginning, the
algorithms as of each prompt, `ChangeCatalog` in between. A plugin has an id; the core,
the sensors' lists and `load_installed_algorithms` know an algorithm by its name only, and
of the plugins of one name the last file of the catalog is kept (`Kept`). `current_plugin` is
the one in whose repository the test was started, `display_name` the name that its
`plugin.json` displays: `IsCurrent` is the comparison by either, in which the first
candidate of the family's list wins (`Preselected`); `CurrentIsMissing` compares the id in
lower case (`Lower`) with the ids as they are. Each plugin keeps the name of its algorithm
through all versions, and ids in the catalog are distinct.

**`BuildBundle`**. One build, in the order of its statements (`build_step` is
the next one); `Raise` may come after any of them. Files are a function from names to contents, and a content
stands for its hash. Names are few, so that extra artifacts, wheels and
dependencies meet under one name. `Install` is `install_bundle` on what the build
left, finished or not; `outcome` is what comes of it.

**`PluginEnv`**. One command after the other, each with its `targets` (plugins,
from a repository or a bundle) and its place in the work on them. `StartInit` and
`WriteFiles` are `init`; `CreateVenv` and `Install` are `prepare_plugin_venv`;
`Check` is what `test` does without `--refresh-env`; `Unpack` is a bundle's
temporary environment; `Launch` starts the harness. `sdk_root` says whether the
tooling runs from a checkout, where it finds the SDK's source to install. `CutOff` may end a command
anywhere, by an error or an interrupt, and leaves what was done so far: a `.venv`
without interpreter or pip, a package removed by a `pip` that did not replace it, `pip`
itself included. Between commands the operator may remove a `.venv`, or make, repair and
fill one by hand (`ChangeByHand`), as the messages of `plugin_env.py` ask for.

## 3. Runs

TLC finds no error in any of them. Bounds are CONSTANTs of the modules.

| Run | Bounds | Shows |
|---|---|---|
| `ComputeManager` | 2 producers, 2 samples each, 2 resets, result buffers of 2, error callback may raise | `ResetDriftBounded`, `StaleResultsBounded`; `IdleReturns` |
| `AlgorithmHarness` | 2 transport threads, 2 samples each, result buffers of 2, no reset | `ConsolidationComplete`, `ShutdownFlushes`, `WorkerOutlivesNoFile`, `ReportMatchesCapture`; `BarrierSpec` |
| `GatewayClient` | 2 requests, reads or scans, 2 devices, 2 ms, 1 close | `RightAnswer`, `PendingIsLive`, `ScanIsWhole`, `EventSkippedOnlyAfterEnd`; `ExchangeSpec` |
| `GatewaySession` | 2 calls, 1 close | `AckIsOwn`, `GreetsFirst`, `OneReader`, `PortIsKnown` |
| `FrameParser` | 3 items, chunks up to 6 bytes | `ParsesWhatWasSent`, `DamageIsContained`; `ReaderComesBack` |
| `GatewayAdapter` | 2 sensors, 2 ids, 2 unasked messages on the line, any message lost | `StatusTellsLink`, `LinkIsKnown`, `QuietDisconnect`, `FrameReachesItsSensor` |
| `SensorHarness` | 3 sensors: one polled, one that can be stopped, one that cannot; both backends | `ReturnMeansReleased`, `NoTaskOutlivesAdapters`, `AdaptersLeftOpenOnlyThere`, `CaptureMatchesCode` |
| `SystemTest` | 3 locations, 2 readiness attempts, 2 surprises | `AlarmsAreFatal`, `StreamLeftOnlyUnstopped`, `IdentifyIsOwn`; `RunEnds` |
| `IntermediateStage` | 3 sensors, 4 results each, buffers of 3 | `PairsInStep`, `StopsAtBound` |
| `AssignmentWizard` | 3 families, 3 algorithm plugins of 2 names, 3 locations, 3 sensors a subject, 1 change of the catalog | `PlanIsSound`, `CurrentIsTested` |
| `BuildBundle` | 3 names, 2 contents, 4 artifacts | `BundleIsTrue`; `OldSurvives` |
| `PluginEnv` | 2 plugins, 4 commands and changes by hand | `HarnessEnvIsReady`; `HalfMadeStays` |

Why these bounds are enough to meet the cases: two producers let one put
overtake the other's; a second sample of a producer lets order matter; two
resets let a drift carry over into the next reset. Two requests over two clock
values collide or do not; two scans, or a scan and a read, have a result between
another request's end and its own, and two devices let one be lost and one not.
The three sensors of `SensorHarness` are one of each kind that stops in its own way, and one may fail while the others are in any state. Two
ids let one be reused. A chunk of six bytes holds a JSON line and the start of a
frame, and smaller chunks cut everywhere; three items put damage between two good
ones. Two surprises let an error and a stray disconnect meet. Three locations let
one timeout shift two confirmations, the second behind a wait that did not time out. Two calls and one
close let two starts overlap, a start and a close, and a second session follow
the first. Buffers of three evict when the fourth result comes. Three families
over three locations include one that has no location and one that shares all of
another's, and counts that meet the limit of a subject; two plugins of one name, one with an
id that is not in lower case, hide each other, and the current plugin may display any name. Four artifacts of three
names give one name twice. Of four commands, one makes an environment, one is cut off
in it or a change by hand undoes it, one refreshes it, and one tests both plugins.

The properties name the exceptions that the code really has, and each was
reached by TLC before it was written down. In particular:

- `ResetDriftBounded`: each sample that a reset cuts off, in a producer's hands or with
  the worker, may be counted off once more when it is done.
- `StaleResultsBounded`: results of the earlier test that arrive after a reset are those
  of samples under way then: one that the worker held, and those outstanding when
  it ended. `renewed` tells them from the samples of the next test.
- `RightAnswer`, `PendingIsLive`: two requests of one prefix in one millisecond
  share an id, and may exchange or lose their answers.
- `ScanIsWhole`: what the line lost is missing, and nothing tells the caller.
- `EventSkippedOnlyAfterEnd`: the KeyError between the two lookups keeps an
  answer from the event handlers, for requests that had given up.
- `ConsolidationComplete`: the event was seen set, though it may be cleared again before the
  wait returns, so it speaks of the samples counted before the event was set; a raise of
  `disconnect_all` or the shutdown behind a wait that returned True skips the consolidation.
- `StatusTellsLink`: a disconnect handled between the answer of a connect and
  the turn of the loop that marks the sensor is overwritten; and a report that the line loses
  leaves the sensor marked as connected, since nothing else tells the adapter.
- `LinkIsKnown`: connect gives up after 10 s, its request after 15 s.
- `QuietDisconnect`: a reader that fetched the client before it was forgotten
  reports a disconnect that was asked for, once the flag is cleared.
- `FrameReachesItsSensor`: after a link dropped, its client keeps the id.
- `DamageIsContained`: a chunk that ends inside the magic costs that frame; a
  lost newline costs all that comes before the next line that ends, good frames
  included, and of the lines among it one object comes out. A body that holds a brace,
  an `A5` or a newline is outside it: what looks like a start in what is left of a
  damaged frame may take good items along, and a newline of a body ends an
  unended line early.
- `ReturnMeansReleased`: bleak may leave a link up and say so, and the run goes on.
- `AdaptersLeftOpenOnlyThere`: a run that finds too few sensors returns without a
  shutdown; an exception of the discovery itself, while connecting, of `disconnect_all` or of a
  failed polling task in the shutdown skips closing the adapters.
- `CaptureMatchesCode`: samples of a sensor without `stop_stream`, of one whose link dropped
  before `stop_all`, or under way when their stream was stopped come behind the summary: a
  run may return 2 though data came. They may meet a closed capture behind bleak, or if the
  gateway's close gave up waiting for its reader; behind an exception any sample may.
- `GreetsFirst`: a request of a second thread finds `started` set and goes ahead of the
  handshake; so does a second attempt after a start that raised, since
  `started` stays set.
- `AckIsOwn`, `OneReader`, `PortIsKnown`: the exceptions are the four `faults`.
- `PairsInStep`: once a buffer evicts, the index means another number in each
  buffer; `StopsAtBound`: after as many runs as a buffer holds (1000) no
  record is made any more.
- `PlanIsSound`: the wizard offers a count that ignores the locations
  other families took, and gives up when the operator accepts it.
- `PlanIsSound`, as to the algorithms: what a plan has was installed when it was offered, not
  when the plan is made; one name stands for two plugins in a plan if the catalog changed.
- `CurrentIsTested`: another plugin than that of the working directory is tested, without a
  word, if it is not installed here, does not go with what was chosen, is hidden by
  another of its algorithm name, or if another has the name that it displays and is listed
  first. An installed plugin is refused as not installed if its id is not in lower case and
  the core does not know the name that it displays.
- `OldSurvives`: a build that raises while it copies or zips has lost the old bundle.
- `BundleIsTrue`: one that raises while it zips leaves a bundle that can be
  installed, whose manifest, written after the artifacts, is true of it.
- `StreamLeftOnlyUnstopped`: a prompt cancelled or a wait that raised between start and
  confirmed stop leaves the core streaming.
- `IdentifyIsOwn`: a late event confirms the next identify, whose own event then confirms
  the one after it, and so on: one timeout may shift all that follow.
- `HarnessEnvIsReady`: without `--refresh-env` a harness starts in what a cut-off
  command left or the operator made; with it the environment is whole or the command fails.
- `HalfMadeStays`: no command repairs a `.venv` that lacks its interpreter
  or its pip, which an upgrade of pip that was cut off may take as well; the operator has
  to remove or repair it.

### Fairness

Liveness is checked under fairness of the code's own threads only. The worker
and a producer inside `ingest_sample` are never suspended for good
(`ComputeManager!Fairness`). The reader goes on while it has bytes
(`FrameParser`). In `SystemTest` the run goes on, because its waits have deadlines and the
operator answers prompts; nothing is assumed of the core. In the other modules
every wait has a deadline too, and a step that passes it is an action that is always
possible, so that termination says little there; what their properties say is
what is left behind when a deadline passed.

The type invariants are proved, as a part or a consequence of the inductive
invariants of section 4, and in no run. Neither is `CountExact`, which is proved too:
without resets `ResetDriftBounded` says the same.

Deadlock checking is off: every one of these programs has an end state (the run is
over, the calls made, the worker stopped, the bytes read, the bundle built, the commands given).

## 4. Proofs

TLAPS proves every safety property of section 3, for
every value of the constants: any number of threads, sensors, requests, calls,
locations, files, plugins, items on the line and bytes in a chunk, and every bound.
Where the theorem's name is not that of the property, the property is in brackets;
`TypeCorrect` (or `StageTypeCorrect`, `ParserTypeCorrect` and so on) stands beside each.

| Module | Theorems |
|---|---|
| `AlgorithmHarnessProofs` | of the manager: `ResetDriftIsBounded` (`ResetDriftBounded`), `CountIsExact` (`CountExact`), `StaleResultsAreFew` (`StaleResultsBounded`), `ImplementsBarrier` (`Spec => BarrierSpec` if `MaxResets = 0`); of the run: `ManagerRun` (`HSpec => Spec`), `RunIsBarrier` (`BarrierSpec`), `IdleMeansComplete` (`ConsolidationComplete`), `JoinFlushes` (`ShutdownFlushes`), `WorkerNeedsFiles` (`WorkerOutlivesNoFile`), `ReportIsTrue` (`ReportMatchesCapture`); of the environments: `LaunchedReady` (`HarnessEnvIsReady`), `HalfMadeIsForGood` (`HalfMadeStays`) |
| `GatewayClientProofs` | `OwnAnswer` (`RightAnswer`), `PendingExact` (`PendingIsLive`), `WholeScan` (`ScanIsWhole`), `SkippedAfterEnd` (`EventSkippedOnlyAfterEnd`), `ImplementsExchange` (`ExchangeSpec`) |
| `GatewaySessionProofs` | `OwnHello` (`AckIsOwn`), `HelloBeforeRequests` (`GreetsFirst`), `ReaderIsAlone` (`OneReader`), `PortAsStarted` (`PortIsKnown`) |
| `FrameParserProofs` | `ParserParsesWhatWasSent` (`ParsesWhatWasSent`), `ParserDamageIsContained` (`DamageIsContained`) |
| `GatewayAdapterProofs` | `StatusIsTrue` (`StatusTellsLink`), `NoLinkUnknown` (`LinkIsKnown`), `AskedForQuietly` (`QuietDisconnect`), `FramesReachTheirSensor` (`FrameReachesItsSensor`) |
| `SensorHarnessProofs` | `ReturnReleases` (`ReturnMeansReleased`), `AdaptersAreClosed` (`AdaptersLeftOpenOnlyThere`), `TasksEndFirst` (`NoTaskOutlivesAdapters`), `CodeMatchesCapture` (`CaptureMatchesCode`) |
| `SystemTestProofs` | `ErrorsFailTheRun` (`AlarmsAreFatal`), `StreamsAreStopped` (`StreamLeftOnlyUnstopped`), `IdentifiesAreOwn` (`IdentifyIsOwn`) |
| `SequentialProofs` | `StagePairsInStep` (`PairsInStep`), `StageStopsAtBound` (`StopsAtBound`), `BundleSaysTrue` (`BundleIsTrue`), `OldBundleSurvives` (`OldSurvives`), `WizardPlanIsSound` (`PlanIsSound`), `WizardTestsCurrent` (`CurrentIsTested`) |

Only `ImplementsBarrier` has a hypothesis of its own: a reset sets the event while
samples are outstanding. `RunIsBarrier` needs none, because the run never resets.
Apart from that the proofs use the named assumptions of the modules: bounds are natural
numbers, those that the code needs to be positive are; `None` and the shutdown token are
none of the things they are told from; the sensors of a run (`SensorsAreFinite`) and
the locations of the wizard (`LocationsAreFinite`) are finite; each file of the wizard's catalog
has a place of its own in the order (`NamedAlgorithms`); the files under
`artifacts/` have other names than those beside that directory (`NamesAreApart`); a body
is one or two bytes of the parser's alphabet (`BodiesOfFrames`).

### The arguments

None of the properties is inductive alone. Each module states the parts of its
inductive invariant one by one, with what each says, and proves for each that every
action keeps it.

**Compute manager** (`TypeInv`, `Ordered`, `Counted`, `StaleFew`). `TypeInv` adds to the types that
`Outstanding` is finite, without which its cardinality means nothing, and that the
worker holds a sample exactly in the states of a turn. `Ordered` says where the samples
of one producer are relative to each other: queued ones ascend, the worker's is older
than any queued one, the one in the producer's hands is the newest. So a counted
sample is new, no sample is in two places, and `FinishSample` removes exactly one from
`Outstanding`. `Counted` relates the count to the cardinality, with the drift while a
reset is under way. `StaleFew` says that during a reset only the one sample whose
algorithm the worker had looked up can still be buffered. In the refinement of `WorkBarrier`, `CountSample` maps
to `Open`, `FinishSample` to `Close`, everything else to a stutter.

**Algorithm harness** (`HInv`). Every step of the run is a step of the manager or
leaves it alone, so all that was proved of the manager holds here. `TokenIsLast`: what was
queued before the token is ahead of it, and gone once the worker has stopped.
`CountedLater`: what is outstanding after the wait saw the event set (`SawIdle`: it has
returned True or is woken to do so) was counted later, so a consolidation that takes place
misses none that was counted before. `BuffersFollow`: a buffer is one
result behind the listener exactly between the two calls.

**Gateway client** (`IInv`). Ids are unique but for collisions, messages carry the id of the
message they answer (`MessagesAreGenuine`), a queue has messages of its request's id
only (`MessagesFit`). `ScansInOrder` is the chain of a scan: as long as the client has
the queue of the scan, each device that was reported and not lost is among the
matches, or ahead of the `done` in the queue, in the reader's hands or on the line.
In the refinement of `RequestReply`, `Register` maps to `Name`, `Send` to `Ask`,
`SendFails` and `TimeOut` to `GiveUp`, the gateway's `Answer` to `Reply`, `Receive` to
`Return` if the message ends the request; every other step loses answers or is a
stutter. That no answer ends two requests needs `AnsweredOnce`: each answer is on the
line, in the reader's hands or in one queue, and a request that the gateway has yet to
answer has none. It holds also with shared ids and through a close, where an answer may
reach another request of its id, but still only one.

**Gateway session** (`IInv`). The weight is on `AckIsOwn`, as all hellos share one id.
While starts do not overlap, the reset's answer is behind every earlier hello on the
line (`ResetIsBehind`), so none is left when it arrives (`HelloOnLine`), and the
entry under that id belongs to the last hello (`HelloIsLast`). A request is written once
(`WrittenOnce`), and its answer is for the call that waits for it (`AnswersAreOwn`).
`OpenerGreets`, `OneReaderAtMost` and `PortIsKept` are one argument each for the other three.

**Parser** (`ParserInv`). The buffer and what is unread are the end of what was sent
(`Follows`), and between two reads the buffer is `Incomplete`. The heart is `At(k)`: the
k-th item is the next. All items before it are dealt with, so that what was extracted
comes from those of them that survive; what is left begins with it, or with a few bytes
in which nothing begins (the rest of a frame that was damaged or split) and then it; and
no unended line reaches over it. A frame that was split counts as damaged only from then
on, so `At` also says that a split frame still to come was split by the chunk just read:
it is the last that the buffer holds a byte of. Each turn of `_extract_item` keeps `At` of
some item: the same, the next one (`StepTakeFrame`), or the one behind the line that
ends (`StepTakeJson`, from `LineOf`, which finds for the first newline the item that
ends there). The lemmas about bytes need two inductions that the library's theorems
cannot give: `Induction` is one over a set, from the least number that is missing, and
`FlattenFirst` unfolds `FlattenSeq`, the fold that `Bytes` is, from the left.

**Gateway adapter** (`IInv`). The loop works on one sensor at a time (`OneAtATime`);
what the loop and the gateway hold of a sensor follows from where the loop stands with it
(`FieldsOfOp`, `LinkOfOp`, `OneAnswer`). A link that is down has its report
behind its confirmation on the line, and then on its way to the status, or was
overtaken or lost (`EndIsBehind`, `DownIsReported`). An id that is known of a sensor is
that of its link or about to be forgotten (`IdIsOfLink`), so no other link has it
(`IdIsOwn`) and no frame of another sensor is behind it on the line (`FrameIsOwn`).

**Sensor harness** (`IInv`). `RaisedLeaves` says which exceptions can be on their way
at each point of the three nested finally clauses; the other parts follow tasks,
links, streams, samples under way and the summary from there to the end: a sensor that is
not `loose` has no stream, no sample in flight and no task behind `stop_all`.

**System test** (`IInv`). The core streams once (`OneStart`), and not after it has
drained (`DrainIsLast`). From the moment the core was ready the errors counted are those
in the queue (`AlarmsAreQueued`). An identify, or its event, is on its way once and outlives
its location's wait only if some wait so far timed out (`AskedOnce`, `EventsExplained`).

**Plugin environments** (`EnvInv`). A `.venv` has all its parts unless its last preparation was
cut off or is under way, or it was changed by hand since (`VenvsAccounted`), for which `InstallOrder` keeps track of the
packages; `TargetsServed` carries that over the targets of one test.

**Stage, builder, wizard**. `BuffersAreNewest` ties a buffer to the numbers its
sensor has yielded, which is what makes one index mean one number until the first eviction.
`ManifestOfArchive`, `ChecksumsOfArchive` and `ZipOfArchive` go from the archive to the
file; the order of the members gives that a bundle with a manifest has all
artifacts. `PlacesAreOccupied` (each sensor of the plan in a place of its own, and as many as
were counted) gives that the plan fits its subject: the locations of a family are short only
if some are occupied. `AlgorithmsGo` and `FirstIsCurrent` carry what was read for an
algorithm from the prompt to the assignment, for the other part of `PlanIsSound` and for
`CurrentIsTested`.

### What the proofs changed

An invariant that does not become inductive may be false.
`IdentifyIsOwn` first said that a wrong confirmation follows a timeout of the
location just before. Its proof failed on a step that two locations cannot show: after
one timeout all later events may stay one behind. With three locations TLC finds that
too, and the property now says so. `AdaptersLeftOpenOnlyThere` had passed over a
discovery that raises after it found enough sensors. Several type invariants said
too little to build on.

`DamageIsContained` was true of the run only because no body held a newline: the newline
of a body ends a line that lost its own, and the rest of that frame is garbage that the
property did not allow for. The bodies of the run now include one, and `Plain` excludes it.

### Only model-checked

- `IdleReturns`, `ReaderComesBack`, `RunEnds`: liveness rests on fairness and ENABLED,
  which are outside the prover.

## 5. What is not modelled

- The contents of samples, results and records; wording; CSV and JSON layout.
- Executors that an author writes, and what `ConsolidationStage` makes of its
  records: `AlgorithmHarness` leaves open whether a result yields a record.
- In `IntermediateStage`, `reset`, which nothing in the repository calls, and `get_results`,
  which the harness calls once at its end: `AlgorithmHarness` has it, as `Report`.
- In `SensorHarness`, samples that a plugin schedules itself, beyond those of a stream and of
  `request_sample`; in `GatewayAdapter`, damage that turns one message into another.
- The wall clock going backwards, on which deadlines and request ids of the gateway client
  depend.
- Which device becomes which sensor: the sensors of a harness run share one
  name, so that only the number of devices matters.
- The GATT calls of both adapters, which change no state of the harness; the
  loaders and configuration records, which are imports and data; the SDK's records.
- The templates of the scaffolding, the generated intermediate executor apart; parsing
  of arguments; the installer of nexus-n3-core.
- In `BuildBundle`, what a plugin writes into its manifest; the platform tags. In
  `PluginEnv`, versions of packages, and changes of a repository by its author.

## 6. Plan

Order of importance, first what exists:

1. `WorkBarrier`, `ComputeManager`, `AlgorithmHarness` and their runs. Done.
2. `GatewayClient` with scans, `FrameParser`, `GatewayAdapter`, `SensorHarness`
   with both backends, `SystemTest` and their runs. Done.
3. `GatewaySession`, `IntermediateStage`, `AssignmentWizard` with the inventory,
   `BuildBundle` with the installer, `PluginEnv` and their runs. Done.
4. Theorems: the types, safety invariants and action properties of all modules,
   and the refinements of `WorkBarrier` and `RequestReply`. Done.
5. One more abstract specification: a `TestSession` (sensors acquired and released)
   that `SensorHarness` implements for runs that return.
