# dc-net-lab in TLA+

A verification development kept beside the code of dc-net-lab, a platform that
builds virtual data-centre networks. A *controller* keeps labs, topologies, plans
and scenarios in a database and drives one *host agent*, which deploys containers
with containerlab; inside every server container a *node-agent* installs packages
and supervises programs. Paths below are relative to the repository.

Contents: [the parts](#the-system-and-its-parts), [the plan](#plan),
[the modules](#modules), [runs](#runs), [bounds](#bounds),
[fairness](#fairness), [proofs](#proofs),
[what the code is exposed to](#seen-while-modelling),
[what is not modelled](#not-modelled).

## The system and its parts

`controller/internal` is written `ci` here.

| Part | State | Operations | What is hard | Module |
| --- | --- | --- | --- | --- |
| program supervisor (`nodeapps/internal/nodeagent/manager.go`, `health.go`) | program objects under one mutex, `meta.json` per program, processes | Install, Start, Stop, Remove, Shutdown, boot; a supervise goroutine and two monitors per started program | the mutex is released around waits, spawns and probes; the agent may die between any two steps | `ProgramSupervisor` |
| package store (`pkgstore.go`) | unpacked versions, a marker per complete version | InstallPackage, RemovePackage, garbage collection | crash between delete and rename; references are read under one lock and used outside it | `PackageStore` |
| lab life cycle, plan and apply, power, observer (`ci/biz/lab.go`, `plan.go`, `plandiff.go`, `increment.go`, `power.go`, `ci/observer`) | lab document, node rows, plans, generations, containers | create, update, plan, rollback, apply, repair, power, delete, sweep | whole-document writes of stale copies; an apply that fails or dies half way | `LabChange` |
| operations (`ci/operation`, `ci/server/operations_ws.go`) | operation documents, subscriber channels | create, run, report, publish, subscribe, snapshot | drop-oldest channels, subscription between store and publication | `LabChange` (their steps), `OperationFeed` (their documents) |
| builder, allocators, compilers, driver (`ci/topology`, `ci/allocator`, `ci/compiler`, `agent/internal/clab`) | resources carried from one build to the next; containers, veth pairs, ports, configurations | build, preview, increment, deploy | holes in pools after a scale-in, an increment that stops at any item | `FabricBuilder`, `FabricScaling` |
| programs and packages of a lab (`ci/biz/program.go`, `package.go`) | program records, definitions on the node-agents | create, start, stop, upgrade, delete, list, restore, prune | two copies of one truth and calls whose reply is lost | `LabPrograms` |
| traffic scenarios (`ci/biz/traffic.go`, `ci/traffic`) | scenario records naming two programs | create, start, stop, delete, prune, sample | several program operations in one call, on programs others use too | `TrafficScenarios`, on top of `LabPrograms` |
| fault scenarios (`ci/biz/fault.go`) | scenario records, the state of a node and of a link | create, apply, recover, delete, prune | check-then-act on "target is free"; partial application and recovery | `FaultScenarios` |
| packet capture (`ci/capture`, `ci/biz/capture.go`, `ci/server/capture_ws.go`) | session record, live session, subscriber channels | create, stop, delete, read, push, follow | snapshot and stream must fit together; channels closed while written | `CaptureSession` |
| metrics (`ci/metrics`) | window of points, hourly shard files | collect, query | crash in a write, retention | none |
| capture decoding, node CLI, traffic generator, gRPC surfaces, web front end | none of their own | conversion, rendering, socket I/O | | none |

The parts meet in the database (every use case reads and writes whole documents
through one SQLite connection, so a statement is atomic and a use case is not), in
calls (an apply prunes and restores programs, scenarios and faults; a traffic scenario
creates programs; programs are installed through node-agents) and in channels (an
operation's subscribers, a capture's viewers). The hazards each part is exposed to are
listed, line by line, in `PROJECT.json`.

## Plan

Done, in this order: `ProgramSupervisor` and its proofs; `LabChange` and its proofs;
`PackageStore`; `LabPrograms`; `TrafficScenarios` composed with it; `FaultScenarios`;
`CaptureSession`; `OperationFeed`, its abstract specification `LatestFeed` and the proof
of the refinement; `FabricBuilder` and `FabricScaling`; the proofs of `CaptureSession`,
`FaultScenarios`, `LabPrograms` and `PackageStore`, and of the remaining safety
properties of `ProgramSupervisor`, `LabChange` and `OperationFeed`; the proofs of
`TrafficScenarios`, on top of those of `LabPrograms`, and of `FabricBuilder` and
`FabricScaling`. Every safety property of the runs is now a theorem.

Left, in this order:

1. the shards and windows of the metrics history, with their crash recovery;
2. an abstract program life cycle that `ProgramSupervisor` implements and that
   `LabPrograms` uses in place of its own picture of an agent.

## Modules

### ProgramSupervisor

Models `nodeapps/internal/nodeagent/manager.go` and the probing loops of
`health.go`, and the shutdown sequence of `nodeapps/cmd/node-agent/main.go`.

*State.* `programs` is `Manager.programs`; `obj` the `*program` objects (Install
makes a new object for a name it replaces, so a goroutine may still hold the old
one); `run` the supervise goroutines, one per `cancel`/`done` pair that
`startLocked` makes, with `lmon` and `rmon` for the monitors started beside each;
`rpc` the handlers that are inside Stop or Remove, and `rpc[Main]` the agent's
Shutdown; `disk` the `meta.json` files; `owner` what the kernel knows (which
program each process group was spawned for); `todo` and `bootWrite` the loop of
`NewManager`.

*Steps.* One step is one critical section of `Manager.mu`, or one thing that
happens between two of them and that others can see. Install, Start and the first
half of Stop are one critical section each. `terminate` is look-up, cancel and a
wait that ends by `done` or by timeout. `supervise` waits, decides under the lock,
sleeps, spawns *outside* the lock and publishes the new pid under it. A probe is
sent under no lock and its verdict is recorded later. `NewManager` runs before the
gRPC server and does not take the lock at all, although the goroutines it starts
do: its marshalling and its write are separate steps (`BootMarshal`, `BootPersist`).

*Crashes.* `Crash` may happen between any two steps. `CrashAfterSpawn` is the
crash inside Start between the spawn and the write of the pid, `CrashInPersist` the
one inside `os.WriteFile`, which truncates before it writes. All memory is lost,
processes and files stay.

*Abstractions.* A process group is one process. The verdict of a probe is any
verdict. `obj`, `run` and pid identities are slots that are reused as soon as
nothing refers to them, so executions are unbounded while the state is finite. A
call that returns an error without changing anything is a stutter and has no
action. `raced` in `rpc` is a history field: it remembers that a Start of the same
name was accepted while the Stop was in flight. The end of `supervise` and the
closing of its `done` channel are one step. Log files and failures of the disk
other than a crash are left out.

### LabChange

Models the change flow of one lab: `biz/lab.go`, `biz/plan.go`, `biz/plandiff.go`
(identities), `biz/increment.go`, `biz/power.go`, `operation/operation.go`,
`observer/observer.go` and the tables of `data/` in the controller, and the effect of
the agent's containerlab driver on containers.

*State.* `lab` is the row of table labs (generation, phase, spec), `rows` the node
rows, `plans` and `gens` the tables of those names, `ops` the operations (the last
one of every worker), `dirs` the artifact directory of each generation, `cont` the
container of each node on the host. `work[w]` is a request, or the goroutine of the
operation it started: `pc` says where it is, and `lab`, `rows`, `nodes`, `gen`, `base`
and `plan` are the copies it holds since it read them. `sweep` is the observer's sweep
with the copies it holds.

*Steps.* SQLite has one connection, so a database call is atomic and a use case, a
sequence of calls, is not. A step is one write, with the reads just before it where
nothing depends on the gap, or one container changed. All writes are those of whole
documents: `FinishLab`, `PlanPhase`, `TopologyWrite` and `Reconcile` store the copy
that was read when the request or the sweep began, with one or two fields amended.
That, and not a lock, is how these use cases interact.

| Code | Actions |
| --- | --- |
| `CreateLab`, `UpdateTopology` | `CreateLab`; `TopologyRead`, `TopologyWrite` |
| `CreatePlan`, `CreateRollbackPlan` | `PlanRead` or `RollbackRead`, then `PlanReplace` (rows), `PlanRecord` (plan), `PlanPhase` (lab) |
| `ApplyPlan` | `ApplyRead`, `ApplyStart`; operation steps `ApplyPrepare`, `ApplySave`, `DeployBegin`, `ClearNode`/`AddNode`, `AddDone`, `RemoveNode`, `RemoveDone`, `Validate`; onDone `FinishRows`, `FinishLab` |
| `RepairLab` | `RepairRead`, the deploy and validate steps, `FinishLab` |
| `powerLab`, `powerNode` | `PowerLab` or `PowerNode`, `PowerStep` per container, `PowerDone`, `FinishRows`, `FinishLab` |
| `DeleteLab` | `DeleteRead`, `DeleteStart`, `RemoveNode` per container, `DestroyDone`, `DeleteResources` |
| `operation.Manager.Run` | `StepFails` (any step of any operation), `Report` |
| `Observer.sweep`, `sweepLab`, `reconcile` | `SweepLab`, `SweepNodes`, `Reconcile` |
| death of the controller | `Crash`: requests and sweep are gone, the tables and the containers stay |

*Abstractions.* One lab. A topology is its set of node names: links, addresses, images
and configuration text are left out, so the unsupported link removal of
`buildIncrement` is one more way for the deploy step to fail. A node is known by
its name; the ids that `carryOverIdentity` keeps are the names here, so a row that was
dropped and planned again is the same row. Whether the driver does its work is a
choice: a step may fail before or after any container it changes. A full deploy runs
with `--reconfigure` and ends with exactly the containers of its directory. Validators
pass only when the container of every node of the plan runs (they may still fail
then). Steps of an apply that leave this state alone (pruning of programs, internet,
capture tool, restoring of programs) are part of `Validate`. In a sweep, whether a
node's metrics changed is a choice, because it decides whether the row is written.
Progress, `LastError` and step rows are left out. Requests that are refused change
nothing and have no action; failures of the database other than a missing row are
left out.

### PackageStore

Models `pkgstore.go`: the version directories of one package with the digest in their
marker and the archive their entrypoint came from (`dir`), their order by modification
time (`newer`: for each directory the ones that are newer), the operation that holds `pkgMu` (`op`), and the programs that pin a
version (`programs`). InstallPackage is a fetch, an unpack into `<version>.tmp`, the
marker, the removal of the old directory, the rename and the garbage collection; a
removal unlinks file by file in any order, and `Crash` may come between any two.
`Manager.Install` checks the entrypoint and registers the program in two steps and does
not take `pkgMu`: `late` remembers who registered after the references were read.
Download and unpacking are one external step with its failure. Linking the version's
binaries may fail after the rename (`LinksFail`), and the install then returns without
a garbage collection. `gcPackageLocked` deletes in the order it sorted, newest first.

### LabPrograms and TrafficScenarios

`LabPrograms` models `biz/program.go` and the statements and agent calls it makes.
`rows` is table programs, `agents` the definitions on each server's node-agent, `call[c]`
a handler with the record it read and where it is. A step is one statement or one agent
call; every call may fail with or without effect. A listing asks one server after
another (`QueryAgent`, `read` is what is left); records are walked in the order of their
names, and records of different servers with the same name in any order (`Listed`). A
process may exit by itself, which leaves a program wanted or not as it was, but for a
oneshot, which is done (`ProcessExits`). `AfterInstall`, `DesiredAfterStart`
and `AbortUnlessCreate` are the conditions on which create, start, upgrade and restore
differ; `ApplyPlan` with `DeployTopology`, `ListForPrune`, `PruneProgram`,
`ListForRestore` and `RestoreNext` is the part of an apply that concerns programs, and
`RepairLab` the one that recreates agents and restores nothing. `alone` is a history
field: no other handler was in flight.

`TrafficScenarios` extends it: `flow[c]` is what handler c does for a scenario, around
the program operation it is in (`call[c]`), so the two run in one call stack while other
handlers delete the same programs or apply a plan. `PruneScenario` suspends the apply
that runs it (`suspended`), and `FlowReturns` resumes it: from then on it overlaps what
is in flight at that moment, as any request that begins does. Only one apply of a lab is
admitted at a time, so no other begins while one is suspended. The collector holds in `sample` the document it listed and stores it whole
(`StoreSample`); an expired scenario is stopped by an ordinary stop. Points, assertions
and rates are part of the document that no property tells apart.

### FaultScenarios

Models `biz/fault.go` with the driver's fault commands: one node (`paused`) and one link
with two ends (`down`, `netem`), because faults of different targets do not meet; `rec`
the scenario records, `topo`, `base`, `live` which targets are recorded, deployed, there.
An apply works one end of the link after the other, with the rollback of the first when
the second fails; `node-restart` is a stop and a start. Plans prune scenarios of
removed targets; power operations undo or repeat a pause. `raced` remembers that two
operations overlapped.

### CaptureSession

Models one session: `row` its record, `ls` the live session in `Manager.live`, `reader`
the goroutine of `run`, `pusher` the one of `pushLoop`, `handler` the stops and deletes,
`viewer` the WebSocket connections with their channel. Rows are indices, a batch is an
interval; decoding is left out. A send on a closed channel is `SendPanics`, after which
the controller restarts (`Restart` marks the record Failed as `NewCaptureUsecase` does).

### OperationFeed and LatestFeed

`OperationFeed` models `operation.Manager` as its clients see it: `op[o]` is the goroutine
of an operation with the document it changes, `store` the rows, `sub[s]` a connection of
`operationsHandler` with its channel and what it has written so far. To persist is two
steps, the statement and the publication. A deletion's last step takes the rows of all
operations along. `LatestFeed` is the promise of `Subscribe`: "a slow consumer misses
intermediate updates but always receives the newest one", with frames as numbers in
the order they are published. The refinement mapping takes the number of the frame a
connection received last; `lost` is a history field that says which operations' newest
frame was dropped unread.

### FabricBuilder and FabricScaling

`FabricBuilder` is operators only: the nodes and links of a spec in the order `Build`
makes them, `Assign` for every pool (loopbacks, point-to-point and rack subnets, ASNs of
a role, rack numbers of a pod, interfaces of a node), what a rendered configuration
depends on (`Conf`), the preview (`Updates`) and the increment (`Increment`). A resource is
its place in its pool, so `Restore`'s high-water mark and exhaustion keep their
arithmetic and address text is left out: a build gives an owner what it holds, or the
high-water mark plus its turn among the owners that hold nothing, in the order the build
comes to them (`Turn`). `IsSpec` is what the controller accepts as a spec; that pods have
names of their own, which `fillPodNames` and the validation see to, is what keeps nodes
apart.

`FabricScaling` deploys what they compute. `live` is the runtime: containers, veth pairs,
ports in bridges and bonds, running configurations, and veth ends that a removed
namespace has not released yet (`stale`). An increment is its six phases; within a phase
items run in parallel, so an apply that fails has done all phases before, the items of
one but for some that are left (`Left`, at most `MaxLeft` of them), and nothing after.
Of the items that are left some may have been cut off half way (`cut`): a leftover
container of the same name is then removed and not created again, interface names are
freed and the veth pair is not made. A setup command is one item per port; containerlab
makes a veth pair or fails. Before the first plan and after an apply no plan may be
applied (`plan` is "none"), and before the first apply the base of a build is `Nothing`.
`tried` and `moved` are history: failed
applies of other topologies, and links that a rollback left on other interfaces.

## Runs

| Run | Asks |
| --- | --- |
| `supervisor_stop` | can handlers, exits, respawns, crashes and boots leave two goroutines on one object, a Running object nobody serves, or a pid that is not the process waited on (`SupervisionInv`); does a Stop that succeeded hold, with two of them and reinstalls between their two look-ups (`StopHolds`); does every process belong to an installed program (`NoOrphanRun`); is acknowledged intent on disk at every moment a crash can strike (`DesiredIsDurable`); does shutdown leave it alone (`ShutdownKeepsDesired`) |
| `supervisor_live` | with checks, tasks and Remove: does a failure count ever reach the threshold it should have acted on (`TypeOK`); does a cancelled goroutine end (`CancelledRunEnds`); does a backoff end (`BackoffEnds`) |
| `lab_sequential` | one client at a time, with rollbacks, failures and crashes: is the deployed snapshot there when the next plan needs it (`DeployedIsRetained`) |
| `lab_concurrent` | two requests with their copies: can one bring Applying back (`ApplyingIsUnderWay`); can a client see a succeeded apply and its plan still pending (`ReportedIsFinal`); does a lab leave Applying, whatever fails and whoever else writes (`ApplyingEnds`) |
| `lab_drift` | does the observer make a steady phase true again after failures, a crash and operations that raced with a sweep (`DriftIsCorrected`, `TypeOK`) |
| `package_store` | can a crash mix two archives in one directory (`NoMixedVersion`); can a removal take a version that was pinned when it looked (`RemovalSparesReferences`); can the garbage collection evict what it runs for (`FreshInstallSurvives`) or leave more than it may (`GarbageIsBounded`) |
| `lab_programs` | do record and agent agree after an operation that overlaps no other, whatever came before (`SerialOpSettles`); does an apply bring programs back (`ApplyRestoresPrograms`); can races double a record (`OneRecordPerServer`) or revive one (`DeletedStaysDeleted`) |
| `traffic` | is a start, stop or delete of a scenario all or nothing (`FlowIsAllOrNothing`); does a failed start or a deletion leave programs behind, among other requests too (`NoProgramLeftBehind`) |
| `faults` | do record and network agree after an operation that overlaps no other (`SerialFaultSettles`); one fault per target (`OneFaultPerTarget`); no fault on a removed target (`NoFaultOnRemovedTarget`) |
| `capture` | does Running mean that something captures (`RunningIsCaptured`); does a stop that waited report the outcome (`StopReportsOutcome`); can a viewer miss rows or the end unawares (`FeedIsComplete`); does a reader end though viewers do not read (`ReaderEnds`); `TypeOK` |
| `operation_feed` | does the feed implement `LatestFeed` (`ImplementsLatestFeed`) and catch up (`ClientCatchesUp`); is what a client is shown the stored document, wherever its subscription fell (`ShownIsCurrent`); does progress only grow, to 100 at success, and is a final document final (`ProgressMovesForward`) |
| `fabric_scaling` | is a resource ever used twice (`NoResourceShared`) or taken from a survivor (`SurvivorsKeepTheirs`); does the preview name every node the apply reconfigures (`PreviewIsComplete`); does an increment, repeated after a failure too, end where a deploy from scratch would (`IncrementEqualsDeploy`) |

All hold. `supervisor_stop` is run without Remove: Remove is a Stop and, after the lock
was released, a delete, so it breaks `NoOrphanRun`, and a delete and reinstall between
the two look-ups of another Stop breaks `StopHolds` in the same way. Properties that say
"overlaps no other" are stated so because the use cases take no lock and the code makes
no promise about overlapping ones; the overlapping operations are in the runs all the
same, and are what the state before such an operation comes from. `PackageStore`,
`LabPrograms` and `FaultScenarios` have a `TypeOK` that documents their state and is part
of the invariant that is [proved](#proofs); the one of `OperationFeed` holds on the
instance of the run and is not asked again there.

## Bounds

*ProgramSupervisor.* One program name; two objects and two runs are enough for an old
incarnation to overlap a new one; the third would have to overlap both, and `Install`
and `Start` refuse while the object says Running. Two process ids let an orphan live
beside an instance, two clients let two Stops overlap. `FailureThreshold` is 2, the
least value for which counting matters. Slots are interchangeable, so the safety run
uses symmetry; the liveness run has one object and one run and uses none.

*LabChange.* Two nodes and the topologies `{a}` and `{a, b}` are enough to scale out,
scale in and fail with one of two containers done; three plans and three generations
give a rollback and the pruning of a snapshot, with `Retained` 2 instead of 10 (the
least value for which the deployed and the next snapshot both stay). Two workers are
the least that overlap; `lab_concurrent` has one node, since its questions are about
documents and not about containers.

*PackageStore.* Two versions and two digests of each with `KeepVersions` 1 instead of 3
fill and overflow the store; one program pins one of them. The number of operations is
not bounded.

*LabPrograms, TrafficScenarios.* One server, one auto-start program with two versions,
two handlers, two records ever created (a name deleted and created again). Traffic: one
scenario, three records: the two of a start and one made by hand that has the client's
name, so that starts fail at their second half; a sample is taken only just before a
flow writes the document, because one that spans no such write stores what is there, and
while no other handler is at work; a plan or a deletion by hand overlaps scenario flows,
but not another of its kind (`LabPrograms` has those), and it does not begin during a sample.

*FaultScenarios.* `node-stop`, `link-down` and an impairment of one end, with two
handlers and plans that remove the link. With `node-restart` in place of `node-stop` the
properties hold as well (1.6 million states); all four at once are too many for a run.

*CaptureSession.* Two packets, one pushed batch before the last flush, a channel of one
event (32 in the code), two handlers, one viewer that may leave and join again.

*OperationFeed.* An apply of one step and a destroy of two with weights 2 and 1, a
channel of two frames (8 in the code), progress counted to 1 rather than 100: the first
of the destroy's steps then leaves it at 0 and only a report of the second moves it. The
proof has no bounds.

*FabricScaling.* Four shapes that add and drop a pod, a spine, a rack, a super spine and
a server; four plans, two edits, one failed apply among the first two, of whose phase
one item is left (`MaxLeft`), done to no part or cut off. One that is left is enough for
the end it should have released or made to be missing; the theorem is about any number.
Pools are as large as the largest sequence needs, so that exhaustion happens in some.

## Fairness

`FairSpec` of `ProgramSupervisor` asks weak fairness of `Supervise(r)`, the steps of one
supervise goroutine: the Go scheduler runs every goroutine that can run, its timers
(`stopTimeout`, the backoff) fire, and SIGKILL ends a process group. Nothing is assumed
of clients, probes, or of processes, which may run for ever and ignore SIGTERM.

`FairSpec` of `LabChange` asks weak fairness of `Execute(w)`, the steps of the goroutine
of one operation: each step's context has the operation's timeout, so a step ends or
fails (and then some step of `Execute(w)` is taken). Nothing makes a step succeed. Node
power requests are part of `Execute` as well; their call to the agent has the request's
deadline. `ObservedSpec` adds weak fairness of the observer, a loop on a ticker whose
calls have timeouts.

`CaptureSession` asks weak fairness of the reader (`Run`, with the panic it may run
into): its stream ends, because the capture program stops by itself after the
`--duration` the session always passes (at most ten minutes), and the reader's own steps
never wait for viewers. `OperationFeed` asks weak fairness of a
connection whose client reads (`Connection(s)`). Clients are never obliged to do anything.

## Proofs

Eight modules hold the proofs; each extends the module it is about, and
`LabProgramsProofs` the one composed with it, `TrafficScenarios`, as well. Every theorem is
about the specification the runs check, for every value of the constants that the named
`ASSUME`s of its module allow: any sets of names, programs, handlers and slots, any
bounds. (The assumptions say that numbers are numbers, that some sets are finite, that
`None` is no document, what `Type` maps scenarios to, and that specs are those the
controller accepts, `IsSpec`; TLC evaluates them on every run.)

| Theorem | States | Under |
| --- | --- | --- |
| `ProgramSupervisorProofs`: `SupervisorTypeOK`, `OneSupervisorPerProgram` | `[]TypeOK`, `[]SupervisionInv` | |
| `StoppedStaysStopped`, `NoProcessIsLost`, `AcknowledgedIsDurable`, `ShutdownIsNoStop` | `[]StopHolds`, `[]NoOrphanRun`, `[]DesiredIsDurable`, `ShutdownKeepsDesired` | nobody calls Remove |
| `LabChangeProofs`: `LabTypeOK`, `FinishedIsApplied` | `[]TypeOK`, `[]ReportedIsFinal` | |
| `NoStrandedApply` | `[]ApplyingIsUnderWay` | the controller does not die |
| `BaseIsRetained` | `[]DeployedIsRetained` | one request at a time, no observer |
| `PackageStoreProofs`: `VersionsAreWhole`, `InstalledSurvives`, `CollectionIsComplete`, `PinnedIsSpared` | `[]NoMixedVersion`, `[]FreshInstallSurvives`, `[]GarbageIsBounded`, `RemovalSparesReferences` | |
| `LabProgramsProofs`: `NamesAreUnique`, `SerialOperationSettles`, `ApplyRestores`, `DeletionIsFinal` | `[]OneRecordPerServer`, `[]SerialOpSettles`, `[]ApplyRestoresPrograms`, `DeletedStaysDeleted` | |
| `FlowSettles`, `NothingLeftBehind` (of `TrafficScenarios`) | `[]FlowIsAllOrNothing`, `[]NoProgramLeftBehind` | |
| `FaultScenariosProofs`: `TargetHasOneFault`, `SerialOperationSettles`, `PlanPrunesScenarios` | `[]OneFaultPerTarget`, `[]SerialFaultSettles`, `[]NoFaultOnRemovedTarget` | |
| `CaptureSessionProofs`: `TypeCorrect`, `RunningHasReader`, `StopSeesOutcome`, `FeedHasNoHole` | `[]TypeOK`, `[]RunningIsCaptured`, `[]StopReportsOutcome`, `[]FeedIsComplete` | |
| `OperationFeedProofs`: `FeedImplementsLatest`, `ClientIsCurrent`, `ProgressIsForward` | `ImplementsLatestFeed`, `[]ShownIsCurrent`, `ProgressMovesForward` | |
| `FabricScalingProofs`: `ResourcesAreUnshared`, `ScalingKeepsSurvivors`, `PreviewListsAll`, `IncrementsAreDeploys` | `[]NoResourceShared`, `SurvivorsKeepTheirs`, `[]PreviewIsComplete`, `[]IncrementEqualsDeploy` | |
| `HistoryIsSound` | `[]FInv` (desired and saved topologies are sound) | |

The hypotheses are needed, and each is one of the runs' own constants. Remove is a Stop
and, after the lock was released, a delete: what is started in between is lost. Nothing
takes up an apply that a crash cut off. And a sweep, or a second request, that began
before two applies writes back a lab whose generation has been pruned since.

*ProgramSupervisor.* The inductive invariant is `IInv == TypeOK /\ References /\
SupervisionInv`. `SupervisionInv` is nearly inductive, but the actions reach objects
through the program map, through handlers in flight and through the goroutines, and they
write into whatever they find there: `References` says that none of these references is
ever to a slot that has been given to someone else (a name maps to an object with that
name, a handler waits on a run of an object it may name, a monitor is on only for a run
that has an object). Without it an induction step could start from a state in which
`Stop` cancels the goroutine of another program. The second layer, `JInv == NoRemove /\
NoOrphanRun /\ Stops /\ Recording /\ Marshalled`, is inductive relative to it. `Stops`
says what a Stop in flight that no Start overlapped knows after each of its critical
sections: the object it holds has the name and is desired Stopped, the only run left
under the name is the one it cancels, and at the end there is none. `Recording` says that
the file of a program has its spec and, except for what `NewManager` has yet to write,
its desired state, as far as no step of the supervisor changed that in memory only;
`Marshalled` that what the boot is about to write agrees in the same sense.

*LabChange.* The inductive invariant is `IInv == TypeOK /\ References`. `TypeOK` alone is
not inductive: a worker whose `pc` says it writes the next generation must hold a
generation below the bound, one that amends a lab document must hold one, and so on.
`GoodWork` says what a request has read by the step it is at, `PlanRefs` that plans have
a base below the bound, `SweepRefs` that a sweep holds a lab that was not Applying.
`NoStrandedApply` then rests on one observation per action (`Harmless`): a step leaves
the lab and every apply under way alone, or leaves an apply under way, or writes a phase
other than Applying. The other two results share an outline of the steps that write no
table: a request begins (`Begin`) or an operation goes on (`Glide`). `FinishedIsApplied`
needs `Reporting`: a running operation has its row (`Accounted`), which names a plan that
exists and is applied once onDone is past; every row of a finished apply still does
(`Filed`); and a plan that is being made is known to its request only (`Private`), so that
`PlanRecord` overwrites no plan that was applied. `BaseIsRetained` needs `Retention`:
snapshots reach at most one generation beyond the deployed one, so that two newer ones
never push it out, a request in flight works on the deployed generation, and an apply
that deploys has its own snapshot saved (`Held`).

*PackageStore.* `IInv` adds to `TypeOK` and `NoMixedVersion`: modification times are a
strict total order of the existing directories (`Ordered`); what the operation that holds
`pkgMu` finds in its directories at each step (`Installing`, `Collecting`: the fresh
version is complete and newer than all others); that what is left to delete exists, once
(`Doomed`), and is pinned by no program that had registered when the references were read
(`Spared`). `CollectionIsComplete` counts: the directories that are kept although no
program pins them have fewer than `KeepVersions` newer ones, and in a finite strict order
at most that many have.

*LabPrograms* and *FaultScenarios.* Both invariants have the same shape: for each
operation in flight the steps it can be at and the document it works on (`InStep`); what
it has achieved so far, as long as nothing overlapped it (`AloneOK`), which at its end
is the claim; and, for programs, how the documents it read relate to the records as they
are now (`Held`: ids are never reused and a record never changes name or server, so a
stale document can be written back only to the record it came from), with `Room` for the
ids of creations in flight. For faults `Serial` says what holds as long as no two
operations have ever overlapped: at most one record per target is Applied, and the
network shows that fault and no other. The walks over records (prune, restore) are
sequences of distinct records; what has been walked is done and what is left is listed,
which needs no induction over the sequence.

*TrafficScenarios.* `TInv` is the invariant of `LabPrograms` and what each flow knows.
`Runs` says which program operation can be in the handler's call at which step of the
flow, and `Removes` what a start that rolls back and a deletion have achieved among the
records, whatever other handlers do: ids are never used again, so a record that is gone
stays gone, and the one operation that can still be removing it is the flow's own
(`Erased`). `NothingLeftBehind` follows. `Settles` says more of a flow that overlapped
nothing: a start has added exactly the records it names to those it found (`Creates`), and
the scenario's document is what was written last. A step of one handler is shown to the
flows of the others as `Grows`: the tables only grow and what is gone stays gone.

*CaptureSession.* `TypeOK` is inductive. `Lifecycle` says what the place of the reader's
goroutine implies for the record, the live session and the handler that creates it;
`RunningIsCaptured` and `StopReportsOutcome` follow. `FeedIsComplete` needs `Feed`: in
each channel every batch follows on the ones before it and on what the client has
(`Covered`), the next batch of the push loop follows on the last of them, and the end
event is last.

*OperationFeed.* For the refinement `Ordered` is inductive: the frames of a channel are
numbered in ascending order, above what its connection received last and not above what
was published, and a connection is detached exactly when its number is -1. A publication
appends the highest number, whether or not the oldest frame was dropped for it, so `Push`
preserves it (`PushOrdered`); the head of a channel is then a later frame, which is what
`Receive` of `LatestFeed` asks for, and every other step maps to an attachment, a
detachment, a publication or a stutter. `ClientIsCurrent` needs what the frames carry:
`CInv == Ordered /\ Shaped /\ Current`, where `Current` says that of each operation with
nothing left to publish the newest frame in a channel, or the view when none waits, has
the document of the operation, and that the row has it from the statement on.
`ProgressIsForward` rests on `OnBar`: the progress during a step is at most the percentage
after it, and between steps it is the percentage of what is done. That
percentages increase with the steps is a fact about sums of weights.

*FabricBuilder and FabricScaling.* The proofs go from what is computed to what is stored
and then to what runs.

The sequences that a spec gives have the nodes and links of the sets `NodeSet` and
`LinkSet` (`NodesRange`, `LinksRange`), and whether two nodes are linked depends on those
two nodes alone (`Linked`). An allocation keeps what its owners hold and gives the others
numbers above the high-water mark, by their turns, which differ (`Assigned`); so if
nothing that is held is held twice, nothing is given twice. A topology is `Sound` when it
has exactly the links its nodes call for, both leaves of every rack, one network on all
nodes of a rack, and nothing shared. A build on a sound topology is sound (`BuildIsSound`)
and keeps what both have (`Keeps`). `FInv`, that the desired topology and every saved
generation are sound and that a pending plan to scale keeps what is deployed, is inductive
then, and the first three theorems follow from it. Without the rack networks and the leaf
pairs in `Sound`, rack numbers and subnets could come from leaves that no build would
make.

For the last one the runtime is `Physical`: no interface is in two pairs, none that
lingers is in a pair, and every port in a bridge or bond lingers or is an end of a pair
inside a rack. Every step of a deploy keeps it so. A deploy is described by its result
(`Run`, `DeployIs`): which containers, pairs, ports and configurations it leaves when each
phase has done the items in a set and cut off those in another. From a runtime that lies
`Between` the base and the target of a plan (what both have is up, wired and in its bridge
or bond, and nothing is up or wired that neither has; a survivor's configuration is that
of one of the two) a deploy that stops anywhere leaves one that still does (`PartialRun`),
and one that does not stop has the target, and is as far on the way to any other topology
as it was (`FullRun`). A runtime between a topology and itself is that topology deployed,
but for what lingers (`SettledIsFresh`). The inductive invariant `RInv` adds to `FInv`
that the runtime is what the deployed generation and a failed apply can have left
(`Incremental`): with none, a runtime between that generation and itself; with one
topology tried, a runtime between the two. The failed apply may leave and cut off any
items of any phase.

Each of these invariants was checked by TLC on small instances before it was proved. Three
attempts showed a model to be wrong: `LabPrograms` let a program that exits by itself
after a stop count as wanted again (manager.go:599 keeps it stopped), and it walked
records of different servers with one name in one order only; and `TrafficScenarios` let
an apply go on after the deletion of a scenario as if it had overlapped nothing meanwhile.

What a recursive sum or a concatenation computes is proved by a least counterexample: were
there a number for which it fails, there would be a least one (`LeastNatural`, from the
library's `WFMin`), and the step from the number before it refutes that. The provers
cannot instantiate the induction theorems themselves.

Only model-checked: liveness (`ApplyingEnds`, `DriftIsCorrected`, `CancelledRunEnds`,
`BackoffEnds`, `ReaderEnds`, `ClientCatchesUp`), because fairness and ENABLED are beyond the
prover.

## Seen while modelling

What the code does in behaviours of the modules, against a comment, a doc or what one
would expect. None is among the properties of a run; each is reached in the model when
the exception it names is taken out.

Program supervisor and package store:

- a Start between the two halves of Remove (manager.go:341, which comes after the Stop of
  :332) leaves a process that nothing can stop;
- `NewManager` persists without the lock (manager.go:169): a oneshot that completes
  meanwhile (:610, :715) is written back as desired Running;
- a readiness verdict recorded during the backoff (`setReady`, manager.go:483) leaves a
  program that is then stopped or fails to spawn "ready";
- monitors outlive a supervision that ended by itself (`startLocked`, manager.go:422
  overwrites `p.cancel`); after the next Start two sets of them probe one program;
- a crash between the spawn and the write of the pid (manager.go:263) leaves an orphan
  that the next boot does not kill and starts a second instance beside;
- the marker is to say that a version is complete (pkgstore.go:29-31); a crash inside
  `os.RemoveAll` (:111) may leave the marker and not the files, and the next install of
  the same digest takes the version for installed.

Labs, plans and the fabric:

- a sweep that began before an apply and ends after it writes the lab of the previous
  generation back (observer.go:317; plan.go:184-185 counts on generations to grow);
- of two pending plans with one base, applying the first deploys what the second one
  asked for (plan.go:341; :154-155 says a plan persists what it will deploy);
- a lab whose first apply failed half way is deleted without its containers (lab.go:228);
- containers of a failed scale-out that the next plan takes back are in neither of the
  two snapshots `buildIncrement` compares and are not removed (`tried` in `FabricScaling`);
- a controller that dies during an apply leaves the lab Applying and the operation
  Running; nothing resumes or fails them at the next start (operation.go:163);
- a rollback to a generation from before a scale-out and scale-in may ask for other
  interfaces of a surviving link; `buildIncrement` skips links it finds in the base
  (increment.go:52-55), configurations then name interfaces that do not exist, and
  validation never passes (`moved`; plan.go:182-187);
- a plan that scales in and is never applied, then a plan back, gives running nodes new
  ids, since `carryOverIdentity` (plandiff.go:13-18) reads the desired rows.

Programs, traffic and faults:

- `RepairLab` recreates every container and does not restore programs (plan.go:516-517):
  records say Running and the agents are empty;
- `ListPrograms` writes back the records it read before it asked the agents
  (program.go:685-687): the desired state of a start or stop in between is undone;
- `DeleteProgram` at generation 0, after a first apply that failed, deletes the record
  and leaves the program on the agent;
- an upgrade that fails after the agent took the new version leaves the old version
  recorded, and an upgrade back to it is accepted without effect;
- a stopped scenario keeps its programs, "so a later Start is instant" (traffic.go:331-332);
  the later Start asks `CreateProgram` for names that exist and fails;
- a scenario that is deleted while it starts leaves both programs without an owner
  (traffic.go:239);
- the collector stores a sample with the document it read (collector.go:245): a stop in
  between is undone, and the scenario says Running until it expires or is stopped again;
- a fault scenario deleted while it is applied leaves the fault in force and no record to
  recover it by (fault.go:466-467), and two overlapping applies put two faults on one
  target (:228).

Subscriptions:

- with two operations of one lab in flight the final frame of one can be the oldest in a
  full channel and is dropped for a frame of the other (operation.go:79-83 promises the
  newest one, which holds of the lab's frames, not of each operation's);
- a row of a capture can reach a viewer twice, in its snapshot and in the next batch
  (capture/manager.go:375-377);
- flush and finish send to channels they copied before they released the lock (:485): a
  viewer that leaves in between has closed its channel, and the send panics;
- a delete between the insert of a session's record and `StartSession`'s registration
  finds nothing to stop, and the capture runs without a record.

## Not modelled

Components with status `not_modelled` in `PROJECT.json` carry the reason. Half of the
repository's Go is generated protobuf code (`pb/`), and most of the rest that no module
maps is conversion between messages and documents, parsing of command output and
`/proc` files, rendering of configuration, decoding of packet bytes, socket I/O and the
web front end: none has state of its own, and a model of it would repeat the code.

The metrics history is the one part with state and crash recovery that is left
([plan](#plan), 1). Reading it shows what a model would have to be about: a crash in the
middle of a write leaves a torn line to which the next start appends, so that the first
record after it is lost too (`ci/metrics/history.go`:169, "a crash loses at most the last
interval"); the shards of a deleted lab are to "vanish with the lab directory" (:398-399),
which no code removes; and a server that is gone keeps its last point in the window, which
`Latest` goes on to report.

In the modelled parts: a second lab and names across labs; logs and their rotation;
failures of the disk other than a crash; upload and parsing of package archives; the
collector's windows of traffic points; images and the internet bridge of the containerlab
driver; metrics and session details that the observer collects, and its healing of
node-agents.
