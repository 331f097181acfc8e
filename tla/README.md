# TLA+ models of viiwork-freetoken

viiwork-freetoken is a node of a mesh of inference servers. A node runs one
FreeToken engine per configured GPU, keeps the engines alive, proxies inference
requests to them or to a peer that has the model, and shows the whole mesh on a
dashboard. This directory holds TLA+ models of that program, the instances TLC
checks, and proofs that TLAPS checks. Everything is translated from the Go
source; paths below are relative to the repository (`src/` here), and
`PROJECT.json` maps each definition to the lines it stands for.

## 1. The system

| Component | State it keeps | Operations | Talks to |
|---|---|---|---|
| `freetoken.Manager` (`internal/freetoken/manager.go`) | the backends; its health loop | `Start`, `Run`/`tick`/`checkOne`, `respawn`, `Shutdown` | `Backend`, `BackendState` |
| `freetoken.Backend` (`backend.go`) | `cmd`, `started`, `failures`, `respawns` under `mu` | `Start`, `Stop`, `Probe`, readers of the engine's documents | the engine process; `BackendState` |
| `balancer.BackendState` (`balancer/state.go`) | atomics: status, hard-failure latch, in-flight count, published gauges; latency window | `SetStatus`, `NoteHardFailure`, `TakeHardFailure`, `Incr/DecrInFlight` | written by the health loop and by requests |
| `proxy.Handler` (`proxy/handler.go`, `streaming.go`, `peerproxy.go`) | nothing between requests | `handleProxy`, `proxyRequest`, `proxyToPeer` | registry, backend states, activity log, prompt store |
| `peer.Registry`, `PeerState` (`peer/`) | the last status of each peer; write-through in-flight counts | `PollOnce`, `Update`, `MarkUnreachable`, `Resolve`, `PickRoute`, `StatusResponse`, `ClusterState` | peers, by HTTP polls |
| `activity.Log` (`activity/activity.go`) | the ring of events, the subscribers' channels | `emit`, `Subscribe`, `Unsubscribe`, `Backlog` | requests and health loop emit; SSE streams read |
| SSE streams (`proxy/meshactivity.go`) | one goroutine per viewer, one per followed peer | own stream, merged mesh stream, GPU stream | activity log, peers, GPU broadcaster |
| Prompt store and capture (`activity/prompts.go`, `proxy/prompts.go`, `proxy/capture.go`) | the last prompts and outputs | `Store`, `StoreOutput`, `Get` | requests write, lookups read |
| GPU statistics and power (`gpu/`, `power/`) | a ring of samples per card, viewers | collect, `Add`, `Publish`, `Watts` | `nvidia-smi`, status documents |
| Mesh port (`proxy/meshport.go`) | a listener, if it won the port | `ServeMeshPort` | the other nodes of the host |
| Configuration (`config/`) | limits and addresses | `Load`, defaults, validation | `main` |
| `main` (`cmd/viiwork-freetoken/main.go`) | the signal context, the HTTP server | start, drain, shut down | all of the above |
| The engine | external: boots, loads, serves, rebuilds, crashes, hangs | HTTP and signals | probed, proxied to and stopped by the node |

**What is hard about it**, and for each part what correct means:

* *Supervision.* The health goroutine of a backend, the goroutines of Shutdown
  and every request that fails touch the same backend. `mu` guards `cmd` and the
  counters; the status and the latch are separate atomics that a request writes
  with no lock and no notion of which engine it talked to; `checkOne` reads
  under the lock and acts after unlocking. Correct: no engine started beside one
  that is left to run, none forgotten, traffic only to an engine that has answered as ready, a
  loading engine left alone until its startup timeout, a serving one until the
  failure threshold, a lost one replaced within a budget, and a shutdown that
  ends.
* *Requests.* They stream without a deadline and leave by many exits. Correct:
  the in-flight count, the only load figure routing reads, is exact on each of
  them, and a request on an engine that will not answer is ended by somebody.
* *Mesh.* Each node routes on its own stale copy of what its peers last said,
  corrected by the traffic it sent since. Nodes crash between any two steps.
  Correct: no request bounces, counts return to what they stand for, a vanished
  peer leaves the routes, an abandoned request leaves the node it ran on.
* *Activity.* An emitter sends outside the lock to subscribers that come and go.
  Correct: viewers rebuild the running requests from backlog and live events
  without a stranded row, and no viewer affects an emitter; a viewer of
  the whole mesh survives peers that come and go, and leaves nothing running.
* *Figures.* A probe reads four documents one after the other, of an engine that
  may rebuild its cache, crash or be replaced meanwhile, and latches what it
  learned. Correct: what is published is about the engine that runs, and no older
  than the last rebuild the node has seen.
* *Prompts.* Outputs arrive long after their prompts, which may have been evicted;
  ids are a process's own, so other nodes mint the same ones and a restart mints
  them again. Correct: an entry is about one request, and a row opens that one, from
  any node, until newer ones have filled the store; what it shows as the output is what
  was sent, or the start of it.
* *Telemetry.* One goroutine samples the cards while others sum them, and sends to
  viewers that come and go, under the locks that those need. Correct: sums are of one
  instant, and no viewer affects the sampling. That an unmeasured wattage never looks
  measured would belong here too, but the code does not keep it (section 3).
* *Hosts.* Several nodes share a host: its ports, its one dashboard port and its
  cards. Correct: a node runs with a configuration that does not contradict itself,
  the dashboard port comes to a node that stays, and a card's energy is charged to
  whoever has it now, on this host.

`PROJECT.json` lists every hazard of this kind with its line and the properties
that would catch it going wrong.

## 2. The modules

| Module | Models | Rests on |
|---|---|---|
| `Engine` | the engine process (external) as the node sees it: one phase per generation | |
| `Supervisor` | `Manager`, `Backend.Start/Stop/Probe`, `BackendState`'s status and latch, the order in which `main` shuts down | `Engine` |
| `RoutableSlot` | abstract: what supervision promises of one backend to the rest of the node | |
| `SupervisorSlot` | the refinement mapping from `Supervisor` to `RoutableSlot` | both |
| `Node` | `handleProxy` and `proxyRequest` of one node against supervised engines | `Supervisor` |
| `Mesh` | polls, statuses, `Resolve`, `PickRoute`, `proxyToPeer` on several nodes that crash and restart | |
| `ActivityLog` | `activity.Log` and the SSE streams on it | |
| `MeshStream` | `handleMeshStream`, `followPeer`, `streamPeerOnce`: one viewer of the mesh | `ActivityLog`, as the peer's log |
| `Figures` | what a probe reads of an engine and publishes: `Probe`'s readers, `learnContextLen`, `verifyPinning` | |
| `Prompts` | the `PromptStore` of each node, `captureWriter`, the requests that write to them, and lookups across the mesh | |
| `Snapshot` | `coarsenHostMem`: the host memory on a viewer's snapshots | |
| `Telemetry` | `StatCollector`, `History`, `Broadcaster`, the GPU stream, `power.Sum`, the readings of the energy recorder | `Snapshot` |
| `Host` | `Load`, `ApplyDefaults`, `ApplyOverrides`, `Validate`, the course of `main`, `ServeMeshPort` and `GPUModels` on several nodes of one host | |
| `SupervisorProofs`, `NodeProofs`, `MeshProofs`, `ActivityProofs`, `FiguresProofs`, `PromptsProofs`, `TelemetryProofs`, `HostProofs` | the theorems and their proofs | the modules above |
| `MCSupervisor`, `MCNode`, `MCMesh`, `MCActivityLog`, `MCMeshStream`, `MCFigures`, `MCPrompts`, `MCTelemetry`, `MCHost` | instances for TLC, with their `.cfg` files | |

### How state and actions correspond to the code

`Supervisor` gives each goroutine a program counter: `pc[b]` for the tick's
goroutine of backend `b`, `spc[b]` for Shutdown's, `node` for `main`, `noting[r]`
for a request inside `NoteHardFailure`. One action is what a goroutine does
between two points at which another can intervene. `checkOne` is therefore
`ProbeOk` or `ProbeFail`, then `ReadStatusOk`, `Promote`, or `ReadStatusFailed`,
`TakeHardFailure`, and `Loading` or `Strike`; `respawn` is `GiveUp` or
`RespawnStop`, `RespawnStopped`, then `Spawn` or `SpawnFails`. `StopTake` is the
critical section of `Backend.Stop`, which takes the process out of `cmd`, and
`StopEnd` its end, when the group is gone or has been killed. `NoteLatch` and
`NoteStatus` are the two stores of `NoteHardFailure`. `Init` is the state after
`Manager.Start`: each backend spawned or, where that failed, Dead.

An engine is a generation of a backend, so that a stale status, report or
connection can be told from one about the running process. `seenReady`,
`strikes` and `fresh` are history variables that only properties read.

`Node` adds the requests. `Route` takes the snapshot of `Resolve` and picks from
it; `Enter` raises the in-flight count, later; `Connect`, `Respond`,
`StreamEnds` are the three stages of a proxied call; `HardFailure`,
`LatchFailure`, `Evict` the failure of `backendClient.Do` and its report.
`isHardFailure` takes any `net.OpError` for one, so a living engine can be reported
too: `LooksHard`, which nothing forces. `SoftFailure` (a request that cannot be built,
or a `Do` that fails otherwise), `StreamBreaks` and `ClientGone` are the exits that
report nothing; `CloseHandler` is the deferred release.

`Mesh` leaves engines out: a node that has the model has one backend, healthy or
not. `polled` is what a `PeerState` last heard, `dispatched` its
write-through count, `polling` and `reply` a poll on its way. A request's way is
a sequence of legs, one per node that handles it: `at[r][i]` is where leg `i`
is, `on[r][i]` its node, `to[r][i]` the peer it forwards to.

`ActivityLog` splits `emit` where it unlocks: `Record` appends to the ring and
copies the subscribers, `Send` delivers to one of the copy or drops, and
`SendPanics` is a send on a channel that `Unsubscribe` has closed. A stream is
`Subscribe`, `ReplayBacklog`, then `Forward`, until `Unsubscribe`. `shown` is
what the viewer's page shows of each request.

`MeshStream` adds the other end: `wire` is the connection of the follower, one
of the peer's `Streams` each time it dials. The follower, the pump of local
events and the handler share the channel `merged`; `Cancel` and `WriteFails` are
the two ways in which a viewer is noticed to have left. Local events are all one,
because they only take up room in the channel.

`Figures` splits `Probe` at its reads: `ReadHealth`, `RefreshStats`,
`ReadContextLen` and `ReadKVCapacity`, then `Promote` or `Tolerate` for
`checkOne`, and `Respawn` or `GiveUp`. When to respawn is `Supervisor`'s subject,
so here any failed probe may be the deciding one. Each engine may bind another card,
and `gpuUUID` stays what it was until the new one has told. `asOf` and `seen` are history
variables: the engine and rebuild the published context was read at, and the last
rebuild a probe has seen.

`Prompts` follows a request from its id to its deferred `StoreOutput`: `Mint`,
`Store`, `EmitStart`, `Write` for each chunk, `StoreOutput`. `home` is its node and
`born` the run of that node (`epoch`); `Restart` ends a run, with its store and its
requests. A lookup changes nothing and is an operator: `HandleMeshPrompt` of the node
that is asked, the address and the id. A text is named by its request and a response
is the sizes of its chunks, so that what was captured can be compared with what was
sent. Parsing is reduced to whether there was a text: a prompt may have none, and so
may a stream, even one of many chunks. There are two caps, in different units. The capture
keeps chunks up to `captureRawCap`; of a text found in them, or of a prompt, `Truncate`
keeps the first `MaxPromptChars`. A text is much shorter than the stream it came in, so
either cap may bite without the other, and a text's length is a choice of its own. The
code cuts at a byte, which may fall inside a character; the model has no characters.
`appends` and `appendedAs` are history variables.

`Telemetry` names a sample by the number of its sampling. `Collect` is one call of
`nvidia-smi`, which may report some cards, or a card without a wattage; `Add` writes
one card under the history's lock, `Publish`, `Offer` and `PublishReturns` send to
one viewer after the other under the broadcaster's read lock. A lock is a guard of
those who would wait for it. A reader sums (`ReadWatts`), then asks whether the sum is
measured (`ReadAvailable`), and then either a status is sent or the recorder reads the
cards' shares (`Readings`). `Snapshot` is one viewer's figure on its own: it shares no
state with the rest, and is stepped along with it.

`Host` starts an instance from any file and command line (`Boot`): load, defaults,
validation, overrides, validation again. A configuration is the fields that can
contradict each other: model, ports, devices, slots, ceiling. `asked` is what the
command line said. `page` is where `ServeMeshPort` is: off, asking for the port,
waiting to ask again, serving. A listening node answers the recorder's polls (`Hear`);
`heard` is the part of a `PeerState` that `GPUModels` reads, and `labels` what the
recorder last charged each card to. `Others` also has strangers: nodes of another
host, with the same card numbers.

A definition named `X_Y`, such as `Visit_ProbesDead`, is `X` with a bug the code
could plausibly have. No specification uses it. Putting it in the place of `X`
makes TLC report a violation, so each property is known to notice a bug in the
code it is about; `PROJECT.json` lists the pairs.

## 3. The runs

| Run | Instance | Checks | Shows |
|---|---|---|---|
| `loop` | 1 backend, 2 respawns, threshold 2, no requests; fair | `OneEngine`, `Owned`, `PatientWithLoading`, `LadderBeforeRespawn`, `DeadIsFinal`, `LoopOverThenNoneOutlives`, `LostIsReplaced`, `ShutdownCompletes` | Left alone by requests, the health loop keeps its rules about when to stop an engine and when to give up, replaces what is lost, and a signalled node exits whatever its engines do; of two engines that run at once Shutdown is stopping one, and none is forgotten. |
| `node` | 1 backend, 1 respawn, threshold 1, ceiling 1, 1 request at a time, any number in all; fair | `RoutableIsReady`, `InFlightExact`, `NeverOnHearsay`, `SlotSpec`, `ReplacedEngineFreesRequests`, `LateReportsSettle` | With requests, their reports and Shutdown interleaved: traffic goes to ready engines only, the supervisor implements `RoutableSlot`, the in-flight count is exact on every exit, a request on an engine the node took down ends, and a backend that a late report took out of Dead does not stay without an engine and without a verdict. |
| `log` | 2 requests, 1 health goroutine, 1 stream, ring of 2, channel of 2; fair | `TypeOK`, `NoStrandedRow`, `EmitNeverStalls` | No finished request is shown as running to a viewer that missed nothing; no viewer stalls an emitter. |
| `mesh` | 2 nodes, both with the model, 1 request, ceiling 1, 3 legs; fair | `CountsExact`, `NoBounce`, `GonePeerNotRouted`, `OrphanFreesSlot` | Through refusals, hang-ups, crashes and restarts and however stale the views: both in-flight counts are exact, no request bounces, a gone peer leaves the routes, an abandoned request leaves the node it ran on. |
| `viewer` | 1 viewer, a peer with 1 request, 2 connections, ring of 2, channels of 1; fair | `MeshTypeOK`, `ReconnectClearsRows`, `NothingLeftBehind` | What a viewer missed while not connected to a peer does not stay on its page as running, and every goroutine of its stream ends with it, however full the channel it shares. |
| `figures` | 1 backend, 3 engines, 2 rebuilds of each; fair | `ContextOfThisEngine`, `RebuildIsLearned`, `MismatchIsReported`, `ContextIsPublished` | The published context is never another engine's nor older than a rebuild the node saw, a card other than the pinned one is reported, and an engine that keeps serving gets its figure. |
| `prompts` | 3 requests of up to 2 chunks on 2 nodes, of which one knows the other and one restarts; stores of 2, a capture of 2, texts of 1 and 2 of which 1 is kept | `OneEntryEach`, `RowOpens`, `OutputIsAsSent` | However late outputs come, every entry is of one request, its row opens that entry and no equal id of another node, until newer entries fill the store, and of a response that fits the capture the store has all that was sent, or as much of its start as it keeps of a text. |
| `telemetry` | 2 cards, 1 viewer with a channel of 1, 2 samplings, 7 MB of memory in 2 buckets; fair | `NoSendOnClosed`, `NotTorn`, `HostMemIsClose`, `NoiseSettles`, `SamplingGoesOn` | A viewer may come, sleep and leave at any point of a publication; sums are of one instant; the published memory is close to the reading, and noise settles. |
| `host` | 2 nodes, 1 stranger, 4 files, 4 command lines; fair | `ConfigIsSound`, `ChargedToThisHost`, `PortHandsOver`, `CardIsReleased` | Whatever is left out or collides, no node runs with a configuration that contradicts itself; the dashboard port hands over to whoever stays; cards are charged to who has them. |
| `outlives` | `Supervisor`, 1 backend | `NoEngineOutlivesNode` | violated, see below |
| `patience` | `Node`, 2 requests, 2 respawns | `PatientWithLoading` | violated, see below |
| `leave` | `ActivityLog`, 1 stream | `LeavingIsHarmless` | violated, see below |

The type invariants that a theorem states (section 4) are not repeated in the runs.

**Bounds.** `MaxRespawns` is the code's own `max_respawns`; two respawns give
three generations, enough for a report about the one before last. The failure
count saturates at the threshold, past which the code never looks. A threshold
of 2 separates the first failed probe from the deciding one. Backends interact
only through the tick's barrier and Shutdown's, so one backend with Shutdown
beside it covers the interleavings within a backend. What the barrier does to the
*liveness* of several backends is in the model but in no run: two fair backends
are out of TLC's reach. The safety theorems hold for any number of them.
`MaxLegs` bounds the nodes a request may visit, and 3 is one more than `NoBounce`
allows, so that a bounce would be seen. A ring of 2 and a channel of 2 both
overflow with the five events of the instance. In `viewer` the rings and channels
are smaller than what one request says, so all of them fill, and two connections
are one lost and one after it. Three generations with two rebuilds each let a
figure be stale by an engine or by a rebuild. A store of 2 with three requests
evicts, also in favour of an output; chunks of 1 and 3 against a capture of 2 give
responses that fit, that overflow, and that lose a chunk but not a later one. Against
a store that keeps 1 of a text, prompts are always cut, and outputs of 1 and 2 are on
both sides of the cap, each with a capture that is whole and with one that is not.
Requests and streams recycle or come at any time, so their number bounds only how
many run at once; what several do to the counts is in the theorems about them, for any
number. In `prompts` two nodes mint equal ids, and one of them mints them again after
a restart. In `telemetry` two cards are what a torn sum needs, two samplings what a
stale one needs, and a channel of 1 fills; memory of 7 in 2 buckets has a step of 3,
with readings on both sides of every boundary and a remainder at the top. The files of
`host` leave everything out, set everything, or collide with a default; its command
lines switch the dashboard port off, or collide with a default or with a file. `prompts`
uses symmetry between requests, which no definition tells apart; the runs with liveness
use none.

**Deadlock** is checked on the mesh. The other models do stop where the program
does: a node that has exited, a backend given up, a viewer gone, or a log or store
whose requests have said everything. `telemetry` ends after `MaxSamples` samplings
because its bound ends it, not the program.

**Fairness.** The Go scheduler runs every runnable goroutine: weak fairness on
each health goroutine's steps, on the tick (a ticker), on the deferred and
sequential steps of handlers, on Shutdown's steps and on emitters. A startup
deadline passes because clocks do; a probe ends because `probeClient` has a
timeout; `Stop` ends because its grace period does. `main` goes from a signal to
its exit because `srv.Shutdown` is bounded at 30 s. Polls end by their timeout.
The follower and the pump of a mesh stream go on when they can, and the server
cancels the context of a handler that has returned. The collector goes on once it has
a sample; `ServeMeshPort`'s retry timer fires; the recorder's ticker fires. No node is
assumed to be started or stopped, and a listener may fail at any time.
Nothing is assumed of engines (they may hang in any phase for ever), of clients
(they may stay or leave), of viewers (they may never read), of `nvidia-smi`, of
other sockets on the host, of peers (they may never answer a follower), or of crashes.

### Where the code does not do what it says

* `outlives`: while the health loop is in `respawn` between `Stop` and `Start`,
  `cmd` is nil and Shutdown's `Stop` returns at once; the loop then spawns an
  engine in a process group of its own, and `main`, which does not wait for
  `Manager.Run`, returns. `manager.go:237` says Shutdown stops every backend.
  `LoopOverThenNoneOutlives` (run `loop`) shows that waiting for `Run` suffices.
* `patience`: a request sent to an engine before it was respawned can report its
  failure afterwards. The report hits the new engine: it is respawned on its next
  failed probe, before the startup timeout that `manager.go:147` calls the only
  end of that patience. The same late report breaks `LadderBeforeRespawn` (a good
  probe and `Start` leave the latch set) and `DeadIsFinal` (it sets Unhealthy over
  Dead). These two hold without requests, which is all the run `loop` and their
  theorems say, and fail when they are listed in `MCNode_patience.cfg`. What holds of
  late reports is that none stops an engine without a failed probe (`NeverOnHearsay`)
  and that a backend taken out of Dead is settled again (`LateReportsSettle`).
* `leave`: a viewer that leaves between `emit`'s unlock and its send has its channel
  closed, and the send panics: the request it is about is cut off, or, in a health
  goroutine, the process ends.

Three more lines are contradicted. No run is kept for them:

* Whether wattage is measured is judged once, at the collector's start
  (`collector.go:82`). `power.go:40-42` expects it to flip, and a driver that turns to
  `[N/A]` later leaves a sum of zero that claims to be measured, which `power.go:60-62`
  is there to prevent. `NoConfidentNought` in `Telemetry` says that it does not happen;
  listed in `MCTelemetry_telemetry.cfg`, it is violated.
* `power.go:98` says that the cards' shares sum to the total by construction. The
  recorder reads the two one after the other, and a sampling in between makes them of
  two instants. `SharesReconcile`, listed in the same file, is violated.
* `config.go:75` says a mesh port of zero disables the listener, but `defaults.go:54-56`
  turns a zero in a file into 8086: only an override switches it off. `OverridesWin`, a
  part of `ConfigIsSound`, therefore speaks of the command line alone.

Not findings, because no line of the repository says otherwise precisely enough
to be contradicted, but worth knowing:

* After SIGKILL `Stop` returns at once (`backend.go:242-245`) and `respawn` starts the
  next engine (`manager.go:230-231`), which may load while the killed one still holds
  memory of the GPU. `OneEngine` therefore counts engines that run, not those that were
  killed and are not gone; the model has both at once (`killed` beside `booting`).

* A backend out of respawns is marked Dead, but its engine, if hung, is left
  running, and nothing then ends the requests on it: `backendClient` has no timeout
  (`streaming.go:17`), and the loop skips Dead backends. `DeadEngineFreesRequests`
  in `Node` says that they do end; listed in `MCNode_node.cfg`, it is violated.
* The ceiling is compared with a count read when the routes were resolved, and the
  count rises later, so requests that resolve together all pass it.
* A peer whose status reports no healthy backend still lists its model and is still
  routed to, with the smallest load of all.
* If a read of `/health` fails between the probe that saw a rebuild and the next
  good one, `Probe` no longer knows that there was one, and the old context stays
  published: with `"health"` in `FailingReads`, `RebuildIsLearned` is violated.
* The gauges of running and waiting requests, and the card's UUID, are not reset
  when an engine is replaced; they stand until the next good probe.
* Past its cap a captured response may have holes: a later, smaller chunk still
  fits. `overflow` is set and never read.
* A row that a viewer kept from before a restart of its node opens the entry of a later
  request with the same id.
* A card that `nvidia-smi` stops reporting keeps its last sample in the sums for ever.
* The cards of the energy store are those sampled by the time `startEnergy` runs, which
  races the first sampling (`main.go:228`); it retries nothing until a restart.
* An override of the port to zero passes `Validate`. A file without `model.name` is refused even if the
  command line names one. Cards and base ports of two instances are not compared.
* A node that is killed leaves its engines running, in process groups of their own
  (`backend.go:187`). The node started after it finds their ports taken, its own engines
  fail, and its probes are answered by theirs.
* The signal that ends a node also cancels a probe on its way, which then counts as
  failed (`manager.go:119`): the last tick may take down an engine with requests on it.
* A stream that breaks off after its headers reports nothing; its backend stays in
  routing until the health loop has found out.
* Noise can push the same snapshot twice: a figure given up for a lower one lands on a
  boundary below the reading. `NoiseSettles` states exactly this.
* `Balancer.Pick` has no caller in the node, and the latency window no other reader.

## 4. The theorems

TLAPS checks these for every set of backends, requests and nodes and every value
of the limits, from the named assumptions on the constants only, except where a
theorem states another (limits are natural numbers, the threshold is at least one,
`NoBackend` is not a backend, holders of the model are nodes).

* `TypeCorrect` : `Spec => []TypeOK`. It includes that the budget is never
  overspent, without which a spawn would have no generation to become.
* `Safety` : `Spec => []IInv`, the inductive invariant. `OneEngine`, `Owned` and
  `RoutableIsReady` are not inductive: that a promoted engine is the one that
  answered depends on where the goroutine is. `IInv` adds what holds at each point
  of it. `TakenByStop`: outside a `Stop`, nothing is held by it. `NoEngineToStart`:
  between `Stop` and `Start`, `cmd` is nil, so only Shutdown, which needs a
  non-nil `cmd`, could interfere, and it cannot. `GoodProbeIsOfCmd`: between a good
  probe and the promotion, `cmd` is the engine that answered.
  `UnroutableOnTheWayDown`: from the verdict to the spawn the status is not healthy,
  because only the goroutine itself promotes. `NextIsUnused` and `HeldIsSpawned`:
  generations are used once and in order.
* `OneEngineAtATime`, `NoneForgotten`, `RoutedIsReady` : `OneEngine`, `Owned` and
  `RoutableIsReady`, from `Safety`. `OneEngine` follows from `Owned`: a running engine
  is `cmd`, or in the hands of the health goroutine's `Stop`, or in those of Shutdown's.
  The first two exclude each other, because `cmd` is nil while the health goroutine's
  `Stop` holds an engine; so of two, one is Shutdown's.
* `StoppedOnlyAfterAProbe` : `Spec => NeverOnHearsay`, from an invariant of its own
  (`Struck`: past a failed probe, at least one is counted).
* `LoadingIsPatient`, `ReadyIsGivenChances`, `GivenUpForGood` : `PatientWithLoading`,
  `LadderBeforeRespawn` and `DeadIsFinal` under `Requests = {}`, for any backends,
  budget and threshold. The hypothesis is the one of the run `loop`, and the run
  `patience` shows that it is needed: a request that outlives its engine accuses the
  next. `LoopInv` is what the health goroutine knows at each point while nobody else
  writes the status or the latch: the failures it counted are probes that failed in a
  row (`Counted`), nothing is latched
  (`Unlatched`), the status says how far the engine came (`StatusTells`, `PrevTells`),
  and it is in `respawn` for a reason (`RespawnReason`).
* `WaitingForTheLoopSuffices` : `Spec => LoopOverThenNoneOutlives`, with requests. When
  the loop is over, none of its goroutines is at work (`ShutdownOrder`), so an engine
  that Shutdown takes is taken for good (`TakenForGood`), and `main` returns after all of them (`ExitedAfterShutdown`).
* `ImplementsSlot` : `Spec => SlotSpec`, the refinement. Every step of every
  goroutine is a step of the slot of its backend or a stutter, from `IInv`.
* `NodeIsSupervised` : every behaviour of `Node` is one of `Supervisor`, so that the
  theorems above hold of a node that serves requests; `NodeKeepsTheSlot` and
  `NodeRoutesToReady` say so of the two that the run `node` checks. `InFlightIsExact` :
  `NodeSpec => []InFlightExact`, with the fact that a request being handled has a
  backend; `NodeTyped` the type invariant.
* `RequestsNeverBounce` : `Spec => []NoBounce`, from `ChainInv`: a leg past the first
  belongs to a request that carries the origin header, so it never forwards.
  `CountsAreExact` : `Spec => []CountsExact`, for any finite set of requests, by
  counting which of them an action moves in or out; `OwnLoadIsSeen` that a node's
  estimate of a peer covers its own traffic, and `MeshTyped` follow.
* `FiguresTyped` : the type invariant of `Figures`, with the fact that the context is
  asked for only when it is neither configured nor learned.
* `NeverOfAnotherEngine` : `Spec => []ContextOfThisEngine`, from the type invariant.
* `RebuildsAreLearned` : `Spec => []RebuildIsLearned`, for engines that answer
  `/health` and one of the two documents with the context (`Learnable`; without it
  the property fails, see above). `RebuildIsLearned` speaks of the moments between
  probes; `LearnInv` adds `ProbeStages`, what each point of a probe implies, and
  `LatchIsSound`: whatever is latched is no older than the last rebuild seen, unless
  the last probe saw it going on.
* `MismatchesAreReported` : `Spec => []MismatchIsReported`, for engines that answer
  for their statistics: between the read and `verifyPinning`, `gpuUUID` is the card
  the engine reports (`CardIsTold`).

* `RowsOpenTheirOwn` : `Spec => []OneEntryEach`. Two requests never meet in one entry
  because ids are not given twice while a node runs (`Ids`, `IdsDiffer`), every entry is
  the work of a request of this run (`Owned`), and a store restarts with its counter.
  `RowsOpen` : `Spec => []RowOpens`, because entries are in the order they were made
  (`Numbered`) and the one a request made last is its own (`Appended`): if it is not in
  the store, everything there is newer. `PromptsTyped` the type invariant, with the
  bound of the store.
* `NeverOnClosed`, `SumsAreOfOneInstant` : the safety of `Telemetry`,
  for any cards, viewers and number of samplings: while `Add` is on its way nobody
  sums, and whoever is still offered a sample is a subscriber. `MemIsClose` and
  `MemSettles` : for every size of memory and number of buckets, what the deadband of
  the published memory guarantees. `TelemetryTyped` the type invariant.
* `NodesRunSoundly` : `Spec => []ConfigIsSound`, for every set of files and command lines:
  what is validated last is what runs. `EnergyStaysHere` : `Spec => []ChargedToThisHost`:
  a neighbour whose cards are known is known by a model of this host. `HostTyped` the
  type invariant.
* `OutputsAreAsSent` : `Spec => []OutputIsAsSent`, for chunks of any number and sizes,
  texts of any lengths and any two caps.
  `Gapless`: what was captured is all that was sent, or more was sent than fits, so a
  response that fits has no hole. `OfCaptured`: what is to
  be stored is of the chunks captured. `Attached`: an entry of a request that is over
  has its output, or the start that `Truncate` leaves of it (`TruncateIs`). The sum of the chunks is a fold; `TotalAppend` is what a chunk adds to it.
* `NoViewerIsStranded` : `Spec => []NoStrandedRow`, for any requests, streams and bounds.
  Every place where events wait for a viewer is a sequence, and `Row` is what a page
  shows of a request once a sequence is through. `LogInv`: an emitter sends what it
  recorded last (`SendsItsLast`), a stream shows nothing before its backlog
  (`StreamStages`), the ring tells the end of a request that is over, or nothing
  (`RingInOrder`), and a subscriber that missed nothing is still to be sent that end, or
  will not show the request once its channel is through (`WillSettle`).
  `PeerIsALog` : `MeshSpec => Spec`, so the peer of a mesh dashboard is such a log; and
  `ReplayClearsThePage` : `MeshSpec => []ReconnectClearsRows`, from `PageWillSettle`,
  which chains `Row` along channel, connection, follower, merged channel and page: a
  step moves an event from one place to the next and changes nothing of what the page
  will show. `LogTyped` and `StreamIsTyped` the type invariants, with the bounds of
  ring and channels.

Two of these are about folds (a replayed backlog, a total of chunks), of which the
library proves nothing. Induction over data is had from the library's theorem on minimal
elements of well-founded relations, as a fact about sets of numbers (`Least`,
`Induction`): the fold exists for every prefix of the sequence, and each prefix says what
the next one does (`FoldExists`, `ReplayedRow`; `SumsExist`, `TotalRuns`).

**Only model-checked**: liveness (`LostIsReplaced`, `ShutdownCompletes`,
`ReplacedEngineFreesRequests`, `LateReportsSettle`, `EmitNeverStalls`, `GonePeerNotRouted`,
`OrphanFreesSlot`, `NothingLeftBehind`, `ContextIsPublished`, `SamplingGoesOn`,
`PortHandsOver`, `CardIsReleased`), which needs `ENABLED` or fairness that this prover
does not handle. Every invariant and every action property of a passing run is a theorem.
No module uses a RECURSIVE operator.

## 5. What the models leave out

* A process group that was sent SIGKILL ends eventually, not at once.
* `Route` is atomic: `Resolve` reads the backends one by one, but each count is a
  separate atomic that changes later anyway. In `Mesh`, `Resolve` reads one peer's
  `PeerState` under its lock.
* A node does not list itself as a peer; the mesh has one model, and a node of it
  one backend. The latency tie-break and the rotation of `PickRoute` are a choice
  among the lightest routes.
* `Prompts` has a prompt store; a node may be configured with none. A node that is down
  for a while looks, to a lookup, like one that does not answer. `MeshStream` follows one
  peer for one viewer: followers share nothing but the channel, which local events
  already contend for.
* `Supervisor` has no crash of the node itself; a new node beside the engines of an old
  one is not in it (see above).
* `Telemetry` keeps the last sample of a card and not the hour of them that `/v1/metrics`
  shows, and cards have no UUIDs.
* `Host` has the fields of a configuration that can contradict each other; a field that
  only has a default is like those that have one.
* Bodies, headers, wording, framing and logging are data no property tells apart.

**Not modelled**: `Balancer.Pick` and the latency window (no caller in the node);
`ClusterState` and `AllModels`, which only render what `Mesh` and `Host` hold; CORS, SSE
framing and log prefixes, which keep no state; the samples, which are outside the node;
the energy store and the dashboard's own code, which are other modules.

## 6. The plan

Done: supervision, its abstract specification and refinement; requests on a node;
the mesh; the activity log and the mesh stream; the figures of a probe; the prompt
stores of a mesh; telemetry and power; hosts, configuration and the dashboard port; the
proofs above. To come, in this order:

1. A node that is killed and started again beside the engines it left: a composition of
   `Supervisor` and `Host`, with the ports that the engines hold.
2. The hour of samples behind `/v1/metrics`, with the trimming of `History.Add`.
