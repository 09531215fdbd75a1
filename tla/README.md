# A TLA+ model of the ComputeCloud node client

`computecloud_node` is the program a machine owner runs to lend a computer to a
pool: it registers with a coordinator, pulls tasks and interactive sessions,
executes them, and reports back. Everything it does goes through polling HTTP
(or gRPC) calls it makes itself; the coordinator, the Docker daemon, the
renters and the network are outside the repository. This directory holds TLA+
models of its concurrent and failure-prone parts, TLC configurations that check
them on small instances, and proofs of their safety for all instances.

File names below are relative to `src/src/computecloud_node/`.

## Parts of the system

| Part | State it keeps | Operations | What is hard | Model |
|---|---|---|---|---|
| Task path (`node.py`, `executor.py`) | `_tasks_in_flight`, `_stop_event`, `_executor`, `_http_client`, the executor thread pool | `run`, `_poll_once`, `_execute_task`, `_report_result`, `_stop`, `stop`, `set_executor` | main thread, pool threads and signal handlers interleave; pulls and reports get lost; shutdown races work in progress | `NodeTasks`, `TaskPool` |
| Registration and heartbeats (`node.py`) | `config.node_id`, the heartbeat thread | `_register`, `_heartbeat_loop_http`, `_heartbeat_loop_grpc` | the coordinator restarts and forgets; the two transports say so differently | `Heartbeat` |
| Workbench sessions (`node.py`, `workbench_executor.py`) | `_active_sessions`, one daemon thread and one container per session | `_session_poll_once`, `_run_session_container`, `_verify_and_heal_session`, `_report_session_terminated`, start / stop / alive of the Docker executor | many early returns that must each clean up; containers that die, come up late, or never; assignments delivered twice | `Sessions`, `SessionContract` |
| Shard workers (`data_worker.py`, `pipeline_worker.py`, `pipeline_executor.py`) | deadline and attempt counter of each task | `execute_shard`, `_poll_for_input`, `_post_output`, `_compute_shard`, `_compute_merge` | deadline against late input; repeated posts; a shard waits for one queued behind it | `ShardExchange`, `ShardDataflow` |
| LLM shard executor (`llm/executor.py`, `llm/model_shard.py`) | `_kv_cache`, `_kv_order`, `_kv_lock` | `execute`, `evict_run_id`, `_kv_cache_get`, `_kv_cache_put` | look-up, forward pass and store are apart, evictions come between | `KvCache` |
| Shard routing (`data_worker.py`, `shard_executor_adapter.py`) | none | `execute` by payload kind | which code may run a payload, on which transport | `TaskExecutors` |
| Task executors and start-up (`local_executor.py`, `docker_executor.py`, `__main__.py`) | whether there was Docker at start-up | `execute`, `ensure_docker_running`, `_resolve_executor` | time-outs that kill the client only, children that detach, exit codes reported as success, a daemon that comes, goes and hangs | `TaskExecutors` |
| Reverse tunnel (`node.py`) | a WebSocket, a TCP connection, two pumps | `_run_tunnel` | half-dead connections, waits that nothing ends, reconnecting, the end of the session | `Tunnel`, `Serving` |
| Native workbench executor (`workbench_executor.py`) | child processes | start / stop / alive | zombies, forked children, services that block, ports taken in between | `Serving` |
| Security monitor (`security_monitor.py`) | `_cpu_history` | `scan_container` | failed samples, early returns that skip the history | `SecurityMonitor`, `CpuWatch`, `Serving` |
| Weights (`llm/weights.py`, `llm/model_shard.py`) | a directory of downloaded files, the shard's parameters | download, list keys, load a layer range | downloads that break off, shared directories, layers renumbered | `ShardWeights` |
| Tensor format (`tensor_format.py`) | none | pack / unpack nested lists | ragged and empty shapes | `TensorFormat` |
| URIs, argument parsing, notebook bootstrap, tokenizer, demos, protocol stub | - | - | sequential, formatting, or third party | left out |

How they interact: the main thread of `run()` polls for tasks and for sessions
in the same loop. A pulled task goes to a pool of `max_concurrent_tasks`
threads, whose executor is the user's, or a wrapper that sends shard tasks to
the shard workers and LLM shard tasks to the LLM executor. A session gets a
daemon thread of its own. The heartbeat thread shares the client and
`_stop_event` with all of them. `_stop()` waits for the pool and closes the
client; it waits for nothing else.

## Modules

**`TaskPool`** is what the node promises the pool about tasks, with no
threads, counter or HTTP: `Hand`, `Settle`, `Lose`, `Disconnect`. It never
holds more tasks than it advertised, a task gets at most one verdict, and it
disconnects holding nothing.

**`NodeTasks`** is the task path. `mainPc` is the program counter of `run()`
(`start`, `register`, then `loop` - `guard` - `pull` - `wait`, then `drain` -
`close` - `ended`), `stage[t]` says where each task is, `inFlight` is
`_tasks_in_flight`. `PollGuard` is the test of the counter, which the code
makes without the lock, and a step before the pull. `PullAnswerLost` is an
assignment whose answer never arrives. `ReportRaised` is the exception that
leaves `_execute_task` before the decrement; the coordinator may have recorded
the verdict. `RegisterFailed` ends in `rejected`, where `_stop` never runs.
gRPC differs in encoding only. Waiting and `_session_poll_once` are one step.

**`Heartbeat`** is registration and the heartbeat thread against a coordinator
with an in-memory registry. Which transport is used, and how the coordinator
answers for an unknown node, is a `deployment` chosen initially. `nodePc` is the
main thread, which starts the heartbeat thread and closes its client.

**`Sessions`** has one state machine per session thread. The heal ladder is
`probe` - `heal` - `launch` with `rung` 1 to 3. A container is `silent` (its
port is open, its service does not answer), `running`, `exited` or `removed`.
`Redeliver` says whether the server offers a session until it hears of it.
Any docker command may fail (`flakes`) and any HTTP exchange (`faults`),
possibly after the server acted on it. **`SessionContract`** is what the node
promises of a session, without polls, probes or heartbeats: an attempt launches
containers on rising rungs (`Launch`), vouches for the last one while that is up
(`Vouch`), announces it once, launches nothing from then on, and reports its end
once and last. `Stage` and `Phase` map the threads and containers of `Sessions`
to it. Another attempt at the same session may still be at work when the server
hears of an end, and can no longer change it.

**`KvCache`** runs single passes on several threads. A cached value is the
sequence of tokens it stands for, so the attention layer's concatenation is
`Append`. `evict_run_id` drops keys one at a time while it holds the lock; look-up
and store are one step each because their whole body is under the lock. Two
history variables say which runs the cap or a lost report has `disturbed` and
which were evicted before a pass at work had stored its keys (`late`).
The coordinator (one pass of a run at a time, eviction by a later task,
a pass again when its report was lost) is external.

**`ShardExchange`** is the shard tasks of one run: poll until the input is
there or the deadline passed, compute, post with three attempts. A value is the
sequence of layers applied to it; `RunLayers` is `_run_layers` with the modular
arithmetic of one layer abstracted to its index. `Tick` is the clock.
Posting may fail after the server stored the output. The job (topology, cut,
workload) is chosen initially. `HasExecutor` says whether the data worker has an
executor for command shards: the one the node builds has none (`node.py:208`), so
the runs set it to FALSE. **`ShardDataflow`** is what the run promises at the
exchange, without polls, attempts or threads: an output appears once, when those
it is computed from are there (`Appear`), is computed from just those and never
changes; a task returns when its output is there (`Return`) and may be issued
again (`Recall`). `ImplementsDataflow` is the refinement.

**`TaskExecutors`** is what a pulled task does to the machine. `mainPc` is the
command line up to `run()`: it looks for a Docker daemon, may launch one, and
decides once whether there is a `DockerExecutor` (`ResolveExecutor`).
`Destination` is where a payload then goes: `Route` is
`DataShardAwareExecutor`, which only the HTTP transport puts in front, and
`Engine` the executor behind it. Each task has a record: `pc` is the thread in
`execute()`, `place` and `work` the renter's command, which has a life of its
own (`WorkEnds`, `ContainerRemoved`) and may outlive the thread; `outcome` is how
the subprocess call ended (an exit code, or `late`), which decides nothing about
the `verdict`: only output that is no text makes `subprocess.run` raise. A
`compound` command forks what it waits for. A `detaching` one also leaves a child
behind that holds none of the pipes: then the shell returns while work goes on.
The daemon is `up`, `down` or `hung` and changes at any time.

**`Tunnel`** is the coroutine of the tunnel thread: connect, dial the port,
pump both ways until one direction ends, go round. `PumpInEnds` and
`PumpOutEnds` happen when a connection has ended, but a lost WebSocket is
noticed for sure only by the pump that reads from it, and an ended TCP
connection only by the other: the rest waits for somebody to send something.
A service that has blocked is a `hung` port and a `deaf` connection, on which
`ws_to_tcp` may come to wait in `drain()` (`PumpInBlocks`): then it does not
notice a lost WebSocket either. A `mute` port accepts and closes, as Docker's
proxy does for a service that has gone.
**`SecurityMonitor`** is one scan with the rolling window of samples; a list of
process names is reduced to what the two block lists make of it.
**`CpuWatch`** is its abstract specification, a count of busy scans in a row,
and `ImplementsCpuWatch` the refinement.

**`Serving`** composes both with the session thread and the process behind the
session's port: the launch of a native session, the watch loop (stop event,
heartbeat, alive check, scan), `stop_session` and the final report. `kind` says
what is behind the port: a container, one native process, an `sshd` with a child
for each connection, a shell whose child has the port (`forking`), or somebody
else, who bound the port between its allocation and the launch (`robbed`). A
dead native child is a `zombie` until some other subprocess is started, and
`kill(pid, 0)` finds it alive until then. A `docker inspect` that fails ends the
session without a stop, and `docker stop` and `rm` may fail without anybody
noticing; `flaked` records either.
The launch of a container, with its heal ladder, is in `Sessions`; the two
share the report of the end and meet at the ready report.

**`ShardWeights`** is the loading of the weights for one shard each by several
tasks: configuration, index, the weight files the layer range needs, then
`LoadStateDict`. A file is `absent`, `cut` (still being written, or broken
off), `holed` (written by two tasks at once) or `whole`, of one of two
revisions. A key is the name of a parameter with the number of its layer, and
`LocalKey` the renumbering. `hit` and `overlapped` are history variables: which
tasks a fault has met, and whether two tasks wrote one file at once.

**`TensorFormat`** is the shape inference, flattening, validation and
reshaping of nested lists. The stack of `_flatten` is the list of nodes it stands
for: `Level(d)[n]` replaces every list by its items n times, which leaves the
numbers in the order the stack meets them, and the walk of `_infer_shape` is the
first node of each level. Bytes and base64 are the sequence of values they stand
for. `MaxDepth` bounds the nesting of the samples, so that recursion is over
numbers and the operators can be proved about.

The `MC*` modules give the constants values. `MCLlmData` puts `ShardWeights`,
`TensorFormat` and `KvCache` into one run: a behaviour has tasks to load, a tensor
to send or generations to cache. `MCNodeLife` does so with `TaskExecutors` and
`Heartbeat`. The parts of a run share nothing, so each is checked alone.

## Runs

| Run | Shows |
|---|---|
| `node_tasks` | Exact slot counter, advertised concurrency, client outlives tasks, `TaskPool` implemented; pulled tasks are run to their end also across `stop()`, `run()` returns, queued tasks are pulled |
| `node_tasks_lost_reports` | **Violation.** As many lost reports as slots: no task is pulled again |
| `sessions` | No orphaned container, every end reported, no silent SSH session announced, launches bounded, `_active_sessions` accurate, `SessionContract` implemented |
| `sessions_flaky` | **Violation.** One failed `docker inspect`: a running session is reported completed and forgotten |
| `node_life` | Commands run where payload and start-up send them, only time-outs and children that detach leave work behind a verdict, start-up decides and every task ends whatever the daemon does; re-registration across restarts, one identity, the heartbeat thread ends after `stop()` |
| `local_failures` | **Violation.** A local command that fails or times out makes a completed task |
| `heartbeat_not_found` | **Violation.** HTTP 404 for an unknown node never leads to re-registration |
| `shard_exchange` | Sharded output of a model equals unsharded, return implies posted, `ShardDataflow` implemented, two faults absorbed, every task ends |
| `shard_commands` | **Violation.** The shards of a command run post their input as their output |
| `serving` | Ended sessions have no process, port or connection, unless a docker command failed; sessions end when renter, node or process ends them; tunnels come back, end with their session and are not half dead, unless `drain()` waits; a container that stays busy is stopped; the window implements the count |
| `llm_data` | Shards load whole files of their revision, failures stay with the task they met, the shards together are the model; tensors survive the wire, ragged ones are rejected or keep their numbers; list and dict of the cache agree and stay within the cap, prefixes are whole, evicted runs stay gone, each with the conditions below |
| `tensor_empty` | **Violation.** A tensor with a dimension of zero, such as one of shape (1, 2, 0), loses the dimensions behind its first |

Each violation is one a doc or comment of the repository rules out; `findings`
in `PROJECT.json` quotes it. Every property of a passing run has a mutant: an
operator next to the original, commented `Mutant:`, that changes it as a slip in
the code would and makes that property fail.

Some properties carry a condition that the code really needs:

- `AttendsToPrefix` leaves out runs hit by the cap, by a lost report (the pass
  issued again finds its own token in the cache and adds it twice) or by their
  own eviction.
- `EvictedRunsStayGone` leaves out runs with a pass still at work when their
  eviction was executed: that pass puts an entry back.
- `NoOrphanContainers` is about runs in which no docker command has failed: the
  code cannot clean up a container whose id it never received, and does not stop
  one whose `docker inspect` failed.
- `ActiveIsLiveOrUnready` records that a session whose ready report failed
  stays in `_active_sessions` for ever.
- `NoSilentSessions` is about SSH sessions, whose probe waits for a banner; the
  others are announced as soon as Docker's proxy accepts.
- `ComposesInOrder` holds for runs of a model. A command run would need an
  executor, which the node's data worker does not have (`shard_commands`).
- `LateOrDetachedWorkOnly` says when work outlives its verdict: it then does, and
  the node counts none of it. A failed verdict does not mean that nothing ran
  either: output that is no text raises after the command has run.
- `EndedSessionsServeNobody` and `TunnelEndsWithSession` are about sessions none
  of whose docker commands has failed (`flaked`). A `docker inspect` that fails
  leaves container, port and tunnel behind, and so does a `docker stop` and `rm`
  that fail; `sessions_flaky` shows the first.
- `OwnsPort` restricts what `Serving` says of ports to containers, single native
  processes and `sshd`: `stop_session` signals the shell, not the child that has
  the port, and does nothing to somebody who took the port first. `OwnsService`
  restricts what it says of connections to the first two: the child of `sshd` that
  serves a connection outlives the listener, and its tunnel stays up.
- `NoHalfDeadTunnel` excepts a lost WebSocket behind which `ws_to_tcp` waits in
  `drain()` for a service that reads no more. Neither pump ends then.
- `TunnelComesBack` excepts ports that refuse, which ends the tunnel for good, and
  those of blocked services, which refuse once their backlog is full. A port that
  has closed does not open again in the model, so it says nothing of a refusal
  that is only transient.
- `TunnelEndsWithSession` excepts a server that no longer admits the session:
  then the thread goes on trying until `stop()`.
- `SessionsEnd` starts from `proc = "gone"`: nothing ends a session over a
  zombie until some other subprocess is started.
- `LoadedFromItsFiles` leaves out two tasks that wrote one file at once, and two
  revisions in one directory, since a file's name has no revision in it.
  `FailuresStayLocal` is about directories of one task, which is what the node
  uses, and leaves out shards that cannot run at all: with tied embeddings the
  last shard asks for parameters only the first one has (`ForwardRaises`).

Since `_stop` does not wait for session threads, which are daemons, containers
may outlive the process (`ProcessExit`); no property is stated about what
happens then.

### Bounds

Three tasks and two slots let a slot be contended, freed and taken again. One
fault is fewer than the slots (the passing run), two are as many (the
violation); the proofs cover every number. Two runs of two shards and three
passes over two entries make the cap bite while a single run fits; the third
pass tells "the newest token" from "the whole past". One session with two
threads is a session offered twice, the only way two threads interact; one fault
or one flaky docker command hits any step, but not both in one behaviour
(`OneMishap`), because the comparison with the contract is costly; the theorems
cover every number of both. The ladder has its real three rungs. Three restarts
and two faults let the registry be lost during every step of the heartbeat
thread. Shards run as a pipeline of three (one of them empty), or two parallel,
or two and a merge, on two threads; three faults are what exhausts the attempts,
and one task is issued again.

The tasks' part of `node_life` has two tasks, five ways to start the node (every
executor, with and without a daemon to launch, both transports) and two changes
of the daemon: one that takes it away and one that brings it back, or that hangs
it. Its tasks share nothing but the daemon, so a third adds nothing, and the
proofs cover every number. `serving` has a window of two samples, so a window
can be full, broken and full again, and one fault, which hits any exchange,
scan, connection or docker command; liveness with more faults would only delay.
Whether the server keeps the tunnels of ended sessions makes a difference to the
tunnel only, so containers, which alone have scans, are checked with one that
does. `llm_data` has two tasks over three layers, with none, one or all of them
in the first part, two faults (one for each task), and lists of up to two
dimensions with two elements, some stacks of them with a third, and a value that
is no number; `MaxDepth` is 3, the deepest of them.

Symmetry is used in `llm_data` (the runs and threads of the cache) and
`sessions` only, which check no liveness; `SessionContract` treats all threads
alike.

### Fairness

Threads are scheduled by the operating system and every docker call, HTTP call,
executor and poll has a time-out, so a thread that can take a step does (weak
fairness per thread, and for the clock in `ShardExchange`). `Beat` and
`NodeMain` in `Heartbeat` are one thread each. In `TaskExecutors` the renter's
command and the daemon are not fair: the time-outs end the threads. In `Serving`
session thread and tunnel thread are weakly fair; `ScanContainer` is strongly
fair, because the scan interval passes again and again while the loop runs,
although most of its rounds come before it has (`NoScan`). A pump is fair where
it waits for the connection that has ended; nothing makes `drain()` end, nor
anybody send bytes (`BytesCome`). Nothing is assumed of `stop()`, of restarts,
of the renter, of containers, of the load or of the process's exit.

## Proofs

`NodeTasks_proofs` proves, for any finite set of tasks, any number of slots
and any number of faults (`NodeTasksAssumption` is all that is assumed):

- `TypeCorrect`, `SlotsAlwaysAccounted`, `CapacityAlwaysRespected`,
  `ClientAlwaysOutlivesTasks`: the types and the invariants of `node_tasks`;
- `TaskPoolImplemented`: `Spec => Pool!PoolSpec` under `TaskStatus`.

None of the invariants is inductive alone. `Inv` adds: between the guard and the
answer of the pull there is room (`PullHasRoom`), which holds because only the
main thread takes slots and the pool threads only give them back, so a test made
without the lock stays true; the client is open exactly in the steps that need it
(`ClientMatchesPc`); after the drain nothing is unfinished (`DrainedIsEmpty`)
and nothing is submitted again; no task moves before polling starts
(`NothingBeforePolling`); and a verdict or a record exists exactly in the
stages that have made one (`VerdictsFollowStages`). `SlotsAccounted` is then an
argument about cardinalities: each action adds one element to `SlotHolders`,
removes one, or leaves it. The refinement maps each step to one of the four
actions of `TaskPool` or to a stutter; `VerdictsFollowStages` shows that a task
is settled once.

`TaskExecutors_proofs` proves the types and the two invariants of
`TaskExecutors` that `node_life` checks, for any tasks, payloads, start-ups and
changes of the daemon (`TypeCorrect`, `CommandsInTheirPlace`,
`LateOrDetachedOnly`). The invariant is a
conjunction over tasks, and since a step changes the record of one task
(`OneTask`) or, when the daemon stops, of several in the same way
(`DaemonKeeps`), each action is examined for one task. `Sent` ties the place of a
command to its destination, which stays the same because the executors are
chosen before the first task starts (`Decided`); `Placed` says where the command
can be at each point of its thread; `DownIsEmpty`, that a daemon that is down
runs nothing, makes the end of the CLI with the daemon an honest end.
`InItsPlace` then reads off the payload from the destination.

`Heartbeat_proofs` proves the types and `OneIdentity` for any ids, deployments,
restarts and faults: the id is settled before the heartbeat thread exists, and
the registry knows nothing of the node before.

`Serving_proofs` proves the types of session thread, tunnel and monitor together
and `EndedSessionsServeNobody`, for any window and any number of faults: a port
of the process's own is closed without it (`PortNeedsProcess`), and so are its
connections (`ConnectionNeedsService`); every way to the final report without a
failed docker command has stopped the process or found it gone
(`ReportedAfterStop`). `WindowCountsStreaks` is the refinement of `CpuWatch`: no
scan follows an alarm, because the session leaves its loop for good
(`QuietBeforeAlarm`); the window is never full of busy samples without an alarm
(`AlarmWhenSustained`), so that it drops only samples the streak does not count
(`BusyLengthensStreak`); and every scan is a step of the counter.

`Sessions_proofs` proves the invariants of `sessions` and, from the same
invariant, its action property, for any sessions, threads, faults and flakes, and
whether the server redelivers or not. It adds that a thread has a session from
its start on (`SidsKnown`), that rungs not yet reached have no container
(`FreshRungs`, which bounds the launches), that the container a thread is
responsible for has been there (`Launched`), that a probed SSH server has answered
(`HeardSsh`), and which threads can be behind an active session
(`ActiveIsAnnounced`): a failed launch ends in the same report as a session that
ran, and only the reason tells them apart. `ContractKept` is the refinement of
`SessionContract`: each change of stage or container is one of its actions
(`Closes`, `Launches`, `Vouches` and so on), `ThreadContracted` finds the one for
each step of a thread. `FreshRungs` makes a launch the first on its rung and the
last so far; `Launched` makes stopping a container a container that goes down.

`KvCache_proofs` proves the three invariants of `KvCache` for any finite set of
runs and any number of shards, workers and passes, whatever the cap. List and
dict agree because the list has no key twice (`OrderedOnce`), which is why
removing the first occurrence removes the key; `RemoveFirstDistinct`,
`AppendDistinct` and `DropDistinct` say so of sequences. `AttendsToPrefix` needs
to know what an entry stands for at every moment of its run: `CacheFollowsSteps`
counts a pass from the moment it is stored, which is before it is reported, and
holds because a run has one pass at work (`OneInFlight`, `TasksFollowSteps`).
`EvictedRunsStayGone` follows from what an eviction may meet: no pass of the run
starts after the signal (`EvictedAreSignalled`), and one still at work is known
to be late (`LateIsKnown`).

`ShardExchange_proofs` proves the invariants of `shard_exchange` for any job: any
number of shards and layers, any cut, any topology. `Held` says what each
task holds at each point and what the exchange stores, so a repeated post writes
what is there already. `ShardsCompose` has the condition that a job of commands
has an executor: without one a command shard echoes its input, so it applies no
layer (`Applied`), and what is proved of the node as it is are the jobs of
models. That the merge concatenates its parts in order (`FlattenSeq`
is recursive) and that cuts that rise from shard to shard rise throughout
are inductions, made by least counterexample: `LeastNatural` gets it from
the well-foundedness of `<`. `PostsCost` charges each unsuccessful attempt to a
fault, which gives `TransientFaultsAbsorbed`. `DataflowImplemented` is the
refinement of `ShardDataflow`, for any job, with an executor or without. A post
writes what its task computed from an input read long before; it is still the
dataflow's step because inputs stay (`InputsStay`) and everything posted is a
`Result`, so the first post of a task is an `Appear` (`OutputIsResult`) and every
later one changes nothing (`DataflowSteps`).

`LlmData_proofs` proves the three invariants of `ShardWeights` for any
number of layers, models, plans and faults. `OverlapSeen` ties holes in files and
double writers to the overlap flag, `RevisionsKept` the revision of a file to
those who may read it, `OwnDirectory` says that a task without a fault of its own
finds every file as published, or absent, in a directory of its own. `Built` and
the lemmas on keys (`KeyKinds`, `KeysFit`, `ParamsHaveKeys`, `KeysSplit`) give
`ShardsFormTheModel`: renumbering maps the keys of a shard onto its parameters,
and the cut splits the keys. `ShardWeightsAssumption` says of plans that a local
directory is one directory and has no revisions, which is how
`LocalWeightsSource` finds its files.

It also proves both invariants of `TensorFormat`, for any set of nested lists of
any bounded depth, any numbers and any cap (`TensorAssumption`: the samples are
lists of lists and numbers, no deeper than `MaxDepth`). The state needs little
(`TensorInv`); the work is in the algorithms. The node count of each level of a
full array times the elements below one node is the size (`LevelSizes`), so the
last level is the flat list (`FlatArray`); level k of what `_reshape` returns is
the list of its chunks (`ReshapedLevels`), so it is a full array whose last level
is the flat list again (`ReshapeIsArray`); two arrays with elements, of one shape
and with the same last level, agree at every level above (`ArraysEqual`).
`EmptyArrays` does the case without elements, where two dimensions are the most
that `_reshape` gives back. The walk of `_infer_shape` has an end
(`WalkHasEnd`), so every sample has a shape (`ShapeOfSample`). What `FlattenSeq`,
`Level`, `Prods` and `Reshape` compute is derived from their recursion by
induction over sets (`UpTo`, `DownTo`), since the library's induction takes an
operator.

So every invariant, every action property and every refinement of the passing
runs is a theorem, and so is the type invariant of each module proved about
(`TypeCorrect`), which therefore needs no run. Model-checked only is every
liveness property: fairness and ENABLED are out of the prover's reach.

## Not modelled

- Notebook bootstrap, tokenizer, demos, the package's `__init__` modules and the
  protocol stub: sequential, formatting, or a thin layer over a third party.
- Argument parsing, `NodeConfig` and the URI parsers (`llm/uri.py`, `hf_uri.py`):
  checks of a string or a flag with no state after them.
- `ShardAwareExecutor` (`shard_executor_adapter.py`): the same routing as
  `DataShardAwareExecutor`, and nothing in the node constructs it.
- Workspace files, SSH keys and option lists of the workbench executors: their
  failures are swallowed, and nothing later depends on them.
- Numbers: the arithmetic of layers is abstracted to the sequence of layers or
  tokens, merges of numbers to which parts they merge, float16 narrowing is
  left out.
- Process ids used again by the operating system, temporary directories and
  exited containers that nobody removes: no code bounds them, so there is
  nothing to state.
