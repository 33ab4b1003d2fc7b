# Verification of the zero-harness routine kernel

zero-harness runs *routines* (agents, tools, device drivers, loops) under a small
kernel. A routine is created, started, stopped and destroyed by its parent; it
occupies *modules* (parts of a body, devices, exclusive resources) while it runs;
the kernel decides who may occupy what, evicts routines of lower priority, and
takes subtrees down. Kernel and hubs are asyncio programs that talk over one link
per hub. This directory holds TLA+ models of the Python implementation in
`src/zero-py/routine-py/routine` and of the two largest agents that run on it
(`src/zero-py/app/routines/user`), the TLC runs that check them, and proofs checked
by TLAPS.

## 1. Inventory

| component | code | state | operations | hard behaviour | here |
|---|---|---|---|---|---|
| module authority | `kernel/tree.py` | modules with parent, children, holders | try_acquire, evictable_holders, release, release_modules, load_module, unload_module | two walks over the same cones must agree; unloading next to holders | `ModuleLocks`, `ModuleTree` |
| kernel: tree, stop cascade, arbitration | `kernel/manager.py`, `kernel/command.py` | node table, Command state, three futures per node, asyncio tasks | create, start, stop, destroy, acquire, release, the reports created/started/stopped, body task, eviction task, `_on_terminated` | every await is a place where others change what was read; cascades, evictions and natural ends cross; a cancelled task may not have begun; timeouts; late reports | `Kernel` |
| kernel: connections, shutdown | `kernel/manager.py` (`register_conn`, `drop_conn`, `_reap_dead`, `_settle_local`, `stop`), `kernel/grpc_server.py`, `grpc_client.py` | connections, identities, owners of nodes | register, drop, reap, shut down, reconnect | a hub goes away, or is back already, while its routines have children on another hub | `Conns` |
| kernel: pending calls | `kernel/manager.py` (messages, `_fail_pending_calls`), `ctx.py`, `_stream.py`, `routine.py`, the queues of `grpc_client.py` | calls in flight by kind and id, stream readers, handlers, frames still to be sent | request, reply, chunk, end, leave, fail on stop | the callee or either link dies between request and reply; handlers outlive the link; a full queue drops its oldest frame | `Calls` |
| kernel: catalog | `kernel/manager.py` (`_on_catalog_*`, `_auto_start_passive`, `_stop_running_by_name`), `hub.py` | routes, classes, passive instances, tasks | push, register, reload, deregister in two hops, automatic start | a reload or a deregistration meets starts and drops; a class is entered later than it is acknowledged | `Catalog` |
| hub: instance lifecycle | `lifecycle.py`, `runtime.py`, stop flags of `routine.py` | running_instances, four stop flags, a main task | handle_created / start / stop / destroy, rejected, request_stop, handle_peer_down | runner and several stoppers want to report and clean up the same instance; the kernel process is replaced and hands out the same ids | `HubLifecycle` |
| hub: handles | `handle.py` | one ack future and a done event per handle | start, stop, destroy, wait, peer_down | an acknowledgement that arrives after its timeout | not modelled |
| reactive agent | `app/.../xml/agent/agent.py` | event lock, react task, act, queues of inputs, deferred messages, history | messages, interrupts, the reflex judgement, reacts, draining | the judgement runs without the lock; a react outlives its cancellation; an act outlives its react, and its start or its stop may fail | `XmlAgent` |
| flow agent | `app/.../agents/flow` (`agent.py`, `inbox.py`, `scheduler.py`) | inbox of two queues, driver task, event log, tools, compactions | messages of three priorities, turns, steps, tools, interrupt, compact | tools run concurrently, the abort is cooperative, compactions want the agent idle | `FlowAgent` |
| agent managers, bridges | `*/manager.py`, `prime`, bridges | tables of live agents | create, resume, forward | check, await, insert | not modelled |
| loader, watcher | `app/routines/loader.py`, `watcher.py` | package tree, file events | scan, reload | file system | not modelled |
| other applications | `moss`, `dag`, tools, devices | their own | their own | model calls, devices, I/O | not modelled |
| ports | `zero-ts`, `zero-rs`, `zero-go` | the same protocol again | | | not modelled |
| user interfaces | `frontend`, `blackboard*`, `routine-atlas` | | | | not modelled |

How they interact: hubs send the kernel requests of their routines (create, start, stop,
messages, catalog) and reports (created, started, stopped) over one first-in-first-out
link; the kernel forwards commands and messages over the link of the hub that owns the
target. The agents use the kernel through the handles of the routines they create.

What makes them correct:

- strangers (routines neither of which is an ancestor of the other) never occupy
  modules of which one is above the other, and never *run* on them (`Exclusion`,
  `RunsUnderLock`);
- the kernel's records of an occupation agree (`RecordsAgree`), and nothing but the
  authority's own operations changes it (`LocksSpec`);
- an eviction hits only routines of strictly lower priority, never the evictor's
  own line (`OnlyLowerEvicted`, `LineSpared`);
- a parent hears of the end of its child (`EndIsTold`), a start finds its instance
  (`StartFindsInstance`), an instance is reported once, when its code no longer
  runs, and is never dropped in silence (`ReportedOver`, `ForgottenIsTold`);
- stops and evictions come to an end whatever crosses them and however silent the
  hub is (`StopCompletes`, `EvictionSettles`, `StopConfirmed`);
- what a lost hub ran leaves the table, what a shutdown sweeps is all there was, and no
  hub goes on running what the table has lost (`DeadLeave`, `ShutdownReaches`,
  `NoOrphans`);
- no caller is forgotten, no broken stream looks complete (`NoLostCall`, `DoneIsWhole`,
  `OpenEnds`, `LeftStops`);
- at rest the catalog, the nodes and the classes in the hubs agree (`RoutesServed`,
  `OneFresh`), and who deregisters is answered (`DeregisterAnswered`);
- an agent never loses what its user says, does one thing at a time and leaves a log
  that a model accepts (`NothingLost`, `OneReact`, `RoundFollowsUser`, `Kept`,
  `CompactsAlone`, `BegunIsAnswered`, `Answered`).

## 2. Modules

```
ModuleCone          cones, evictable holders, occupying and releasing: pure operators
  ModuleLocks       the authority as an abstract specification   <- ModuleLocksProofs
  Kernel            tasks, messages, node table; implements ModuleLocks
                                                                 <- KernelProofs
ModuleTree          tree.py with its lists and pointers; implements ModuleLocks
HubLifecycle        one routine id inside a hub, across kernel processes
                                                                 <- HubLifecycleProofs
Conns               hubs that go and come back, reaping, shutdown      <- ConnsProofs
Calls               requests and streams while routines and links go   <- CallsProofs
Catalog             routes, reloads, passive routines
XmlAgent            the reactive agent                              <- XmlAgentProofs
FlowAgent           the turn and step agent                        <- FlowAgentProofs
QueueLemmas         queues: who is in line, and once (for the kernel, calls and agents)
```

Each `MC` module holds the constants of an instance. `Kernel` composes the authority
with the kernel's tasks; `Conns`, `Calls` and `Catalog` look at the same kernel from
three other sides, each with several hubs and with the life of a routine reduced to what
that side sees of it: a product of them with `Kernel` would have no state space that TLC
could finish.

**ModuleCone, ModuleLocks.** A module is described by `above[m]`, the path from it to
its root; `Cone` is what occupying `m` blocks; `EvictableHolders` is
`Tree.evictable_holders`, and the test of `Tree.try_acquire` is that it is empty.
`ModuleLocks` says what the authority promises whoever drives it: routines are
adopted into lines (`kin[r]` is `r` and its ancestors), occupy after a check, release
at will; modules are loaded and unloaded as leaves.

**ModuleTree** is `tree.py` as it is stored: `known` for the keys of `_modules`,
`parent`, `children` and `holders` as in `_Module`, the two loops of `cone` as
recursive walks, `try_acquire` with the list order that decides which error is
raised, `list.remove` as removal of the first occurrence. It is refined to
`ModuleLocks` by `above` (the upward walk) and `held` (the lists as sets).

**Kernel** is the core. The state follows the code: `nodes` (the table), `node[r]`
(`Node` and `Command` of a routine; the three futures are `born`, `started`,
`stopped`), `kin[r]` (`_ancestor_ids` and the routine), `holders` (the tree), `body[r]`
(where the task of `_run_remote` stands), `frame[r]` (the invocation of `_stop_node`
on `r`: there is at most one, since `stopping` is set first), `evict[r]` (the task of
`_evict_and_start` / `_evict_and_acquire`), `ready` (asyncio's queue of tasks that
have not run yet, first in first out), the two directions of the link per routine,
and `inst[r]`, a coarse view of the hub (the fine one is `HubLifecycle`).
What runs between two awaits is one action. A handler is one action; a task made with
`create_task` or `gather` is appended to `ready` and taken from its head (`RunBody`,
`RunStop`, `RunKid`, `RunEnded`, `RunEvict`); a wait ends by an action of its own
when its condition holds (`BodyStarted`, `BodyStopped`, `KidsStopped`, `StopDone`,
`EvictResume`, ...). Cancelling the body is `node[r].state = "stopping"`: what happens
then depends on where the body is, as in the code: not begun (`RunBody`), waiting
for started (`BodyCancelled`), running (`BodyStop`). The module tree `Above` is a
constant here; `ModuleLocks` and `ModuleTree` change it. `told` records messages to
the parent (for a routine without a parent it records that there was nobody to tell).

**HubLifecycle** is `lifecycle.py` for one id: `task[k][w]` are the hub's tasks of kind
`k` (create, run, stop, self, down, destroy) made while kernel process `w` was
connected; `flags` are the four stop flags of `routine.py`; `table` is
`running_instances[id]`; `reports` is what was sent, with the process it reaches. A
report sent while the link is down waits in the queue for the next process, because
`_cleanup_call` empties the queue *before* `handle_peer_down` runs.

**Conns** has both ends of every gRPC stream: what the hub's end knows (`hub[h]`), what
the kernel's registry says (`conns`, `hubOf`, `hubConn`, `routed`), and the frames
between (`up`, `down`), which a broken stream (`cut`) keeps until either end notices. A
stop is the frame of `_stop_node`, kept in the node itself: it waits for the children it
found, then settles the node when its link is gone, or tells the hub and waits; a task
of `_reap_dead` or of `Kernel.stop` holds the list of nodes it goes through. The
identity of a reconnecting hub is refused while the old stream still stands (`refused`).

**Calls** follows a call from the caller's await (`st`) over two links and the kernel's
table (`pending`) to the handler (`serve`) and back, with the chunks of a stream counted
(`made`, `got`). `Forward` and `Return` are the two directions of `_on_message`;
`Stopped`, `Removed` and `Settle` are the three ways a routine leaves, each with the
failures that the kernel makes up for its calls; `Cancelled` is what a consumer that
left sends. `up[h]` is what is on its way to the kernel; its last `OutMax` frames may be
in the queue of `send_event` still, and when they are that many, `Up` may drop the oldest
of them (`lost` remembers requests, chunks and cancellations that went that way, or with
`_cleanup_call`). Without a connection nothing leaves the queue: `link` is "down" from
the drop until `handle_peer_down` has ended the instances and the hub has dialled again
(`Dial`), then "dialled" until its catalog tells the kernel who it is (`CatalogPush`). The
handlers go on through all of it, and what they send goes out on the next connection,
perhaps before the kernel has settled their nodes (`Settle`). The ids of the calls of one
process differ (`CallAssumption`). `LeftStops` says nothing of a provider that has lost
its node: its handler outlives the stopped instance.

**Catalog** gives every class a version: a hub offers a new one (`register`, `reload`),
keeps instances of the one they were made from, and withdraws. The answer of the kernel
only resolves a future (`HubTakes`); the class is entered when the call that waits for it
goes on (`Enter`, from the queue `entering`), and frames that came behind the answer may
be handled before. The ghost `early` holds the instances made in that window. The kernel's
tasks (`_stop_running_by_name`, `_auto_start_passive`) go from one await to the next
(`turn`: who has the loop). Creations are answered in time, tasks that are ready run before
a hub acts on an answer, and an acknowledgement of a deregistration comes only from the
hub that was told.

**XmlAgent** is one agent: `_event_lock` with its holder's place and its waiters, the
react tasks (`react[r]`, with the rounds they go through), the act that each drives, the
reflex judgement with the inputs it took (`reflex`), the deferred messages and whose the
last message of the history is (`tail`). What a model answers is a free choice (`Judge`,
`StreamEnds`). The act is followed on its way through kernel and hub: `act[r]` is how far
it is, `told[r]` what the kernel was asked last to do with it. Creating and starting may be
refused or time out (`ActFails`); a stop that meets the act between `lifecycle.start` and
`lifecycle.started` cuts it loose (`ActCutLoose`, the case of `stop_reaches_hub`). `Silent`
goes on after `act.stop()` whatever came of it: `_interrupt_act_if_needed` logs a timeout
or a rejection and forgets the act, and the future of the handle may have been resolved by
the answer to an earlier start.

**FlowAgent** is the inbox with its two queues, the driver (`_drive`, turn, step), the
calls of a step as coroutines (`co`) on routines of the kernel (`kern`), the abort flag
that the driver looks at between awaits, and `run_maintenance` for compactions.

Definitions marked "Wrong on purpose" are mutants: each is what a plausible mistake
in the operation below it would look like. No specification uses them; putting one in
the place of the real definition makes TLC find the property it belongs to violated
(`mutants` in `PROJECT.json`).

## 3. Runs

| run | instance | shows |
|---|---|---|
| `module_locks` | 3 modules (every forest), root and two routines; 30 thousand states | the abstract authority: `Exclusion`, and that the modules stay a forest in which alone something is held (`TreeKept`) |
| `module_tree` | the same size, requests of up to 2 modules in either order; 35 thousand | the walks compute the cones and no holder is listed twice (`ListsAgree`), whom `evictable_holders` names makes room (`EvictionClears`), and the table implements `ModuleLocks` |
| `kernel_family` | a parent, its child, a rival that wants the whole tree, two priorities, a hub that may never answer a stop; 139 thousand | the kernel's safety properties under every order of tasks and messages, natural ends included, and `StopCompletes`, `EvictionSettles` |
| `kernel_contention` | two routines, the second a sibling of the first or at the top beside root, acquiring, releasing and evicting at run time, started again, unknown class, slow created, slow stop, unknown module, try_start; 534 thousand | `RecordsAgree`, and that the kernel implements `ModuleLocks` even where root itself is evicted or a running node is rejected |
| `hub_lifecycle` | two kernel processes; 83 thousand | the end of an instance is reported once, after its code, and never missed; `JoinedIsOver` across processes; `StopConfirmed` |
| `conns` | the local hub and one that dials, two streams, two routines on either hub, the second possibly at the top; 386 thousand | connections, reaping, shutdown (section 1) |
| `calls` | two hubs, one of which loses its link and dials again, queues of two frames, two routines, a stream one way and a request the other; 467 thousand | calls and streams (section 1) |
| `catalog` | two hubs that both offer two names, three nodes, three tasks, two versions; 1.4 million | the catalog (section 1) |
| `xml_agent` | two messages of users, one of an agent, three reacts of two rounds, the first of which may fail, one interrupt; 1.3 million | `OneReact`, `RoundFollowsUser`, `NothingLost`, `ActsWatched`, and that every message is answered |
| `flow_agent` | a message of each priority, two calls, two compactions, two steps, one interrupt; 865 thousand | `Kept`, `CompactsAlone`, `BegunIsAnswered`, and that who wakes is answered |

Two runs are expected to find a violation, each of a statement of the code's own comments
that the code does not keep:

| run | statement | what happens |
|---|---|---|
| `dead_hold_nothing` | everything is released when the body ends, interrupted or not (`manager.py:457`, `command.py:4`) | a body cancelled before its first step never reaches the `finally`; its modules stay occupied |
| `stop_reaches_hub` | stop = cancel, send lifecycle.stop, wait, release (`manager.py:614`) | cancelled while it waits for started, the body sends nothing; the routine runs on in the hub, on modules the kernel has freed |

More disagreements were met while modelling. They have no run of their own; the models
contain the behaviours, and the properties are stated so that they say what is true:

- *Kernel.* Create does not ask whether the parent is being stopped, and `_stop_node`
  reads `n.children` once, so a child may outlive its parent in the table (against
  `manager.py:436`). A routine created with parent 0 may evict the root routine (against
  `tree.py:107`; `kernel_contention` contains it). A second start of a running routine
  is rejected and the rejection removes the running node (`manager.py:976-998`;
  `RecordsAgree` leaves out the routines that are started again). `evictable_holders`
  passes over unknown modules where `try_acquire` raises, so holders may be evicted for
  a request that fails anyway (`tree.py:111`, which is why `EvictionClears` speaks of
  modules in the tree).
- *Hub.* The runner and the graceful stop both call `on_stopped` (`lifecycle.py:317`,
  against `docs/02-routine.md:188`). Stops and destroys that were under way are not
  joined by `stop_all_local`; their `_cleanup` pops whatever has the id under the next
  kernel (`lifecycle.py:353-364`).
- *Connections.* A hub whose stream is half open and that dials again is refused as a
  duplicate and does not try a second time (`grpc_client.py`).
- *Calls.* `drop_conn` looks for pending calls by connection where the entries hold the
  hub's identity, and finds none; what saves the callers is that the nodes are settled.
  A request that arrives between the target's stopped and the removal of its node, or
  for a routine whose stop was given up, is never failed: only the caller's timeout ends
  it. Ids are counted per process (`ctx.py:458`) and entries are removed by kind and id
  alone (`manager.py:1246-1257`): the answer to one hub's request removes the entry of
  another hub's with the same id. On an instance with two requests of one id
  `NoLostCall` fails; the run gives them ids that differ, and `NobodyWaitsAlone` says that
  only calls that share an id are concerned.
- *Send queue.* The queue of a hub drops its oldest frame when it is full, also while the
  hub is connected and the kernel merely slow, until `_send_loop` gives up on the stream
  after five seconds; nobody is told (`grpc_client.py:110-123`; the docstring at 246 says
  that the stream is torn because else it would come to that). A request, a chunk or a
  cancellation that goes that way is gone: the caller waits for its timeout, the stream
  ends normally with a hole, the provider goes on for nobody. `NoLostCall`, `DoneIsWhole`
  and `LeftStops` except the calls it happens to, which `lost` remembers, and nothing else.
- *Send queue without a connection.* What is sent while a hub has no connection goes out on
  the next one, whose queue is new. The comment at `grpc_client.py:56` says that nobody
  takes such frames; but the kernel takes them as long as it has not settled the nodes of
  the old connection. A stream whose chunks went with the connection, and whose handler
  ends after the drop, thus ends normally for its consumer: without the exception in
  `DoneIsWhole` TLC finds a broken stream that looks complete (`Chunk`, `Drop`, `Answer`,
  `EndLocally`, `Dial`, `Return`). A hub that is back before `_reap_dead` comes to its
  routines is sent `lifecycle.stop` for instances that it has no more; it answers nothing,
  the kernel gives up after `STOP_TIMEOUT`, and the calls to them are never failed
  (`GiveUp`).
- *Catalog.* The automatic start after a reload may not happen (comment near
  `manager.py:1484`): it finds the name started, or loses its modules. The kernel sends the
  answer ahead of the creation (`manager.py:1457` and 1485: it must come before the
  `lifecycle.created` of the automatic start), but the answer only resolves a future, and
  the creation behind it is handled by a task of its own (`hub.py:444-447`): both wait for
  the loop, and the creation may be first. A reload then leaves an instance of the old
  class, a first registration finds no class and its automatic start fails. Without the
  exception for `early`, `OneFresh` is violated by that.
- *Reactive agent.* `_interrupt_act_if_needed` takes it that no answer to a start is
  outstanding when it stops the act, and that the answer confirms the end of the cascade
  (`xml/agent/agent.py:628-632`). A react that is cancelled inside `await act.start()`
  leaves the act at hand with its start under way: the `started` that then arrives resolves
  the future of the stop (`handle.py:95-98`), and the stop may meet the act before that and
  never reach it. In either case, as after a timeout or a rejection, the agent forgets the
  act while it may run and speak. `ActsWatched` says no more than that the kernel has been
  asked to stop it; without `told` it is violated.
- *Agents.* A mail whose react is cancelled is lost: `except Exception` does not catch
  `CancelledError` (`xml/agent/agent.py` near 1352; the property speaks of users). An
  abort between the end of a stream and the first step of its tools leaves a
  function_call without output (`agents/flow/context.py:56-57`; `BegunIsAnswered` speaks
  of calls that have begun). An interrupt misses tools that are being created
  (`scheduler.py:42-50`): the turn waits for them.

**Bounds.** In `Kernel` the constants say what each client may do (`Parents`, `Claims`,
`Starts`, `Asks`, `Fates`, `Acquirable`); each routine is created once, those in
`Again` may be started again, and each has at most one eviction of its own under way
(`MayStart`, `AcquireBlocked`). Three routines are enough for a parent, a child and a
stranger, the three relations the code distinguishes; three modules for a module with
something above it and something beside it; `ghost` is a module the tree does not have.
In `HubLifecycle` a routine asks for its own end once per process, and there are two
processes, which is what reusing an id takes. In `Conns` two streams are a hub that
comes back while its old stream still stands; `Place` puts a routine on either hub with
a parent on the other or at the top, the two cases in which reaping must not rely on
the tree; `MayEnd` and `MayStop` say who ends by itself and who is asked to stop. In
`Calls` one chunk (`MaxChunk`) is what "received whole" takes, since links do not
reorder; queues of two frames (`OutMax`, 256 in the code) overflow when an end follows
a chunk and an answer; one hub that drops (`MayDrop`) and one routine whose stop goes
unconfirmed (`MayGiveUp`) are of the side that serves the stream; two routines that are
caller and provider to each other give every order of their ends. An in-process hub is
one whose queue never drops. A drop is one step for both ends; `Conns` has them apart.
In `Catalog` `MaxTask` and `MaxId` bound what the kernel starts, `MaxVer` the versions
and the returns of hubs together; two names are what makes one task handle several.
`MayAsk`, `MayDrop` and `MayRefuse` say who withdraws, who drops, and whether a start
may be refused. While a call has its answer and has not gone on (`Window`) only hubs
move: the steps of the others commute with those. When the hub drops in between, it
comes to the same whether the class is entered before the drop or after. In `XmlAgent`
three reacts (`MaxReact`) are one in flight, one that cancels it and one that is
drained afterwards, and `MaxRound` = 2 is one with feedback; the first may fail
(`MayFail`), the others show what comes after; an act that nobody waits for is not
followed to its end (`Followed`), one that was created for nobody is never started, and
acts need no modules; in `FlowAgent` two steps (`MaxStep`) are one whose tools feed the
next. `MaxInterrupt` bounds the interrupts. Deadlock is not checked: clients may ask
for nothing more, and then everything rightly stops.

**Fairness.** In `Kernel`: the event loop runs every task that can go on and every timer
fires (weak fairness of the task actions and of the timeouts); nothing is assumed of
clients and of the hub. In `HubLifecycle`: the same for runner and stoppers; `stop()` is
under `wait_for`, the main task is cancelled after a timeout (`RunnerCancelled`),
`on_stopped` is trusted to return; `run` may go on for ever (one that catches the
cancellation and never returns is outside the model). In the other modules it is weak
fairness of `Progress`, the disjunction of what the event loops do by themselves:
`Conns`: queues are worked off, broken streams are noticed, stop timeouts fire, not that
a hub dials, that a routine ends or that anybody asks for a stop; `Calls`: links that are up
deliver, stop paths and settlements end, not that handlers answer, callers time out or a
hub dials again; `Catalog`: links
deliver and tasks go on, not that hubs offer, withdraw or drop; the two agents: tasks,
streams, tools and acts end, which they do under the timeouts of the requests and of the
kernel, not that anybody sends or interrupts.

## 4. Proofs

TLAPS checks every leaf. The theorems hold for any number of routines, any set of
modules and any forest over them, and any choice of the other constants, under the
assumptions the modules declare: `RootAssumption` (`ModuleLocks`), `RidAssumption`
(command ids are numbers other than 0 and 1, finitely many), `TreeAssumption` (the
module tree is a forest and its root is in it), `ClientAssumption` (the types of
what clients may ask for), `WorldAssumption` (there is a first kernel process),
`ConnsAssumption` (names of hubs and streams are not those of the kernel's own tasks,
streams are finitely many), `CallAssumption` (who calls whom, connections are not named
like hubs, a process gives an id once), `AgentAssumption` and `FlowAssumption` (messages of different
kinds are distinct, the bounds are numbers). Every inductive invariant below was checked
by TLC on the instances of the passing runs before it was proved; where TLC or the prover
found it too weak, the part that was missing is named here.

**`ModuleLocksProofs`** (the authority): `TypeCorrect`, `ExclusionHolds`,
`TreeKeptHolds`. `Exclusion` is not inductive: hanging a new leaf under a module
extends the cones of everything above it. The invariant `IInv` adds that the modules
stay a forest and that nobody occupies a module outside the tree; together they say
that a new leaf finds no occupant and is above nothing. `OccupyKeepsExclusion`,
`LoadKeepsForest` and `UnloadKeepsForest` are the three lemmas that carry the proof.

**`KernelProofs`** (the kernel): `TypeCorrect`, `LineSparedHolds`,
`KernelImplementsLocks` (`Spec => LocksSpec`) and `ExclusionHolds`. The argument:

1. The inductive invariant `IInv` is `TypeOK` with three named parts. `Lines`: a routine
   has a line from its creation on, and with a routine its line holds the parent of it.
   `Agenda`: every task in the loop's queue and every pending eviction names a routine
   that was created, and the holders an eviction has still to stop are outside the
   evictor's line. `Forced`: what a node remembers as `stop_by`, and what a frame of
   `_stop_node` hands down as `force_by`, never has the node itself in its line.
   Why each is needed: `_evict_and_acquire` occupies without looking the node up again,
   so its step is a `TryAcquire` of the authority only because of `Agenda`; a child's
   stop task reads `force_by` from its parent's frame when it runs, so that it is typed,
   and spares the evictor's line, only because of `Agenda`, `Forced` and `Lines`.
2. `Keeps` names what every action but `RoutineCreate` leaves in order; `KeepsInv` shows
   that it is enough. One lemma per group of actions (`StartKeeps`, `StopTaskKeeps`,
   `EvictTaskKeeps`, ...) proves `Keeps`, over lemmas for the shared pieces
   (`StopEnterKeeps`, `StartNowKeeps`, `EvictNextKeeps`, ...). `CreateStep` is the
   exception, the only step that adds a line.
3. The same lemmas prove `LocksStep`: the step is a step of the authority, or none
   (`OccupyImplements`, `ReleaseImplements`, `QuietImplements`). With `InitImplements`
   that is the refinement, and the kernel's `Exclusion` is the authority's theorem,
   instantiated with the kernel's variables.
4. `LineSpared` is `Forced`, read of the nodes alone.

The second half of the module is about the kernel's records: `RecordsAgreeHolds`,
`EndIsToldHolds`, `RunsUnderLockHolds`, `StartFindsInstanceHolds` and the action property
`OnlyLowerEvictedHolds`, from `RecordsHold`, whose invariant adds `Books` to `IInv`:

- `Tasked`: the loop holds a task of a body or of an eviction once, and only while the
  body is fresh, or the eviction queued. Otherwise a second task would start the body of
  a running routine again, or a stale eviction reject it.
- `Orderly`, of every routine: it has a body from its start on and occupies nothing before
  (`Resting`); what an eviction waits for still makes sense when it goes on (`Waits`);
  only who was created is stopped (`Framed`); the two properties themselves (`Agrees`,
  `Ends`).
- `Wired`, of every routine that clients do not start twice: what the two directions of
  the link carry and how far the instance is, before the creation (`Unborn`), before the
  start (`Unstarted`, `Offered`), and for every place the body can stand at (`Sends`,
  `Lives`). A routine runs under its lock because its body ends last: as long as no
  `stopped` has come the body is there, or gave up; a start finds its instance because
  nothing else is on the link when it is sent, and nothing is sent behind it that could
  come first.

A routine that is started twice (`Again`) is the exception in the properties as it is in
the code, where the second start goes through (`handle.py` gives up on the first one);
the others are not disturbed by it, and the theorems say that too. `OneRoutine` reduces a
step to the routine it is about: the others see a `CalmOrder` and a `CalmWire`. One lemma
per group of actions proves `Books'` (`HubBooks`, `ReportBooks`, `BodyBooks`, `StartBooks`,
`StopTaskBooks`, `EvictTaskBooks`, ...).

`OnlyLowerEvicted` needs one more invariant, `Spared`: whom an eviction has still to stop
has been started, and is of lower priority as long as it is in the table. A start writes a
priority only where nothing was started and no eviction waits, so that the comparison made
before the loop still holds when the loop comes to the last holder. With a holder in
`Again` that is not so: a start that is refused leaves its priority behind
(`_on_routine_start`), and the property excepts it.

**`HubLifecycleProofs`** (the hub, any number of kernel processes): `ReportedOverHolds`,
`ForgottenIsToldHolds`, `JoinedIsOverHolds`. `Ahead`: no task and no instance belongs to a
kernel that has not come. `OneRunner`: the runner is about the instance in the table.
`Downs`: a stopper of a lost connection is at work only while the link is down, and is in
charge when it is past its wait; the next kernel is spoken to when it is done, which is
`JoinedIsOver`. `First` and `Told` relate the stop flags, the positions of the runner, of
the stoppers and of a destroy, and the reports: who has closed has called `on_stopped`,
and `sent` is set by one who has closed. Without `First` the runner and a stop could each
find the other's work half done and both report.

**`ConnsProofs`** (the connections): `ConnsTrueHolds`, `ShutdownReachesHolds`. `Framed`
types what travels, `Dialed` says that a stream in use was opened by a hub, `Known` that
`_hub_conn` and `_hub_of` are inverse on live connections, `Owned` that a routine that
came over a live connection belongs to the identity of that one and is on no reaper's
list; a hub that reconnects gets a new connection, which is why its new routines are
spared. `Swept`: once the root is gone, what is up is on the sweep's list or came later.

**`CallsProofs`** (the calls): `StreamsAreWhole`, `NobodyWaitsAlone`, `NoCallIsLost`,
`OneHubLosesNoCall`, for any hubs, routines, calls, number of chunks and size of the
queues. All four are about what happens to calls none of whose frames a send queue has
swallowed: for the others the statements are false of the code, as section 3 says.

1. `IInv` begins with where a frame can be: `Linked` says what each direction of each link
   may carry (`UpFrames`, `DownFrames`), and that who waits is an instance, of which a hub
   has none left when it dials again (`Lives`): a call is answered on the connection on
   which it was made, or not at all. `Finite`: the calls made so far are finitely many, so
   that what a failing routine puts on a link is a queue.
2. `Served` and `Counted`, of every call, count frames instead of looking at them. The
   opening of a call exists once, before its handler, so that a handler works once; the end
   of a stream is behind its chunks in either queue, and in the second only when no chunk is
   left in the first, also when the first has waited for a new connection. What the reader
   was fed and what is on the two links together is what was made, as long as the caller
   waits, its node and its link are there and no chunk is in `lost`; when the end has left
   the kernel, what is on the link to the caller is all that is missing, whatever goes
   meanwhile. `DoneIsWhole` is the last of these sums, when nothing is missing. The
   equality has to be given up when a frame is dropped or a link or a node goes, the
   inequality does not: that is why `Counted` has both.
3. Most steps leave the counted frames of most calls alone (`Calm`, `Steady`). Sending is
   different: `Up` may take a frame out of the middle of the queue, of any call, and
   `TakenFrom` says what that does to counts and order; a queue is `Faded` when nothing has
   happened to the frames of a call but what `lost` says. `Puts`, `Takes` and `AllPuts` say
   what one frame more or less does to a count, and one lemma per action treats the call
   that the step is about.
4. `NoLostCall` needs less: `Answerable` says that a stream that is waited for has its
   reader, and that the call of a caller the kernel knows and reaches has got somewhere
   (`Reached`): its opening, its entry, or its end. An entry leaves the table only with the
   end of its own call or with a failure, so that a dropped answer leaves the entry behind,
   and `drop_conn` removes none. `NobodyWaitsAlone` is stated per call (`Heard`): nobody
   waits alone whose call shares kind and id with no other (`Unshared`). The hypothesis is
   where the code stops: with two requests of one id, made by two processes, the answer to
   one takes the entry of both, and a drop of the provider's link leaves the other caller
   to its timeout. Where one process makes all the calls, the hypothesis follows from how
   it counts (`OneHubLosesNoCall`).

**`XmlAgentProofs`** (the reactive agent): `OneReactHolds`, `RoundFollowsUserHolds`,
`ActsWatchedHolds`, `NothingLostHolds`. `Alone`: a react in flight is the current one, or
the one that was cancelled and is waited for. `Begun`, `Follows`: a cancelled react does
nothing new, and one that has not read the history will find a user's message at its end.
`Seen`: what the reflex looked at before its judgement is still true if the epoch has not
moved; without it a message that is let pass could start a react over another. `Watched`:
an act that was told to start and not to stop yet is the one at hand, and its react drives
it or somebody who holds the lock is about to stop it; without the second half a react that
is cancelled in `act.start()` could be forgotten on the way. `Placed`: a message is in the
lock's line, pending, judged, deferred, stored or dropped, and in one of them.

**`FlowAgentProofs`** (the flow agent): `CompactsAloneHolds`, `KeptHolds`,
`BegunIsAnsweredHolds`, for any messages, calls and compactions and any bounds. A
compaction begins only when there is no driver, and `_wake` makes none while one runs; but
the property holds the type of every variable, and `fed` stays among the calls in the log
only because a tool is fed while the driver waits for the calls of its own step. The
invariant `IInv` adds that: while the driver is in its tools, what it asked is called.
`Placed` says where a message is, that nobody is in line for the lock twice, and that what
an interrupt has yet to take away came before it (`fresh` is what came after it). `Fed`
says that a call in the log has its output, has never begun, or is one the step still
waits for: an interrupt between two tools leaves calls of all three kinds.

**`QueueLemmas`**: what a queue holds, and that nobody is in it twice, when somebody gets
in line, when several do, and when the first leaves.

Only model-checked:

- liveness (`StopCompletes`, `EvictionSettles`, `StopConfirmed`, `OpenEnds`, `LeftStops`,
  `DeadLeave`, `NoOrphans`, `DeregisterAnswered`, `Answered`), which the prover cannot
  treat;
- what is said of `ModuleTree` (`ListsAgree`, `EvictionClears`, the refinement), whose walks
  are recursive operators, outside what the prover supports;
- the invariants of `Catalog` (`RoutesServed`, `OneFresh`): they speak of states of rest, and
  what the invariant must say of the tasks in between has not been found.

## 5. What is not modelled

- Everywhere: text, logging and wire formats, and what only sends (pub/sub, the
  lifecycle watch).
- *Kernel*: module loading over the wire (the tree is a constant in `Kernel`;
  `ModuleTree` has the operations). Creating and starting are one step in `Conns`.
  Priorities of passive routines, and timeouts of the hubs' catalog requests.
- *In-process link*: first in, first out, and never down. Unary requests and the retries
  of the first connection are left out of `Conns`.
- *Hub*: mailboxes, topic handlers, yields; the futures of `handle.py` (a client that
  starts again after a timeout is in `Kernel` as `Again`).
- *Reactive agent*: `stop()`, which takes no lock; `_agent_msg_lock` between several
  mails; emotion and condensing; what becomes of an act after
  its react has failed; a cancellation inside `_emit_feedback`.
- *Flow agent*: `run()` and `stop()` (a message that arrives while stop waits wakes a
  driver that writes to a closed log), hooks of third parties, a driver that crashes,
  retries of a request, what pruning and condensing do to the log.
- *Managers and bridges*: tables with a check and an insertion around an await; two
  requests for one agent both pass the check (`agents/flow/manager.py:146`, and likewise
  in `prime` and `xml`).
- *Loader, watcher, moss, dag, other applications*: file system, audio, devices and
  model calls, with little state of their own that several actors share.
- *Ports and user interfaces*: the ports follow the Python implementation, which is the
  reference here.

What would come next: the futures of `handle.py` composed with `Kernel`'s view of a
client; the managers' tables; an inductive invariant for the catalog.
