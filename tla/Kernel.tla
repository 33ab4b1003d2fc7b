-------------------------------- MODULE Kernel --------------------------------
(***************************************************************************)
(* The kernel of routine-py (kernel/manager.py, kernel/command.py) with    *)
(* one hub at the other end of the link: the routine tree, the occupation  *)
(* of modules, start arbitration by priority, the stop cascade, and the    *)
(* asyncio tasks that carry them out.                                      *)
(*                                                                         *)
(* The kernel runs on one event loop: what a handler or a task does        *)
(* between two awaits is one action.  ready is the loop's queue of tasks   *)
(* that were created and have not run yet, in the order they will run; a   *)
(* task that waits resumes by an action of its own, whenever what it waits *)
(* for has come.                                                           *)
(***************************************************************************)
EXTENDS Naturals, Sequences, FiniteSets, ModuleCone

CONSTANTS
    Rid,            \* command ids the kernel hands out, in creation order
    Above,          \* the module tree: Above[m] is m and the modules above it
    TreeRoot,       \* its root, occupied by the root routine
    Parents,        \* Parents[r]: the parents routine r may be created under
    Claims,         \* Claims[r]: the sets cls.modules() may declare for r
    Acquirable,     \* the sets a running routine may acquire or release
    Starts,         \* Starts[r]: the <<priority, try>> pairs a start of r may carry
    Asks,           \* Asks[r]: what else the clients may ask of r
    Fates,          \* Fates[r]: what may befall r without anybody asking
    Again           \* the routines that clients may start again

NoParent == 0       \* parent_id 0: created at the top
Root     == 1       \* the kernel's own routine, the first command id
Node     == Rid \cup {Root}

ASSUME RidAssumption == Rid \subseteq Nat \ {NoParent, Root} /\ IsFiniteSet(Rid)
ASSUME TreeAssumption == IsForest(Above) /\ TreeRoot \in Loaded(Above)
ASSUME ClientAssumption ==
    /\ Parents \in [Rid -> SUBSET (Node \cup {NoParent})]
    /\ Claims \in [Rid -> SUBSET SUBSET Module]
    /\ Acquirable \subseteq SUBSET Module
    /\ Starts \in [Rid -> SUBSET (Nat \X BOOLEAN)]
    /\ Asks \in [Rid -> SUBSET {"stop", "destroy", "acquire", "release"}]
    /\ Fates \in [Rid -> SUBSET {"returns", "unknown class", "slow created", "slow stop"}]
    /\ Again \subseteq Rid

VARIABLES
    nodes,          \* Kernel.nodes: the ids in the node table
    node,           \* node[r]: Node and Command of r (a record, see TypeOK)
    kin,            \* kin[r]: r and the ids on its parent chain
    holders,        \* Tree: holders[m]
    body,           \* body[r]: where the task of Kernel._run_remote stands
    frame,          \* frame[r]: the Kernel._stop_node invocation on r
    evict,          \* evict[r]: the eviction r is waiting for, if any
    ready,          \* tasks created and not run yet, first in first out
    told,           \* routines whose end (or rejection) was sent to the parent
    toHub,          \* toHub[r]: kernel -> hub messages about r, in order
    toKernel,       \* toKernel[r]: hub -> kernel lifecycle reports about r
    inst            \* inst[r]: the instance of r in the hub

treeVars  == <<nodes, node, kin, told>>
taskVars  == <<body, frame, evict, ready>>
wireVars  == <<toHub, toKernel, inst>>
vars == <<nodes, node, kin, holders, body, frame, evict, ready, told, toHub, toKernel, inst>>

States  == {"none", "created", "starting", "running", "stopping", "stopped"}
Bodies  == {"none", "fresh", "starting", "running", "stopwait", "done"}
Tasks   == [kind : {"body", "stop", "kid", "ended", "evict"}, rid : Node]

NodeRecord == [
    state   : States,                        \* Command.state
    parent  : Node \cup {NoParent},
    claim   : SUBSET Module,                 \* declared
    mods    : SUBSET Module,                 \* Command.modules
    prio    : Nat,                           \* priority
    stopping: BOOLEAN,
    by      : Node \cup {NoParent},          \* stop_by, with reason PREEMPTED
    born    : {"pending", "ok", "error"},    \* created_fut
    seen    : BOOLEAN,                       \* created_done
    reply   : {"waiting", "ok", "error"},    \* the answer to routine.create
    started : BOOLEAN,                       \* started_fut is done
    stopped : BOOLEAN]                       \* stopped_fut is done

\* pc: where the invocation stands; kids: the children it waits for; caller:
\* who awaits it; by: force_by, handed down the cascade.
FrameRecord == [
    pc     : {"idle", "kids", "body", "over"},
    kids   : SUBSET Node,
    caller : {"nobody", "parent", "evictor"},
    by     : Node \cup {NoParent}]

\* left: holders still to be stopped; on: the holder being stopped.
EvictRecord == [
    pc   : {"none", "queued", "waiting"},
    kind : {"start", "acquire"},
    mods : SUBSET Module,
    try  : BOOLEAN,
    left : SUBSET Node,
    on   : Node]

Commands == {"created", "start", "stop", "destroy", "rejected"}
Reports  == {"created", "started", "stopped"}

TypeOK ==
    /\ nodes \subseteq Node
    /\ node \in [Node -> NodeRecord]
    /\ kin \in [Node -> SUBSET Node]
    /\ holders \in [Module -> SUBSET Node]
    /\ body \in [Node -> Bodies]
    /\ frame \in [Node -> FrameRecord]
    /\ evict \in [Node -> EvictRecord]
    /\ ready \in Seq(Tasks)
    /\ told \subseteq Node
    /\ toHub \in [Node -> Seq(Commands)]
    /\ toKernel \in [Node -> Seq(Reports)]
    /\ inst \in [Node -> {"none", "created", "running", "lost", "gone"}]

-------------------------------------------------------------------------------
\* What the code reads.

Kids(n) == {c \in nodes : node[c].parent = n}

\* _require_parent_running.
ParentRunning(r) ==
    node[r].parent \in Node => node[node[r].parent].state = "running"

Holds(r) == {m \in Module : r \in holders[m]}

\* Wrong on purpose: ancestors are no exception.
RivalsAndAncestors(r, mods) == EvictableHolders(Above, holders, mods, {r})

\* evictable_holders for r wanting mods.
Rivals(r, mods) == EvictableHolders(Above, holders, mods, kin[r])

\* The three outcomes of try_acquire.  A set with an unknown module and an
\* occupied one may fail either way: the list order decides.
Free(r, mods)    == mods \subseteq Loaded(Above) /\ Rivals(r, mods) = {}
Blocked(r, mods) == Rivals(r, mods) # {}
Unknown(mods)    == ~ (mods \subseteq Loaded(Above))

\* A message of p's instance may still reach the kernel: the instance is there,
\* or its last report has not been handled yet (the link is first in first out).
Speaks(p) ==
    p \in Rid => \/ inst[p] \in {"created", "running", "lost"}
                 \/ \E i \in 1..Len(toKernel[p]) : toKernel[p][i] = "stopped"

-------------------------------------------------------------------------------
\* Tasks and messages.

Task(kind, r) == [kind |-> kind, rid |-> r]
Spawn(kind, r) == ready' = Append(ready, Task(kind, r))

\* The loop takes the first of its new tasks.
Runs(kind, r) == ready # <<>> /\ Head(ready) = Task(kind, r)

Sent(r, msg)     == [toHub EXCEPT ![r] = Append(@, msg)]
Reported(r, msg) == [toKernel EXCEPT ![r] = Append(@, msg)]
Receive(r, msg)  == toKernel[r] # <<>> /\ Head(toKernel[r]) = msg
                    /\ toKernel' = [toKernel EXCEPT ![r] = Tail(@)]

-------------------------------------------------------------------------------
\* Initial state: Kernel.start has built the root routine and the hub is
\* connected.

NewNode == [state |-> "none", parent |-> NoParent, claim |-> {}, mods |-> {}, prio |-> 0,
            stopping |-> FALSE, by |-> NoParent, born |-> "pending", seen |-> FALSE,
            reply |-> "waiting", started |-> FALSE, stopped |-> FALSE]

IdleFrame == [pc |-> "idle", kids |-> {}, caller |-> "nobody", by |-> NoParent]
NoEvict   == [pc |-> "none", kind |-> "start", mods |-> {}, try |-> FALSE,
              left |-> {}, on |-> Root]

Init ==
    /\ nodes = {Root}
    /\ node = [r \in Node |-> IF r = Root
                THEN [NewNode EXCEPT !.state = "running", !.mods = {TreeRoot}]
                ELSE NewNode]
    /\ kin = [r \in Node |-> IF r = Root THEN {Root} ELSE {}]
    /\ holders = [m \in Module |-> IF m = TreeRoot THEN {Root} ELSE {}]
    /\ body = [r \in Node |-> IF r = Root THEN "running" ELSE "none"]
    /\ frame = [r \in Node |-> IdleFrame]
    /\ evict = [r \in Node |-> NoEvict]
    /\ ready = <<>>
    /\ told = {}
    /\ toHub = [r \in Node |-> <<>>]
    /\ toKernel = [r \in Node |-> <<>>]
    /\ inst = [r \in Node |-> "none"]

-------------------------------------------------------------------------------
\* Create.

\* Wrong on purpose: parent_id is taken for an ancestor even when it is 0.
RoutineCreateUnderZero(r, p) ==
    /\ node[r].state = "none"
    /\ \A q \in Rid : q < r => node[q].state # "none"
    /\ p \in Parents[r] /\ p \in nodes \cup {NoParent} /\ Speaks(p)
    /\ nodes' = nodes \cup {r}
    /\ node' = [node EXCEPT ![r].state = "created", ![r].parent = p]
    /\ kin' = [kin EXCEPT ![r] = {r, p} \cup (IF p = NoParent THEN {} ELSE kin[p])]
    /\ toHub' = Sent(r, "created")
    /\ UNCHANGED <<holders, taskVars, told, toKernel, inst>>

\* _on_routine_create: the next id, linked under its parent; lifecycle.created
\* goes to the hub.  The parent must be in the table; its state is not asked.
RoutineCreate(r, p) ==
    /\ node[r].state = "none"
    /\ \A q \in Rid : q < r => node[q].state # "none"
    /\ p \in Parents[r] /\ p \in nodes \cup {NoParent} /\ Speaks(p)
    /\ nodes' = nodes \cup {r}
    /\ node' = [node EXCEPT ![r].state = "created", ![r].parent = p]
    /\ kin' = [kin EXCEPT ![r] = {r} \cup (IF p = NoParent THEN {} ELSE kin[p])]
    /\ toHub' = Sent(r, "created")
    /\ UNCHANGED <<holders, taskVars, told, toKernel, inst>>

\* _on_lifecycle_created.
LifecycleCreated(r) ==
    /\ Receive(r, "created")
    /\ node' = IF r \in nodes
                THEN [node EXCEPT ![r].seen = TRUE,
                                  ![r].born = IF @ = "pending" THEN "ok" ELSE @]
                ELSE node
    /\ UNCHANGED <<nodes, kin, holders, taskVars, told, toHub, inst>>

\* The task of _on_routine_create resumes: the declared modules are recorded
\* and the creator is answered.
CreatedReply(r) ==
    /\ node[r].state # "none" /\ node[r].reply = "waiting" /\ node[r].born # "pending"
    /\ IF node[r].born = "ok"
        THEN \E claim \in Claims[r] :
                node' = [node EXCEPT ![r].reply = "ok", ![r].claim = claim]
        ELSE node' = [node EXCEPT ![r].reply = "error"]
    /\ UNCHANGED <<nodes, kin, holders, taskVars, told, wireVars>>

\* ... or gives up after CREATED_TIMEOUT.  wait_for cancels the future; the
\* node stays where it is.
CreatedTimeout(r) ==
    /\ "slow created" \in Fates[r]
    /\ node[r].state # "none" /\ node[r].reply = "waiting" /\ node[r].born = "pending"
    /\ node' = [node EXCEPT ![r].reply = "error", ![r].born = "error"]
    /\ UNCHANGED <<nodes, kin, holders, taskVars, told, wireVars>>

-------------------------------------------------------------------------------
\* Leaving the node table.

\* Wrong on purpose: the rejected node stays.
RejectAndKeep(r, try) ==
    IF try THEN UNCHANGED <<nodes, told, toHub>>
    ELSE told' = told \cup {r} /\ toHub' = Sent(r, "rejected") /\ UNCHANGED nodes

\* _cleanup_failed_start and the rejected answer to the requester; a try_start
\* leaves the node where it is.
Reject(r, try) ==
    IF try THEN UNCHANGED <<nodes, told, toHub>>
    ELSE /\ nodes' = nodes \ {r}
         /\ told' = told \cup {r}
         /\ toHub' = Sent(r, "rejected")

\* Destroying a node that was created and not started: the hub is told, the
\* parent is told, the node leaves the table.
Destroy(r) ==
    /\ nodes' = nodes \ {r}
    /\ told' = told \cup {r}
    /\ toHub' = Sent(r, "destroy")

\* _on_routine_destroy.
RoutineDestroy(r) ==
    /\ "destroy" \in Asks[r]
    /\ r \in nodes /\ node[r].reply = "ok" /\ node[r].state = "created"
    /\ Speaks(node[r].parent)
    /\ Destroy(r)
    /\ UNCHANGED <<node, kin, holders, taskVars, toKernel, inst>>

-------------------------------------------------------------------------------
\* Start.

\* _start, once try_acquire has passed, with the priority the start carries:
\* occupy, and create the body task.  A command that has a task already refuses
\* the new body, after it has occupied.
StartNow(r, prio, try, tasks) ==
    /\ Free(r, node[r].claim)
    /\ holders' = Occupy(holders, r, node[r].claim)
    /\ IF node[r].state = "created"
        THEN /\ node' = [node EXCEPT ![r].state = "starting", ![r].prio = prio,
                                     ![r].mods = node[r].claim]
             /\ body' = [body EXCEPT ![r] = "fresh"]
             /\ ready' = Append(tasks, Task("body", r))
             /\ UNCHANGED <<nodes, told, toHub>>
        ELSE /\ node' = [node EXCEPT ![r].prio = prio, ![r].mods = node[r].claim]
             /\ ready' = tasks
             /\ Reject(r, try)
             /\ UNCHANGED body

\* The client may ask for a start: the handle exists, no start of it is under way.
MayStart(r) ==
    /\ r \in nodes /\ node[r].reply = "ok" /\ evict[r].pc = "none"
    /\ Speaks(node[r].parent)
    /\ node[r].state = "created" \/ r \in Again

\* _on_routine_start refuses a start whose parent is not running.
StartParentNotRunning(r) ==
    /\ MayStart(r) /\ ~ ParentRunning(r)
    /\ \E k \in Starts[r] : Reject(r, k[2])
    /\ UNCHANGED <<node, kin, holders, taskVars, toKernel, inst>>

\* _on_routine_start with the modules free.
StartFree(r) ==
    /\ MayStart(r) /\ ParentRunning(r)
    /\ \E k \in Starts[r] :
        StartNow(r, k[1], k[2], ready)
    /\ UNCHANGED <<kin, frame, evict, toKernel, inst>>

\* _on_routine_start refuses: a module is unknown, or it is occupied and the
\* start has the lowest priority.
StartRefused(r) ==
    /\ MayStart(r) /\ ParentRunning(r)
    /\ \E k \in Starts[r] :
        /\ Unknown(node[r].claim) \/ (Blocked(r, node[r].claim) /\ k[1] = 0)
        /\ Reject(r, k[2])
        /\ node' = [node EXCEPT ![r].prio = k[1]]
    /\ UNCHANGED <<kin, holders, taskVars, toKernel, inst>>

\* _on_routine_start blocked, with a priority: a task will try to evict.
StartBlocked(r) ==
    /\ MayStart(r) /\ ParentRunning(r)
    /\ \E k \in Starts[r] :
        /\ Blocked(r, node[r].claim) /\ k[1] > 0
        /\ node' = [node EXCEPT ![r].prio = k[1]]
        /\ evict' = [evict EXCEPT ![r] =
                [NoEvict EXCEPT !.pc = "queued", !.mods = node[r].claim, !.try = k[2]]]
    /\ Spawn("evict", r)
    /\ UNCHANGED <<nodes, kin, told, holders, body, frame, wireVars>>

-------------------------------------------------------------------------------
\* Stop: one invocation of _stop_node.

\* The part of _stop_node that follows the children: n itself.  nd is the node
\* table with what the invocation has already written, fr the frame it keeps.
StopSelf(n, nd, fr) ==
    CASE nd[n].state = "created" ->
            /\ Destroy(n)
            /\ node' = nd
            /\ frame' = [frame EXCEPT ![n] = [fr EXCEPT !.pc = "over"]]
      [] nd[n].state # "created" /\ (nd[n].stopped \/ nd[n].state = "stopped") ->
            /\ node' = nd                         \* wait for the body to end
            /\ frame' = [frame EXCEPT ![n] = [fr EXCEPT !.pc = "body"]]
            /\ UNCHANGED <<nodes, told, toHub>>
      [] OTHER ->
            /\ node' = [nd EXCEPT ![n].state = "stopping"]   \* cancel the body
            /\ frame' = [frame EXCEPT ![n] = [fr EXCEPT !.pc = "body"]]
            /\ UNCHANGED <<nodes, told, toHub>>

\* An invocation starts: it marks n, then stops the children that are there
\* now, all at once, each in a task of its own; without children it goes on.
StopEnter(n, by, caller, tasks) ==
    LET nd == [node EXCEPT ![n].stopping = TRUE,
                           ![n].by = IF by = NoParent THEN @ ELSE by]
        fr == [pc |-> "kids", kids |-> Kids(n), caller |-> caller, by |-> by]
    IN  IF Kids(n) = {}
        THEN /\ StopSelf(n, nd, fr)
             /\ ready' = tasks
        ELSE /\ node' = nd
             /\ frame' = [frame EXCEPT ![n] = fr]
             /\ \E k \in [1..Cardinality(Kids(n)) -> Kids(n)] :
                    /\ \A i, j \in DOMAIN k : i < j => k[i] < k[j]
                    /\ ready' = tasks \o [i \in DOMAIN k |-> Task("kid", k[i])]
             /\ UNCHANGED <<nodes, told, toHub>>

\* _on_routine_stop: mark the node, and stop it in a task.  A node that is
\* being stopped already is left alone.
RoutineStop(r) ==
    /\ "stop" \in Asks[r]
    /\ r \in nodes /\ node[r].reply = "ok" /\ Speaks(node[r].parent)
    /\ ParentRunning(r) /\ ~ node[r].stopping
    /\ node' = [node EXCEPT ![r].stopping = TRUE]
    /\ Spawn("stop", r)
    /\ UNCHANGED <<nodes, kin, holders, body, frame, evict, told, wireVars>>

\* The task of _on_routine_stop runs.
RunStop(r) ==
    /\ Runs("stop", r)
    /\ StopEnter(r, NoParent, "nobody", Tail(ready))
    /\ UNCHANGED <<kin, holders, body, evict, toKernel, inst>>

\* Wrong on purpose: the parent goes on waiting for a child others are stopping.
RunKidAndWait(r) ==
    /\ Runs("kid", r)
    /\ IF node[r].stopping
        THEN /\ ready' = Tail(ready)
             /\ UNCHANGED <<nodes, node, frame, told, toHub>>
        ELSE StopEnter(r, frame[node[r].parent].by, "parent", Tail(ready))
    /\ UNCHANGED <<kin, holders, body, evict, toKernel, inst>>

\* The task that a parent's invocation made for its child runs.  A child that
\* somebody else is stopping is not waited for.
RunKid(r) ==
    /\ Runs("kid", r)
    /\ LET p == node[r].parent IN
        IF node[r].stopping
        THEN /\ frame' = [frame EXCEPT ![p].kids = @ \ {r}]
             /\ ready' = Tail(ready)
             /\ UNCHANGED <<nodes, node, told, toHub>>
        ELSE StopEnter(r, frame[p].by, "parent", Tail(ready))
    /\ UNCHANGED <<kin, holders, body, evict, toKernel, inst>>

\* Every child the invocation waits for is done: gather returns.
KidsStopped(n) ==
    /\ frame[n].pc = "kids"
    /\ \A k \in frame[n].kids : frame[k].caller = "parent" /\ frame[k].pc = "over"
    /\ StopSelf(n, node, frame[n])
    /\ UNCHANGED <<kin, holders, body, evict, ready, toKernel, inst>>

\* The body has ended: Command.stop or wait returns, the node leaves the table.
StopDone(n) ==
    /\ frame[n].pc = "body" /\ body[n] = "done"
    /\ node' = [node EXCEPT ![n].state = "stopped"]
    /\ nodes' = nodes \ {n}
    /\ frame' = [frame EXCEPT ![n].pc = "over"]
    /\ UNCHANGED <<kin, holders, body, evict, ready, told, wireVars>>

-------------------------------------------------------------------------------
\* The body task: _run_remote.

\* The task runs for the first time: lifecycle.start goes out.  If it was
\* cancelled before, it ends without entering the coroutine, and the finally
\* that releases the modules is never reached.
RunBody(r) ==
    /\ Runs("body", r)
    /\ ready' = Tail(ready)
    /\ IF node[r].state = "stopping"
        THEN /\ body' = [body EXCEPT ![r] = "done"]
             /\ UNCHANGED toHub
        ELSE /\ body' = [body EXCEPT ![r] = "starting"]
             /\ toHub' = Sent(r, "start")
    /\ UNCHANGED <<treeVars, holders, frame, evict, toKernel, inst>>

\* The body ends through its finally: everything r occupies is released.
BodyEnds(r, state) ==
    /\ body' = [body EXCEPT ![r] = "done"]
    /\ holders' = ReleaseModules(holders, r, Module)
    /\ node' = [node EXCEPT ![r].state = state]

\* started or stopped has come; stopped first means that the start failed.
BodyStarted(r) ==
    /\ body[r] = "starting" /\ node[r].state = "starting"
    /\ node[r].started \/ node[r].stopped
    /\ IF node[r].stopped
        THEN BodyEnds(r, "stopped")
        ELSE /\ node' = [node EXCEPT ![r].state = "running"]
             /\ body' = [body EXCEPT ![r] = "running"]
             /\ UNCHANGED holders
    /\ UNCHANGED <<nodes, kin, told, frame, evict, ready, wireVars>>

\* Cancelled while it waits for started: no lifecycle.stop is sent.
BodyCancelled(r) ==
    /\ body[r] = "starting" /\ node[r].state = "stopping"
    /\ BodyEnds(r, "stopped")
    /\ UNCHANGED <<nodes, kin, told, frame, evict, ready, wireVars>>

\* stopped has come and nobody cancelled the body.
BodyFinished(r) ==
    /\ body[r] = "running" /\ node[r].state = "running" /\ node[r].stopped
    /\ BodyEnds(r, "stopped")
    /\ UNCHANGED <<nodes, kin, told, frame, evict, ready, wireVars>>

\* Wrong on purpose: the modules are given back before the hub has confirmed.
BodyStopAndRelease(r) ==
    /\ body[r] = "running" /\ node[r].state = "stopping" /\ r # Root
    /\ body' = [body EXCEPT ![r] = "stopwait"]
    /\ toHub' = Sent(r, "stop")
    /\ holders' = ReleaseModules(holders, r, Module)
    /\ UNCHANGED <<treeVars, frame, evict, ready, toKernel, inst>>

\* Cancelled while the routine runs: ask the hub to stop it, then wait.
BodyStop(r) ==
    /\ body[r] = "running" /\ node[r].state = "stopping" /\ r # Root
    /\ body' = [body EXCEPT ![r] = "stopwait"]
    /\ toHub' = Sent(r, "stop")
    /\ UNCHANGED <<treeVars, holders, frame, evict, ready, toKernel, inst>>

\* The hub has confirmed.
BodyStopped(r) ==
    /\ body[r] = "stopwait" /\ node[r].stopped
    /\ BodyEnds(r, "stopped")
    /\ UNCHANGED <<nodes, kin, told, frame, evict, ready, wireVars>>

\* Wrong on purpose: no timeout guards the stop of a holder being evicted.
BodyStopTimeoutUnlessEvicted(r) ==
    /\ "slow stop" \in Fates[r]
    /\ body[r] = "stopwait" /\ ~ node[r].stopped /\ frame[r].caller # "evictor"
    /\ BodyEnds(r, "stopped")
    /\ UNCHANGED <<nodes, kin, told, frame, evict, ready, wireVars>>

\* STOP_TIMEOUT has passed without an answer: the kernel gives up.
BodyStopTimeout(r) ==
    /\ "slow stop" \in Fates[r]
    /\ body[r] = "stopwait" /\ ~ node[r].stopped
    /\ BodyEnds(r, "stopped")
    /\ UNCHANGED <<nodes, kin, told, frame, evict, ready, wireVars>>

\* _root_body is cancelled; it releases nothing.
RootBodyCancelled ==
    /\ body[Root] = "running" /\ node[Root].state = "stopping"
    /\ body' = [body EXCEPT ![Root] = "done"]
    /\ node' = [node EXCEPT ![Root].state = "stopped"]
    /\ UNCHANGED <<nodes, kin, told, holders, frame, evict, ready, wireVars>>

-------------------------------------------------------------------------------
\* Lifecycle reports from the hub.

\* _on_lifecycle_started.
LifecycleStarted(r) ==
    /\ Receive(r, "started")
    /\ node' = [node EXCEPT ![r].started = @ \/ r \in nodes]
    /\ UNCHANGED <<nodes, kin, told, holders, taskVars, toHub, inst>>

\* Wrong on purpose: the parent is to be told later, when the node has gone.
LifecycleStoppedUntold(r) ==
    /\ Receive(r, "stopped")
    /\ CASE r \notin nodes ->
                UNCHANGED <<node, ready>>
         [] r \in nodes /\ ~ node[r].seen ->
                /\ node' = [node EXCEPT ![r].seen = TRUE,
                                        ![r].born = IF @ = "pending" THEN "error" ELSE @]
                /\ UNCHANGED ready
         [] OTHER ->
                /\ node' = [node EXCEPT ![r].stopped = TRUE]
                /\ Spawn("ended", r)
    /\ UNCHANGED <<nodes, kin, holders, body, frame, evict, told, toHub, inst>>

\* _on_lifecycle_stopped: a report that comes before the created report means
\* that creating failed; otherwise the parent is told at once and a task deals
\* with what the routine leaves behind.
LifecycleStopped(r) ==
    /\ Receive(r, "stopped")
    /\ CASE r \notin nodes ->
                UNCHANGED <<node, told, ready>>
         [] r \in nodes /\ ~ node[r].seen ->
                /\ node' = [node EXCEPT ![r].seen = TRUE,
                                        ![r].born = IF @ = "pending" THEN "error" ELSE @]
                /\ UNCHANGED <<told, ready>>
         [] OTHER ->
                /\ node' = [node EXCEPT ![r].stopped = TRUE]
                /\ told' = told \cup {r}
                /\ Spawn("ended", r)
    /\ UNCHANGED <<nodes, kin, holders, body, frame, evict, toHub, inst>>

\* The task of _on_terminated runs: unless somebody is stopping the node
\* already, its children are stopped and it leaves the table.
RunEnded(r) ==
    /\ Runs("ended", r)
    /\ IF r \notin nodes \/ node[r].stopping
        THEN /\ ready' = Tail(ready)
             /\ UNCHANGED <<nodes, node, frame, told, toHub>>
        ELSE StopEnter(r, NoParent, "nobody", Tail(ready))
    /\ UNCHANGED <<kin, holders, body, evict, toKernel, inst>>

-------------------------------------------------------------------------------
\* Occupying and releasing at run time, and eviction.

\* _require_self_running, and the instance can still speak.
SelfRunning(r) ==
    r \in nodes /\ node[r].state \in {"starting", "running"} /\ node[r].started /\ Speaks(r)

\* _on_routine_acquire with the modules free.  (Refused requests change nothing.)
AcquireFree(r) ==
    /\ "acquire" \in Asks[r]
    /\ SelfRunning(r)
    /\ \E mods \in Acquirable :
        /\ Free(r, mods)
        /\ holders' = Occupy(holders, r, mods)
        /\ node' = [node EXCEPT ![r].mods = @ \cup mods]
    /\ UNCHANGED <<nodes, kin, told, taskVars, wireVars>>

\* _on_routine_acquire blocked: a task will try to evict.
AcquireBlocked(r) ==
    /\ "acquire" \in Asks[r]
    /\ SelfRunning(r) /\ evict[r].pc = "none" /\ node[r].prio > 0
    /\ \E mods \in Acquirable :
        /\ Blocked(r, mods)
        /\ evict' = [evict EXCEPT ![r] =
                [NoEvict EXCEPT !.pc = "queued", !.kind = "acquire", !.mods = mods]]
    /\ Spawn("evict", r)
    /\ UNCHANGED <<treeVars, holders, body, frame, wireVars>>

\* Wrong on purpose: the command's own list is not updated.
RoutineReleaseHalf(r) ==
    /\ "release" \in Asks[r]
    /\ SelfRunning(r)
    /\ \E mods \in Acquirable :
        /\ mods \cap Holds(r) # {}
        /\ holders' = ReleaseModules(holders, r, mods)
    /\ UNCHANGED <<treeVars, taskVars, wireVars>>

\* _on_routine_release.
RoutineRelease(r) ==
    /\ "release" \in Asks[r]
    /\ SelfRunning(r)
    /\ \E mods \in Acquirable :
        /\ mods \cap Holds(r) # {}
        /\ holders' = ReleaseModules(holders, r, mods)
        /\ node' = [node EXCEPT ![r].mods = @ \ mods]
    /\ UNCHANGED <<nodes, kin, told, taskVars, wireVars>>

\* The second attempt, after the eviction.  A start looks the node up again;
\* an acquire does not.
RetryStart(a, tasks) ==
    /\ evict[a].kind = "start"
    /\ \/ a \in nodes /\ StartNow(a, node[a].prio, evict[a].try, tasks)
       \/ /\ a \notin nodes \/ ~ Free(a, node[a].claim)
          /\ Reject(a, evict[a].try)
          /\ ready' = tasks
          /\ UNCHANGED <<node, body, holders>>
    /\ UNCHANGED frame

\* Wrong on purpose: after the eviction the modules are taken for free.
RetryAcquireUnchecked(a, tasks) ==
    /\ evict[a].kind = "acquire"
    /\ holders' = Occupy(holders, a, evict[a].mods)
    /\ node' = [node EXCEPT ![a].mods = @ \cup evict[a].mods]
    /\ ready' = tasks
    /\ UNCHANGED <<nodes, body, frame, told, toHub>>

RetryAcquire(a, tasks) ==
    /\ evict[a].kind = "acquire"
    /\ IF Free(a, evict[a].mods)
        THEN /\ holders' = Occupy(holders, a, evict[a].mods)
             /\ node' = [node EXCEPT ![a].mods = @ \cup evict[a].mods]
        ELSE UNCHANGED <<holders, node>>
    /\ ready' = tasks
    /\ UNCHANGED <<nodes, body, frame, told, toHub>>

\* The loop of _evict_lower_holders over the holders left: those that are gone
\* or being stopped are passed over, the next one is stopped and awaited.
EvictNext(a, left, tasks) ==
    LET able == {h \in left \cap nodes : ~ node[h].stopping}
    IN  IF able = {}
        THEN /\ evict' = [evict EXCEPT ![a] = NoEvict]
             /\ RetryStart(a, tasks) \/ RetryAcquire(a, tasks)
        ELSE \E h \in able :
             /\ \A g \in able : h <= g
             /\ evict' = [evict EXCEPT ![a].pc = "waiting", ![a].on = h,
                                       ![a].left = {g \in left : g > h}]
             /\ StopEnter(h, a, "evictor", tasks)
             /\ UNCHANGED <<holders, body>>

\* Wrong on purpose: equals are evicted.
RunEvictEquals(a) ==
    /\ Runs("evict", a)
    /\ LET rivals == Rivals(a, evict[a].mods) IN
        IF \E h \in rivals \cap nodes : node[h].prio > node[a].prio
        THEN /\ evict' = [evict EXCEPT ![a] = NoEvict]
             /\ ready' = Tail(ready)
             /\ IF evict[a].kind = "start"
                 THEN Reject(a, evict[a].try)
                 ELSE UNCHANGED <<nodes, told, toHub>>
             /\ UNCHANGED <<node, holders, body, frame>>
        ELSE EvictNext(a, rivals, Tail(ready))
    /\ UNCHANGED <<kin, toKernel, inst>>

\* The eviction task runs: it computes the rivals, and gives up at once if one
\* of them has the same priority or a higher one.
RunEvict(a) ==
    /\ Runs("evict", a)
    /\ LET rivals == Rivals(a, evict[a].mods) IN
        IF \E h \in rivals \cap nodes : node[h].prio >= node[a].prio
        THEN /\ evict' = [evict EXCEPT ![a] = NoEvict]
             /\ ready' = Tail(ready)
             /\ IF evict[a].kind = "start"
                 THEN Reject(a, evict[a].try)
                 ELSE UNCHANGED <<nodes, told, toHub>>
             /\ UNCHANGED <<node, holders, body, frame>>
        ELSE EvictNext(a, rivals, Tail(ready))
    /\ UNCHANGED <<kin, toKernel, inst>>

\* The holder being evicted is down: go on with the next one.
EvictResume(a) ==
    /\ evict[a].pc = "waiting" /\ frame[evict[a].on].pc = "over"
    /\ EvictNext(a, evict[a].left, ready)
    /\ UNCHANGED <<kin, toKernel, inst>>

-------------------------------------------------------------------------------
\* The hub, as the kernel sees it (HubLifecycle.tla has the detail): it takes
\* the messages about a routine in order and reports what became of it.

Take(r, msg) == toHub[r] # <<>> /\ Head(toHub[r]) = msg
                /\ toHub' = [toHub EXCEPT ![r] = Tail(@)]

\* handle_created: the class may be unknown to the hub.
HubCreated(r) ==
    /\ Take(r, "created")
    /\ \/ inst' = [inst EXCEPT ![r] = "created"] /\ toKernel' = Reported(r, "created")
       \/ /\ "unknown class" \in Fates[r]
          /\ inst' = [inst EXCEPT ![r] = "gone"] /\ toKernel' = Reported(r, "stopped")
    /\ UNCHANGED <<treeVars, holders, taskVars>>

\* handle_start: skipped when the instance has been cleaned up.
HubStart(r) ==
    /\ Take(r, "start")
    /\ IF inst[r] = "created"
        THEN inst' = [inst EXCEPT ![r] = "running"] /\ toKernel' = Reported(r, "started")
        ELSE UNCHANGED <<inst, toKernel>>
    /\ UNCHANGED <<treeVars, holders, taskVars>>

\* run() returns or raises.
HubFinish(r) ==
    /\ "returns" \in Fates[r]
    /\ inst[r] \in {"running", "lost"}
    /\ inst' = [inst EXCEPT ![r] = "gone"]
    /\ toKernel' = Reported(r, "stopped")
    /\ UNCHANGED <<treeVars, holders, taskVars, toHub>>

\* handle_stop and handle_destroy: one stopped report; nothing without an instance.
HubEnd(r) ==
    /\ Take(r, "stop") \/ Take(r, "destroy")
    /\ IF inst[r] \in {"created", "running"}
        THEN inst' = [inst EXCEPT ![r] = "gone"] /\ toKernel' = Reported(r, "stopped")
        ELSE UNCHANGED <<inst, toKernel>>
    /\ UNCHANGED <<treeVars, holders, taskVars>>

\* _on_routine_rejected: the instance is dropped without a report.  A body that
\* runs already goes on, out of the hub's tables.
HubRejected(r) ==
    /\ Take(r, "rejected")
    /\ inst' = [inst EXCEPT ![r] = IF @ \in {"running", "lost"} THEN "lost" ELSE "gone"]
    /\ UNCHANGED <<treeVars, holders, taskVars, toKernel>>

-------------------------------------------------------------------------------

\* What the clients may ask for.
Request(r) ==
    \/ \E p \in Parents[r] : RoutineCreate(r, p)
    \/ RoutineDestroy(r)
    \/ StartParentNotRunning(r) \/ StartFree(r) \/ StartRefused(r) \/ StartBlocked(r)
    \/ RoutineStop(r)
    \/ AcquireFree(r) \/ AcquireBlocked(r) \/ RoutineRelease(r)

\* Steps of the kernel's own tasks.
StopTask(r)  == RunStop(r) \/ RunKid(r) \/ RunEnded(r) \/ KidsStopped(r) \/ StopDone(r)
EvictTask(r) == RunEvict(r) \/ EvictResume(r)
BodyTask(r)  == \/ RunBody(r) \/ BodyStarted(r) \/ BodyCancelled(r) \/ BodyFinished(r)
                \/ BodyStop(r) \/ BodyStopped(r)

\* Reports being handled, and the hub.
Report(r) == LifecycleCreated(r) \/ LifecycleStarted(r) \/ LifecycleStopped(r)
Hub(r)    == HubCreated(r) \/ HubStart(r) \/ HubFinish(r) \/ HubEnd(r) \/ HubRejected(r)

Next ==
    \/ \E r \in Rid : \/ Request(r) \/ BodyTask(r) \/ Report(r) \/ Hub(r)
                     \/ CreatedReply(r) \/ CreatedTimeout(r) \/ BodyStopTimeout(r)
    \/ \E r \in Node : StopTask(r) \/ EvictTask(r)
    \/ RootBodyCancelled

Spec == Init /\ [][Next]_vars

\* The event loop runs every task that can go on, and every timer fires.  The
\* hub and the clients owe nothing.
Fairness ==
    /\ \A r \in Node : WF_vars(StopTask(r)) /\ WF_vars(EvictTask(r))
    /\ \A r \in Rid : /\ WF_vars(BodyTask(r)) /\ WF_vars(BodyStopTimeout(r))
                      /\ WF_vars(CreatedReply(r)) /\ WF_vars(CreatedTimeout(r))
    /\ WF_vars(RootBodyCancelled)

FairSpec == Spec /\ Fairness

-------------------------------------------------------------------------------
\* Safety.

Exists(r)    == node[r].state # "none"
Related(r, s) == r \in kin[s] \/ s \in kin[r]
HasTask(r)   == body[r] \in {"fresh", "starting", "running", "stopwait"}

\* The kernel has let go of r without hearing that r has stopped: it waited
\* STOP_TIMEOUT in vain, or cancelled a start that was under way.
Abandoned(r) == body[r] = "done" /\ ~ node[r].stopped

\* Two routines occupy modules in each other's cone only if one of them is an
\* ancestor of the other: Tree.try_acquire, across starts, run-time acquires,
\* evictions and the releases of routines that end meanwhile.
Exclusion ==
    \A m \in Module : \A c \in Cone(Above, m) :
        \A r \in holders[m], s \in holders[c] : Related(r, s)

\* The records of a routine agree, unless clients start it twice: while its body lives,
\* what Command.modules and the holder lists of the tree say it occupies; and while it
\* starts or runs it is in the node table, which it leaves by the stop path only.
RecordsAgree ==
    \A r \in Node \ Again :
        /\ HasTask(r) => Holds(r) = node[r].mods
        /\ node[r].state \in {"starting", "running"} => r \in nodes

\* A routine that runs in the hub still occupies its modules in the kernel, unless the
\* kernel has abandoned it or clients start it twice.  With Exclusion: two strangers
\* never run on conflicting modules, whatever is delayed on the wire between the two.
RunsUnderLock ==
    \A r \in Rid \ Again : inst[r] = "running" /\ ~ Abandoned(r) => node[r].mods \subseteq Holds(r)

\* Nobody is evicted on behalf of its own descendant: an eviction spares the
\* evictor's line, and so does the cascade below each evicted holder.
LineSpared ==
    \A r \in Node : node[r].by # NoParent => r \notin kin[node[r].by]

\* lifecycle.start finds the instance it is for: no destroy or rejection of the
\* same routine was sent before it, and the hub has not dropped the instance (unless
\* clients start it twice).
StartFindsInstance ==
    \A r \in Rid \ Again : \A i \in 1..Len(toHub[r]) :
        toHub[r][i] = "start" =>
            /\ inst[r] = "created"
            /\ \A j \in 1..(i - 1) : toHub[r][j] \notin {"destroy", "rejected", "stop"}

\* The parent hears of the end of a child that has left the table, unless the
\* kernel abandoned the child.
EndIsTold ==
    \A r \in Rid : Exists(r) /\ r \notin nodes => r \in told \/ Abandoned(r)


\* Only a holder of strictly lower priority is evicted (_evict_lower_holders),
\* though the priorities are compared before the loop that awaits (a holder that clients
\* start again may have got another meanwhile).
OnlyLowerEvicted ==
    [][\A h \in Node \ Again : frame[h].pc = "idle" /\ frame'[h].caller = "evictor"
            => node[h].prio < node[frame'[h].by].prio]_vars

\* The authority this kernel implements, whatever its tasks and handlers do.
Locks == INSTANCE ModuleLocks WITH Rid <- Node, above <- Above
LocksSpec == Locks!Spec

-------------------------------------------------------------------------------
\* Liveness, under Fairness: nothing is asked of the hub and of the clients.

\* A stop that was accepted takes the node out of the table: invocations that
\* pass over each other's children, and await what others stop, never wait in
\* a circle, and a silent hub is given up.
StopCompletes == \A r \in Node : node[r].stopping ~> r \notin nodes

\* A start or an acquire that has to evict is decided.
EvictionSettles == \A r \in Node : evict[r].pc # "none" ~> evict[r].pc = "none"

-------------------------------------------------------------------------------
\* The comments of the code promise more than it does: a run of its own finds
\* each of the following violated.

\* A routine that has left the table occupies nothing (_run_remote: when the
\* body ends, of itself or interrupted, everything it occupies is released).
DeadHoldNothing == \A r \in Node : Exists(r) /\ r \notin nodes => Holds(r) = {}

\* The kernel forgets a routine that runs in the hub only after it has sent
\* lifecycle.stop (_stop_node: cancel the body, send lifecycle.stop, wait for
\* stopped, release).
StopReachesHub ==
    \A r \in Rid : inst[r] = "running" /\ r \notin nodes =>
        \E i \in 1..Len(toHub[r]) : toHub[r][i] = "stop"

===============================================================================
