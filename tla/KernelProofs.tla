----------------------------- MODULE KernelProofs -----------------------------
(***************************************************************************)
(* The kernel of Kernel.tla, with its tasks and messages, implements the   *)
(* authority of ModuleLocks.tla and so keeps its mutual exclusion, and     *)
(* evicts nobody on behalf of a descendant, for any number of routines and *)
(* any forest of modules.                                                  *)
(*                                                                         *)
(* A step that occupies modules is a TryAcquire of the authority only if   *)
(* the routine exists there.  For a start that is obvious (the node is in  *)
(* the table); the second attempt of an acquire looks nothing up.  And the *)
(* routine on whose behalf a cascade stops is read from the parent's frame *)
(* when a child's task runs, long after the holders were chosen.  The      *)
(* inductive invariant therefore says what the loop's tasks, the pending   *)
(* evictions and the frames may carry.                                     *)
(*                                                                         *)
(* Then the kernel's records of a routine: Command.modules and the tree    *)
(* agree on what it occupies, its parent hears of its end, it runs in the  *)
(* hub only while its modules are occupied, its start finds the instance   *)
(* it is for, and an eviction stops holders of lower priority only.        *)
(*                                                                         *)
(* None of these is inductive.  A stale task would start the body of a     *)
(* routine twice, or reject a routine that runs: the invariant says which  *)
(* tasks the loop can hold (Tasked) and what an eviction can still be      *)
(* waiting for (Waits).  A message that is late would end an instance that *)
(* is being started: the invariant says, for every place the body can      *)
(* stand at, what the link carries in each direction and how far the       *)
(* instance is (Unborn to Lives).  Most steps are about one routine, and   *)
(* leave the others as CalmOrder and CalmWire say (OneRoutine).  The last  *)
(* section adds what an eviction remembers while it waits (Spared).        *)
(***************************************************************************)
EXTENDS Kernel, TLAPS, SequenceTheorems, FiniteSetTheorems, QueueLemmas

\* What is proved of the authority, with the kernel's variables for its own.
Locked == INSTANCE ModuleLocksProofs WITH Rid <- Node, above <- Above

\* Tasks about routines that were created; the parent a "kid" task reports to
\* has a frame.
GoodTasks == {t \in Tasks : /\ t.rid \in kin[t.rid]
                            /\ t.kind = "kid" => node[t.rid].parent \in Node}

\* A routine has a line from the moment it is created; its line holds created
\* routines only and, with a routine, the parent of it.
Lines ==
    /\ \A r \in Node : node[r].state = "none" => kin[r] = {}
    /\ \A r \in nodes : r \in kin[r]
    /\ \A q \in Node : \A c \in kin[q] :
            /\ node[c].state # "none"
            /\ node[c].parent \in Node => node[c].parent \in kin[q]

\* Whatever the loop keeps (a pending eviction, a task) names routines that
\* were created; the holders an eviction has yet to stop are not of its line.
Agenda ==
    /\ \A a \in Node : /\ evict[a].pc # "none" => a \in kin[a]
                       /\ evict[a].pc = "none" => evict[a].left = {}
                       /\ evict[a].left \cap kin[a] = {}
    /\ ready \in Seq(GoodTasks)

\* r may be stopped on behalf of b: nobody's, or that of a routine whose line
\* does not hold r.
MayForce(b, r) == b # NoParent => b \in kin[b] /\ r \notin kin[b]

\* That is so of what the nodes remember and of what the frames hand down.
Forced == \A r \in Node : MayForce(node[r].by, r) /\ MayForce(frame[r].by, r)

IInv == TypeOK /\ Lines /\ Agenda /\ Forced

\* A step of the authority, or none.
LocksStep == [Locks!Next]_Locks!vars

Insts == {"none", "created", "running", "lost", "gone"}

-------------------------------------------------------------------------------
\* What every step but a creation keeps.

KeepsNode ==
    /\ node' \in [Node -> NodeRecord]
    /\ \A r \in Node : /\ node'[r].parent = node[r].parent
                       /\ node'[r].state = "none" => node[r].state = "none"
                       /\ MayForce(node'[r].by, r)

KeepsTree == nodes' \subseteq nodes /\ KeepsNode /\ kin' = kin /\ told' \subseteq Node

KeepsEvict ==
    /\ evict' \in [Node -> EvictRecord]
    /\ \A a \in Node : /\ evict'[a].pc # "none" => a \in kin[a]
                       /\ evict'[a].pc = "none" => evict'[a].left = {}
                       /\ evict'[a].left \cap kin[a] = {}

KeepsFrame ==
    /\ frame' \in [Node -> FrameRecord]
    /\ \A r \in Node : MayForce(frame'[r].by, r)

KeepsTasks ==
    /\ body' \in [Node -> Bodies]
    /\ KeepsFrame
    /\ KeepsEvict
    /\ ready' \in Seq(GoodTasks)

KeepsHolders == holders' \in [Module -> SUBSET Node]

KeepsWire ==
    /\ toHub' \in [Node -> Seq(Commands)]
    /\ toKernel' \in [Node -> Seq(Reports)]
    /\ inst' \in [Node -> Insts]

Keeps == KeepsTree /\ KeepsTasks /\ KeepsHolders /\ KeepsWire

\* A step that keeps all this keeps the invariant.
LEMMA KeepsInv ==
    ASSUME IInv, Keeps
    PROVE  IInv'
<1> USE DEF Keeps
<1>1. TypeOK'
    <2>1. GoodTasks \subseteq Tasks
        BY DEF GoodTasks
    <2>2. ready' \in Seq(Tasks)
        BY <2>1, SeqMonotonic DEF KeepsTasks
    <2> QED BY <2>2
            DEF IInv, TypeOK, KeepsTree, KeepsNode, KeepsTasks, KeepsFrame, KeepsEvict,
                KeepsHolders, KeepsWire, Insts
<1>2. ready' \in Seq(GoodTasks)'
    <2>1. GoodTasks \subseteq GoodTasks'
        BY DEF GoodTasks, KeepsTree, KeepsNode, Tasks
    <2>2. ready' \in Seq(GoodTasks')
        BY <2>1, SeqMonotonic DEF KeepsTasks
    <2> QED BY <2>2
<1>3. Lines'
    <2>1. \A r \in Node : node'[r].state = "none" => kin'[r] = {}
        BY DEF IInv, Lines, KeepsTree, KeepsNode
    <2>2. \A r \in nodes' : r \in kin'[r]
        BY DEF IInv, Lines, KeepsTree
    <2>3. \A q \in Node : \A c \in kin'[q] :
                /\ node'[c].state # "none"
                /\ node'[c].parent \in Node => node'[c].parent \in kin'[q]
        BY DEF IInv, TypeOK, Lines, KeepsTree, KeepsNode
    <2> QED BY <2>1, <2>2, <2>3 DEF Lines
<1>4. Agenda'
    BY <1>2 DEF Agenda, KeepsTree, KeepsTasks, KeepsEvict
<1>5. Forced'
    BY DEF Forced, MayForce, KeepsTree, KeepsNode, KeepsTasks, KeepsFrame
<1> QED BY <1>1, <1>3, <1>4, <1>5 DEF IInv

\* Nothing touched, nothing broken: the parts of Keeps a step leaves alone.
LEMMA Unchanged ==
    ASSUME IInv
    PROVE  /\ UNCHANGED <<nodes, kin, told>> /\ KeepsNode => KeepsTree
           /\ UNCHANGED node => KeepsNode
           /\ UNCHANGED frame => KeepsFrame
           /\ UNCHANGED evict => KeepsEvict
           /\ UNCHANGED <<body, frame, evict, ready>> => KeepsTasks
           /\ UNCHANGED holders => KeepsHolders
           /\ UNCHANGED <<toHub, toKernel, inst>> => KeepsWire
BY DEF IInv, TypeOK, Agenda, Forced, KeepsTree, KeepsNode, KeepsTasks, KeepsFrame, KeepsEvict,
       KeepsHolders, KeepsWire, Insts

\* Writing one record of the node table: rec may take the place of node[r].
Rewrites(r, rec) ==
    /\ rec \in NodeRecord
    /\ rec.parent = node[r].parent
    /\ rec.by = node[r].by
    /\ rec.state = "none" => node[r].state = "none"

LEMMA WriteNode ==
    ASSUME IInv, NEW r \in Node, NEW rec, Rewrites(r, rec),
           node' = [node EXCEPT ![r] = rec]
    PROVE  KeepsNode
BY DEF IInv, TypeOK, Forced, KeepsNode, Rewrites

\* A new task at the end of the queue, and the first one taken from its head.
LEMMA AppendTask ==
    ASSUME IInv, NEW tasks \in Seq(GoodTasks), NEW kind \in {"body", "stop", "ended", "evict"},
           NEW r \in Node, r \in kin[r]
    PROVE  Append(tasks, Task(kind, r)) \in Seq(GoodTasks)
<1>1. Task(kind, r) \in GoodTasks
    BY DEF Task, GoodTasks, Tasks
<1> QED BY <1>1, AppendProperties

LEMMA TakeTask ==
    ASSUME IInv, NEW kind, NEW r, Runs(kind, r)
    PROVE  /\ Tail(ready) \in Seq(GoodTasks)
           /\ r \in Node /\ r \in kin[r]
           /\ kind = "kid" => node[r].parent \in Node
<1>1. Tail(ready) \in Seq(GoodTasks) /\ Head(ready) \in GoodTasks
    BY HeadTailProperties DEF IInv, Agenda, Runs
<1> QED BY <1>1 DEF Runs, Task, GoodTasks, Tasks

\* Messages sent and received.
LEMMA SentTyped ==
    ASSUME IInv, NEW r \in Node, NEW msg \in Commands
    PROVE  Sent(r, msg) \in [Node -> Seq(Commands)]
BY AppendProperties DEF IInv, TypeOK, Sent

LEMMA ReportedTyped ==
    ASSUME IInv, NEW r \in Node, NEW msg \in Reports
    PROVE  Reported(r, msg) \in [Node -> Seq(Reports)]
BY AppendProperties DEF IInv, TypeOK, Reported

LEMMA ReceiveTyped ==
    ASSUME IInv, NEW r \in Node, NEW msg, Receive(r, msg)
    PROVE  toKernel' \in [Node -> Seq(Reports)]
BY HeadTailProperties DEF IInv, TypeOK, Receive

LEMMA TakeTyped ==
    ASSUME IInv, NEW r \in Node, NEW msg, Take(r, msg)
    PROVE  toHub' \in [Node -> Seq(Commands)]
BY HeadTailProperties DEF IInv, TypeOK, Take

LEMMA SetState ==
    ASSUME IInv, NEW r \in Node, NEW s \in States \ {"none"},
           node' = [node EXCEPT ![r].state = s]
    PROVE  KeepsNode
<1> DEFINE rec == [node[r] EXCEPT !.state = s]
<1>1. node \in [Node -> NodeRecord] /\ node[r] \in NodeRecord
    BY DEF IInv, TypeOK
<1>2. Rewrites(r, rec)
    BY <1>1 DEF NodeRecord, Rewrites
<1>3. node' = [node EXCEPT ![r] = rec]
    BY <1>1
<1> QED BY <1>2, <1>3, WriteNode

-------------------------------------------------------------------------------
\* Reports from the hub, and the answers to a creation.

LEMMA ReportKeeps ==
    ASSUME IInv, NEW r \in Rid, Report(r)
    PROVE  Keeps /\ UNCHANGED holders
<1>0. r \in Node /\ node \in [Node -> NodeRecord] /\ node[r] \in NodeRecord
    BY DEF Node, IInv, TypeOK
<1>1. CASE LifecycleCreated(r)
    <2> DEFINE rec == [node[r] EXCEPT !.seen = TRUE, !.born = IF @ = "pending" THEN "ok" ELSE @]
    <2>1. Rewrites(r, rec)
        BY <1>0 DEF NodeRecord, Rewrites
    <2>2. ASSUME r \in nodes PROVE KeepsNode
        <3>1. node' = [node EXCEPT ![r].seen = TRUE, ![r].born = IF @ = "pending" THEN "ok" ELSE @]
            BY <1>1, <2>2 DEF LifecycleCreated
        <3>2. node' = [node EXCEPT ![r] = rec]
            BY <1>0, <3>1
        <3> QED BY <1>0, <2>1, <3>2, WriteNode
    <2>3. ASSUME r \notin nodes PROVE KeepsNode
        BY <1>1, <2>3, Unchanged DEF LifecycleCreated
    <2>4. KeepsNode
        BY <2>2, <2>3
    <2>5. KeepsWire
        BY <1>0, <1>1, ReceiveTyped DEF IInv, TypeOK, KeepsWire, Insts, LifecycleCreated
    <2> QED BY <1>1, <2>4, <2>5, Unchanged DEF Keeps, LifecycleCreated, taskVars
<1>2. CASE LifecycleStarted(r)
    <2> DEFINE rec == [node[r] EXCEPT !.started = @ \/ r \in nodes]
    <2>1. Rewrites(r, rec)
        BY <1>0 DEF NodeRecord, Rewrites
    <2>2. node' = [node EXCEPT ![r] = rec]
        BY <1>0, <1>2 DEF LifecycleStarted
    <2>3. KeepsNode
        BY <1>0, <2>1, <2>2, WriteNode
    <2>4. KeepsWire
        BY <1>0, <1>2, ReceiveTyped DEF IInv, TypeOK, KeepsWire, Insts, LifecycleStarted
    <2> QED BY <1>2, <2>3, <2>4, Unchanged DEF Keeps, LifecycleStarted, taskVars
<1>3. CASE LifecycleStopped(r)
    <2> USE <1>3
    <2>1. CASE r \notin nodes
        <3>1. UNCHANGED <<node, told, ready>>
            BY <2>1 DEF LifecycleStopped
        <3>2. KeepsNode
            BY <3>1, Unchanged
        <3> QED BY <3>1, <3>2, <1>0, ReceiveTyped, Unchanged
                DEF Keeps, LifecycleStopped, IInv, TypeOK, KeepsWire, Insts
    <2>2. CASE r \in nodes /\ ~ node[r].seen
        <3> DEFINE rec == [node[r] EXCEPT !.seen = TRUE, !.born = IF @ = "pending" THEN "error" ELSE @]
        <3>1. Rewrites(r, rec)
            BY <1>0 DEF NodeRecord, Rewrites
        <3>2. node' = [node EXCEPT ![r].seen = TRUE, ![r].born = IF @ = "pending" THEN "error" ELSE @]
              /\ UNCHANGED <<told, ready>>
            BY <2>2 DEF LifecycleStopped
        <3>3. node' = [node EXCEPT ![r] = rec]
            BY <1>0, <3>2
        <3>4. KeepsNode
            BY <1>0, <3>1, <3>3, WriteNode
        <3> QED BY <3>2, <3>4, <1>0, ReceiveTyped, Unchanged
                DEF Keeps, LifecycleStopped, IInv, TypeOK, KeepsWire, Insts
    <2>3. CASE r \in nodes /\ node[r].seen
        <3> DEFINE rec == [node[r] EXCEPT !.stopped = TRUE]
        <3>1. Rewrites(r, rec)
            BY <1>0 DEF NodeRecord, Rewrites
        <3>2. /\ node' = [node EXCEPT ![r].stopped = TRUE]
              /\ told' = told \cup {r}
              /\ ready' = Append(ready, Task("ended", r))
            BY <2>3 DEF LifecycleStopped, Spawn
        <3>3. node' = [node EXCEPT ![r] = rec]
            BY <1>0, <3>2
        <3>4. KeepsNode
            BY <1>0, <3>1, <3>3, WriteNode
        <3>5. ready' \in Seq(GoodTasks)
            BY <1>0, <2>3, <3>2, AppendTask DEF IInv, Lines, Agenda
        <3>6. KeepsTree
            BY <1>0, <3>2, <3>4 DEF KeepsTree, LifecycleStopped, IInv, TypeOK
        <3>7. KeepsTasks
            BY <3>5, Unchanged DEF KeepsTasks, LifecycleStopped, IInv, TypeOK
        <3> QED BY <3>6, <3>7, <1>0, ReceiveTyped, Unchanged
                DEF Keeps, LifecycleStopped, IInv, TypeOK, KeepsWire, Insts
    <2> QED BY <2>1, <2>2, <2>3
<1> QED BY <1>1, <1>2, <1>3 DEF Report

LEMMA CreatedAnswerKeeps ==
    ASSUME IInv, NEW r \in Rid, CreatedReply(r) \/ CreatedTimeout(r)
    PROVE  Keeps /\ UNCHANGED holders
<1>0. r \in Node /\ node \in [Node -> NodeRecord] /\ node[r] \in NodeRecord
    BY DEF Node, IInv, TypeOK
<1>1. UNCHANGED <<nodes, kin, told, body, frame, evict, ready, holders, toHub, toKernel, inst>>
    BY DEF CreatedReply, CreatedTimeout, taskVars, wireVars
<1>2. ASSUME \E claim \in Claims[r] : node' = [node EXCEPT ![r].reply = "ok", ![r].claim = claim]
      PROVE  KeepsNode
    <2>1. PICK claim \in Claims[r] : node' = [node EXCEPT ![r].reply = "ok", ![r].claim = claim]
        BY <1>2
    <2> DEFINE rec == [node[r] EXCEPT !.reply = "ok", !.claim = claim]
    <2>2. claim \in SUBSET Module
        BY ClientAssumption
    <2>3. Rewrites(r, rec)
        BY <1>0, <2>2 DEF NodeRecord, Rewrites
    <2>4. node' = [node EXCEPT ![r] = rec]
        BY <1>0, <2>1
    <2> QED BY <1>0, <2>3, <2>4, WriteNode
<1>3. ASSUME node' = [node EXCEPT ![r].reply = "error"]
      PROVE  KeepsNode
    <2> DEFINE rec == [node[r] EXCEPT !.reply = "error"]
    <2>1. Rewrites(r, rec)
        BY <1>0 DEF NodeRecord, Rewrites
    <2>2. node' = [node EXCEPT ![r] = rec]
        BY <1>0, <1>3
    <2> QED BY <1>0, <2>1, <2>2, WriteNode
<1>4. ASSUME node' = [node EXCEPT ![r].reply = "error", ![r].born = "error"]
      PROVE  KeepsNode
    <2> DEFINE rec == [node[r] EXCEPT !.reply = "error", !.born = "error"]
    <2>1. Rewrites(r, rec)
        BY <1>0 DEF NodeRecord, Rewrites
    <2>2. node' = [node EXCEPT ![r] = rec]
        BY <1>0, <1>4
    <2> QED BY <1>0, <2>1, <2>2, WriteNode
<1>5. KeepsNode
    BY <1>2, <1>3, <1>4 DEF CreatedReply, CreatedTimeout
<1> QED BY <1>1, <1>5, Unchanged DEF Keeps

-------------------------------------------------------------------------------
\* The hub.

LEMMA HubKeeps ==
    ASSUME IInv, NEW r \in Rid, Hub(r)
    PROVE  Keeps /\ UNCHANGED holders
<1>0. r \in Node
    BY DEF Node
<1>1. UNCHANGED <<nodes, node, kin, told, holders, body, frame, evict, ready>>
    BY DEF Hub, HubCreated, HubStart, HubFinish, HubEnd, HubRejected, treeVars, taskVars
<1>2. toHub' \in [Node -> Seq(Commands)]
    BY <1>0, TakeTyped
       DEF Hub, HubCreated, HubStart, HubFinish, HubEnd, HubRejected, IInv, TypeOK
<1>3. toKernel' \in [Node -> Seq(Reports)]
    <2>1. /\ Reported(r, "created") \in [Node -> Seq(Reports)]
          /\ Reported(r, "started") \in [Node -> Seq(Reports)]
          /\ Reported(r, "stopped") \in [Node -> Seq(Reports)]
        BY <1>0, ReportedTyped DEF Reports
    <2>2. toKernel \in [Node -> Seq(Reports)]
        BY DEF IInv, TypeOK
    <2> QED BY <2>1, <2>2
            DEF Hub, HubCreated, HubStart, HubFinish, HubEnd, HubRejected
<1>4. inst' \in [Node -> Insts]
    <2>1. inst \in [Node -> Insts]
        BY DEF IInv, TypeOK, Insts
    <2> QED BY <1>0, <2>1
            DEF Hub, HubCreated, HubStart, HubFinish, HubEnd, HubRejected, Insts
<1> QED BY <1>1, <1>2, <1>3, <1>4, Unchanged DEF Keeps, KeepsWire

-------------------------------------------------------------------------------
\* The body task.

LEMMA BodyEndsKeeps ==
    ASSUME IInv, NEW r \in Node, BodyEnds(r, "stopped"),
           UNCHANGED <<nodes, kin, told, frame, evict, ready, wireVars>>
    PROVE  Keeps /\ holders' = ReleaseModules(holders, r, Module)
<1>1. KeepsNode
    BY SetState DEF BodyEnds, States
<1>2. KeepsTasks
    BY Unchanged DEF KeepsTasks, BodyEnds, IInv, TypeOK, Bodies, Agenda, KeepsEvict
<1>3. KeepsHolders
    BY DEF BodyEnds, ReleaseModules, KeepsHolders, IInv, TypeOK
<1> QED BY <1>1, <1>2, <1>3, Unchanged DEF Keeps, BodyEnds, wireVars

\* A step that leaves the kin alone and releases, or occupies what is free, is
\* a step of the authority.
LEMMA QuietImplements ==
    ASSUME kin' = kin, UNCHANGED holders
    PROVE  LocksStep
BY DEF LocksStep, Locks!vars

LEMMA ReleaseImplements ==
    ASSUME kin' = kin, NEW r \in Node, NEW mods \in SUBSET Module,
           holders' = ReleaseModules(holders, r, mods)
    PROVE  LocksStep
<1>1. Locks!Release(r, mods)
    BY DEF Locks!Release, Locks!ReleaseModules, ReleaseModules
<1> QED BY <1>1 DEF LocksStep, Locks!Next

LEMMA OccupyImplements ==
    ASSUME kin' = kin, NEW r \in Node, r \in kin[r], NEW mods, Free(r, mods),
           holders' = Occupy(holders, r, mods)
    PROVE  LocksStep
<1>1. mods \in SUBSET Module
    BY DEF Free, Loaded
<1>2. Locks!TryAcquire(r, mods)
    BY DEF Locks!TryAcquire, Free, Rivals, Locks!Loaded, Loaded, Locks!EvictableHolders,
           EvictableHolders, Locks!Cone, Cone, Locks!Occupy, Occupy
<1> QED BY <1>1, <1>2 DEF LocksStep, Locks!Next

LEMMA BodyKeeps ==
    ASSUME IInv, NEW r \in Rid, BodyTask(r) \/ BodyStopTimeout(r)
    PROVE  Keeps /\ LocksStep
<1>0. r \in Node
    BY DEF Node
<1>1. CASE RunBody(r)
    <2>1. Tail(ready) \in Seq(GoodTasks)
        BY <1>1, TakeTask DEF RunBody
    <2>2. KeepsTasks
        BY <1>0, <1>1, <2>1, Unchanged DEF RunBody, KeepsTasks, IInv, TypeOK, Bodies
    <2>3. KeepsWire
        BY <1>0, <1>1, SentTyped DEF RunBody, KeepsWire, IInv, TypeOK, Insts, Commands
    <2> QED BY <1>1, <2>2, <2>3, Unchanged, QuietImplements DEF Keeps, RunBody, treeVars
<1>2. ASSUME BodyEnds(r, "stopped"),
             UNCHANGED <<nodes, kin, told, frame, evict, ready, wireVars>>
      PROVE  Keeps /\ LocksStep
    BY <1>0, <1>2, BodyEndsKeeps, ReleaseImplements
<1>3. CASE BodyStarted(r)
    <2>1. CASE node[r].stopped
        BY <1>2, <1>3, <2>1 DEF BodyStarted
    <2>2. CASE ~ node[r].stopped
        <3>1. KeepsNode
            BY <1>0, <1>3, <2>2, SetState DEF BodyStarted, States
        <3>2. body' = [body EXCEPT ![r] = "running"] /\ UNCHANGED <<frame, evict, ready>>
            BY <1>3, <2>2 DEF BodyStarted
        <3>3. KeepsTasks
            BY <1>0, <3>2, Unchanged DEF KeepsTasks, IInv, TypeOK, Agenda, Bodies
        <3> QED BY <1>3, <2>2, <3>1, <3>3, Unchanged, QuietImplements
                DEF BodyStarted, Keeps, wireVars
    <2> QED BY <2>1, <2>2
<1>4. CASE BodyStop(r)
    <2>1. KeepsTasks
        BY <1>0, <1>4, Unchanged DEF BodyStop, KeepsTasks, IInv, TypeOK, Agenda, Bodies
    <2>2. KeepsWire
        BY <1>0, <1>4, SentTyped DEF BodyStop, KeepsWire, IInv, TypeOK, Insts, Commands
    <2> QED BY <1>4, <2>1, <2>2, Unchanged, QuietImplements DEF Keeps, BodyStop, treeVars
<1>5. CASE BodyCancelled(r) \/ BodyFinished(r) \/ BodyStopped(r) \/ BodyStopTimeout(r)
    BY <1>2, <1>5 DEF BodyCancelled, BodyFinished, BodyStopped, BodyStopTimeout
<1> QED BY <1>1, <1>3, <1>4, <1>5 DEF BodyTask

\* The root routine's body holds no finally of its own.
LEMMA RootBodyKeeps ==
    ASSUME IInv, RootBodyCancelled
    PROVE  Keeps /\ LocksStep
<1>1. KeepsNode
    BY SetState DEF RootBodyCancelled, States, Node
<1>2. KeepsTasks
    BY Unchanged DEF RootBodyCancelled, KeepsTasks, IInv, TypeOK, Agenda, Bodies, Node
<1> QED BY <1>1, <1>2, Unchanged, QuietImplements DEF Keeps, RootBodyCancelled, wireVars

-------------------------------------------------------------------------------
\* Leaving the node table.

LEMMA RejectKeeps ==
    ASSUME IInv, NEW r \in Node, NEW try, Reject(r, try)
    PROVE  nodes' \subseteq nodes /\ told' \subseteq Node /\ toHub' \in [Node -> Seq(Commands)]
<1>1. Sent(r, "rejected") \in [Node -> Seq(Commands)]
    BY SentTyped DEF Commands
<1>2. told \subseteq Node /\ toHub \in [Node -> Seq(Commands)]
    BY DEF IInv, TypeOK
<1> QED BY <1>1, <1>2 DEF Reject

LEMMA DestroyKeeps ==
    ASSUME IInv, NEW r \in Node, Destroy(r)
    PROVE  nodes' \subseteq nodes /\ told' \subseteq Node /\ toHub' \in [Node -> Seq(Commands)]
<1>1. Sent(r, "destroy") \in [Node -> Seq(Commands)]
    BY SentTyped DEF Commands
<1>2. told \subseteq Node
    BY DEF IInv, TypeOK
<1> QED BY <1>1, <1>2 DEF Destroy

LEMMA RoutineDestroyKeeps ==
    ASSUME IInv, NEW r \in Rid, RoutineDestroy(r)
    PROVE  Keeps /\ LocksStep
<1>1. nodes' \subseteq nodes /\ told' \subseteq Node /\ toHub' \in [Node -> Seq(Commands)]
    BY DestroyKeeps DEF RoutineDestroy, Node
<1>2. UNCHANGED <<node, kin, holders, body, frame, evict, ready, toKernel, inst>>
    BY DEF RoutineDestroy, taskVars
<1> QED BY <1>1, <1>2, Unchanged, QuietImplements
        DEF Keeps, KeepsTree, KeepsWire, IInv, TypeOK, Insts

-------------------------------------------------------------------------------
\* Starting.

\* The node table after a start has been decided.
LEMMA StartWrites ==
    ASSUME IInv, NEW r \in Node, NEW prio \in Nat,
           \/ node' = [node EXCEPT ![r].prio = prio]
           \/ /\ node[r].claim \in SUBSET Module
              /\ \/ node' = [node EXCEPT ![r].prio = prio, ![r].mods = node[r].claim]
                 \/ node' = [node EXCEPT ![r].state = "starting", ![r].prio = prio,
                                         ![r].mods = node[r].claim]
    PROVE  KeepsNode
<1>0. node \in [Node -> NodeRecord] /\ node[r] \in NodeRecord
    BY DEF IInv, TypeOK
<1>1. ASSUME node' = [node EXCEPT ![r].prio = prio]
      PROVE  KeepsNode
    <2> DEFINE rec == [node[r] EXCEPT !.prio = prio]
    <2>1. Rewrites(r, rec)
        BY <1>0 DEF NodeRecord, Rewrites
    <2>2. node' = [node EXCEPT ![r] = rec]
        BY <1>0, <1>1
    <2> QED BY <2>1, <2>2, WriteNode
<1>2. ASSUME node[r].claim \in SUBSET Module,
             node' = [node EXCEPT ![r].prio = prio, ![r].mods = node[r].claim]
      PROVE  KeepsNode
    <2> DEFINE rec == [node[r] EXCEPT !.prio = prio, !.mods = node[r].claim]
    <2>1. Rewrites(r, rec)
        BY <1>0, <1>2 DEF NodeRecord, Rewrites
    <2>2. node' = [node EXCEPT ![r] = rec]
        BY <1>0, <1>2
    <2> QED BY <2>1, <2>2, WriteNode
<1>3. ASSUME node[r].claim \in SUBSET Module,
             node' = [node EXCEPT ![r].state = "starting", ![r].prio = prio,
                                  ![r].mods = node[r].claim]
      PROVE  KeepsNode
    <2> DEFINE rec == [node[r] EXCEPT !.state = "starting", !.prio = prio, !.mods = node[r].claim]
    <2>1. Rewrites(r, rec)
        BY <1>0, <1>3 DEF NodeRecord, Rewrites, States
    <2>2. node' = [node EXCEPT ![r] = rec]
        BY <1>0, <1>3
    <2> QED BY <2>1, <2>2, WriteNode
<1> QED BY <1>1, <1>2, <1>3

\* The parts of Keeps that _start decides; the task it creates is for a routine
\* of the table.
LEMMA StartNowKeeps ==
    ASSUME IInv, NEW r \in nodes, NEW prio \in Nat, NEW try,
           NEW tasks \in Seq(GoodTasks), StartNow(r, prio, try, tasks), kin' = kin
    PROVE  /\ KeepsNode /\ KeepsHolders /\ LocksStep
           /\ nodes' \subseteq nodes /\ told' \subseteq Node
           /\ body' \in [Node -> Bodies]
           /\ ready' \in Seq(GoodTasks)
           /\ toHub' \in [Node -> Seq(Commands)]
<1>0. r \in Node /\ r \in kin[r]
    BY DEF IInv, TypeOK, Lines
<1>1. node[r].claim \in SUBSET Module
    BY DEF StartNow, Free, Loaded
<1>2. KeepsHolders
    BY <1>0 DEF StartNow, KeepsHolders, Occupy, IInv, TypeOK
<1>3. LocksStep
    BY <1>0, OccupyImplements DEF StartNow
<1>4. KeepsNode
    BY <1>0, <1>1, StartWrites DEF StartNow
<1>5. CASE node[r].state = "created"
    <2>1. ready' = Append(tasks, Task("body", r)) /\ body' = [body EXCEPT ![r] = "fresh"]
          /\ UNCHANGED <<nodes, told, toHub>>
        BY <1>5 DEF StartNow
    <2>2. ready' \in Seq(GoodTasks)
        BY <1>0, <2>1, AppendTask
    <2> QED BY <1>2, <1>3, <1>4, <2>1, <2>2 DEF IInv, TypeOK, Bodies
<1>6. CASE node[r].state # "created"
    <2>1. Reject(r, try) /\ ready' = tasks /\ UNCHANGED body
        BY <1>6 DEF StartNow
    <2> QED BY <1>0, <1>2, <1>3, <1>4, <2>1, RejectKeeps DEF IInv, TypeOK
<1> QED BY <1>5, <1>6

\* An eviction that has been queued has no holders on its list yet.
LEMMA EvictQueued ==
    ASSUME IInv, NEW a \in Node, a \in kin[a], NEW rec \in EvictRecord, rec.left = {},
           evict' = [evict EXCEPT ![a] = rec]
    PROVE  KeepsEvict
BY DEF KeepsEvict, IInv, TypeOK, Agenda

LEMMA StartKeeps ==
    ASSUME IInv, NEW r \in Rid,
           StartParentNotRunning(r) \/ StartFree(r) \/ StartRefused(r) \/ StartBlocked(r)
    PROVE  Keeps /\ LocksStep
<1>0. r \in Node /\ r \in nodes /\ r \in kin[r]
    BY DEF Node, StartParentNotRunning, StartFree, StartRefused, StartBlocked, MayStart,
           IInv, Lines
<1>1. \A k \in Starts[r] : k[1] \in Nat /\ k[2] \in BOOLEAN
    <2>1. \A k \in Starts[r] : k \in Nat \X BOOLEAN
        BY ClientAssumption
    <2> QED BY <2>1
<1>2. CASE StartParentNotRunning(r)
    <2>1. nodes' \subseteq nodes /\ told' \subseteq Node /\ toHub' \in [Node -> Seq(Commands)]
        BY <1>0, <1>2, RejectKeeps DEF StartParentNotRunning
    <2>2. UNCHANGED <<node, kin, holders, body, frame, evict, ready, toKernel, inst>>
        BY <1>2 DEF StartParentNotRunning, taskVars
    <2> QED BY <2>1, <2>2, Unchanged, QuietImplements
            DEF Keeps, KeepsTree, KeepsWire, IInv, TypeOK, Insts
<1>3. CASE StartFree(r)
    <2>1. PICK k \in Starts[r] : StartNow(r, k[1], k[2], ready)
        BY <1>3 DEF StartFree
    <2>2. UNCHANGED <<kin, frame, evict, toKernel, inst>>
        BY <1>3 DEF StartFree
    <2>3. ready \in Seq(GoodTasks)
        BY DEF IInv, Agenda
    <2>4. /\ KeepsNode /\ KeepsHolders /\ LocksStep
          /\ nodes' \subseteq nodes /\ told' \subseteq Node
          /\ body' \in [Node -> Bodies]
          /\ ready' \in Seq(GoodTasks)
          /\ toHub' \in [Node -> Seq(Commands)]
        BY <1>0, <1>1, <2>1, <2>2, <2>3, StartNowKeeps
    <2> QED BY <2>2, <2>4, Unchanged
            DEF Keeps, KeepsTree, KeepsTasks, KeepsWire, IInv, TypeOK, Insts
<1>4. CASE StartRefused(r)
    <2>1. PICK k \in Starts[r] : Reject(r, k[2]) /\ node' = [node EXCEPT ![r].prio = k[1]]
        BY <1>4 DEF StartRefused
    <2>2. UNCHANGED <<kin, holders, body, frame, evict, ready, toKernel, inst>>
        BY <1>4 DEF StartRefused, taskVars
    <2>3. KeepsNode
        BY <1>0, <1>1, <2>1, StartWrites
    <2>4. nodes' \subseteq nodes /\ told' \subseteq Node /\ toHub' \in [Node -> Seq(Commands)]
        BY <1>0, <2>1, RejectKeeps
    <2> QED BY <2>2, <2>3, <2>4, Unchanged, QuietImplements
            DEF Keeps, KeepsTree, KeepsWire, IInv, TypeOK, Insts
<1>5. CASE StartBlocked(r)
    <2>1. PICK k \in Starts[r] :
                /\ node' = [node EXCEPT ![r].prio = k[1]]
                /\ evict' = [evict EXCEPT ![r] =
                        [NoEvict EXCEPT !.pc = "queued", !.mods = node[r].claim, !.try = k[2]]]
        BY <1>5 DEF StartBlocked
    <2>2. UNCHANGED <<nodes, kin, told, holders, body, frame, toHub, toKernel, inst>>
        BY <1>5 DEF StartBlocked, wireVars
    <2>3. KeepsNode
        BY <1>0, <1>1, <2>1, StartWrites
    <2>4. ready' \in Seq(GoodTasks)
        BY <1>0, <1>5, AppendTask DEF StartBlocked, Spawn, IInv, Agenda
    <2>5. node[r].claim \in SUBSET Module
        <3>1. node[r] \in NodeRecord
            BY <1>0 DEF IInv, TypeOK
        <3> QED BY <3>1 DEF NodeRecord
    <2>6. KeepsEvict
        <3> DEFINE rec == [NoEvict EXCEPT !.pc = "queued", !.mods = node[r].claim, !.try = k[2]]
        <3>1. rec \in EvictRecord /\ rec.left = {}
            BY <1>1, <2>5 DEF NoEvict, EvictRecord, Node
        <3> QED BY <1>0, <2>1, <3>1, EvictQueued
    <2> QED BY <2>2, <2>3, <2>4, <2>6, Unchanged, QuietImplements
            DEF Keeps, KeepsTree, KeepsTasks, IInv, TypeOK
<1> QED BY <1>2, <1>3, <1>4, <1>5

-------------------------------------------------------------------------------
\* Stopping.

\* What one invocation of _stop_node keeps, whoever started it.
StopKeeps ==
    /\ KeepsNode
    /\ nodes' \subseteq nodes
    /\ told' \subseteq Node
    /\ KeepsFrame
    /\ toHub' \in [Node -> Seq(Commands)]

LEMMA FrameUpdate ==
    ASSUME IInv, NEW n \in Node, NEW fr \in FrameRecord, MayForce(fr.by, n),
           frame' = [frame EXCEPT ![n] = fr]
    PROVE  KeepsFrame
BY DEF IInv, TypeOK, Forced, KeepsFrame

LEMMA StopSelfKeeps ==
    ASSUME IInv, NEW n \in Node,
           NEW nd \in [Node -> NodeRecord],
           \A r \in Node : /\ nd[r].parent = node[r].parent
                           /\ nd[r].state = "none" => node[r].state = "none"
                           /\ MayForce(nd[r].by, r),
           NEW fr \in FrameRecord, MayForce(fr.by, n), StopSelf(n, nd, fr)
    PROVE  StopKeeps
<1> DEFINE over == [fr EXCEPT !.pc = "over"]
           wait == [fr EXCEPT !.pc = "body"]
<1>1. over \in FrameRecord /\ wait \in FrameRecord /\ over.by = fr.by /\ wait.by = fr.by
    BY DEF FrameRecord
<1>2. CASE nd[n].state = "created"
    <2>1. Destroy(n) /\ node' = nd /\ frame' = [frame EXCEPT ![n] = over]
        BY <1>2 DEF StopSelf
    <2> QED BY <1>1, <2>1, DestroyKeeps, FrameUpdate DEF StopKeeps, KeepsNode
<1>3. CASE nd[n].state # "created" /\ (nd[n].stopped \/ nd[n].state = "stopped")
    <2>1. node' = nd /\ frame' = [frame EXCEPT ![n] = wait] /\ UNCHANGED <<nodes, told, toHub>>
        BY <1>3 DEF StopSelf
    <2>2. KeepsNode
        BY <2>1 DEF KeepsNode
    <2> QED BY <1>1, <2>1, <2>2, FrameUpdate DEF StopKeeps, IInv, TypeOK
<1>4. CASE nd[n].state # "created" /\ ~ (nd[n].stopped \/ nd[n].state = "stopped")
    <2>1. /\ node' = [nd EXCEPT ![n].state = "stopping"]
          /\ frame' = [frame EXCEPT ![n] = wait]
          /\ UNCHANGED <<nodes, told, toHub>>
        BY <1>4 DEF StopSelf
    <2>2. KeepsNode
        <3> DEFINE rec == [nd[n] EXCEPT !.state = "stopping"]
        <3>1. rec \in NodeRecord /\ rec.parent = nd[n].parent /\ rec.by = nd[n].by
              /\ rec.state # "none"
            BY DEF NodeRecord, States
        <3>2. node' = [nd EXCEPT ![n] = rec]
            BY <2>1
        <3> QED BY <3>1, <3>2 DEF KeepsNode
    <2> QED BY <1>1, <2>1, <2>2, FrameUpdate DEF StopKeeps, IInv, TypeOK
<1> QED BY <1>2, <1>3, <1>4

LEMMA StopEnterKeeps ==
    ASSUME IInv, NEW n \in Node, NEW by \in Node \cup {NoParent}, MayForce(by, n),
           NEW caller \in {"nobody", "parent", "evictor"},
           NEW tasks \in Seq(GoodTasks), StopEnter(n, by, caller, tasks)
    PROVE  StopKeeps /\ ready' \in Seq(GoodTasks)
<1> DEFINE rec == [node[n] EXCEPT !.stopping = TRUE, !.by = IF by = NoParent THEN @ ELSE by]
           nd == [node EXCEPT ![n].stopping = TRUE, ![n].by = IF by = NoParent THEN @ ELSE by]
           fr == [pc |-> "kids", kids |-> Kids(n), caller |-> caller, by |-> by]
<1>0. node \in [Node -> NodeRecord] /\ node[n] \in NodeRecord
    BY DEF IInv, TypeOK
<1>1. rec \in NodeRecord /\ rec.parent = node[n].parent /\ rec.state = node[n].state
      /\ MayForce(rec.by, n)
    <2>1. MayForce(node[n].by, n)
        BY DEF IInv, Forced
    <2>2. rec \in NodeRecord /\ rec.parent = node[n].parent /\ rec.state = node[n].state
          /\ rec.by = IF by = NoParent THEN node[n].by ELSE by
        BY <1>0 DEF NodeRecord
    <2> QED BY <2>1, <2>2
<1>2. nd = [node EXCEPT ![n] = rec]
    BY <1>0
<1>3. /\ nd \in [Node -> NodeRecord]
      /\ \A r \in Node : /\ nd[r].parent = node[r].parent
                         /\ nd[r].state = "none" => node[r].state = "none"
                         /\ MayForce(nd[r].by, r)
    BY <1>0, <1>1, <1>2 DEF IInv, Forced
<1>4. fr \in FrameRecord /\ MayForce(fr.by, n)
    BY DEF FrameRecord, Kids, IInv, TypeOK
<1> HIDE DEF nd, fr
<1>5. CASE Kids(n) = {}
    <2>1. StopSelf(n, nd, fr) /\ ready' = tasks
        BY <1>5 DEF StopEnter, nd, fr
    <2> QED BY <1>3, <1>4, <2>1, StopSelfKeeps
<1>6. CASE Kids(n) # {}
    <2>1. node' = nd /\ frame' = [frame EXCEPT ![n] = fr] /\ UNCHANGED <<nodes, told, toHub>>
        BY <1>6 DEF StopEnter, nd, fr
    <2>2. PICK k \in [1..Cardinality(Kids(n)) -> Kids(n)] :
                ready' = tasks \o [i \in DOMAIN k |-> Task("kid", k[i])]
        BY <1>6 DEF StopEnter
    <2>3. Cardinality(Kids(n)) \in Nat
        <3>1. IsFiniteSet(Node)
            BY RidAssumption, FS_AddElement DEF Node
        <3>2. IsFiniteSet(Kids(n))
            BY <3>1, FS_Subset DEF Kids, IInv, TypeOK
        <3> QED BY <3>2, FS_CardinalityType
    <2>4. \A c \in Kids(n) : Task("kid", c) \in GoodTasks
        BY DEF Kids, Task, GoodTasks, Tasks, IInv, TypeOK, Lines
    <2>5. [i \in DOMAIN k |-> Task("kid", k[i])] \in Seq(GoodTasks)
        BY <2>3, <2>4, IsASeq
    <2>6. ready' \in Seq(GoodTasks)
        BY <2>2, <2>5, ConcatProperties
    <2>7. KeepsNode
        BY <1>3, <2>1 DEF KeepsNode
    <2> QED BY <1>4, <2>1, <2>6, <2>7, FrameUpdate DEF StopKeeps, IInv, TypeOK
<1> QED BY <1>5, <1>6

\* A step that is a stop and nothing else.
LEMMA StopStep ==
    ASSUME IInv, StopKeeps, ready' \in Seq(GoodTasks),
           UNCHANGED <<kin, holders, body, evict, toKernel, inst>>
    PROVE  Keeps /\ LocksStep
<1>1. KeepsEvict
    BY Unchanged
<1> QED BY <1>1, Unchanged, QuietImplements
        DEF StopKeeps, Keeps, KeepsTree, KeepsTasks, KeepsWire, IInv, TypeOK, Insts

LEMMA RoutineStopKeeps ==
    ASSUME IInv, NEW r \in Rid, RoutineStop(r)
    PROVE  Keeps /\ LocksStep
<1>0. r \in Node /\ r \in kin[r] /\ node \in [Node -> NodeRecord] /\ node[r] \in NodeRecord
    BY DEF RoutineStop, IInv, TypeOK, Lines, Node
<1> DEFINE rec == [node[r] EXCEPT !.stopping = TRUE]
<1>1. Rewrites(r, rec)
    BY <1>0 DEF NodeRecord, Rewrites
<1>2. node' = [node EXCEPT ![r] = rec]
    BY <1>0 DEF RoutineStop
<1>3. KeepsNode
    BY <1>0, <1>1, <1>2, WriteNode
<1>4. ready' \in Seq(GoodTasks)
    BY <1>0, AppendTask DEF RoutineStop, Spawn, IInv, Agenda
<1>5. StopKeeps
    BY <1>3, Unchanged DEF StopKeeps, RoutineStop, wireVars, IInv, TypeOK
<1> QED BY <1>4, <1>5, StopStep DEF RoutineStop, wireVars

LEMMA StopTaskKeeps ==
    ASSUME IInv, NEW n \in Node, StopTask(n)
    PROVE  Keeps /\ LocksStep
<1>1. ASSUME Runs("stop", n) \/ Runs("kid", n) \/ Runs("ended", n)
      PROVE  Tail(ready) \in Seq(GoodTasks) /\ n \in kin[n]
    BY <1>1, TakeTask
<1> MayForce(NoParent, n)
    BY DEF MayForce
<1>2. CASE RunStop(n)
    <2>1. StopKeeps /\ ready' \in Seq(GoodTasks)
        BY <1>1, <1>2, StopEnterKeeps DEF RunStop
    <2> QED BY <1>2, <2>1, StopStep DEF RunStop
<1>3. CASE RunKid(n)
    <2> DEFINE p == node[n].parent
    <2>1. p \in Node
        BY <1>3, TakeTask DEF RunKid
    <2>2. frame[p] \in FrameRecord
        BY <2>1 DEF IInv, TypeOK
    <2>3. StopKeeps /\ ready' \in Seq(GoodTasks)
        <3>1. CASE node[n].stopping
            <4> DEFINE fr == [frame[p] EXCEPT !.kids = @ \ {n}]
            <4>1. fr \in FrameRecord /\ fr.by = frame[p].by /\ MayForce(fr.by, p)
                BY <2>1, <2>2 DEF FrameRecord, IInv, Forced
            <4>2. /\ frame' = [frame EXCEPT ![p].kids = @ \ {n}]
                  /\ ready' = Tail(ready)
                  /\ UNCHANGED <<nodes, node, told, toHub>>
                BY <1>3, <3>1 DEF RunKid
            <4>3. frame' = [frame EXCEPT ![p] = fr]
                BY <2>1, <4>2 DEF IInv, TypeOK
            <4>4. KeepsFrame
                BY <2>1, <4>1, <4>3, FrameUpdate
            <4> QED BY <1>1, <1>3, <4>2, <4>4, Unchanged DEF RunKid, StopKeeps, IInv, TypeOK
        <3>2. CASE ~ node[n].stopping
            <4>1. frame[p].by \in Node \cup {NoParent} /\ MayForce(frame[p].by, p)
                BY <2>1, <2>2 DEF FrameRecord, IInv, Forced
            <4>2. MayForce(frame[p].by, n)
                BY <2>1, <4>1 DEF MayForce, IInv, TypeOK, Lines
            <4>3. StopEnter(n, frame[p].by, "parent", Tail(ready))
                BY <1>3, <3>2 DEF RunKid
            <4>4. Tail(ready) \in Seq(GoodTasks)
                BY <1>1, <1>3 DEF RunKid
            <4> QED BY <4>1, <4>2, <4>3, <4>4, StopEnterKeeps
        <3> QED BY <3>1, <3>2
    <2> QED BY <1>3, <2>3, StopStep DEF RunKid
<1>4. CASE RunEnded(n)
    <2>1. StopKeeps /\ ready' \in Seq(GoodTasks)
        <3>1. CASE n \notin nodes \/ node[n].stopping
            BY <1>1, <1>4, <3>1, Unchanged DEF RunEnded, StopKeeps, IInv, TypeOK
        <3>2. CASE ~ (n \notin nodes \/ node[n].stopping)
            <4>1. StopEnter(n, NoParent, "nobody", Tail(ready))
                BY <1>4, <3>2 DEF RunEnded
            <4> QED BY <1>1, <1>4, <4>1, StopEnterKeeps DEF RunEnded
        <3> QED BY <3>1, <3>2
    <2> QED BY <1>4, <2>1, StopStep DEF RunEnded
<1>5. CASE KidsStopped(n)
    <2>1. /\ node \in [Node -> NodeRecord] /\ frame[n] \in FrameRecord
          /\ MayForce(frame[n].by, n) /\ \A r \in Node : MayForce(node[r].by, r)
        BY DEF IInv, TypeOK, Forced
    <2>2. StopKeeps
        BY <1>5, <2>1, StopSelfKeeps DEF KidsStopped
    <2> QED BY <1>5, <2>2, StopStep DEF KidsStopped, IInv, Agenda
<1>6. CASE StopDone(n)
    <2>1. KeepsNode
        BY <1>6, SetState DEF StopDone, States
    <2> DEFINE fr == [frame[n] EXCEPT !.pc = "over"]
    <2>2. fr \in FrameRecord /\ MayForce(fr.by, n)
        <3>1. frame[n] \in FrameRecord /\ MayForce(frame[n].by, n)
            BY DEF IInv, TypeOK, Forced
        <3> QED BY <3>1 DEF FrameRecord
    <2>3. frame' = [frame EXCEPT ![n] = fr]
        BY <1>6 DEF StopDone, IInv, TypeOK
    <2>4. StopKeeps
        BY <1>6, <2>1, <2>2, <2>3, FrameUpdate DEF StopDone, StopKeeps, wireVars, IInv, TypeOK
    <2> QED BY <1>6, <2>4, StopStep DEF StopDone, wireVars, IInv, Agenda
<1> QED BY <1>2, <1>3, <1>4, <1>5, <1>6 DEF StopTask

-------------------------------------------------------------------------------
\* Occupying and releasing at run time.

\* The command's own record of what it occupies changes.
LEMMA ModsWrite ==
    ASSUME IInv, NEW r \in Node, NEW mods \in SUBSET Module,
           node' = [node EXCEPT ![r].mods = mods]
    PROVE  KeepsNode
<1> DEFINE rec == [node[r] EXCEPT !.mods = mods]
<1>0. node \in [Node -> NodeRecord] /\ node[r] \in NodeRecord
    BY DEF IInv, TypeOK
<1>1. Rewrites(r, rec)
    BY <1>0 DEF NodeRecord, Rewrites
<1>2. node' = [node EXCEPT ![r] = rec]
    BY <1>0
<1> QED BY <1>1, <1>2, WriteNode

\* Both attempts of an acquire, when the modules are free.
LEMMA OccupyMore ==
    ASSUME IInv, NEW r \in Node, r \in kin[r], NEW mods, Free(r, mods), kin' = kin,
           holders' = Occupy(holders, r, mods),
           node' = [node EXCEPT ![r].mods = @ \cup mods]
    PROVE  KeepsNode /\ KeepsHolders /\ LocksStep
<1>1. mods \in SUBSET Module
    BY DEF Free, Loaded
<1>2. node \in [Node -> NodeRecord] /\ node[r] \in NodeRecord
    BY DEF IInv, TypeOK
<1>3. node[r].mods \cup mods \in SUBSET Module
    BY <1>1, <1>2 DEF NodeRecord
<1>4. node' = [node EXCEPT ![r].mods = node[r].mods \cup mods]
    BY <1>2
<1>5. KeepsNode
    BY <1>3, <1>4, ModsWrite
<1>6. KeepsHolders
    BY DEF KeepsHolders, Occupy, IInv, TypeOK
<1> QED BY <1>5, <1>6, OccupyImplements

LEMMA AcquireReleaseKeeps ==
    ASSUME IInv, NEW r \in Rid, AcquireFree(r) \/ AcquireBlocked(r) \/ RoutineRelease(r)
    PROVE  Keeps /\ LocksStep
<1>0. r \in Node /\ r \in kin[r] /\ node \in [Node -> NodeRecord] /\ node[r] \in NodeRecord
    BY DEF Node, AcquireFree, AcquireBlocked, RoutineRelease, SelfRunning, IInv, TypeOK, Lines
<1>1. CASE AcquireFree(r)
    <2>1. KeepsNode /\ KeepsHolders /\ LocksStep
        BY <1>0, <1>1, OccupyMore DEF AcquireFree
    <2> QED BY <1>1, <2>1, Unchanged DEF AcquireFree, taskVars, wireVars, Keeps
<1>2. CASE AcquireBlocked(r)
    <2>1. PICK mods \in Acquirable :
                evict' = [evict EXCEPT ![r] =
                    [NoEvict EXCEPT !.pc = "queued", !.kind = "acquire", !.mods = mods]]
        BY <1>2 DEF AcquireBlocked
    <2>2. mods \in SUBSET Module
        BY ClientAssumption
    <2> DEFINE rec == [NoEvict EXCEPT !.pc = "queued", !.kind = "acquire", !.mods = mods]
    <2>3. rec \in EvictRecord /\ rec.left = {}
        BY <2>2 DEF NoEvict, EvictRecord, Node
    <2>4. KeepsEvict
        BY <1>0, <2>1, <2>3, EvictQueued
    <2>5. ready' \in Seq(GoodTasks)
        BY <1>0, <1>2, AppendTask DEF AcquireBlocked, Spawn, IInv, Agenda
    <2>6. UNCHANGED <<nodes, node, kin, told, holders, body, frame, toHub, toKernel, inst>>
        BY <1>2 DEF AcquireBlocked, treeVars, wireVars
    <2> QED BY <2>4, <2>5, <2>6, Unchanged, QuietImplements DEF Keeps, KeepsTasks, IInv, TypeOK
<1>3. CASE RoutineRelease(r)
    <2>1. PICK mods \in Acquirable : /\ holders' = ReleaseModules(holders, r, mods)
                                     /\ node' = [node EXCEPT ![r].mods = @ \ mods]
        BY <1>3 DEF RoutineRelease
    <2>2. mods \in SUBSET Module /\ node[r].mods \ mods \in SUBSET Module
        BY <1>0, ClientAssumption DEF NodeRecord
    <2>3. node' = [node EXCEPT ![r].mods = node[r].mods \ mods]
        BY <1>0, <2>1
    <2>4. KeepsNode
        BY <1>0, <2>2, <2>3, ModsWrite
    <2>5. KeepsHolders
        BY <2>1 DEF KeepsHolders, ReleaseModules, IInv, TypeOK
    <2>6. kin' = kin
        BY <1>3 DEF RoutineRelease
    <2>7. LocksStep
        BY <1>0, <2>1, <2>2, <2>6, ReleaseImplements
    <2> QED BY <1>3, <2>4, <2>5, <2>7, Unchanged DEF RoutineRelease, taskVars, wireVars, Keeps
<1> QED BY <1>1, <1>2, <1>3

-------------------------------------------------------------------------------
\* Eviction.

\* What a step of an eviction keeps; kin and the rest are untouched by it.
EvictKeeps ==
    /\ StopKeeps /\ KeepsHolders /\ LocksStep
    /\ body' \in [Node -> Bodies]
    /\ KeepsEvict
    /\ ready' \in Seq(GoodTasks)

LEMMA EvictSettled ==
    ASSUME IInv, NEW a \in Node, evict' = [evict EXCEPT ![a] = NoEvict]
    PROVE  KeepsEvict
<1>1. NoEvict \in EvictRecord
    BY DEF NoEvict, EvictRecord, Node
<1> QED BY <1>1 DEF KeepsEvict, IInv, TypeOK, Agenda, NoEvict

LEMMA RetryStartKeeps ==
    ASSUME IInv, NEW a \in Node, NEW tasks \in Seq(GoodTasks), RetryStart(a, tasks),
           KeepsEvict, kin' = kin
    PROVE  EvictKeeps
<1>0. KeepsFrame
    BY Unchanged DEF RetryStart
<1>1. CASE a \in nodes /\ StartNow(a, node[a].prio, evict[a].try, tasks)
    <2>1. node[a] \in NodeRecord
        BY DEF IInv, TypeOK
    <2>2. node[a].prio \in Nat
        BY <2>1 DEF NodeRecord
    <2> QED BY <1>0, <1>1, <2>2, StartNowKeeps DEF EvictKeeps, StopKeeps
<1>2. CASE Reject(a, evict[a].try) /\ ready' = tasks /\ UNCHANGED <<node, body, holders>>
    <2>1. KeepsNode /\ KeepsHolders /\ LocksStep
        BY <1>2, Unchanged, QuietImplements
    <2> QED BY <1>0, <1>2, <2>1, RejectKeeps DEF EvictKeeps, StopKeeps, IInv, TypeOK
<1> QED BY <1>1, <1>2 DEF RetryStart

\* The routine is not looked up, but it exists.
LEMMA RetryAcquireKeeps ==
    ASSUME IInv, NEW a \in Node, a \in kin[a], NEW tasks \in Seq(GoodTasks),
           RetryAcquire(a, tasks), KeepsEvict, kin' = kin
    PROVE  EvictKeeps
<1>1. KeepsNode /\ KeepsHolders /\ LocksStep
    <2>1. CASE Free(a, evict[a].mods)
        BY <2>1, OccupyMore DEF RetryAcquire
    <2>2. CASE ~ Free(a, evict[a].mods)
        BY <2>2, Unchanged, QuietImplements DEF RetryAcquire
    <2> QED BY <2>1, <2>2
<1> QED BY <1>1, Unchanged DEF RetryAcquire, EvictKeeps, StopKeeps, IInv, TypeOK

LEMMA EvictNextKeeps ==
    ASSUME IInv, NEW a \in Node, a \in kin[a],
           NEW left \in SUBSET Node, left \cap kin[a] = {},
           NEW tasks \in Seq(GoodTasks), EvictNext(a, left, tasks), kin' = kin
    PROVE  EvictKeeps
<1> DEFINE able == {h \in left \cap nodes : ~ node[h].stopping}
<1>1. CASE able = {}
    <2>1. /\ evict' = [evict EXCEPT ![a] = NoEvict]
          /\ RetryStart(a, tasks) \/ RetryAcquire(a, tasks)
        BY <1>1 DEF EvictNext
    <2> QED BY <2>1, EvictSettled, RetryStartKeeps, RetryAcquireKeeps
<1>2. CASE able # {}
    <2>1. PICK h \in able :
                /\ evict' = [evict EXCEPT ![a].pc = "waiting", ![a].on = h,
                                          ![a].left = {g \in left : g > h}]
                /\ StopEnter(h, a, "evictor", tasks)
                /\ UNCHANGED <<holders, body>>
        BY <1>2 DEF EvictNext
    <2>2. h \in Node /\ MayForce(a, h)
        BY DEF MayForce
    <2>3. StopKeeps /\ ready' \in Seq(GoodTasks)
        BY <2>1, <2>2, StopEnterKeeps
    <2>4. KeepsEvict
        <3> DEFINE rec == [evict[a] EXCEPT !.pc = "waiting", !.on = h, !.left = {g \in left : g > h}]
        <3>1. evict \in [Node -> EvictRecord] /\ evict[a] \in EvictRecord
            BY DEF IInv, TypeOK
        <3>2. rec \in EvictRecord /\ rec.pc = "waiting" /\ rec.left \subseteq left
            BY <2>2, <3>1 DEF EvictRecord
        <3>3. evict' = [evict EXCEPT ![a] = rec]
            BY <2>1, <3>1
        <3> QED BY <3>1, <3>2, <3>3 DEF KeepsEvict, IInv, Agenda
    <2> QED BY <2>1, <2>3, <2>4, Unchanged, QuietImplements DEF EvictKeeps, IInv, TypeOK
<1> QED BY <1>1, <1>2

LEMMA RivalsTyped ==
    ASSUME IInv, NEW r, NEW mods
    PROVE  Rivals(r, mods) \in SUBSET Node /\ Rivals(r, mods) \cap kin[r] = {}
BY DEF Rivals, EvictableHolders, Cone, IInv, TypeOK

LEMMA EvictTaskKeeps ==
    ASSUME IInv, NEW a \in Node, EvictTask(a)
    PROVE  Keeps /\ LocksStep
<1>1. UNCHANGED <<kin, toKernel, inst>>
    BY DEF EvictTask, RunEvict, EvictResume
<1>2. CASE RunEvict(a)
    <2> DEFINE rivals == Rivals(a, evict[a].mods)
    <2>1. Tail(ready) \in Seq(GoodTasks) /\ a \in kin[a]
        BY <1>2, TakeTask DEF RunEvict
    <2>2. CASE \E h \in rivals \cap nodes : node[h].prio >= node[a].prio
        <3>1. /\ evict' = [evict EXCEPT ![a] = NoEvict]
              /\ ready' = Tail(ready)
              /\ Reject(a, evict[a].try) \/ UNCHANGED <<nodes, told, toHub>>
              /\ UNCHANGED <<node, holders, body, frame>>
            BY <1>2, <2>2 DEF RunEvict
        <3>2. nodes' \subseteq nodes /\ told' \subseteq Node /\ toHub' \in [Node -> Seq(Commands)]
            BY <3>1, RejectKeeps DEF IInv, TypeOK
        <3>3. KeepsEvict /\ KeepsNode /\ KeepsHolders /\ LocksStep
            BY <1>1, <3>1, EvictSettled, Unchanged, QuietImplements
        <3> QED BY <1>1, <2>1, <3>1, <3>2, <3>3, Unchanged
                DEF Keeps, KeepsTree, KeepsTasks, KeepsWire, IInv, TypeOK, Insts
    <2>3. CASE ~ \E h \in rivals \cap nodes : node[h].prio >= node[a].prio
        <3>1. EvictNext(a, rivals, Tail(ready))
            BY <1>2, <2>3 DEF RunEvict
        <3>2. EvictKeeps
            BY <1>1, <2>1, <3>1, RivalsTyped, EvictNextKeeps
        <3> QED BY <1>1, <3>2
                DEF EvictKeeps, StopKeeps, Keeps, KeepsTree, KeepsTasks, KeepsWire, IInv, TypeOK, Insts
    <2> QED BY <2>2, <2>3
<1>3. CASE EvictResume(a)
    <2>1. evict[a] \in EvictRecord /\ a \in kin[a] /\ ready \in Seq(GoodTasks)
        BY <1>3 DEF EvictResume, IInv, TypeOK, Agenda
    <2>2. evict[a].left \in SUBSET Node /\ evict[a].left \cap kin[a] = {}
        BY <2>1 DEF EvictRecord, IInv, Agenda
    <2>3. EvictKeeps
        BY <1>1, <1>3, <2>1, <2>2, EvictNextKeeps DEF EvictResume
    <2> QED BY <1>1, <2>3
            DEF EvictKeeps, StopKeeps, Keeps, KeepsTree, KeepsTasks, KeepsWire, IInv, TypeOK, Insts
<1> QED BY <1>2, <1>3 DEF EvictTask

-------------------------------------------------------------------------------
\* Creating: the one step that changes the lines.

LEMMA CreateStep ==
    ASSUME IInv, NEW r \in Rid, NEW p \in Parents[r], RoutineCreate(r, p)
    PROVE  IInv' /\ LocksStep
<1> DEFINE P == IF p = NoParent THEN {} ELSE kin[p]
           rec == [node[r] EXCEPT !.state = "created", !.parent = p]
<1>0. r \in Node /\ node \in [Node -> NodeRecord] /\ node[r] \in NodeRecord
      /\ kin \in [Node -> SUBSET Node]
    BY DEF Node, IInv, TypeOK
<1>1. node[r].state = "none" /\ kin[r] = {} /\ r \notin nodes /\ evict[r].pc = "none"
    BY <1>0 DEF RoutineCreate, IInv, Lines, Agenda
<1>2. p \in Node \cup {NoParent} /\ (p = NoParent \/ (p \in Node /\ p \in kin[p]))
    BY DEF RoutineCreate, IInv, TypeOK, Lines
<1>3. rec \in NodeRecord
    BY <1>0, <1>2 DEF NodeRecord, States
<1>4. node' = [node EXCEPT ![r] = rec]
    BY <1>0 DEF RoutineCreate
<1>5. P \in SUBSET Node /\ kin' = [kin EXCEPT ![r] = P \cup {r}]
    BY <1>0, <1>2 DEF RoutineCreate
<1>6. /\ nodes' = nodes \cup {r}
      /\ UNCHANGED <<holders, body, frame, evict, ready, told, toKernel, inst>>
    BY DEF RoutineCreate, taskVars
<1>7. LocksStep
    <2>1. Locks!Adopt(r, P)
        BY <1>1, <1>2, <1>5, <1>6 DEF Locks!Adopt
    <2> QED BY <1>0, <1>5, <2>1 DEF LocksStep, Locks!Next
<1>8. TypeOK'
    <2>1. node' \in [Node -> NodeRecord] /\ kin' \in [Node -> SUBSET Node]
        BY <1>0, <1>3, <1>4, <1>5
    <2>2. toHub' \in [Node -> Seq(Commands)]
        BY <1>0, SentTyped DEF RoutineCreate, Commands
    <2> QED BY <1>0, <1>6, <2>1, <2>2 DEF IInv, TypeOK
<1>9. Lines'
    <2>1. node'[r].state = "created" /\ node'[r].parent = p
        BY <1>0, <1>4 DEF NodeRecord
    <2>2. \A q \in Node : r \notin kin[q]
        BY <1>0, <1>1 DEF IInv, Lines
    <2>3. \A q \in Node : node'[q].state = "none" => kin'[q] = {}
        BY <1>0, <1>4, <1>5, <2>1 DEF IInv, Lines
    <2>4. \A q \in nodes' : q \in kin'[q]
        BY <1>0, <1>1, <1>5, <1>6 DEF IInv, TypeOK, Lines
    <2>5. ASSUME NEW q \in Node, NEW c \in kin'[q]
          PROVE  /\ node'[c].state # "none"
                 /\ node'[c].parent \in Node => node'[c].parent \in kin'[q]
        <3>1. CASE q # r
            <4>1. c \in kin[q] /\ kin'[q] = kin[q] /\ c \in Node /\ c # r
                BY <1>0, <1>5, <2>2, <3>1
            <4> QED BY <1>0, <1>4, <4>1 DEF IInv, Lines
        <3>2. CASE q = r /\ c = r
            BY <1>0, <1>2, <1>5, <2>1, <3>2, RidAssumption DEF Node, Root, NoParent
        <3>3. CASE q = r /\ c # r
            <4>1. p \in Node /\ c \in kin[p] /\ c \in Node /\ kin[p] \subseteq kin'[q]
                BY <1>0, <1>2, <1>5, <3>3
            <4> QED BY <1>0, <1>4, <3>3, <4>1 DEF IInv, Lines
        <3> QED BY <3>1, <3>2, <3>3
    <2> QED BY <2>3, <2>4, <2>5 DEF Lines
<1>10. Agenda'
    <2>1. ASSUME NEW t \in GoodTasks
          PROVE  t \in GoodTasks'
        <3>1. t.rid \in Node /\ t.rid # r
            BY <1>1 DEF GoodTasks, Tasks
        <3> QED BY <1>0, <1>4, <1>5, <3>1 DEF GoodTasks
    <2>2. GoodTasks \subseteq GoodTasks'
        BY <2>1
    <2>3. ready' \in Seq(GoodTasks')
        BY <1>6, <2>2, SeqMonotonic DEF IInv, Agenda
    <2>4. \A a \in Node : /\ evict'[a].pc # "none" => a \in kin'[a]
                          /\ evict'[a].pc = "none" => evict'[a].left = {}
                          /\ evict'[a].left \cap kin'[a] = {}
        BY <1>0, <1>1, <1>5, <1>6 DEF IInv, Agenda
    <2> QED BY <2>3, <2>4 DEF Agenda
<1>11. Forced'
    <2>1. ASSUME NEW b \in Node \cup {NoParent}, NEW q \in Node, MayForce(b, q)
          PROVE  MayForce(b, q)'
        BY <1>0, <1>1, <1>5, <2>1 DEF MayForce
    <2>2. \A q \in Node : /\ node[q].by \in Node \cup {NoParent}
                          /\ frame[q].by \in Node \cup {NoParent}
        BY DEF IInv, TypeOK, NodeRecord, FrameRecord
    <2>3. \A q \in Node : node'[q].by = node[q].by /\ frame' = frame
        BY <1>0, <1>4, <1>6 DEF NodeRecord
    <2> QED BY <2>1, <2>2, <2>3 DEF IInv, Forced, MayForce
<1> QED BY <1>7, <1>8, <1>9, <1>10, <1>11 DEF IInv

-------------------------------------------------------------------------------

\* The constants of the kernel are as the authority assumes.
LEMMA AuthorityAssumption == Root \in Node /\ TreeRoot \in Module
BY TreeAssumption DEF Node, Loaded

LEMMA InitInv == Init => IInv
<1> SUFFICES ASSUME Init PROVE IInv
    OBVIOUS
<1>1. NewNode \in NodeRecord /\ [NewNode EXCEPT !.state = "running", !.mods = {TreeRoot}] \in NodeRecord
    BY AuthorityAssumption DEF NewNode, NodeRecord, States
<1>2. IdleFrame \in FrameRecord /\ NoEvict \in EvictRecord
    BY DEF IdleFrame, FrameRecord, NoEvict, EvictRecord, Node
<1>3. <<>> \in Seq(Tasks) /\ <<>> \in Seq(GoodTasks) /\ <<>> \in Seq(Commands) /\ <<>> \in Seq(Reports)
    OBVIOUS
<1>4. TypeOK
    BY <1>1, <1>2, <1>3, AuthorityAssumption DEF Init, TypeOK, Bodies
<1>5. Lines
    BY AuthorityAssumption, RidAssumption DEF Init, Lines, NewNode, Node, NoParent, Root
<1>6. Agenda
    BY <1>3 DEF Init, Agenda, NoEvict
<1>7. Forced
    BY DEF Init, Forced, MayForce, NewNode, IdleFrame
<1> QED BY <1>4, <1>5, <1>6, <1>7 DEF IInv

LEMMA NextInv == IInv /\ [Next]_vars => IInv' /\ LocksStep
<1> SUFFICES ASSUME IInv, [Next]_vars PROVE IInv' /\ LocksStep
    OBVIOUS
<1>1. ASSUME NEW r \in Rid, Request(r)
      PROVE  IInv' /\ LocksStep
    <2>1. CASE \E p \in Parents[r] : RoutineCreate(r, p)
        BY <2>1, CreateStep
    <2>2. CASE RoutineDestroy(r)
        BY <2>2, RoutineDestroyKeeps, KeepsInv
    <2>3. CASE StartParentNotRunning(r) \/ StartFree(r) \/ StartRefused(r) \/ StartBlocked(r)
        BY <2>3, StartKeeps, KeepsInv
    <2>4. CASE RoutineStop(r)
        BY <2>4, RoutineStopKeeps, KeepsInv
    <2>5. CASE AcquireFree(r) \/ AcquireBlocked(r) \/ RoutineRelease(r)
        BY <2>5, AcquireReleaseKeeps, KeepsInv
    <2> QED BY <1>1, <2>1, <2>2, <2>3, <2>4, <2>5 DEF Request
<1>2. ASSUME NEW r \in Rid, BodyTask(r) \/ BodyStopTimeout(r)
      PROVE  IInv' /\ LocksStep
    BY <1>2, BodyKeeps, KeepsInv
<1>3. ASSUME NEW r \in Rid, Report(r) \/ Hub(r) \/ CreatedReply(r) \/ CreatedTimeout(r)
      PROVE  IInv' /\ LocksStep
    <2>1. Keeps /\ UNCHANGED holders
        BY <1>3, ReportKeeps, HubKeeps, CreatedAnswerKeeps
    <2> QED BY <2>1, KeepsInv, QuietImplements DEF Keeps, KeepsTree
<1>4. ASSUME NEW r \in Node, StopTask(r) \/ EvictTask(r)
      PROVE  IInv' /\ LocksStep
    BY <1>4, StopTaskKeeps, EvictTaskKeeps, KeepsInv
<1>5. CASE RootBodyCancelled
    BY <1>5, RootBodyKeeps, KeepsInv
<1>6. CASE UNCHANGED vars
    BY <1>6 DEF vars, IInv, TypeOK, Lines, Agenda, Forced, MayForce, GoodTasks, LocksStep, Locks!vars
<1> QED BY <1>1, <1>2, <1>3, <1>4, <1>5, <1>6 DEF Next

\* The initial tree and its one occupant are those of the authority.
LEMMA InitImplements == Init => Locks!Init
BY TreeAssumption
   DEF Init, Locks!Init, Locks!IsForest, IsForest, Locks!Loaded, Loaded

-------------------------------------------------------------------------------

\* Every state of the kernel satisfies the inductive invariant.
THEOREM InvHolds == Spec => []IInv
<1>1. IInv /\ [Next]_vars => IInv'
    BY NextInv
<1> QED BY InitInv, <1>1, PTL DEF Spec

\* The variables keep their types: what a task, a frame or an eviction carries
\* is always the id of a routine, and no message or report is out of place.
THEOREM TypeCorrect == Spec => []TypeOK
BY InvHolds, PTL DEF IInv

\* Nobody is evicted on behalf of its own descendant (_evict_lower_holders takes
\* its holders from evictable_holders, and _stop_node hands force_by down to
\* children, who may have come under the holder since).
THEOREM LineSparedHolds == Spec => []LineSpared
<1>1. IInv => LineSpared
    BY DEF IInv, Forced, MayForce, LineSpared
<1> QED BY InvHolds, <1>1, PTL

\* The kernel implements the authority: every start, acquire, eviction, stop,
\* release and timeout, in whatever order the loop runs them, is a checked
\* occupation, a release, or nothing, as far as the modules are concerned.
THEOREM KernelImplementsLocks == Spec => LocksSpec
<1>1. IInv /\ [Next]_vars => [Locks!Next]_Locks!vars
    BY NextInv DEF LocksStep
<1> QED BY InvHolds, InitImplements, <1>1, PTL DEF Spec, LocksSpec, Locks!Spec

\* Two routines that occupy conflicting modules are ancestor and descendant
\* (Tree.try_acquire), in the kernel as in the authority.
THEOREM ExclusionHolds == Spec => []Exclusion
<1>1. Locked!RootAssumption
    BY AuthorityAssumption DEF Locked!RootAssumption
<1>2. Locked!Spec => []Locked!Exclusion
    BY <1>1, Locked!ExclusionHolds
<1>3. Locks!Init => Locked!Init
    BY DEF Locks!Init, Locked!Init, Locks!IsForest, Locked!IsForest, Locks!Loaded, Locked!Loaded
<1>4. [Locks!Next]_Locks!vars => [Locked!Next]_Locked!vars
    BY DEF Locks!Next, Locked!Next, Locks!vars, Locked!vars, Locks!Adopt, Locked!Adopt,
           Locks!TryAcquire, Locked!TryAcquire, Locks!Release, Locked!Release,
           Locks!LoadModule, Locked!LoadModule, Locks!UnloadModule, Locked!UnloadModule,
           Locks!Loaded, Locked!Loaded, Locks!Cone, Locked!Cone,
           Locks!EvictableHolders, Locked!EvictableHolders, Locks!Occupy, Locked!Occupy,
           Locks!ReleaseModules, Locked!ReleaseModules
<1>5. Locked!Exclusion => Exclusion
    BY DEF Locked!Exclusion, Exclusion, Locked!Related, Related, Locked!Cone, Cone
<1> QED BY KernelImplementsLocks, <1>2, <1>3, <1>4, <1>5, PTL
        DEF LocksSpec, Locks!Spec, Locked!Spec

-------------------------------------------------------------------------------
\* The records of a routine.

\* Tasks that a routine has one of at most.
Single == {t \in Tasks : t.kind \in {"body", "evict"}}

\* A body task waits in the loop's queue only while the body is fresh, an eviction
\* only while it is queued, and neither twice.
Tasked ==
    /\ Once(ready, Single)
    /\ \A r \in Node : /\ Task("body", r) \in Queued(ready) => body[r] = "fresh"
                       /\ Task("evict", r) \in Queued(ready) => evict[r].pc = "queued"

\* A routine has a body from its start on, and occupies nothing before.
Resting(r) ==
    /\ node[r].state \in {"none", "created"} <=> body[r] = "none"
    /\ body[r] = "none" => Holds(r) = {}

\* An eviction waits for an acquire of a routine that was started, or for a start of
\* one that was not (unless clients start it twice).
Waits(r) == evict[r].pc # "none" =>
    /\ evict[r].kind = "acquire" => body[r] # "none"
    /\ evict[r].kind = "start" =>
            /\ node[r].reply = "ok"
            /\ r \notin Again => node[r].state = "created"

\* A routine that is being stopped was created.
Framed(r) == frame[r].pc # "idle" => node[r].state # "none"

\* RecordsAgree, and EndIsTold, of one routine.
Agrees(r) == r \notin Again =>
    /\ HasTask(r) => Holds(r) = node[r].mods
    /\ node[r].state \in {"starting", "running"} => r \in nodes

Ends(r) ==
    /\ node[r].stopped => r \in told
    /\ Exists(r) /\ r \notin nodes => r \in told \/ Abandoned(r)

Orderly(r) == Resting(r) /\ Waits(r) /\ Framed(r) /\ Agrees(r) /\ Ends(r)

\* The link before r is created, ...
Unborn(r) == node[r].state = "none" =>
    /\ toHub[r] = <<>> /\ toKernel[r] = <<>> /\ inst[r] = "none"
    /\ node[r].born = "pending" /\ ~ node[r].started /\ ~ node[r].stopped

\* ... before it is started: nothing tells the hub to start or stop it, ...
Unstarted(r) == node[r].state = "created" =>
    /\ "start" \notin Queued(toHub[r]) /\ "stop" \notin Queued(toHub[r])
    /\ inst[r] \notin {"running", "lost"}
    /\ "started" \notin Queued(toKernel[r]) /\ ~ node[r].started

\* ... and as long as it can be started its instance is on its way, there, or gone;
\* when it has been born and not gone, nothing more is under way to the hub, ...
Offered(r) == node[r].state = "created" /\ r \in nodes =>
    \/ /\ toHub[r] = <<"created">> /\ inst[r] = "none" /\ toKernel[r] = <<>>
       /\ node[r].born # "ok" /\ ~ node[r].stopped
    \/ /\ toHub[r] = <<>> /\ inst[r] = "created"
       /\ "stopped" \notin Queued(toKernel[r]) /\ ~ node[r].stopped
    \/ /\ toHub[r] = <<>> /\ inst[r] = "gone"
       /\ "created" \notin Queued(toKernel[r]) /\ node[r].born # "ok"

Answered(r) == node[r].reply = "ok" => node[r].born = "ok"

\* ... and from its start on the link carries what its body sends, one message at most.
Sends(r) ==
    /\ body[r] = "fresh" => toHub[r] = <<>> /\ inst[r] = "created"
    /\ body[r] = "starting" => toHub[r] \in {<<>>, <<"start">>}
    /\ body[r] = "running" => toHub[r] = <<>>
    /\ body[r] = "stopwait" => toHub[r] \in {<<>>, <<"stop">>}
    /\ body[r] = "done" => toHub[r] \in {<<>>, <<"start">>, <<"stop">>}

\* The instance waits for the start and reports nothing before it; when it has stopped
\* it has gone.
Lives(r) == body[r] # "none" =>
    /\ inst[r] \in {"created", "running", "gone"}
    /\ toHub[r] = <<"start">> => inst[r] = "created"
    /\ inst[r] = "created" =>
            /\ ~ node[r].started /\ ~ node[r].stopped
            /\ "started" \notin Queued(toKernel[r])
    /\ node[r].stopped \/ "stopped" \in Queued(toKernel[r]) => inst[r] = "gone"

Wired(r) == Unborn(r) /\ Unstarted(r) /\ Offered(r) /\ Answered(r) /\ Sends(r) /\ Lives(r)

\* What is proved here on top of IInv.
Books ==
    /\ Tasked
    /\ \A r \in Node : Orderly(r)
    /\ \A r \in Rid \ Again : Wired(r)

RInv == IInv /\ Books

-------------------------------------------------------------------------------
\* What a step may do to a routine without touching what the invariant says of it.

CalmOrder(q) ==
    /\ node'[q].state = node[q].state
    /\ node'[q].mods = node[q].mods
    /\ node[q].reply = "ok" => node'[q].reply = "ok"
    /\ node'[q].stopped = node[q].stopped
    /\ (q \in nodes') <=> (q \in nodes)
    /\ q \in told => q \in told'
    /\ body'[q] = body[q]
    /\ Holds(q)' = Holds(q)
    /\ evict'[q].pc # "none" => evict[q].pc # "none" /\ evict'[q].kind = evict[q].kind
    /\ frame'[q].pc # "idle" => frame[q].pc # "idle"

CalmWire(q) ==
    /\ node'[q].state = node[q].state
    /\ node'[q].born = node[q].born
    /\ node'[q].reply = node[q].reply
    /\ node'[q].started = node[q].started
    /\ node'[q].stopped = node[q].stopped
    /\ (q \in nodes') <=> (q \in nodes)
    /\ body'[q] = body[q]
    /\ toHub'[q] = toHub[q]
    /\ toKernel'[q] = toKernel[q]
    /\ inst'[q] = inst[q]

LEMMA CalmOrderKeeps ==
    ASSUME NEW q \in Node, Orderly(q), CalmOrder(q)
    PROVE  Orderly(q)'
<1>1. Resting(q)'
    BY DEF CalmOrder, Orderly, Resting
<1>2. Waits(q)'
    BY DEF CalmOrder, Orderly, Waits
<1>3. Framed(q)'
    BY DEF CalmOrder, Orderly, Framed
<1>4. Agrees(q)'
    BY DEF CalmOrder, Orderly, Agrees, HasTask
<1>5. Ends(q)'
    BY DEF CalmOrder, Orderly, Ends, Exists, Abandoned
<1> QED BY <1>1, <1>2, <1>3, <1>4, <1>5 DEF Orderly

LEMMA CalmWireKeeps ==
    ASSUME NEW q \in Node, Wired(q), CalmWire(q)
    PROVE  Wired(q)'
<1>1. Unborn(q)' /\ Unstarted(q)' /\ Offered(q)' /\ Answered(q)'
    BY DEF CalmWire, Wired, Unborn, Unstarted, Offered, Answered
<1>2. Sends(q)'
    BY DEF CalmWire, Wired, Sends
<1>3. Lives(q)'
    BY DEF CalmWire, Wired, Lives
<1> QED BY <1>1, <1>2, <1>3 DEF Wired

\* A step that is about one routine.
LEMMA OneRoutine ==
    ASSUME Books, NEW r \in Node,
           \A q \in Node \ {r} : CalmOrder(q) /\ CalmWire(q),
           Tasked', Orderly(r)', r \in Rid \ Again => Wired(r)'
    PROVE  Books'
<1>1. \A q \in Node : Orderly(q)'
    <2>1. ASSUME NEW q \in Node \ {r} PROVE Orderly(q)'
        BY <2>1, CalmOrderKeeps DEF Books
    <2> QED BY <2>1
<1>2. \A q \in Rid \ Again : Wired(q)'
    <2>1. ASSUME NEW q \in Rid \ Again, q # r PROVE Wired(q)'
        <3>1. q \in Node \ {r}
            BY <2>1 DEF Node
        <3> QED BY <2>1, <3>1, CalmWireKeeps DEF Books
    <2> QED BY <2>1
<1> QED BY <1>1, <1>2 DEF Books

\* Nothing happens to the tasks.
LEMMA TasksStay ==
    ASSUME Tasked, UNCHANGED <<body, evict, ready>>
    PROVE  Tasked'
BY DEF Tasked

-------------------------------------------------------------------------------
\* The entries of a routine, before and after.

LEMMA Entries ==
    ASSUME IInv
    PROVE  /\ node \in [Node -> NodeRecord]
           /\ \A r \in Node : node[r] \in NodeRecord
           /\ body \in [Node -> Bodies]
           /\ frame \in [Node -> FrameRecord]
           /\ evict \in [Node -> EvictRecord]
           /\ holders \in [Module -> SUBSET Node]
           /\ toHub \in [Node -> Seq(Commands)]
           /\ toKernel \in [Node -> Seq(Reports)]
           /\ inst \in [Node -> Insts]
           /\ ready \in Seq(Tasks)
           /\ nodes \subseteq Node /\ told \subseteq Node
BY DEF IInv, TypeOK, Insts

LEMMA SentThere ==
    ASSUME IInv, NEW r \in Node, NEW msg \in Commands, toHub' = Sent(r, msg)
    PROVE  /\ toHub'[r] = Append(toHub[r], msg)
           /\ Queued(toHub'[r]) = Queued(toHub[r]) \cup {msg}
           /\ \A q \in Node \ {r} : toHub'[q] = toHub[q]
<1>1. toHub'[r] = Append(toHub[r], msg) /\ \A q \in Node \ {r} : toHub'[q] = toHub[q]
    BY Entries DEF Sent
<1>2. toHub[r] \in Seq(Commands)
    BY Entries
<1>3. Queued(Append(toHub[r], msg)) = Queued(toHub[r]) \cup {msg}
    BY <1>2, Appended
<1> QED BY <1>1, <1>3

LEMMA ReportedThere ==
    ASSUME IInv, NEW r \in Node, NEW msg \in Reports, toKernel' = Reported(r, msg)
    PROVE  /\ Queued(toKernel'[r]) = Queued(toKernel[r]) \cup {msg}
           /\ \A q \in Node \ {r} : toKernel'[q] = toKernel[q]
<1>1. toKernel'[r] = Append(toKernel[r], msg) /\ \A q \in Node \ {r} : toKernel'[q] = toKernel[q]
    BY Entries DEF Reported
<1>2. toKernel[r] \in Seq(Reports)
    BY Entries
<1>3. Queued(Append(toKernel[r], msg)) = Queued(toKernel[r]) \cup {msg}
    BY <1>2, Appended
<1> QED BY <1>1, <1>3

LEMMA ReceivedThere ==
    ASSUME IInv, NEW r \in Node, NEW msg, Receive(r, msg)
    PROVE  /\ toKernel[r] # <<>> /\ msg \in Queued(toKernel[r])
           /\ Queued(toKernel'[r]) \subseteq Queued(toKernel[r])
           /\ \A q \in Node \ {r} : toKernel'[q] = toKernel[q]
<1>1. /\ toKernel[r] # <<>> /\ Head(toKernel[r]) = msg
      /\ toKernel'[r] = Tail(toKernel[r])
      /\ \A q \in Node \ {r} : toKernel'[q] = toKernel[q]
    BY Entries DEF Receive
<1>2. toKernel[r] \in Seq(Reports)
    BY Entries
<1>3. Queued(toKernel[r]) = Queued(Tail(toKernel[r])) \cup {Head(toKernel[r])}
    BY <1>1, <1>2, Left
<1> QED BY <1>1, <1>3

LEMMA TakenThere ==
    ASSUME IInv, NEW r \in Node, NEW msg, Take(r, msg)
    PROVE  /\ toHub[r] # <<>> /\ Head(toHub[r]) = msg /\ msg \in Queued(toHub[r])
           /\ toHub'[r] = Tail(toHub[r])
           /\ Queued(toHub'[r]) \subseteq Queued(toHub[r])
           /\ \A q \in Node \ {r} : toHub'[q] = toHub[q]
<1>1. /\ toHub[r] # <<>> /\ Head(toHub[r]) = msg
      /\ toHub'[r] = Tail(toHub[r])
      /\ \A q \in Node \ {r} : toHub'[q] = toHub[q]
    BY Entries DEF Take
<1>2. toHub[r] \in Seq(Commands)
    BY Entries
<1>3. Queued(toHub[r]) = Queued(Tail(toHub[r])) \cup {Head(toHub[r])}
    BY <1>1, <1>2, Left
<1> QED BY <1>1, <1>3

\* Short queues.
LEMMA Queues ==
    /\ Queued(<<>>) = {}
    /\ Queued(<<"created">>) = {"created"} /\ Head(<<"created">>) = "created" /\ Tail(<<"created">>) = <<>>
    /\ Queued(<<"start">>) = {"start"} /\ Head(<<"start">>) = "start" /\ Tail(<<"start">>) = <<>>
    /\ Queued(<<"stop">>) = {"stop"} /\ Head(<<"stop">>) = "stop" /\ Tail(<<"stop">>) = <<>>
    /\ Append(<<>>, "start") = <<"start">> /\ Append(<<>>, "stop") = <<"stop">>
    /\ Append(<<>>, "created") = <<"created">>
    /\ <<"start">> # <<>> /\ <<"stop">> # <<>> /\ <<"created">> # <<>>
    /\ <<"start">> # <<"stop">>
<1>1. <<"start">> # <<"stop">>
    <2>1. Head(<<"start">>) = "start" /\ Head(<<"stop">>) = "stop"
        BY Short
    <2> QED BY <2>1
<1> QED BY <1>1, Short

-------------------------------------------------------------------------------
\* The hub, and its reports.

\* What may be under way to the hub, by the state of the routine.
LEMMA OnTheWay ==
    ASSUME IInv, NEW r \in Node, Resting(r), Wired(r)
    PROVE  /\ body[r] \in {"fresh", "starting", "running", "stopwait", "done", "none"}
           /\ body[r] = "none" => node[r].state \in {"none", "created"}
           /\ body[r] # "none" => /\ toHub[r] \in {<<>>, <<"start">>, <<"stop">>}
                                  /\ node[r].state \notin {"none", "created"}
<1>1. body[r] \in Bodies
    BY Entries
<1> QED BY <1>1 DEF Bodies, Wired, Sends, Resting

LEMMA HubKeepsWire ==
    ASSUME IInv, NEW r \in Rid, Hub(r), Resting(r), Wired(r)
    PROVE  Wired(r)'
<1>0. r \in Node
    BY DEF Node
<1>1. /\ UNCHANGED <<nodes, node, body>>
      /\ toKernel \in [Node -> Seq(Reports)] /\ inst \in [Node -> Insts] /\ inst[r] \in Insts
    BY <1>0, Entries DEF Hub, HubCreated, HubStart, HubFinish, HubEnd, HubRejected, treeVars, taskVars
<1>2. body[r] # "none" => /\ toHub[r] \in {<<>>, <<"start">>, <<"stop">>}
                          /\ node[r].state \notin {"none", "created"}
    BY <1>0, OnTheWay
<1>3. CASE HubCreated(r)
    <2>1. /\ toHub[r] # <<>> /\ Head(toHub[r]) = "created" /\ toHub'[r] = Tail(toHub[r])
          /\ Queued(toHub'[r]) \subseteq Queued(toHub[r])
        BY <1>0, <1>3, TakenThere DEF HubCreated
    <2>2. \/ inst'[r] = "created" /\ Queued(toKernel'[r]) = Queued(toKernel[r]) \cup {"created"}
          \/ inst'[r] = "gone" /\ Queued(toKernel'[r]) = Queued(toKernel[r]) \cup {"stopped"}
        BY <1>0, <1>1, <1>3, ReportedThere DEF HubCreated, Reports
    <2>3. body[r] = "none" /\ node[r].state = "created"
        BY <1>0, <1>2, <2>1, Queues, OnTheWay DEF Wired, Unborn
    <2>4. Offered(r)'
        BY <1>1, <2>1, <2>2, <2>3, Queues DEF Wired, Offered
    <2> QED BY <1>1, <2>1, <2>2, <2>3, <2>4 DEF Wired, Unborn, Unstarted, Answered, Sends, Lives
<1>4. CASE HubStart(r)
    <2>1. /\ toHub[r] # <<>> /\ Head(toHub[r]) = "start" /\ toHub'[r] = Tail(toHub[r])
          /\ "start" \in Queued(toHub[r])
        BY <1>0, <1>4, TakenThere DEF HubStart
    <2>2. body[r] # "none" /\ toHub[r] = <<"start">> /\ toHub'[r] = <<>> /\ inst[r] = "created"
        BY <1>0, <1>2, <2>1, Queues, OnTheWay DEF Wired, Unborn, Unstarted, Lives
    <2>3. inst'[r] = "running" /\ Queued(toKernel'[r]) = Queued(toKernel[r]) \cup {"started"}
        BY <1>0, <1>1, <1>4, <2>2, ReportedThere DEF HubStart, Reports
    <2> QED BY <1>1, <1>2, <2>2, <2>3, Queues
            DEF Wired, Unborn, Unstarted, Offered, Answered, Sends, Lives
<1>5. CASE HubFinish(r)
    <2>1. /\ toHub' = toHub /\ inst[r] \in {"running", "lost"} /\ inst'[r] = "gone"
          /\ Queued(toKernel'[r]) = Queued(toKernel[r]) \cup {"stopped"}
        BY <1>0, <1>1, <1>5, ReportedThere DEF HubFinish, Reports
    <2>2. body[r] # "none" /\ inst[r] = "running"
        BY <1>0, <2>1, OnTheWay DEF Wired, Unborn, Unstarted, Lives
    <2> QED BY <1>1, <1>2, <2>1, <2>2, Queues
            DEF Wired, Unborn, Unstarted, Offered, Answered, Sends, Lives
<1>6. CASE HubEnd(r)
    <2>1. /\ toHub[r] # <<>> /\ Head(toHub[r]) \in {"stop", "destroy"} /\ toHub'[r] = Tail(toHub[r])
          /\ Queued(toHub'[r]) \subseteq Queued(toHub[r])
        BY <1>0, <1>6, TakenThere DEF HubEnd
    <2>2. \/ /\ inst[r] \in {"created", "running"} /\ inst'[r] = "gone"
             /\ Queued(toKernel'[r]) = Queued(toKernel[r]) \cup {"stopped"}
          \/ inst[r] \notin {"created", "running"} /\ inst' = inst /\ toKernel' = toKernel
        BY <1>0, <1>1, <1>6, ReportedThere DEF HubEnd, Reports
    <2>3. CASE body[r] # "none"
        <3>1. toHub[r] = <<"stop">> /\ toHub'[r] = <<>>
            BY <1>2, <2>1, <2>3, Queues
        <3> QED BY <1>1, <1>2, <2>2, <2>3, <3>1, Queues
                DEF Wired, Unborn, Unstarted, Offered, Answered, Sends, Lives
    <2>4. CASE body[r] = "none"
        <3>1. node[r].state = "created" /\ r \notin nodes
            BY <1>0, <2>1, <2>4, Queues, OnTheWay DEF Wired, Unborn, Offered
        <3> QED BY <1>1, <2>1, <2>2, <2>4, <3>1
                DEF Wired, Unborn, Unstarted, Offered, Answered, Sends, Lives
    <2> QED BY <2>3, <2>4
<1>7. CASE HubRejected(r)
    <2>1. /\ toHub[r] # <<>> /\ Head(toHub[r]) = "rejected" /\ toHub'[r] = Tail(toHub[r])
          /\ Queued(toHub'[r]) \subseteq Queued(toHub[r]) /\ toKernel' = toKernel
        BY <1>0, <1>7, TakenThere DEF HubRejected
    <2>2. body[r] = "none" /\ node[r].state = "created" /\ r \notin nodes
        BY <1>0, <1>2, <2>1, Queues, OnTheWay DEF Wired, Unborn, Offered
    <2>3. inst'[r] = "gone"
        BY <1>0, <1>1, <1>7, <2>2 DEF HubRejected, Wired, Unstarted
    <2> QED BY <1>1, <2>1, <2>2, <2>3
            DEF Wired, Unborn, Unstarted, Offered, Answered, Sends, Lives
<1> QED BY <1>3, <1>4, <1>5, <1>6, <1>7 DEF Hub

LEMMA HubBooks ==
    ASSUME RInv, NEW r \in Rid, Hub(r)
    PROVE  Books'
<1>0. r \in Node /\ IInv /\ Books
    BY DEF Node, RInv
<1>1. UNCHANGED <<nodes, node, told, holders, body, frame, evict, ready>>
    BY DEF Hub, HubCreated, HubStart, HubFinish, HubEnd, HubRejected, treeVars, taskVars
<1>2. \A q \in Node \ {r} : toHub'[q] = toHub[q]
    BY <1>0, TakenThere DEF Hub, HubCreated, HubStart, HubFinish, HubEnd, HubRejected
<1>3. \A q \in Node \ {r} : toKernel'[q] = toKernel[q]
    BY <1>0, ReportedThere DEF Hub, HubCreated, HubStart, HubFinish, HubEnd, HubRejected, Reports
<1>4. \A q \in Node \ {r} : inst'[q] = inst[q]
    BY <1>0, Entries DEF Hub, HubCreated, HubStart, HubFinish, HubEnd, HubRejected
<1>5. \A q \in Node : CalmOrder(q)
    BY <1>1 DEF CalmOrder, Holds
<1>6. \A q \in Node \ {r} : CalmWire(q)
    BY <1>1, <1>2, <1>3, <1>4 DEF CalmWire
<1>7. Tasked'
    BY <1>0, <1>1, TasksStay DEF Books
<1>8. Orderly(r)'
    BY <1>0, <1>5, CalmOrderKeeps DEF Books
<1>9. r \in Rid \ Again => Wired(r)'
    BY <1>0, HubKeepsWire DEF Books, Orderly
<1> QED BY <1>0, <1>5, <1>6, <1>7, <1>8, <1>9, OneRoutine

\* A task of another kind gets in line.
LEMMA SpawnOther ==
    ASSUME Tasked, ready \in Seq(Tasks), NEW kind \in {"stop", "ended"}, NEW r \in Node,
           ready' = Append(ready, Task(kind, r)), UNCHANGED <<body, evict>>
    PROVE  Tasked'
<1>1. Task(kind, r) \in Tasks /\ Task(kind, r) \notin Single
    BY DEF Task, Tasks, Single
<1>2. Queued(ready') = Queued(ready) \cup {Task(kind, r)}
    BY <1>1, Appended
<1>3. Once(ready', Single)
    BY <1>1, AppendedOnce DEF Tasked
<1>4. \A q \in Node : Task("body", q) # Task(kind, r) /\ Task("evict", q) # Task(kind, r)
    BY DEF Task
<1> QED BY <1>2, <1>3, <1>4 DEF Tasked

\* One record of the node table is written.
LEMMA Written ==
    ASSUME IInv, NEW r \in Node, NEW rec, node' = [node EXCEPT ![r] = rec]
    PROVE  node'[r] = rec /\ \A q \in Node \ {r} : node'[q] = node[q]
BY Entries

LEMMA ReportBooks ==
    ASSUME RInv, NEW r \in Rid, Report(r)
    PROVE  Books'
<1>0. /\ r \in Node /\ IInv /\ Books /\ node \in [Node -> NodeRecord] /\ node[r] \in NodeRecord
      /\ Orderly(r) /\ Tasked
      /\ r \in Rid \ Again => Wired(r)
    BY Entries DEF Node, RInv, Books
<1>1. UNCHANGED <<nodes, holders, body, frame, evict, toHub, inst>> /\ told \subseteq told'
    BY DEF Report, LifecycleCreated, LifecycleStarted, LifecycleStopped, taskVars
<1>2. PICK msg \in Reports : Receive(r, msg)
    BY DEF Report, LifecycleCreated, LifecycleStarted, LifecycleStopped, Reports
<1>3. /\ toKernel[r] # <<>> /\ msg \in Queued(toKernel[r])
      /\ Queued(toKernel'[r]) \subseteq Queued(toKernel[r])
      /\ \A q \in Node \ {r} : toKernel'[q] = toKernel[q]
    BY <1>0, <1>2, ReceivedThere
<1>4. ASSUME \A q \in Node \ {r} : node'[q] = node[q],
             Tasked', Orderly(r)', r \in Rid \ Again => Wired(r)'
      PROVE  Books'
    <2>1. \A q \in Node \ {r} : CalmOrder(q)
        BY <1>1, <1>4 DEF CalmOrder, Holds
    <2>2. \A q \in Node \ {r} : CalmWire(q)
        BY <1>1, <1>3, <1>4 DEF CalmWire
    <2> QED BY <1>0, <1>4, <2>1, <2>2, OneRoutine
<1>5. CASE LifecycleCreated(r)
    <2>1. "created" \in Queued(toKernel[r])
        BY <1>0, <1>5, ReceivedThere DEF LifecycleCreated
    <2>2. /\ \A q \in Node \ {r} : node'[q] = node[q]
          /\ \/ node'[r] = node[r] /\ r \notin nodes
             \/ node'[r] = [node[r] EXCEPT !.seen = TRUE, !.born = IF @ = "pending" THEN "ok" ELSE @]
        <3>1. CASE r \in nodes
            <4> DEFINE rec == [node[r] EXCEPT !.seen = TRUE, !.born = IF @ = "pending" THEN "ok" ELSE @]
            <4>1. node' = [node EXCEPT ![r].seen = TRUE, ![r].born = IF @ = "pending" THEN "ok" ELSE @]
                BY <1>5, <3>1 DEF LifecycleCreated
            <4>2. node' = [node EXCEPT ![r] = rec]
                BY <1>0, <4>1
            <4> QED BY <1>0, <4>2, Written
        <3>2. CASE r \notin nodes
            BY <1>5, <3>2 DEF LifecycleCreated
        <3> QED BY <3>1, <3>2
    <2>3. /\ node'[r].state = node[r].state /\ node'[r].mods = node[r].mods
          /\ node'[r].reply = node[r].reply /\ node'[r].stopped = node[r].stopped
          /\ node'[r].started = node[r].started
          /\ node'[r].born = node[r].born \/ (node[r].born = "pending" /\ node'[r].born = "ok")
        BY <1>0, <2>2 DEF NodeRecord
    <2>4. Orderly(r)'
        <3>1. CalmOrder(r)
            BY <1>1, <2>3 DEF CalmOrder, Holds
        <3> QED BY <1>0, <3>1, CalmOrderKeeps
    <2>5. Tasked'
        BY <1>0, <1>1, <1>5, TasksStay DEF LifecycleCreated, taskVars
    <2>6. ASSUME Wired(r) PROVE Wired(r)'
        <3>1. Offered(r)'
            BY <1>1, <1>3, <2>1, <2>3, <2>6 DEF Wired, Offered
        <3>2. Unborn(r)' /\ Unstarted(r)' /\ Answered(r)' /\ Sends(r)' /\ Lives(r)'
            BY <1>1, <1>3, <2>3, <2>6 DEF Wired, Unborn, Unstarted, Answered, Sends, Lives
        <3> QED BY <3>1, <3>2 DEF Wired
    <2> QED BY <1>0, <1>4, <2>2, <2>4, <2>5, <2>6
<1>6. CASE LifecycleStarted(r)
    <2>1. "started" \in Queued(toKernel[r])
        BY <1>0, <1>6, ReceivedThere DEF LifecycleStarted
    <2>2. /\ \A q \in Node \ {r} : node'[q] = node[q]
          /\ node'[r] = [node[r] EXCEPT !.started = @ \/ r \in nodes]
        <3> DEFINE rec == [node[r] EXCEPT !.started = @ \/ r \in nodes]
        <3>1. node' = [node EXCEPT ![r] = rec]
            BY <1>0, <1>6 DEF LifecycleStarted
        <3> QED BY <1>0, <3>1, Written
    <2>3. /\ node'[r].state = node[r].state /\ node'[r].mods = node[r].mods
          /\ node'[r].reply = node[r].reply /\ node'[r].stopped = node[r].stopped
          /\ node'[r].born = node[r].born
        BY <1>0, <2>2 DEF NodeRecord
    <2>4. Orderly(r)'
        <3>1. CalmOrder(r)
            BY <1>1, <2>3 DEF CalmOrder, Holds
        <3> QED BY <1>0, <3>1, CalmOrderKeeps
    <2>5. Tasked'
        BY <1>0, <1>1, <1>6, TasksStay DEF LifecycleStarted, taskVars
    <2>6. ASSUME Wired(r) PROVE Wired(r)'
        <3>1. node[r].state \notin {"none", "created"} /\ (body[r] # "none" => inst[r] # "created")
            BY <1>3, <2>1, <2>6 DEF Wired, Unborn, Unstarted, Lives
        <3>2. Unborn(r)' /\ Unstarted(r)' /\ Offered(r)' /\ Answered(r)' /\ Sends(r)'
            BY <1>1, <1>3, <2>3, <2>6, <3>1
               DEF Wired, Unborn, Unstarted, Offered, Answered, Sends
        <3>3. Lives(r)'
            BY <1>1, <1>3, <2>3, <2>6, <3>1 DEF Wired, Lives
        <3> QED BY <3>2, <3>3 DEF Wired
    <2> QED BY <1>0, <1>4, <2>2, <2>4, <2>5, <2>6
<1>7. CASE LifecycleStopped(r)
    <2>1. "stopped" \in Queued(toKernel[r])
        BY <1>0, <1>7, ReceivedThere DEF LifecycleStopped
    <2>2. CASE r \notin nodes
        <3>1. UNCHANGED <<node, told, ready>>
            BY <1>7, <2>2 DEF LifecycleStopped
        <3>2. Orderly(r)'
            <4>1. CalmOrder(r)
                BY <1>1, <3>1 DEF CalmOrder, Holds
            <4> QED BY <1>0, <4>1, CalmOrderKeeps
        <3>3. Tasked'
            BY <1>0, <1>1, <3>1, TasksStay
        <3>4. ASSUME Wired(r) PROVE Wired(r)'
            BY <1>1, <1>3, <2>2, <3>1, <3>4
               DEF Wired, Unborn, Unstarted, Offered, Answered, Sends, Lives
        <3> QED BY <1>0, <1>4, <3>1, <3>2, <3>3, <3>4
    <2>3. CASE r \in nodes /\ ~ node[r].seen
        <3> DEFINE rec == [node[r] EXCEPT !.seen = TRUE, !.born = IF @ = "pending" THEN "error" ELSE @]
        <3>1. /\ node' = [node EXCEPT ![r].seen = TRUE, ![r].born = IF @ = "pending" THEN "error" ELSE @]
              /\ UNCHANGED <<told, ready>>
            BY <1>7, <2>3 DEF LifecycleStopped
        <3>2. node' = [node EXCEPT ![r] = rec]
            BY <1>0, <3>1
        <3>3. node'[r] = rec /\ \A q \in Node \ {r} : node'[q] = node[q]
            BY <1>0, <3>2, Written
        <3>4. /\ node'[r].state = node[r].state /\ node'[r].mods = node[r].mods
              /\ node'[r].reply = node[r].reply /\ node'[r].stopped = node[r].stopped
              /\ node'[r].started = node[r].started
              /\ node'[r].born = node[r].born \/ (node[r].born = "pending" /\ node'[r].born = "error")
            BY <1>0, <3>3 DEF NodeRecord
        <3>5. Orderly(r)'
            <4>1. CalmOrder(r)
                BY <1>1, <3>4 DEF CalmOrder, Holds
            <4> QED BY <1>0, <4>1, CalmOrderKeeps
        <3>6. Tasked'
            BY <1>0, <1>1, <3>1, TasksStay
        <3>7. ASSUME Wired(r) PROVE Wired(r)'
            <4>1. Offered(r)'
                BY <1>1, <1>3, <2>1, <3>4, <3>7 DEF Wired, Offered
            <4>2. Unborn(r)' /\ Unstarted(r)' /\ Answered(r)' /\ Sends(r)' /\ Lives(r)'
                BY <1>1, <1>3, <3>4, <3>7 DEF Wired, Unborn, Unstarted, Answered, Sends, Lives
            <4> QED BY <4>1, <4>2 DEF Wired
        <3> QED BY <1>0, <1>4, <3>3, <3>5, <3>6, <3>7
    <2>4. CASE r \in nodes /\ node[r].seen
        <3> DEFINE rec == [node[r] EXCEPT !.stopped = TRUE]
        <3>1. /\ node' = [node EXCEPT ![r].stopped = TRUE]
              /\ told' = told \cup {r}
              /\ ready' = Append(ready, Task("ended", r))
            BY <1>7, <2>4 DEF LifecycleStopped, Spawn
        <3>2. node' = [node EXCEPT ![r] = rec]
            BY <1>0, <3>1
        <3>3. node'[r] = rec /\ \A q \in Node \ {r} : node'[q] = node[q]
            BY <1>0, <3>2, Written
        <3>4. /\ node'[r].state = node[r].state /\ node'[r].mods = node[r].mods
              /\ node'[r].reply = node[r].reply /\ node'[r].stopped
              /\ node'[r].started = node[r].started /\ node'[r].born = node[r].born
            BY <1>0, <3>3 DEF NodeRecord
        <3>5. Orderly(r)'
            <4>1. Resting(r)' /\ Waits(r)' /\ Framed(r)' /\ Agrees(r)'
                BY <1>0, <1>1, <3>4
                   DEF Orderly, Resting, Waits, Framed, Agrees, HasTask, Holds
            <4>2. Ends(r)'
                BY <3>1 DEF Ends
            <4> QED BY <4>1, <4>2 DEF Orderly
        <3>6. Tasked'
            BY <1>0, <1>1, <3>1, Entries, SpawnOther
        <3>7. ASSUME Wired(r) PROVE Wired(r)'
            <4>1. Offered(r)'
                BY <1>1, <1>3, <2>1, <3>4, <3>7 DEF Wired, Offered
            <4>2. Unborn(r)' /\ Unstarted(r)' /\ Answered(r)' /\ Sends(r)'
                BY <1>1, <1>3, <3>4, <3>7 DEF Wired, Unborn, Unstarted, Answered, Sends
            <4>3. Lives(r)'
                BY <1>1, <1>3, <2>1, <3>4, <3>7 DEF Wired, Lives
            <4> QED BY <4>1, <4>2, <4>3 DEF Wired
        <3> QED BY <1>0, <1>4, <3>3, <3>5, <3>6, <3>7
    <2> QED BY <2>2, <2>3, <2>4
<1> QED BY <1>5, <1>6, <1>7 DEF Report

LEMMA AnswerBooks ==
    ASSUME RInv, NEW r \in Rid, CreatedReply(r) \/ CreatedTimeout(r)
    PROVE  Books'
<1>0. /\ r \in Node /\ IInv /\ Books /\ node \in [Node -> NodeRecord] /\ node[r] \in NodeRecord
      /\ Orderly(r) /\ Tasked
      /\ r \in Rid \ Again => Wired(r)
    BY Entries DEF Node, RInv, Books
<1>1. /\ UNCHANGED <<nodes, holders, told, body, frame, evict, ready, toHub, toKernel, inst>>
      /\ node[r].reply = "waiting"
    BY DEF CreatedReply, CreatedTimeout, taskVars, wireVars
<1>2. PICK rec :
        /\ node' = [node EXCEPT ![r] = rec]
        /\ \/ /\ node[r].born = "ok"
              /\ \E claim \in Claims[r] : rec = [node[r] EXCEPT !.reply = "ok", !.claim = claim]
           \/ rec = [node[r] EXCEPT !.reply = "error"]
           \/ node[r].born = "pending" /\ rec = [node[r] EXCEPT !.reply = "error", !.born = "error"]
    <2>1. CASE CreatedReply(r) /\ node[r].born = "ok"
        <3>1. PICK claim \in Claims[r] : node' = [node EXCEPT ![r].reply = "ok", ![r].claim = claim]
            BY <2>1 DEF CreatedReply
        <3> DEFINE rec == [node[r] EXCEPT !.reply = "ok", !.claim = claim]
        <3>2. node' = [node EXCEPT ![r] = rec]
            BY <1>0, <3>1
        <3> QED BY <2>1, <3>2
    <2>2. CASE CreatedReply(r) /\ node[r].born # "ok"
        <3>1. node' = [node EXCEPT ![r].reply = "error"]
            BY <2>2 DEF CreatedReply
        <3> DEFINE rec == [node[r] EXCEPT !.reply = "error"]
        <3>2. node' = [node EXCEPT ![r] = rec]
            BY <1>0, <3>1
        <3> QED BY <3>2
    <2>3. CASE CreatedTimeout(r)
        <3>1. node' = [node EXCEPT ![r].reply = "error", ![r].born = "error"] /\ node[r].born = "pending"
            BY <2>3 DEF CreatedTimeout
        <3> DEFINE rec == [node[r] EXCEPT !.reply = "error", !.born = "error"]
        <3>2. node' = [node EXCEPT ![r] = rec]
            BY <1>0, <3>1
        <3> QED BY <3>1, <3>2
    <2> QED BY <2>1, <2>2, <2>3
<1>3. node'[r] = rec /\ \A q \in Node \ {r} : node'[q] = node[q]
    BY <1>0, <1>2, Written
<1>4. /\ node'[r].state = node[r].state /\ node'[r].mods = node[r].mods
      /\ node'[r].started = node[r].started /\ node'[r].stopped = node[r].stopped
      /\ node'[r].reply = "ok" => node'[r].born = "ok"
      /\ node'[r].born = node[r].born \/ (node[r].born = "pending" /\ node'[r].born = "error")
    BY <1>0, <1>2, <1>3 DEF NodeRecord
<1>5. \A q \in Node : CalmOrder(q)
    BY <1>1, <1>3, <1>4 DEF CalmOrder, Holds
<1>6. \A q \in Node \ {r} : CalmWire(q)
    BY <1>1, <1>3 DEF CalmWire
<1>7. ASSUME Wired(r) PROVE Wired(r)'
    <2>1. node[r].state # "none"
        BY DEF CreatedReply, CreatedTimeout
    <2> QED BY <1>1, <1>4, <1>7, <2>1
            DEF Wired, Unborn, Unstarted, Offered, Answered, Sends, Lives
<1>8. Orderly(r)' /\ Tasked'
    BY <1>0, <1>1, <1>5, CalmOrderKeeps, TasksStay
<1> QED BY <1>0, <1>5, <1>6, <1>7, <1>8, OneRoutine

-------------------------------------------------------------------------------
\* The body task.

\* The loop takes the first of its tasks: there is no second of a single one.
LEMMA TaskTaken ==
    ASSUME IInv, Tasked, NEW kind \in {"body", "stop", "kid", "ended", "evict"}, NEW r \in Node,
           Runs(kind, r)
    PROVE  /\ Tail(ready) \in Seq(Tasks)
           /\ Once(Tail(ready), Single)
           /\ Queued(Tail(ready)) \subseteq Queued(ready)
           /\ Task(kind, r) \in Queued(ready)
           /\ kind \in {"body", "evict"} => Task(kind, r) \notin Queued(Tail(ready))
<1>1. ready \in Seq(Tasks) /\ ready # <<>> /\ Head(ready) = Task(kind, r)
    BY Entries DEF Runs
<1>2. /\ Tail(ready) \in Seq(Tasks)
      /\ Queued(ready) = Queued(Tail(ready)) \cup {Head(ready)}
    BY <1>1, Left
<1>3. Once(Tail(ready), Single) /\ (Head(ready) \in Single => Head(ready) \notin Queued(Tail(ready)))
    BY <1>1, LeftOnce DEF Tasked
<1>4. kind \in {"body", "evict"} => Task(kind, r) \in Single
    BY DEF Task, Tasks, Single
<1> QED BY <1>1, <1>2, <1>3, <1>4

\* A task of another kind is gone.
LEMMA TookOther ==
    ASSUME IInv, Tasked, NEW kind \in {"stop", "kid", "ended"}, NEW r \in Node, Runs(kind, r),
           ready' = Tail(ready), UNCHANGED <<body, evict>>
    PROVE  Tasked'
BY TaskTaken DEF Tasked

LEMMA Released ==
    ASSUME IInv, NEW r \in Node, NEW mods \in SUBSET Module,
           holders' = ReleaseModules(holders, r, mods)
    PROVE  /\ Holds(r)' = Holds(r) \ mods
           /\ \A q \in Node \ {r} : Holds(q)' = Holds(q)
BY Entries DEF ReleaseModules, Holds

LEMMA Occupied ==
    ASSUME IInv, NEW r \in Node, NEW mods \in SUBSET Module,
           holders' = Occupy(holders, r, mods)
    PROVE  /\ Holds(r)' = Holds(r) \cup mods
           /\ \A q \in Node \ {r} : Holds(q)' = Holds(q)
BY Entries DEF Occupy, Holds

\* What a body may become once it has begun.
LEMMA BodyMoves ==
    ASSUME Tasked, NEW r \in Node, body[r] # "fresh", IInv, NEW b \in Bodies,
           body' = [body EXCEPT ![r] = b], UNCHANGED <<evict, ready>>
    PROVE  Tasked'
<1>1. \A q \in Node \ {r} : body'[q] = body[q]
    BY Entries
<1> QED BY <1>1 DEF Tasked

LEMMA StateWritten ==
    ASSUME IInv, NEW r \in Node, NEW s, node' = [node EXCEPT ![r].state = s]
    PROVE  /\ \A q \in Node \ {r} : node'[q] = node[q]
           /\ node'[r].state = s /\ node'[r].mods = node[r].mods /\ node'[r].reply = node[r].reply
           /\ node'[r].born = node[r].born /\ node'[r].started = node[r].started
           /\ node'[r].stopped = node[r].stopped
<1> DEFINE rec == [node[r] EXCEPT !.state = s]
<1>1. node \in [Node -> NodeRecord] /\ node[r] \in NodeRecord
    BY Entries
<1>2. node' = [node EXCEPT ![r] = rec]
    BY <1>1
<1>3. node'[r] = rec /\ \A q \in Node \ {r} : node'[q] = node[q]
    BY <1>2, Written
<1> QED BY <1>1, <1>3 DEF NodeRecord

LEMMA EndsBooks ==
    ASSUME RInv, NEW r \in Rid, body[r] \in {"starting", "running", "stopwait"},
           BodyEnds(r, "stopped"), UNCHANGED <<nodes, kin, told, frame, evict, ready, wireVars>>
    PROVE  Books'
<1>0. /\ r \in Node /\ IInv /\ Books /\ Orderly(r) /\ Tasked /\ Module \in SUBSET Module
      /\ body \in [Node -> Bodies]
      /\ r \in Rid \ Again => Wired(r)
    BY Entries DEF Node, RInv, Books
<1>1. /\ UNCHANGED <<nodes, told, frame, evict, ready, toHub, toKernel, inst>>
      /\ body' = [body EXCEPT ![r] = "done"]
    BY DEF BodyEnds, wireVars
<1>2. body'[r] = "done" /\ \A q \in Node \ {r} : body'[q] = body[q]
    BY <1>0, <1>1
<1>3. Holds(r)' = {} /\ \A q \in Node \ {r} : Holds(q)' = Holds(q)
    <2>1. Holds(r)' = Holds(r) \ Module /\ \A q \in Node \ {r} : Holds(q)' = Holds(q)
        BY <1>0, Released DEF BodyEnds
    <2> QED BY <2>1 DEF Holds
<1>4. /\ \A q \in Node \ {r} : node'[q] = node[q]
      /\ node'[r].state = "stopped" /\ node'[r].mods = node[r].mods /\ node'[r].reply = node[r].reply
      /\ node'[r].born = node[r].born /\ node'[r].started = node[r].started
      /\ node'[r].stopped = node[r].stopped
    BY <1>0, StateWritten DEF BodyEnds
<1>5. \A q \in Node \ {r} : CalmOrder(q) /\ CalmWire(q)
    BY <1>1, <1>2, <1>3, <1>4 DEF CalmOrder, CalmWire
<1>6. Tasked'
    BY <1>0, <1>1, BodyMoves DEF Bodies
<1>7. Orderly(r)'
    <2>1. Resting(r)' /\ Waits(r)' /\ Framed(r)' /\ Agrees(r)'
        BY <1>0, <1>1, <1>2, <1>3, <1>4
           DEF Orderly, Resting, Waits, Framed, Agrees, HasTask
    <2>2. Ends(r)'
        BY <1>0, <1>1, <1>2, <1>4 DEF Orderly, Resting, Ends, Exists, Abandoned
    <2> QED BY <2>1, <2>2 DEF Orderly
<1>8. ASSUME Wired(r) PROVE Wired(r)'
    BY <1>1, <1>2, <1>4, <1>8
       DEF Wired, Unborn, Unstarted, Offered, Answered, Sends, Lives
<1> QED BY <1>0, <1>5, <1>6, <1>7, <1>8, OneRoutine

LEMMA RunBodyBooks ==
    ASSUME RInv, NEW r \in Rid, RunBody(r)
    PROVE  Books'
<1>0. /\ r \in Node /\ IInv /\ Books /\ Orderly(r) /\ Tasked
      /\ body \in [Node -> Bodies]
      /\ r \in Rid \ Again => Wired(r)
    BY Entries DEF Node, RInv, Books
<1>1. UNCHANGED <<nodes, node, told, holders, frame, evict, toKernel, inst>> /\ ready' = Tail(ready)
    BY DEF RunBody, treeVars
<1>2. /\ Once(ready', Single) /\ Queued(ready') \subseteq Queued(ready)
      /\ Task("body", r) \in Queued(ready) /\ Task("body", r) \notin Queued(ready')
    BY <1>0, <1>1, TaskTaken DEF RunBody
<1>3. body[r] = "fresh" /\ node[r].state \notin {"none", "created"}
    BY <1>0, <1>2 DEF Tasked, Orderly, Resting
<1>4. /\ \A q \in Node \ {r} : body'[q] = body[q] /\ toHub'[q] = toHub[q]
      /\ \/ body'[r] = "done" /\ node[r].state = "stopping" /\ toHub'[r] = toHub[r]
         \/ body'[r] = "starting" /\ toHub'[r] = Append(toHub[r], "start")
    <2>1. CASE node[r].state = "stopping"
        <3>1. body' = [body EXCEPT ![r] = "done"] /\ toHub' = toHub
            BY <2>1 DEF RunBody
        <3> QED BY <1>0, <2>1, <3>1
    <2>2. CASE node[r].state # "stopping"
        <3>1. body' = [body EXCEPT ![r] = "starting"] /\ toHub' = Sent(r, "start")
            BY <2>2 DEF RunBody
        <3> QED BY <1>0, <3>1, SentThere DEF Commands
    <2> QED BY <2>1, <2>2
<1>5. \A q \in Node \ {r} : CalmOrder(q) /\ CalmWire(q)
    BY <1>1, <1>4 DEF CalmOrder, CalmWire, Holds
<1>6. Tasked'
    <2>1. \A q \in Node \ {r} : body'[q] = body[q]
        BY <1>4
    <2> QED BY <1>0, <1>1, <1>2, <2>1 DEF Tasked
<1>7. Orderly(r)'
    <2>1. Resting(r)' /\ Waits(r)' /\ Framed(r)'
        BY <1>0, <1>1, <1>3, <1>4 DEF Orderly, Resting, Waits, Framed, Holds
    <2>2. Agrees(r)'
        BY <1>0, <1>1, <1>3, <1>4 DEF Orderly, Agrees, HasTask, Holds
    <2>3. Ends(r)'
        BY <1>0, <1>1, <1>3, <1>4 DEF Orderly, Ends, Exists, Abandoned
    <2> QED BY <2>1, <2>2, <2>3 DEF Orderly
<1>8. ASSUME Wired(r) PROVE Wired(r)'
    <2>1. toHub[r] = <<>> /\ inst[r] = "created"
        BY <1>3, <1>8 DEF Wired, Sends
    <2>2. \/ body'[r] = "done" /\ toHub'[r] = <<>>
          \/ body'[r] = "starting" /\ toHub'[r] = <<"start">>
        BY <1>4, <2>1, Queues
    <2>3. Unborn(r)' /\ Unstarted(r)' /\ Offered(r)' /\ Answered(r)'
        BY <1>1, <1>3, <1>8 DEF Wired, Unborn, Unstarted, Offered, Answered
    <2>4. Sends(r)' /\ Lives(r)'
        BY <1>1, <1>3, <1>8, <2>1, <2>2 DEF Wired, Sends, Lives
    <2> QED BY <2>3, <2>4 DEF Wired
<1> QED BY <1>0, <1>5, <1>6, <1>7, <1>8, OneRoutine

LEMMA BodyStopBooks ==
    ASSUME RInv, NEW r \in Rid, BodyStop(r)
    PROVE  Books'
<1>0. /\ r \in Node /\ IInv /\ Books /\ Orderly(r) /\ Tasked
      /\ body \in [Node -> Bodies]
      /\ r \in Rid \ Again => Wired(r)
    BY Entries DEF Node, RInv, Books
<1>1. /\ UNCHANGED <<nodes, node, told, holders, frame, evict, ready, toKernel, inst>>
      /\ body[r] = "running" /\ body' = [body EXCEPT ![r] = "stopwait"]
    BY DEF BodyStop, treeVars
<1>2. /\ body'[r] = "stopwait" /\ \A q \in Node \ {r} : body'[q] = body[q]
    BY <1>0, <1>1
<1>3. toHub'[r] = Append(toHub[r], "stop") /\ \A q \in Node \ {r} : toHub'[q] = toHub[q]
    BY <1>0, SentThere DEF BodyStop, Commands
<1>4. \A q \in Node \ {r} : CalmOrder(q) /\ CalmWire(q)
    BY <1>1, <1>2, <1>3 DEF CalmOrder, CalmWire, Holds
<1>5. Tasked'
    BY <1>0, <1>1, BodyMoves DEF Bodies
<1>6. Orderly(r)'
    <2>1. Resting(r)' /\ Waits(r)' /\ Framed(r)'
        BY <1>0, <1>1, <1>2 DEF Orderly, Resting, Waits, Framed, Holds
    <2>2. Agrees(r)'
        BY <1>0, <1>1, <1>2 DEF Orderly, Agrees, HasTask, Holds
    <2>3. Ends(r)'
        BY <1>0, <1>1, <1>2 DEF Orderly, Ends, Exists, Abandoned
    <2> QED BY <2>1, <2>2, <2>3 DEF Orderly
<1>7. ASSUME Wired(r) PROVE Wired(r)'
    <2>1. toHub'[r] = <<"stop">> /\ node[r].state \notin {"none", "created"}
        BY <1>0, <1>1, <1>3, <1>7, Queues DEF Wired, Sends, Orderly, Resting
    <2>2. Unborn(r)' /\ Unstarted(r)' /\ Offered(r)' /\ Answered(r)'
        BY <1>1, <1>7, <2>1 DEF Wired, Unborn, Unstarted, Offered, Answered
    <2>3. Sends(r)' /\ Lives(r)'
        BY <1>1, <1>2, <1>7, <2>1, Queues DEF Wired, Sends, Lives
    <2> QED BY <2>2, <2>3 DEF Wired
<1> QED BY <1>0, <1>4, <1>5, <1>6, <1>7, OneRoutine

LEMMA BodyRunsBooks ==
    ASSUME RInv, NEW r \in Rid, BodyStarted(r), ~ node[r].stopped
    PROVE  Books'
<1>0. /\ r \in Node /\ IInv /\ Books /\ Orderly(r) /\ Tasked
      /\ body \in [Node -> Bodies]
      /\ r \in Rid \ Again => Wired(r)
    BY Entries DEF Node, RInv, Books
<1>1. /\ UNCHANGED <<nodes, told, holders, frame, evict, ready, toHub, toKernel, inst>>
      /\ body[r] = "starting" /\ node[r].state = "starting" /\ node[r].started
      /\ body' = [body EXCEPT ![r] = "running"]
    BY DEF BodyStarted, wireVars
<1>2. body'[r] = "running" /\ \A q \in Node \ {r} : body'[q] = body[q]
    BY <1>0, <1>1
<1>3. /\ \A q \in Node \ {r} : node'[q] = node[q]
      /\ node'[r].state = "running" /\ node'[r].mods = node[r].mods /\ node'[r].reply = node[r].reply
      /\ node'[r].born = node[r].born /\ node'[r].started = node[r].started
      /\ node'[r].stopped = node[r].stopped
    BY <1>0, StateWritten DEF BodyStarted
<1>4. \A q \in Node \ {r} : CalmOrder(q) /\ CalmWire(q)
    BY <1>1, <1>2, <1>3 DEF CalmOrder, CalmWire, Holds
<1>5. Tasked'
    BY <1>0, <1>1, BodyMoves DEF Bodies
<1>6. Orderly(r)'
    <2>1. Resting(r)' /\ Waits(r)' /\ Framed(r)'
        BY <1>0, <1>1, <1>2, <1>3 DEF Orderly, Resting, Waits, Framed, Holds
    <2>2. Agrees(r)'
        BY <1>0, <1>1, <1>2, <1>3 DEF Orderly, Agrees, HasTask, Holds
    <2>3. Ends(r)'
        BY <1>0, <1>1, <1>2, <1>3 DEF Orderly, Ends, Exists, Abandoned
    <2> QED BY <2>1, <2>2, <2>3 DEF Orderly
<1>7. ASSUME Wired(r) PROVE Wired(r)'
    <2>1. toHub[r] = <<>>
        BY <1>1, <1>7, Queues DEF Wired, Sends, Lives
    <2>2. Unborn(r)' /\ Unstarted(r)' /\ Offered(r)' /\ Answered(r)'
        BY <1>1, <1>3, <1>7 DEF Wired, Unborn, Unstarted, Offered, Answered
    <2>3. Sends(r)' /\ Lives(r)'
        BY <1>1, <1>2, <1>3, <1>7, <2>1, Queues DEF Wired, Sends, Lives
    <2> QED BY <2>2, <2>3 DEF Wired
<1> QED BY <1>0, <1>4, <1>5, <1>6, <1>7, OneRoutine

LEMMA BodyBooks ==
    ASSUME RInv, NEW r \in Rid, BodyTask(r) \/ BodyStopTimeout(r)
    PROVE  Books'
<1>1. CASE BodyStarted(r)
    <2>1. CASE node[r].stopped
        BY <1>1, <2>1, EndsBooks DEF BodyStarted
    <2>2. CASE ~ node[r].stopped
        BY <1>1, <2>2, BodyRunsBooks
    <2> QED BY <2>1, <2>2
<1>2. CASE BodyCancelled(r) \/ BodyFinished(r) \/ BodyStopped(r) \/ BodyStopTimeout(r)
    BY <1>2, EndsBooks DEF BodyCancelled, BodyFinished, BodyStopped, BodyStopTimeout
<1> QED BY <1>1, <1>2, RunBodyBooks, BodyStopBooks DEF BodyTask

LEMMA RootBooks ==
    ASSUME RInv, RootBodyCancelled
    PROVE  Books'
<1>0. /\ Root \in Node /\ Root \notin Rid /\ IInv /\ Books /\ Orderly(Root) /\ Tasked
      /\ body \in [Node -> Bodies]
    BY Entries, RidAssumption DEF Node, RInv, Books
<1>1. /\ UNCHANGED <<nodes, told, holders, frame, evict, ready, toHub, toKernel, inst>>
      /\ body[Root] = "running" /\ body' = [body EXCEPT ![Root] = "done"]
    BY DEF RootBodyCancelled, wireVars
<1>2. body'[Root] = "done" /\ \A q \in Node \ {Root} : body'[q] = body[q]
    BY <1>0, <1>1
<1>3. /\ \A q \in Node \ {Root} : node'[q] = node[q]
      /\ node'[Root].state = "stopped" /\ node'[Root].mods = node[Root].mods
      /\ node'[Root].reply = node[Root].reply
      /\ node'[Root].stopped = node[Root].stopped
    BY <1>0, StateWritten DEF RootBodyCancelled
<1>4. \A q \in Node \ {Root} : CalmOrder(q) /\ CalmWire(q)
    BY <1>1, <1>2, <1>3 DEF CalmOrder, CalmWire, Holds
<1>5. Tasked'
    BY <1>0, <1>1, BodyMoves DEF Bodies
<1>6. Orderly(Root)'
    <2>1. Resting(Root)' /\ Waits(Root)' /\ Framed(Root)' /\ Agrees(Root)'
        BY <1>0, <1>1, <1>2, <1>3
           DEF Orderly, Resting, Waits, Framed, Agrees, HasTask, Holds
    <2>2. Ends(Root)'
        BY <1>0, <1>1, <1>2, <1>3 DEF Orderly, Resting, Ends, Exists, Abandoned
    <2> QED BY <2>1, <2>2 DEF Orderly
<1> QED BY <1>0, <1>4, <1>5, <1>6, OneRoutine

-------------------------------------------------------------------------------
\* Leaving the table before the start, and starting.

\* The fields of a node that the invariant speaks of stay as they are.
SameFields(q) ==
    /\ node'[q].state = node[q].state /\ node'[q].mods = node[q].mods
    /\ node'[q].reply = node[q].reply /\ node'[q].born = node[q].born
    /\ node'[q].started = node[q].started /\ node'[q].stopped = node[q].stopped

\* r leaves with a message to the hub and one to its parent, or stays.
Leaves(r) ==
    /\ told \subseteq told'
    /\ \A q \in Node \ {r} : ((q \in nodes') <=> (q \in nodes)) /\ toHub'[q] = toHub[q]
    /\ \/ ((r \in nodes') <=> (r \in nodes)) /\ toHub'[r] = toHub[r]
       \/ /\ r \notin nodes' /\ r \in told'
          /\ \E msg \in {"destroy", "rejected"} : Queued(toHub'[r]) = Queued(toHub[r]) \cup {msg}

LEMMA RejectLeaves ==
    ASSUME IInv, NEW r \in Node, NEW try, Reject(r, try)
    PROVE  Leaves(r)
<1>1. CASE UNCHANGED <<nodes, told, toHub>>
    BY <1>1 DEF Leaves
<1>2. CASE nodes' = nodes \ {r} /\ told' = told \cup {r} /\ toHub' = Sent(r, "rejected")
    <2>1. /\ Queued(toHub'[r]) = Queued(toHub[r]) \cup {"rejected"}
          /\ \A q \in Node \ {r} : toHub'[q] = toHub[q]
        BY <1>2, SentThere DEF Commands
    <2> QED BY <1>2, <2>1 DEF Leaves
<1> QED BY <1>1, <1>2 DEF Reject

LEMMA DestroyLeaves ==
    ASSUME IInv, NEW r \in Node, Destroy(r)
    PROVE  Leaves(r)
<1>1. /\ Queued(toHub'[r]) = Queued(toHub[r]) \cup {"destroy"}
      /\ \A q \in Node \ {r} : toHub'[q] = toHub[q]
    BY SentThere DEF Destroy, Commands
<1> QED BY <1>1 DEF Destroy, Leaves

LEMMA LeaveOrderly ==
    ASSUME RInv, NEW r \in Node, Leaves(r), SameFields(r),
           r \notin Again => node[r].state = "created",
           body'[r] = body[r], Holds(r)' = Holds(r),
           evict'[r].pc # "none" => evict[r].pc # "none" /\ evict'[r].kind = evict[r].kind,
           frame'[r].pc # "idle" => node[r].state # "none"
    PROVE  Orderly(r)'
<1>0. Orderly(r)
    BY DEF RInv, Books
<1>1. Resting(r)' /\ Framed(r)'
    BY <1>0 DEF Orderly, SameFields, Resting, Framed
<1>2. Waits(r)'
    BY <1>0 DEF Orderly, SameFields, Waits
<1>3. Agrees(r)'
    BY <1>0 DEF Orderly, SameFields, Resting, Agrees, HasTask
<1>4. Ends(r)'
    BY <1>0 DEF Orderly, SameFields, Leaves, Ends, Exists, Abandoned
<1> QED BY <1>1, <1>2, <1>3, <1>4 DEF Orderly

LEMMA LeaveWired ==
    ASSUME RInv, NEW r \in Rid \ Again, Leaves(r), SameFields(r), node[r].state = "created",
           body'[r] = body[r], toKernel'[r] = toKernel[r], inst'[r] = inst[r]
    PROVE  Wired(r)'
<1>0. Wired(r) /\ Orderly(r)
    BY DEF RInv, Books, Node
<1>1. body[r] = "none"
    BY <1>0 DEF Orderly, Resting
<1>2. Unborn(r)' /\ Sends(r)' /\ Lives(r)' /\ Answered(r)'
    BY <1>0, <1>1 DEF SameFields, Wired, Unborn, Sends, Lives, Answered
<1>3. Unstarted(r)'
    BY <1>0 DEF SameFields, Leaves, Wired, Unstarted
<1>4. Offered(r)'
    BY <1>0 DEF SameFields, Leaves, Wired, Offered
<1> QED BY <1>2, <1>3, <1>4 DEF Wired

LEMMA LeaveBooks ==
    ASSUME RInv, NEW r \in Node, Leaves(r), SameFields(r),
           \A q \in Node \ {r} : node'[q] = node[q] /\ frame'[q] = frame[q],
           r \notin Again => node[r].state = "created",
           UNCHANGED <<holders, body, toKernel, inst>>,
           \A q \in Node : evict'[q].pc # "none" => evict[q].pc # "none" /\ evict'[q].kind = evict[q].kind,
           frame'[r].pc # "idle" => node[r].state # "none",
           Tasked'
    PROVE  Books'
<1>1. \A q \in Node \ {r} : CalmOrder(q) /\ CalmWire(q)
    BY DEF Leaves, CalmOrder, CalmWire, Holds
<1>2. Holds(r)' = Holds(r)
    BY DEF Holds
<1>3. Orderly(r)'
    BY <1>2, LeaveOrderly
<1>4. r \in Rid \ Again => Wired(r)'
    BY LeaveWired
<1> QED BY <1>1, <1>3, <1>4, OneRoutine DEF RInv

\* Writing the priority touches nothing that matters here.
LEMMA PrioWritten ==
    ASSUME IInv, NEW r \in Node, NEW prio, node' = [node EXCEPT ![r].prio = prio]
    PROVE  SameFields(r) /\ \A q \in Node \ {r} : node'[q] = node[q]
<1> DEFINE rec == [node[r] EXCEPT !.prio = prio]
<1>1. node \in [Node -> NodeRecord] /\ node[r] \in NodeRecord
    BY Entries
<1>2. node' = [node EXCEPT ![r] = rec]
    BY <1>1
<1>3. node'[r] = rec /\ \A q \in Node \ {r} : node'[q] = node[q]
    BY <1>2, Written
<1> QED BY <1>1, <1>3 DEF NodeRecord, SameFields

LEMMA DestroyBooks ==
    ASSUME RInv, NEW r \in Rid, RoutineDestroy(r)
    PROVE  Books'
<1>1. /\ r \in Node /\ IInv /\ Leaves(r) /\ node[r].state = "created" /\ Tasked /\ Orderly(r)
      /\ UNCHANGED <<node, holders, body, frame, evict, ready, toKernel, inst>>
    BY DestroyLeaves DEF RoutineDestroy, taskVars, RInv, Books, Node
<1>2. SameFields(r) /\ Tasked'
    BY <1>1, TasksStay DEF SameFields
<1> QED BY <1>1, <1>2, LeaveBooks

\* A start has been decided, in the handler (it awaits no eviction) or in the task.
Decided(r, tasks) ==
    /\ node[r].reply = "ok" /\ (r \notin Again => node[r].state = "created")
    /\ tasks \in Seq(Tasks) /\ Once(tasks, Single) /\ Queued(tasks) \subseteq Queued(ready)
    /\ Task("evict", r) \notin Queued(tasks)
    /\ evict'[r].pc = "none" /\ \A q \in Node \ {r} : evict'[q] = evict[q]
    /\ UNCHANGED <<frame, toKernel, inst>>

LEMMA DecidedTasked ==
    ASSUME RInv, NEW r \in Node, NEW tasks, Decided(r, tasks), ready' = tasks, UNCHANGED body
    PROVE  Tasked'
BY DEF RInv, Books, Decided, Tasked

LEMMA StartNowBooks ==
    ASSUME RInv, NEW r \in nodes, NEW prio \in Nat, NEW try, NEW tasks,
           Decided(r, tasks), StartNow(r, prio, try, tasks)
    PROVE  Books'
<1>0. /\ r \in Node /\ IInv /\ Books /\ Orderly(r) /\ Tasked
      /\ body \in [Node -> Bodies] /\ node \in [Node -> NodeRecord] /\ node[r] \in NodeRecord
      /\ r \in Rid \ Again => Wired(r)
    BY Entries DEF RInv, Books
<1>1. node[r].claim \in SUBSET Module
    BY DEF StartNow, Free, Loaded
<1>2. Holds(r)' = Holds(r) \cup node[r].claim /\ \A q \in Node \ {r} : Holds(q)' = Holds(q)
    BY <1>0, <1>1, Occupied DEF StartNow
<1>3. \A q \in Node \ {r} : evict'[q] = evict[q] /\ frame' = frame /\ toKernel' = toKernel /\ inst' = inst
    BY DEF Decided
<1>4. CASE node[r].state = "created"
    <2> DEFINE rec == [node[r] EXCEPT !.state = "starting", !.prio = prio, !.mods = node[r].claim]
    <2>1. /\ node' = [node EXCEPT ![r].state = "starting", ![r].prio = prio, ![r].mods = node[r].claim]
          /\ body' = [body EXCEPT ![r] = "fresh"]
          /\ ready' = Append(tasks, Task("body", r))
          /\ UNCHANGED <<nodes, told, toHub>>
        BY <1>4 DEF StartNow
    <2>2. node' = [node EXCEPT ![r] = rec]
        BY <1>0, <2>1
    <2>3. node'[r] = rec /\ \A q \in Node \ {r} : node'[q] = node[q]
        BY <1>0, <2>2, Written
    <2>4. /\ node'[r].state = "starting" /\ node'[r].mods = node[r].claim
          /\ node'[r].reply = node[r].reply /\ node'[r].born = node[r].born
          /\ node'[r].started = node[r].started /\ node'[r].stopped = node[r].stopped
        BY <1>0, <2>3 DEF NodeRecord
    <2>5. body'[r] = "fresh" /\ \A q \in Node \ {r} : body'[q] = body[q]
        BY <1>0, <2>1
    <2>6. body[r] = "none" /\ Holds(r) = {}
        BY <1>0, <1>4 DEF Orderly, Resting
    <2>7. \A q \in Node \ {r} : CalmOrder(q) /\ CalmWire(q)
        BY <1>2, <1>3, <2>1, <2>3, <2>5 DEF CalmOrder, CalmWire, Decided
    <2>8. Tasked'
        <3>1. Task("body", r) \in Tasks /\ Task("body", r) \notin Queued(tasks)
            BY <1>0, <2>6 DEF Task, Tasks, Decided, Tasked
        <3>2. tasks \in Seq(Tasks) /\ Once(tasks, Single)
            BY DEF Decided
        <3>3. Once(ready', Single) /\ Queued(ready') = Queued(tasks) \cup {Task("body", r)}
            BY <2>1, <3>1, <3>2, Appended, AppendedOnce
        <3>4. \A q \in Node : Task("evict", q) # Task("body", r) /\ (Task("body", q) = Task("body", r) => q = r)
            BY DEF Task
        <3> QED BY <1>0, <2>5, <3>3, <3>4 DEF Tasked, Decided
    <2>9. Orderly(r)'
        <3>1. Resting(r)' /\ Framed(r)'
            BY <2>4, <2>5 DEF Resting, Framed
        <3>2. Waits(r)'
            BY DEF Waits, Decided
        <3>3. Agrees(r)'
            BY <1>2, <2>1, <2>4, <2>6 DEF Agrees, HasTask
        <3>4. Ends(r)'
            BY <1>0, <2>1, <2>4 DEF Orderly, Ends
        <3> QED BY <3>1, <3>2, <3>3, <3>4 DEF Orderly
    <2>10. ASSUME Wired(r) PROVE Wired(r)'
        <3>1. /\ toHub[r] = <<>> /\ inst[r] = "created" /\ ~ node[r].stopped /\ ~ node[r].started
              /\ "stopped" \notin Queued(toKernel[r]) /\ "started" \notin Queued(toKernel[r])
            BY <1>4, <2>10 DEF Decided, Wired, Unstarted, Offered, Answered
        <3>2. Unborn(r)' /\ Unstarted(r)' /\ Offered(r)' /\ Answered(r)'
            BY <2>4, <2>10 DEF Wired, Unborn, Unstarted, Offered, Answered
        <3>3. Sends(r)' /\ Lives(r)'
            BY <2>1, <2>4, <2>5, <3>1, Queues DEF Decided, Sends, Lives
        <3> QED BY <3>2, <3>3 DEF Wired
    <2> QED BY <1>0, <2>7, <2>8, <2>9, <2>10, OneRoutine
<1>5. CASE node[r].state # "created"
    <2> DEFINE rec == [node[r] EXCEPT !.prio = prio, !.mods = node[r].claim]
    <2>1. /\ node' = [node EXCEPT ![r].prio = prio, ![r].mods = node[r].claim]
          /\ ready' = tasks /\ Reject(r, try) /\ UNCHANGED body
        BY <1>5 DEF StartNow
    <2>2. node' = [node EXCEPT ![r] = rec]
        BY <1>0, <2>1
    <2>3. node'[r] = rec /\ \A q \in Node \ {r} : node'[q] = node[q]
        BY <1>0, <2>2, Written
    <2>4. /\ node'[r].state = node[r].state /\ node'[r].reply = node[r].reply
          /\ node'[r].stopped = node[r].stopped
        BY <1>0, <2>3 DEF NodeRecord
    <2>5. Leaves(r) /\ r \in Again
        BY <1>0, <1>5, <2>1, RejectLeaves DEF Decided
    <2>6. \A q \in Node \ {r} : CalmOrder(q) /\ CalmWire(q)
        BY <1>2, <1>3, <2>1, <2>3, <2>5 DEF Leaves, CalmOrder, CalmWire, Decided
    <2>7. Tasked'
        BY <1>0, <2>1, DecidedTasked
    <2>8. node[r].state # "none" /\ body[r] # "none"
        BY <1>0, <1>5 DEF IInv, Lines, Orderly, Resting
    <2>9. Orderly(r)'
        <3>1. Resting(r)' /\ Framed(r)' /\ Agrees(r)'
            BY <1>0, <2>1, <2>4, <2>5, <2>8 DEF Orderly, Resting, Framed, Agrees
        <3>2. Waits(r)'
            BY DEF Waits, Decided
        <3>3. Ends(r)'
            BY <1>0, <2>1, <2>4, <2>5 DEF Leaves, Orderly, Ends, Exists, Abandoned
        <3> QED BY <3>1, <3>2, <3>3 DEF Orderly
    <2> QED BY <1>0, <2>5, <2>6, <2>7, <2>9, OneRoutine
<1> QED BY <1>4, <1>5

LEMMA StartBooks ==
    ASSUME RInv, NEW r \in Rid,
           StartParentNotRunning(r) \/ StartFree(r) \/ StartRefused(r) \/ StartBlocked(r)
    PROVE  Books'
<1>0. /\ r \in Node /\ r \in nodes /\ IInv /\ Books /\ Orderly(r) /\ Tasked
      /\ node[r].reply = "ok" /\ evict[r].pc = "none"
      /\ r \notin Again => node[r].state = "created"
    BY DEF StartParentNotRunning, StartFree, StartRefused, StartBlocked, MayStart, RInv, Books, Node
<1>1. ready \in Seq(Tasks) /\ Once(ready, Single) /\ Task("evict", r) \notin Queued(ready)
    BY <1>0, Entries DEF Tasked
<1>2. CASE StartParentNotRunning(r)
    <2>1. Leaves(r) /\ UNCHANGED <<node, holders, body, frame, evict, ready, toKernel, inst>>
        BY <1>0, <1>2, RejectLeaves DEF StartParentNotRunning, taskVars
    <2>2. SameFields(r) /\ Tasked' /\ (frame'[r].pc # "idle" => node[r].state # "none")
        BY <1>0, <2>1, TasksStay DEF SameFields, Orderly, Framed
    <2> QED BY <1>0, <2>1, <2>2, LeaveBooks
<1>3. CASE StartRefused(r)
    <2>1. PICK k \in Starts[r] : Reject(r, k[2]) /\ node' = [node EXCEPT ![r].prio = k[1]]
        BY <1>3 DEF StartRefused
    <2>2. Leaves(r) /\ UNCHANGED <<holders, body, frame, evict, ready, toKernel, inst>>
        BY <1>0, <1>3, <2>1, RejectLeaves DEF StartRefused, taskVars
    <2>3. SameFields(r) /\ \A q \in Node \ {r} : node'[q] = node[q]
        BY <1>0, <2>1, PrioWritten
    <2>4. Tasked' /\ (frame'[r].pc # "idle" => node[r].state # "none")
        BY <1>0, <2>2, TasksStay DEF Orderly, Framed
    <2> QED BY <1>0, <2>2, <2>3, <2>4, LeaveBooks
<1>4. CASE StartFree(r)
    <2>1. PICK k \in Starts[r] : StartNow(r, k[1], k[2], ready)
        BY <1>4 DEF StartFree
    <2>2. k[1] \in Nat
        <3>1. k \in Nat \X BOOLEAN
            BY ClientAssumption
        <3> QED BY <3>1
    <2>3. Decided(r, ready)
        BY <1>0, <1>1, <1>4 DEF StartFree, Decided
    <2> QED BY <1>0, <2>1, <2>2, <2>3, StartNowBooks
<1>5. CASE StartBlocked(r)
    <2>1. PICK k \in Starts[r] :
                /\ node' = [node EXCEPT ![r].prio = k[1]]
                /\ evict' = [evict EXCEPT ![r] =
                        [NoEvict EXCEPT !.pc = "queued", !.mods = node[r].claim, !.try = k[2]]]
        BY <1>5 DEF StartBlocked
    <2>2. /\ UNCHANGED <<nodes, told, holders, body, frame, toHub, toKernel, inst>>
          /\ ready' = Append(ready, Task("evict", r))
        BY <1>5 DEF StartBlocked, wireVars, Spawn
    <2>3. SameFields(r) /\ \A q \in Node \ {r} : node'[q] = node[q]
        BY <1>0, <2>1, PrioWritten
    <2>4. /\ evict'[r].pc = "queued" /\ evict'[r].kind = "start"
          /\ \A q \in Node \ {r} : evict'[q] = evict[q]
        BY <1>0, <2>1, Entries DEF NoEvict
    <2>5. \A q \in Node \ {r} : CalmOrder(q) /\ CalmWire(q)
        BY <2>2, <2>3, <2>4 DEF CalmOrder, CalmWire, Holds
    <2>6. Tasked'
        <3>1. Task("evict", r) \in Tasks
            BY <1>0 DEF Task, Tasks
        <3>2. Once(ready', Single) /\ Queued(ready') = Queued(ready) \cup {Task("evict", r)}
            BY <1>1, <2>2, <3>1, Appended, AppendedOnce
        <3>3. \A q \in Node : Task("body", q) # Task("evict", r) /\ (Task("evict", q) = Task("evict", r) => q = r)
            BY DEF Task
        <3> QED BY <1>0, <2>2, <2>4, <3>2, <3>3 DEF Tasked
    <2>7. Orderly(r)'
        <3>1. Waits(r)'
            BY <1>0, <2>3, <2>4 DEF Waits, SameFields
        <3>2. Resting(r)' /\ Framed(r)' /\ Agrees(r)' /\ Ends(r)'
            BY <1>0, <2>2, <2>3
               DEF SameFields, Orderly, Resting, Framed, Agrees, Ends, HasTask, Exists, Abandoned, Holds
        <3> QED BY <3>1, <3>2 DEF Orderly
    <2>8. r \in Rid \ Again => Wired(r)'
        <3>1. CalmWire(r)
            BY <2>2, <2>3 DEF SameFields, CalmWire
        <3> QED BY <1>0, <3>1, CalmWireKeeps DEF Books
    <2> QED BY <1>0, <2>5, <2>6, <2>7, <2>8, OneRoutine
<1> QED BY <1>2, <1>3, <1>4, <1>5

-------------------------------------------------------------------------------
\* Occupying and releasing at run time.

\* The command's record and the tree change alike.
LEMMA ModsBooks ==
    ASSUME RInv, NEW r \in Node, body[r] # "none", NEW mods,
           node' = [node EXCEPT ![r].mods = mods],
           Holds(r) = node[r].mods => Holds(r)' = mods,
           \A q \in Node \ {r} : Holds(q)' = Holds(q),
           UNCHANGED <<nodes, told, body, frame, toHub, toKernel, inst>>,
           \A q \in Node : evict'[q].pc # "none" => evict[q].pc # "none" /\ evict'[q].kind = evict[q].kind,
           Tasked'
    PROVE  Books'
<1> DEFINE rec == [node[r] EXCEPT !.mods = mods]
<1>0. /\ IInv /\ Books /\ Orderly(r) /\ node \in [Node -> NodeRecord] /\ node[r] \in NodeRecord
      /\ r \in Rid \ Again => Wired(r)
    BY Entries DEF RInv, Books
<1>1. node' = [node EXCEPT ![r] = rec]
    BY <1>0
<1>2. node'[r] = rec /\ \A q \in Node \ {r} : node'[q] = node[q]
    BY <1>0, <1>1, Written
<1>3. /\ node'[r].mods = mods /\ node'[r].state = node[r].state
      /\ node'[r].reply = node[r].reply /\ node'[r].born = node[r].born
      /\ node'[r].started = node[r].started /\ node'[r].stopped = node[r].stopped
    BY <1>0, <1>2 DEF NodeRecord
<1>4. \A q \in Node \ {r} : CalmOrder(q) /\ CalmWire(q)
    BY <1>2 DEF CalmOrder, CalmWire
<1>5. Orderly(r)'
    <2>1. Resting(r)' /\ Framed(r)' /\ Waits(r)'
        BY <1>0, <1>3 DEF Orderly, Resting, Framed, Waits
    <2>2. Agrees(r)'
        BY <1>0, <1>3 DEF Orderly, Agrees, HasTask
    <2>3. Ends(r)'
        BY <1>0, <1>3 DEF Orderly, Ends, Exists, Abandoned
    <2> QED BY <2>1, <2>2, <2>3 DEF Orderly
<1>6. r \in Rid \ Again => Wired(r)'
    <2>1. CalmWire(r)
        BY <1>3 DEF CalmWire
    <2> QED BY <1>0, <2>1, CalmWireKeeps
<1> QED BY <1>0, <1>4, <1>5, <1>6, OneRoutine

LEMMA AcquireReleaseBooks ==
    ASSUME RInv, NEW r \in Rid, AcquireFree(r) \/ AcquireBlocked(r) \/ RoutineRelease(r)
    PROVE  Books'
<1>0. /\ r \in Node /\ IInv /\ Books /\ Orderly(r) /\ Tasked /\ body[r] # "none"
      /\ node[r] \in NodeRecord /\ node \in [Node -> NodeRecord]
    BY Entries
       DEF AcquireFree, AcquireBlocked, RoutineRelease, SelfRunning, RInv, Books, Node, Orderly, Resting
<1>1. ASSUME AcquireFree(r) \/ RoutineRelease(r)
      PROVE  UNCHANGED <<nodes, told, body, frame, evict, ready, toHub, toKernel, inst>> /\ Tasked'
    BY <1>0, <1>1, TasksStay DEF AcquireFree, RoutineRelease, taskVars, wireVars
<1>2. CASE AcquireFree(r)
    <2>1. PICK mods \in Acquirable : /\ holders' = Occupy(holders, r, mods)
                                     /\ node' = [node EXCEPT ![r].mods = @ \cup mods]
        BY <1>2 DEF AcquireFree
    <2>2. mods \in SUBSET Module
        BY ClientAssumption
    <2>3. Holds(r)' = Holds(r) \cup mods /\ \A q \in Node \ {r} : Holds(q)' = Holds(q)
        BY <1>0, <2>1, <2>2, Occupied
    <2>4. node' = [node EXCEPT ![r].mods = node[r].mods \cup mods]
        BY <1>0, <2>1
    <2> QED BY <1>0, <1>1, <1>2, <2>3, <2>4, ModsBooks
<1>3. CASE RoutineRelease(r)
    <2>1. PICK mods \in Acquirable : /\ holders' = ReleaseModules(holders, r, mods)
                                     /\ node' = [node EXCEPT ![r].mods = @ \ mods]
        BY <1>3 DEF RoutineRelease
    <2>2. mods \in SUBSET Module
        BY ClientAssumption
    <2>3. Holds(r)' = Holds(r) \ mods /\ \A q \in Node \ {r} : Holds(q)' = Holds(q)
        BY <1>0, <2>1, <2>2, Released
    <2>4. node' = [node EXCEPT ![r].mods = node[r].mods \ mods]
        BY <1>0, <2>1
    <2> QED BY <1>0, <1>1, <1>3, <2>3, <2>4, ModsBooks
<1>4. CASE AcquireBlocked(r)
    <2>1. PICK mods \in Acquirable :
                evict' = [evict EXCEPT ![r] =
                    [NoEvict EXCEPT !.pc = "queued", !.kind = "acquire", !.mods = mods]]
        BY <1>4 DEF AcquireBlocked
    <2>2. /\ UNCHANGED <<nodes, node, told, holders, body, frame, toHub, toKernel, inst>>
          /\ ready' = Append(ready, Task("evict", r)) /\ evict[r].pc = "none"
        BY <1>4 DEF AcquireBlocked, treeVars, wireVars, Spawn
    <2>3. /\ evict'[r].pc = "queued" /\ evict'[r].kind = "acquire"
          /\ \A q \in Node \ {r} : evict'[q] = evict[q]
        BY <1>0, <2>1, Entries DEF NoEvict
    <2>4. \A q \in Node \ {r} : CalmOrder(q)
        BY <2>2, <2>3 DEF CalmOrder, Holds
    <2>5. \A q \in Node : CalmWire(q)
        BY <2>2 DEF CalmWire
    <2>6. Tasked'
        <3>1. Task("evict", r) \in Tasks /\ Task("evict", r) \notin Queued(ready)
              /\ ready \in Seq(Tasks) /\ Once(ready, Single)
            BY <1>0, <2>2, Entries DEF Task, Tasks, Tasked
        <3>2. Once(ready', Single) /\ Queued(ready') = Queued(ready) \cup {Task("evict", r)}
            BY <2>2, <3>1, Appended, AppendedOnce
        <3>3. \A q \in Node : Task("body", q) # Task("evict", r) /\ (Task("evict", q) = Task("evict", r) => q = r)
            BY DEF Task
        <3> QED BY <1>0, <2>2, <2>3, <3>2, <3>3 DEF Tasked
    <2>7. Orderly(r)'
        <3>1. Waits(r)'
            BY <1>0, <2>2, <2>3 DEF Waits
        <3>2. Resting(r)' /\ Framed(r)' /\ Agrees(r)' /\ Ends(r)'
            BY <1>0, <2>2
               DEF Orderly, Resting, Framed, Agrees, Ends, HasTask, Exists, Abandoned, Holds
        <3> QED BY <3>1, <3>2 DEF Orderly
    <2>8. r \in Rid \ Again => Wired(r)'
        BY <1>0, <2>5, CalmWireKeeps DEF Books
    <2> QED BY <1>0, <2>4, <2>5, <2>6, <2>7, <2>8, OneRoutine
<1> QED BY <1>2, <1>3, <1>4

-------------------------------------------------------------------------------
\* Stopping.

\* What one invocation of _stop_node does to its node.
StopEffect(n) ==
    /\ \A q \in Node \ {n} : node'[q] = node[q] /\ frame'[q] = frame[q]
    /\ node'[n].mods = node[n].mods /\ node'[n].reply = node[n].reply
    /\ node'[n].born = node[n].born /\ node'[n].started = node[n].started
    /\ node'[n].stopped = node[n].stopped
    /\ \/ node[n].state = "created" /\ node'[n].state = node[n].state /\ Leaves(n)
       \/ UNCHANGED <<nodes, told, toHub>> /\ node'[n].state = node[n].state
       \/ /\ UNCHANGED <<nodes, told, toHub>>
          /\ node[n].state \notin {"none", "created"} /\ node'[n].state = "stopping"

LEMMA StopEffectBooks ==
    ASSUME RInv, NEW n \in Node, node[n].state # "none", StopEffect(n),
           UNCHANGED <<holders, body, toKernel, inst>>,
           \A q \in Node : evict'[q].pc # "none" => evict[q].pc # "none" /\ evict'[q].kind = evict[q].kind,
           Tasked'
    PROVE  Books'
<1>0. Books /\ Orderly(n)
    BY DEF RInv, Books
<1>1. CASE node[n].state = "created" /\ node'[n].state = node[n].state /\ Leaves(n)
    <2>1. SameFields(n)
        BY <1>1 DEF StopEffect, SameFields
    <2>2. \A q \in Node \ {n} : node'[q] = node[q] /\ frame'[q] = frame[q]
        BY DEF StopEffect
    <2> QED BY <1>1, <2>1, <2>2, LeaveBooks
<1>2. ASSUME UNCHANGED <<nodes, told, toHub>>,
             \/ node'[n].state = node[n].state
             \/ node[n].state \notin {"none", "created"} /\ node'[n].state = "stopping"
      PROVE  Books'
    <2>1. \A q \in Node \ {n} : CalmOrder(q) /\ CalmWire(q)
        BY <1>2 DEF StopEffect, CalmOrder, CalmWire, Holds
    <2>2. Holds(n)' = Holds(n)
        BY DEF Holds
    <2>3. Orderly(n)'
        <3>1. Resting(n)' /\ Framed(n)'
            BY <1>0, <1>2, <2>2 DEF Orderly, Resting, Framed
        <3>2. Waits(n)'
            BY <1>0, <1>2 DEF StopEffect, Orderly, Waits
        <3>3. Agrees(n)'
            BY <1>0, <1>2, <2>2 DEF StopEffect, Orderly, Agrees, HasTask
        <3>4. Ends(n)'
            BY <1>0, <1>2 DEF StopEffect, Orderly, Ends, Exists, Abandoned
        <3> QED BY <3>1, <3>2, <3>3, <3>4 DEF Orderly
    <2>4. ASSUME Wired(n) PROVE Wired(n)'
        <3>1. Unborn(n)' /\ Unstarted(n)' /\ Offered(n)' /\ Answered(n)'
            BY <1>2, <2>4 DEF StopEffect, Wired, Unborn, Unstarted, Offered, Answered
        <3>2. Sends(n)' /\ Lives(n)'
            BY <1>2, <2>4 DEF StopEffect, Wired, Sends, Lives
        <3> QED BY <3>1, <3>2 DEF Wired
    <2> QED BY <1>0, <2>1, <2>3, <2>4, OneRoutine DEF Books
<1> QED BY <1>1, <1>2 DEF StopEffect

LEMMA StopSelfEffect ==
    ASSUME IInv, NEW n \in Node, node[n].state # "none",
           NEW nd \in [Node -> NodeRecord], \A q \in Node \ {n} : nd[q] = node[q],
           nd[n].state = node[n].state, nd[n].mods = node[n].mods, nd[n].reply = node[n].reply,
           nd[n].born = node[n].born, nd[n].started = node[n].started,
           nd[n].stopped = node[n].stopped,
           NEW fr, StopSelf(n, nd, fr)
    PROVE  StopEffect(n)
<1>0. frame \in [Node -> FrameRecord]
    BY Entries
<1>1. CASE nd[n].state = "created"
    <2>1. Destroy(n) /\ node' = nd /\ frame' = [frame EXCEPT ![n] = [fr EXCEPT !.pc = "over"]]
        BY <1>1 DEF StopSelf
    <2>2. Leaves(n)
        BY <2>1, DestroyLeaves
    <2> QED BY <1>0, <1>1, <2>1, <2>2 DEF StopEffect
<1>2. CASE nd[n].state # "created" /\ (nd[n].stopped \/ nd[n].state = "stopped")
    <2>1. node' = nd /\ frame' = [frame EXCEPT ![n] = [fr EXCEPT !.pc = "body"]]
          /\ UNCHANGED <<nodes, told, toHub>>
        BY <1>2 DEF StopSelf
    <2> QED BY <1>0, <1>2, <2>1 DEF StopEffect
<1>3. CASE nd[n].state # "created" /\ ~ (nd[n].stopped \/ nd[n].state = "stopped")
    <2> DEFINE rec == [nd[n] EXCEPT !.state = "stopping"]
    <2>1. /\ node' = [nd EXCEPT ![n].state = "stopping"]
          /\ frame' = [frame EXCEPT ![n] = [fr EXCEPT !.pc = "body"]]
          /\ UNCHANGED <<nodes, told, toHub>>
        BY <1>3 DEF StopSelf
    <2>2. node' = [nd EXCEPT ![n] = rec] /\ nd[n] \in NodeRecord
        BY <2>1
    <2>3. node'[n] = rec /\ \A q \in Node \ {n} : node'[q] = node[q]
        BY <2>2
    <2>4. /\ node'[n].state = "stopping" /\ node'[n].mods = node[n].mods
          /\ node'[n].reply = node[n].reply /\ node'[n].born = node[n].born
          /\ node'[n].started = node[n].started /\ node'[n].stopped = node[n].stopped
        BY <2>2, <2>3 DEF NodeRecord
    <2> QED BY <1>0, <1>3, <2>1, <2>3, <2>4 DEF StopEffect
<1> QED BY <1>1, <1>2, <1>3

LEMMA StopEnterEffect ==
    ASSUME IInv, NEW n \in Node, node[n].state # "none", NEW by, by \in Node \cup {NoParent},
           NEW caller, NEW tasks \in Seq(Tasks), Once(tasks, Single),
           StopEnter(n, by, caller, tasks)
    PROVE  /\ StopEffect(n)
           /\ Once(ready', Single)
           /\ \A t \in Single : t \in Queued(ready') => t \in Queued(tasks)
<1> DEFINE rec == [node[n] EXCEPT !.stopping = TRUE, !.by = IF by = NoParent THEN @ ELSE by]
           nd == [node EXCEPT ![n].stopping = TRUE, ![n].by = IF by = NoParent THEN @ ELSE by]
           fr == [pc |-> "kids", kids |-> Kids(n), caller |-> caller, by |-> by]
<1>0. node \in [Node -> NodeRecord] /\ node[n] \in NodeRecord /\ frame \in [Node -> FrameRecord]
    BY Entries
<1>1. nd = [node EXCEPT ![n] = rec]
    BY <1>0
<1>2. /\ rec \in NodeRecord
      /\ rec.state = node[n].state /\ rec.mods = node[n].mods /\ rec.reply = node[n].reply
      /\ rec.born = node[n].born /\ rec.started = node[n].started /\ rec.stopped = node[n].stopped
    BY <1>0 DEF NodeRecord
<1>3. /\ nd \in [Node -> NodeRecord] /\ \A q \in Node \ {n} : nd[q] = node[q]
      /\ nd[n].state = node[n].state /\ nd[n].mods = node[n].mods /\ nd[n].reply = node[n].reply
      /\ nd[n].born = node[n].born /\ nd[n].started = node[n].started
      /\ nd[n].stopped = node[n].stopped
    BY <1>0, <1>1, <1>2
<1> HIDE DEF nd, fr, rec
<1>4. CASE Kids(n) = {}
    <2>1. StopSelf(n, nd, fr) /\ ready' = tasks
        BY <1>4 DEF StopEnter, nd, fr
    <2> QED BY <1>3, <2>1, StopSelfEffect
<1>5. CASE Kids(n) # {}
    <2>1. node' = nd /\ frame' = [frame EXCEPT ![n] = fr] /\ UNCHANGED <<nodes, told, toHub>>
        BY <1>5 DEF StopEnter, nd, fr
    <2>2. StopEffect(n)
        BY <1>0, <1>3, <2>1 DEF StopEffect
    <2>3. PICK k \in [1..Cardinality(Kids(n)) -> Kids(n)] :
                ready' = tasks \o [i \in DOMAIN k |-> Task("kid", k[i])]
        BY <1>5 DEF StopEnter
    <2> DEFINE more == [i \in DOMAIN k |-> Task("kid", k[i])]
    <2>4. Cardinality(Kids(n)) \in Nat
        <3>1. IsFiniteSet(Node)
            BY RidAssumption, FS_AddElement DEF Node
        <3>2. IsFiniteSet(Kids(n))
            BY <3>1, FS_Subset DEF Kids, IInv, TypeOK
        <3> QED BY <3>2, FS_CardinalityType
    <2>5. \A c \in Kids(n) : Task("kid", c) \in Tasks /\ Task("kid", c) \notin Single
        BY DEF Kids, Task, Tasks, Single, IInv, TypeOK
    <2>6. more \in Seq(Tasks) /\ \A y \in Queued(more) : y \notin Single
        <3>1. more \in Seq(Tasks)
            BY <2>4, <2>5, IsASeq
        <3> QED BY <2>5, <3>1 DEF Queued
    <2> HIDE DEF more
    <2>7. /\ Queued(tasks \o more) = Queued(tasks) \cup Queued(more)
          /\ Once(tasks \o more, Single)
        BY <2>6, AppendedAll
    <2>8. ready' = tasks \o more
        BY <2>3 DEF more
    <2> QED BY <2>2, <2>6, <2>7, <2>8
<1> QED BY <1>4, <1>5

\* The loop runs a task about a routine that was created.
LEMMA RunsCreated ==
    ASSUME IInv, NEW kind, NEW n \in Node, Runs(kind, n)
    PROVE  node[n].state # "none"
<1>1. n \in kin[n]
    BY TakeTask
<1> QED BY <1>1 DEF IInv, Lines

LEMMA StopTaskBooks ==
    ASSUME RInv, NEW n \in Node, StopTask(n)
    PROVE  Books'
<1>0. /\ IInv /\ Books /\ Orderly(n) /\ Tasked
      /\ node \in [Node -> NodeRecord] /\ frame \in [Node -> FrameRecord]
      /\ NoParent \in Node \cup {NoParent}
      /\ n \in Rid \ Again => Wired(n)
    BY Entries DEF RInv, Books
<1>1. UNCHANGED <<holders, body, evict, toKernel, inst>>
    BY DEF StopTask, RunStop, RunKid, RunEnded, KidsStopped, StopDone, wireVars
<1>2. ASSUME NEW kind \in {"stop", "kid", "ended"}, Runs(kind, n), NEW by \in Node \cup {NoParent},
             NEW caller, StopEnter(n, by, caller, Tail(ready))
      PROVE  Books'
    <2>1. /\ Tail(ready) \in Seq(Tasks) /\ Once(Tail(ready), Single)
          /\ Queued(Tail(ready)) \subseteq Queued(ready)
        BY <1>0, <1>2, TaskTaken
    <2>2. node[n].state # "none"
        BY <1>0, <1>2, RunsCreated
    <2>3. /\ StopEffect(n) /\ Once(ready', Single)
          /\ \A t \in Single : t \in Queued(ready') => t \in Queued(Tail(ready))
        BY <1>0, <1>2, <2>1, <2>2, StopEnterEffect
    <2>4. \A q \in Node : Task("body", q) \in Single /\ Task("evict", q) \in Single
        BY DEF Single, Task, Tasks
    <2>5. Tasked'
        BY <1>0, <1>1, <2>1, <2>3, <2>4 DEF Tasked
    <2> QED BY <1>1, <2>2, <2>3, <2>5, StopEffectBooks
<1>3. ASSUME NEW kind \in {"stop", "kid", "ended"}, Runs(kind, n), ready' = Tail(ready),
             UNCHANGED <<nodes, node, told, toHub>>, \A q \in Node : frame'[q].pc = frame[q].pc
      PROVE  Books'
    <2>1. Tasked'
        BY <1>0, <1>1, <1>3, TookOther
    <2>2. \A q \in Node : CalmOrder(q) /\ CalmWire(q)
        BY <1>1, <1>3 DEF CalmOrder, CalmWire, Holds
    <2> QED BY <1>0, <2>1, <2>2, OneRoutine, CalmOrderKeeps, CalmWireKeeps
<1>4. CASE RunStop(n)
    BY <1>0, <1>2, <1>4 DEF RunStop
<1>5. CASE RunKid(n)
    <2> DEFINE p == node[n].parent
    <2>1. p \in Node
        BY <1>0, <1>5, TakeTask DEF RunKid
    <2>2. frame[p] \in FrameRecord
        BY <1>0, <2>1
    <2>3. CASE node[n].stopping
        <3>1. /\ frame' = [frame EXCEPT ![p].kids = @ \ {n}]
              /\ ready' = Tail(ready) /\ UNCHANGED <<nodes, node, told, toHub>>
            BY <1>5, <2>3 DEF RunKid
        <3>2. \A q \in Node : frame'[q].pc = frame[q].pc
            <4> DEFINE rec == [frame[p] EXCEPT !.kids = @ \ {n}]
            <4>1. frame' = [frame EXCEPT ![p] = rec] /\ rec.pc = frame[p].pc
                BY <1>0, <2>1, <2>2, <3>1 DEF FrameRecord
            <4> QED BY <1>0, <2>1, <4>1
        <3> QED BY <1>3, <1>5, <3>1, <3>2 DEF RunKid
    <2>4. CASE ~ node[n].stopping
        <3>1. StopEnter(n, frame[p].by, "parent", Tail(ready)) /\ Runs("kid", n)
            BY <1>5, <2>4 DEF RunKid
        <3>2. frame[p].by \in Node \cup {NoParent}
            BY <2>2 DEF FrameRecord
        <3> QED BY <1>2, <3>1, <3>2
    <2> QED BY <2>3, <2>4
<1>6. CASE RunEnded(n)
    <2>1. CASE n \notin nodes \/ node[n].stopping
        BY <1>3, <1>6, <2>1 DEF RunEnded
    <2>2. CASE ~ (n \notin nodes \/ node[n].stopping)
        BY <1>0, <1>2, <1>6, <2>2 DEF RunEnded
    <2> QED BY <2>1, <2>2
<1>7. CASE KidsStopped(n)
    <2>1. node[n].state # "none"
        BY <1>0, <1>7 DEF KidsStopped, Orderly, Framed
    <2>2. StopSelf(n, node, frame[n]) /\ ready' = ready
        BY <1>7 DEF KidsStopped
    <2>3. StopEffect(n)
        BY <1>0, <2>1, <2>2, StopSelfEffect
    <2>4. Tasked'
        BY <1>0, <1>1, <2>2, TasksStay
    <2> QED BY <1>1, <2>1, <2>3, <2>4, StopEffectBooks
<1>8. CASE StopDone(n)
    <2>1. /\ body[n] = "done" /\ nodes' = nodes \ {n} /\ frame[n].pc # "idle"
          /\ frame' = [frame EXCEPT ![n].pc = "over"]
          /\ UNCHANGED <<ready, told, toHub>>
        BY <1>8 DEF StopDone, wireVars
    <2>2. /\ \A q \in Node \ {n} : node'[q] = node[q]
          /\ node'[n].state = "stopped" /\ node'[n].mods = node[n].mods
          /\ node'[n].reply = node[n].reply
          /\ node'[n].born = node[n].born /\ node'[n].started = node[n].started
          /\ node'[n].stopped = node[n].stopped
        BY <1>0, <1>8, StateWritten DEF StopDone
    <2>3. \A q \in Node \ {n} : frame'[q] = frame[q]
        BY <1>0, <2>1
    <2>4. \A q \in Node \ {n} : CalmOrder(q) /\ CalmWire(q)
        BY <1>1, <2>1, <2>2, <2>3 DEF CalmOrder, CalmWire, Holds
    <2>5. Tasked'
        BY <1>0, <1>1, <2>1, TasksStay
    <2>6. Orderly(n)'
        <3>1. Resting(n)' /\ Framed(n)' /\ Waits(n)' /\ Agrees(n)'
            BY <1>0, <1>1, <2>1, <2>2
               DEF Orderly, Resting, Framed, Waits, Agrees, HasTask
        <3>2. Ends(n)'
            BY <1>0, <1>1, <2>1, <2>2 DEF Orderly, Ends, Exists, Abandoned
        <3> QED BY <3>1, <3>2 DEF Orderly
    <2>7. ASSUME Wired(n) PROVE Wired(n)'
        <3>1. Unborn(n)' /\ Unstarted(n)' /\ Offered(n)' /\ Answered(n)'
            BY <1>1, <2>1, <2>2, <2>7 DEF Wired, Unborn, Unstarted, Offered, Answered
        <3>2. Sends(n)' /\ Lives(n)'
            BY <1>1, <2>1, <2>2, <2>7 DEF Wired, Sends, Lives
        <3> QED BY <3>1, <3>2 DEF Wired
    <2> QED BY <1>0, <2>4, <2>5, <2>6, <2>7, OneRoutine
<1> QED BY <1>4, <1>5, <1>6, <1>7, <1>8 DEF StopTask

LEMMA RoutineStopBooks ==
    ASSUME RInv, NEW r \in Rid, RoutineStop(r)
    PROVE  Books'
<1>0. /\ r \in Node /\ IInv /\ Books /\ Tasked
      /\ node \in [Node -> NodeRecord] /\ node[r] \in NodeRecord /\ ready \in Seq(Tasks)
    BY Entries DEF RInv, Books, Node
<1> DEFINE rec == [node[r] EXCEPT !.stopping = TRUE]
<1>1. node' = [node EXCEPT ![r] = rec]
    BY <1>0 DEF RoutineStop
<1>2. node'[r] = rec /\ \A q \in Node \ {r} : node'[q] = node[q]
    BY <1>0, <1>1, Written
<1>3. SameFields(r)
    BY <1>0, <1>2 DEF NodeRecord, SameFields
<1>4. /\ ready' = Append(ready, Task("stop", r))
      /\ UNCHANGED <<nodes, holders, body, frame, evict, told, toHub, toKernel, inst>>
    BY DEF RoutineStop, Spawn, wireVars
<1>5. Tasked'
    BY <1>0, <1>4, SpawnOther
<1>6. \A q \in Node : CalmOrder(q) /\ CalmWire(q)
    BY <1>2, <1>3, <1>4 DEF SameFields, CalmOrder, CalmWire, Holds
<1> QED BY <1>0, <1>5, <1>6, OneRoutine, CalmOrderKeeps, CalmWireKeeps DEF Books

-------------------------------------------------------------------------------
\* Eviction.

\* The tasks that are left when an eviction goes on; its own is not among them.
Resumes(a, tasks) ==
    /\ evict[a].pc # "none"
    /\ tasks \in Seq(Tasks) /\ Once(tasks, Single) /\ Queued(tasks) \subseteq Queued(ready)
    /\ Task("evict", a) \notin Queued(tasks)

LEMMA EvictOver ==
    ASSUME IInv, NEW a \in Node, evict' = [evict EXCEPT ![a] = NoEvict]
    PROVE  evict'[a].pc = "none" /\ \A q \in Node \ {a} : evict'[q] = evict[q]
BY Entries DEF NoEvict

LEMMA EvictOverTasked ==
    ASSUME RInv, NEW a \in Node, NEW tasks, Resumes(a, tasks), ready' = tasks,
           evict' = [evict EXCEPT ![a] = NoEvict], UNCHANGED body
    PROVE  Tasked'
<1>1. Tasked /\ IInv
    BY DEF RInv, Books
<1>2. \A q \in Node \ {a} : evict'[q] = evict[q]
    BY <1>1, EvictOver
<1> QED BY <1>1, <1>2 DEF Resumes, Tasked

LEMMA EvictNextBooks ==
    ASSUME RInv, NEW a \in Node, NEW left \in SUBSET Node, NEW tasks, Resumes(a, tasks),
           EvictNext(a, left, tasks), UNCHANGED <<kin, toKernel, inst>>
    PROVE  Books'
<1> DEFINE able == {h \in left \cap nodes : ~ node[h].stopping}
<1>0. /\ IInv /\ Books /\ Orderly(a) /\ Tasked /\ evict[a].pc # "none" /\ evict[a] \in EvictRecord
      /\ node \in [Node -> NodeRecord] /\ node[a] \in NodeRecord
      /\ evict \in [Node -> EvictRecord]
    BY Entries DEF RInv, Books, Resumes
<1>1. ASSUME evict' = [evict EXCEPT ![a] = NoEvict], RetryStart(a, tasks)
      PROVE  Books'
    <2>1. evict'[a].pc = "none" /\ \A q \in Node \ {a} : evict'[q] = evict[q]
        BY <1>0, <1>1, EvictOver
    <2>2. Decided(a, tasks)
        BY <1>0, <1>1, <2>1 DEF RetryStart, Orderly, Waits, Decided, Resumes
    <2>3. CASE a \in nodes /\ StartNow(a, node[a].prio, evict[a].try, tasks)
        <3>1. node[a].prio \in Nat
            BY <1>0 DEF NodeRecord
        <3> QED BY <2>2, <2>3, <3>1, StartNowBooks
    <2>4. CASE Reject(a, evict[a].try) /\ ready' = tasks /\ UNCHANGED <<node, body, holders>>
        <3>1. Leaves(a) /\ SameFields(a) /\ frame' = frame
            BY <1>0, <1>1, <2>4, RejectLeaves DEF SameFields, RetryStart
        <3>2. Tasked'
            BY <2>2, <2>4, DecidedTasked
        <3>3. a \notin Again => node[a].state = "created"
            BY <2>2 DEF Decided
        <3>4. frame'[a].pc # "idle" => node[a].state # "none"
            BY <1>0, <3>1 DEF Orderly, Framed
        <3>5. \A q \in Node : evict'[q].pc # "none" => evict[q].pc # "none" /\ evict'[q].kind = evict[q].kind
            BY <2>1
        <3> QED BY <2>4, <3>1, <3>2, <3>3, <3>4, <3>5, LeaveBooks
    <2> QED BY <1>1, <2>3, <2>4 DEF RetryStart
<1>2. ASSUME evict' = [evict EXCEPT ![a] = NoEvict], RetryAcquire(a, tasks)
      PROVE  Books'
    <2>1. evict'[a].pc = "none" /\ \A q \in Node \ {a} : evict'[q] = evict[q]
        BY <1>0, <1>2, EvictOver
    <2>2. /\ ready' = tasks /\ UNCHANGED <<nodes, body, frame, told, toHub>>
          /\ body[a] # "none"
        BY <1>0, <1>2 DEF RetryAcquire, Orderly, Waits
    <2>3. Tasked'
        BY <1>2, <2>2, EvictOverTasked
    <2>4. \A q \in Node : evict'[q].pc # "none" => evict[q].pc # "none" /\ evict'[q].kind = evict[q].kind
        BY <2>1
    <2>5. CASE Free(a, evict[a].mods)
        <3>1. evict[a].mods \in SUBSET Module
            BY <1>0 DEF EvictRecord
        <3>2. /\ holders' = Occupy(holders, a, evict[a].mods)
              /\ node' = [node EXCEPT ![a].mods = @ \cup evict[a].mods]
            BY <1>2, <2>5 DEF RetryAcquire
        <3>3. Holds(a)' = Holds(a) \cup evict[a].mods /\ \A q \in Node \ {a} : Holds(q)' = Holds(q)
            BY <1>0, <3>1, <3>2, Occupied
        <3>4. node' = [node EXCEPT ![a].mods = node[a].mods \cup evict[a].mods]
            BY <1>0, <3>2
        <3> QED BY <2>2, <2>3, <2>4, <3>3, <3>4, ModsBooks
    <2>6. CASE ~ Free(a, evict[a].mods)
        <3>1. UNCHANGED <<holders, node>>
            BY <1>2, <2>6 DEF RetryAcquire
        <3>2. \A q \in Node : CalmOrder(q) /\ CalmWire(q)
            BY <2>2, <2>4, <3>1 DEF CalmOrder, CalmWire, Holds
        <3> QED BY <1>0, <2>3, <3>2, OneRoutine, CalmOrderKeeps, CalmWireKeeps DEF Books
    <2> QED BY <2>5, <2>6
<1>3. CASE able = {}
    BY <1>1, <1>2, <1>3 DEF EvictNext
<1>4. CASE able # {}
    <2>1. PICK h \in able :
                /\ evict' = [evict EXCEPT ![a].pc = "waiting", ![a].on = h,
                                          ![a].left = {g \in left : g > h}]
                /\ StopEnter(h, a, "evictor", tasks)
                /\ UNCHANGED <<holders, body>>
        BY <1>4 DEF EvictNext
    <2>2. h \in Node /\ node[h].state # "none" /\ a \in Node \cup {NoParent}
        BY <1>0 DEF IInv, Lines
    <2>3. tasks \in Seq(Tasks) /\ Once(tasks, Single) /\ Queued(tasks) \subseteq Queued(ready)
          /\ Task("evict", a) \notin Queued(tasks)
        BY DEF Resumes
    <2>4. /\ StopEffect(h) /\ Once(ready', Single)
          /\ \A t \in Single : t \in Queued(ready') => t \in Queued(tasks)
        BY <1>0, <2>1, <2>2, <2>3, StopEnterEffect
    <2>5. /\ evict'[a].kind = evict[a].kind
          /\ \A q \in Node \ {a} : evict'[q] = evict[q]
        <3> DEFINE rec == [evict[a] EXCEPT !.pc = "waiting", !.on = h, !.left = {g \in left : g > h}]
        <3>1. evict' = [evict EXCEPT ![a] = rec] /\ rec.kind = evict[a].kind
            BY <1>0, <2>1 DEF EvictRecord
        <3> QED BY <1>0, <3>1
    <2>6. \A q \in Node : evict'[q].pc # "none" => evict[q].pc # "none" /\ evict'[q].kind = evict[q].kind
        BY <1>0, <2>5
    <2>7. Tasked'
        <3>1. \A q \in Node : Task("body", q) \in Single /\ Task("evict", q) \in Single
            BY DEF Single, Task, Tasks
        <3> QED BY <1>0, <2>1, <2>3, <2>4, <2>5, <3>1 DEF Tasked
    <2> QED BY <2>1, <2>2, <2>4, <2>6, <2>7, StopEffectBooks
<1> QED BY <1>3, <1>4

LEMMA EvictTaskBooks ==
    ASSUME RInv, NEW a \in Node, EvictTask(a)
    PROVE  Books'
<1>0. /\ IInv /\ Books /\ Orderly(a) /\ Tasked /\ evict[a] \in EvictRecord
    BY Entries DEF RInv, Books
<1>1. UNCHANGED <<kin, toKernel, inst>>
    BY DEF EvictTask, RunEvict, EvictResume
<1>2. CASE RunEvict(a)
    <2> DEFINE rivals == Rivals(a, evict[a].mods)
    <2>1. Resumes(a, Tail(ready))
        BY <1>0, <1>2, TaskTaken DEF RunEvict, Tasked, Resumes
    <2>2. CASE \E h \in rivals \cap nodes : node[h].prio >= node[a].prio
        <3>1. /\ evict' = [evict EXCEPT ![a] = NoEvict]
              /\ ready' = Tail(ready)
              /\ \/ evict[a].kind = "start" /\ Reject(a, evict[a].try)
                 \/ UNCHANGED <<nodes, told, toHub>>
              /\ UNCHANGED <<node, holders, body, frame>>
            BY <1>2, <2>2 DEF RunEvict
        <3>2. Tasked'
            BY <2>1, <3>1, EvictOverTasked
        <3>3. evict'[a].pc = "none" /\ \A q \in Node \ {a} : evict'[q] = evict[q]
            BY <1>0, <3>1, EvictOver
        <3>4. \A q \in Node : evict'[q].pc # "none" => evict[q].pc # "none" /\ evict'[q].kind = evict[q].kind
            BY <3>3
        <3>5. CASE evict[a].kind = "start" /\ Reject(a, evict[a].try)
            <4>1. Leaves(a) /\ SameFields(a)
                BY <1>0, <3>1, <3>5, RejectLeaves DEF SameFields
            <4>2. a \notin Again => node[a].state = "created"
                BY <1>0, <2>1, <3>5 DEF Resumes, Orderly, Waits
            <4>3. frame'[a].pc # "idle" => node[a].state # "none"
                BY <1>0, <3>1 DEF Orderly, Framed
            <4> QED BY <1>1, <3>1, <3>2, <3>4, <4>1, <4>2, <4>3, LeaveBooks
        <3>6. CASE UNCHANGED <<nodes, told, toHub>>
            <4>1. \A q \in Node : CalmOrder(q) /\ CalmWire(q)
                BY <1>1, <3>1, <3>4, <3>6 DEF CalmOrder, CalmWire, Holds
            <4> QED BY <1>0, <3>2, <4>1, OneRoutine, CalmOrderKeeps, CalmWireKeeps DEF Books
        <3> QED BY <3>1, <3>5, <3>6
    <2>3. CASE ~ \E h \in rivals \cap nodes : node[h].prio >= node[a].prio
        <3>1. EvictNext(a, rivals, Tail(ready))
            BY <1>2, <2>3 DEF RunEvict
        <3> QED BY <1>0, <1>1, <2>1, <3>1, RivalsTyped, EvictNextBooks
    <2> QED BY <2>2, <2>3
<1>3. CASE EvictResume(a)
    <2>1. evict[a].pc = "waiting" /\ EvictNext(a, evict[a].left, ready)
        BY <1>3 DEF EvictResume
    <2>2. evict[a].left \in SUBSET Node
        BY <1>0 DEF EvictRecord
    <2>3. Resumes(a, ready)
        BY <1>0, <2>1, Entries DEF Resumes, Tasked
    <2> QED BY <1>1, <2>1, <2>2, <2>3, EvictNextBooks
<1> QED BY <1>2, <1>3 DEF EvictTask

-------------------------------------------------------------------------------
\* Creating.

LEMMA CreateBooks ==
    ASSUME RInv, NEW r \in Rid, NEW p \in Parents[r], RoutineCreate(r, p)
    PROVE  Books'
<1> DEFINE rec == [node[r] EXCEPT !.state = "created", !.parent = p]
<1>0. /\ r \in Node /\ IInv /\ Books /\ Orderly(r) /\ Tasked
      /\ node \in [Node -> NodeRecord] /\ node[r] \in NodeRecord /\ node[r].state = "none"
      /\ r \in Rid \ Again => Wired(r)
    BY Entries DEF Node, RInv, Books, RoutineCreate
<1>1. /\ nodes' = nodes \cup {r}
      /\ UNCHANGED <<holders, body, frame, evict, ready, told, toKernel, inst>>
    BY DEF RoutineCreate, taskVars
<1>2. node' = [node EXCEPT ![r] = rec]
    BY <1>0 DEF RoutineCreate
<1>3. node'[r] = rec /\ \A q \in Node \ {r} : node'[q] = node[q]
    BY <1>0, <1>2, Written
<1>4. /\ node'[r].state = "created" /\ node'[r].mods = node[r].mods
      /\ node'[r].reply = node[r].reply /\ node'[r].born = node[r].born
      /\ node'[r].started = node[r].started /\ node'[r].stopped = node[r].stopped
    BY <1>0, <1>3 DEF NodeRecord
<1>5. /\ toHub'[r] = Append(toHub[r], "created")
      /\ \A q \in Node \ {r} : toHub'[q] = toHub[q]
    BY <1>0, SentThere DEF RoutineCreate, Commands
<1>6. \A q \in Node \ {r} : CalmOrder(q) /\ CalmWire(q)
    BY <1>1, <1>3, <1>5 DEF CalmOrder, CalmWire, Holds
<1>7. Tasked'
    BY <1>0, <1>1, TasksStay
<1>8. evict[r].pc = "none" /\ body[r] = "none"
    BY <1>0 DEF IInv, Lines, Agenda, Orderly, Resting
<1>9. Orderly(r)'
    <2>1. Resting(r)' /\ Framed(r)' /\ Waits(r)' /\ Agrees(r)'
        BY <1>0, <1>1, <1>4, <1>8
           DEF Orderly, Resting, Framed, Waits, Agrees, HasTask, Holds
    <2>2. Ends(r)'
        BY <1>0, <1>1, <1>4 DEF Orderly, Ends
    <2> QED BY <2>1, <2>2 DEF Orderly
<1>10. ASSUME Wired(r) PROVE Wired(r)'
    <2>1. /\ toHub[r] = <<>> /\ toKernel[r] = <<>> /\ inst[r] = "none"
          /\ node[r].born = "pending" /\ ~ node[r].started /\ ~ node[r].stopped
        BY <1>0, <1>10 DEF Wired, Unborn
    <2>2. toHub'[r] = <<"created">>
        BY <1>5, <2>1, Queues
    <2> QED BY <1>1, <1>4, <1>8, <1>10, <2>1, <2>2, Queues
            DEF Wired, Unborn, Unstarted, Offered, Answered, Sends, Lives
<1> QED BY <1>0, <1>6, <1>7, <1>9, <1>10, OneRoutine

-------------------------------------------------------------------------------

LEMMA InitBooks == Init => Books
<1> SUFFICES ASSUME Init PROVE Books
    OBVIOUS
<1>1. /\ Root \in Node /\ TreeRoot \in Module /\ Root \notin Rid
    BY AuthorityAssumption, RidAssumption
<1>2. /\ node[Root].state = "running" /\ node[Root].mods = {TreeRoot}
      /\ ~ node[Root].stopped /\ body[Root] = "running" /\ Holds(Root) = {TreeRoot}
    BY <1>1 DEF Init, NewNode, Holds
<1>3. \A r \in Node \ {Root} : /\ node[r] = NewNode /\ body[r] = "none" /\ Holds(r) = {}
                               /\ toHub[r] = <<>> /\ toKernel[r] = <<>> /\ inst[r] = "none"
    BY <1>1 DEF Init, Holds
<1>4. \A r \in Node : evict[r].pc = "none" /\ frame[r].pc = "idle"
    BY DEF Init, NoEvict, IdleFrame
<1>5. Tasked
    BY Queues DEF Init, Tasked, Once
<1>6. Orderly(Root)
    BY <1>1, <1>2, <1>4
       DEF Init, Orderly, Resting, Waits, Framed, Agrees, Ends, HasTask, Exists
<1>7. ASSUME NEW r \in Node, r # Root PROVE Orderly(r)
    BY <1>3, <1>4, <1>7
       DEF Orderly, Resting, Waits, Framed, Agrees, Ends, HasTask, Exists, NewNode
<1>8. ASSUME NEW r \in Rid PROVE Wired(r)
    BY <1>1, <1>3 DEF Node, Wired, Unborn, Unstarted, Offered, Answered, Sends, Lives, NewNode
<1> QED BY <1>5, <1>6, <1>7, <1>8 DEF Books

LEMMA NextBooks == RInv /\ [Next]_vars => Books'
<1> SUFFICES ASSUME RInv, [Next]_vars PROVE Books'
    OBVIOUS
<1>1. ASSUME NEW r \in Rid, Request(r) PROVE Books'
    BY <1>1, CreateBooks, DestroyBooks, StartBooks, RoutineStopBooks, AcquireReleaseBooks DEF Request
<1>2. ASSUME NEW r \in Rid, BodyTask(r) \/ BodyStopTimeout(r) PROVE Books'
    BY <1>2, BodyBooks
<1>3. ASSUME NEW r \in Rid, Report(r) \/ Hub(r) \/ CreatedReply(r) \/ CreatedTimeout(r) PROVE Books'
    BY <1>3, ReportBooks, HubBooks, AnswerBooks
<1>4. ASSUME NEW r \in Node, StopTask(r) \/ EvictTask(r) PROVE Books'
    BY <1>4, StopTaskBooks, EvictTaskBooks
<1>5. CASE RootBodyCancelled
    BY <1>5, RootBooks
<1>6. CASE UNCHANGED vars
    <2>1. UNCHANGED <<nodes, node, holders, body, frame, evict, ready, told, toHub, toKernel, inst>>
        BY <1>6 DEF vars
    <2>2. \A q \in Node : CalmOrder(q) /\ CalmWire(q)
        BY <2>1 DEF CalmOrder, CalmWire, Holds
    <2>3. Tasked' /\ Root \in Node
        BY <2>1, TasksStay DEF RInv, Books, Node
    <2> QED BY <2>2, <2>3, OneRoutine, CalmOrderKeeps, CalmWireKeeps DEF RInv, Books
<1> QED BY <1>1, <1>2, <1>3, <1>4, <1>5, <1>6 DEF Next

-------------------------------------------------------------------------------

\* What the kernel keeps about a routine in its node table, its tasks, the tree and on the
\* link fits together: the inductive invariant.
THEOREM RecordsHold == Spec => []RInv
<1>1. Init => RInv
    BY InitInv, InitBooks DEF RInv
<1>2. RInv /\ [Next]_vars => RInv'
    BY NextInv, NextBooks DEF RInv
<1> QED BY <1>1, <1>2, PTL DEF Spec

\* While the body of a routine lives, what Command.modules and the holder lists of the
\* tree say it occupies is the same, and while it starts or runs it is in the node table
\* (_start, _on_routine_acquire, _on_routine_release, the finally of _run_remote), unless
\* clients start it twice.
THEOREM RecordsAgreeHolds == Spec => []RecordsAgree
<1>1. RInv => RecordsAgree
    BY DEF RInv, Books, Orderly, Agrees, RecordsAgree
<1> QED BY RecordsHold, <1>1, PTL

\* A parent hears of the end of every child that has left the table, unless the kernel
\* abandoned the child: on each way out of the table (_cleanup_failed_start, the destroy of
\* a node that was not started, _on_lifecycle_stopped before _stop_node).
THEOREM EndIsToldHolds == Spec => []EndIsTold
<1>1. RInv => EndIsTold
    BY DEF RInv, Books, Orderly, Ends, EndIsTold, Node
<1> QED BY RecordsHold, <1>1, PTL

\* A routine runs in the hub only while the kernel has its modules occupied for it
\* (_run_remote lets go of them last), unless the kernel abandoned it or clients start it
\* twice.
THEOREM RunsUnderLockHolds == Spec => []RunsUnderLock
<1>1. ASSUME RInv, NEW r \in Rid \ Again, inst[r] = "running", ~ Abandoned(r)
      PROVE  node[r].mods \subseteq Holds(r)
    <2>1. r \in Node /\ r \notin Again /\ Orderly(r) /\ Wired(r) /\ IInv
        BY <1>1 DEF RInv, Books, Node
    <2>2. body[r] # "none"
        BY <1>1, <2>1 DEF Orderly, Resting, Wired, Unborn, Unstarted
    <2>3. body[r] # "done"
        BY <1>1, <2>1, <2>2 DEF Abandoned, Wired, Lives
    <2>4. HasTask(r)
        BY <2>1, <2>2, <2>3, Entries DEF HasTask, Bodies
    <2> QED BY <2>1, <2>4 DEF Orderly, Agrees
<1>2. RInv => RunsUnderLock
    BY <1>1 DEF RunsUnderLock
<1> QED BY RecordsHold, <1>2, PTL

\* lifecycle.start finds the instance it is for (RunBody sends it when nothing else is on
\* the link, and nothing that would end the instance overtakes it), unless clients
\* start it twice.
THEOREM StartFindsInstanceHolds == Spec => []StartFindsInstance
<1>1. ASSUME RInv, NEW r \in Rid \ Again, NEW i \in 1..Len(toHub[r]), toHub[r][i] = "start"
      PROVE  /\ inst[r] = "created"
             /\ \A j \in 1..(i - 1) : toHub[r][j] \notin {"destroy", "rejected", "stop"}
    <2>1. r \in Node /\ r \notin Again /\ Orderly(r) /\ Wired(r) /\ IInv
        BY <1>1 DEF RInv, Books, Node
    <2>2. toHub[r] \in Seq(Commands)
        BY <2>1, Entries
    <2>3. "start" \in Queued(toHub[r]) /\ toHub[r] # <<>>
        BY <1>1, <2>2 DEF Queued
    <2>4. toHub[r] = <<"start">>
        BY <2>1, <2>3, OnTheWay, Queues DEF Orderly, Wired, Unborn, Unstarted
    <2>5. inst[r] = "created"
        BY <2>1, <2>4, <2>3, OnTheWay DEF Orderly, Resting, Wired, Unborn, Unstarted, Lives
    <2> QED BY <2>4, <2>5
<1>2. RInv => StartFindsInstance
    BY <1>1 DEF StartFindsInstance
<1> QED BY RecordsHold, <1>2, PTL

-------------------------------------------------------------------------------
\* Eviction spares equals.

\* The holders an eviction has still to stop have been started, and as long as they are
\* in the table their priority is below the evictor's.
Underway(a) == \A h \in evict[a].left :
    /\ body[h] # "none"
    /\ h \in nodes /\ h \notin Again => node[h].prio < node[a].prio

Idle(r) == frame[r].pc = "idle" => frame[r].caller # "evictor"

Spared == \A r \in Node : Underway(r) /\ Idle(r)

\* OnlyLowerEvicted, of one step.
Lower ==
    \A h \in Node \ Again :
        frame[h].pc = "idle" /\ frame'[h].caller = "evictor"
            => node[h].prio < node[frame'[h].by].prio

\* What most steps leave as it is: who was started stays started and comes back to the
\* table no more; it keeps its priority, and so does who waits for an eviction; nobody
\* is being evicted who was not, and no holder comes on a list.
Steady(q) ==
    /\ body[q] # "none" => body'[q] # "none" /\ (q \in nodes' => q \in nodes)
    /\ evict[q].pc # "none" \/ (q \notin Again /\ body[q] # "none")
            => node'[q].prio = node[q].prio
    /\ evict'[q].left \subseteq evict[q].left

Unevicted(q) ==
    /\ frame'[q].pc = "idle" => frame[q].pc = "idle"
    /\ frame[q].pc = "idle" => frame'[q].caller # "evictor"

LEMMA UnderwayKept ==
    ASSUME IInv, Spared, \A q \in Node : Steady(q), NEW a \in Node
    PROVE  Underway(a)'
<1>1. evict[a].left \subseteq Node
    BY Entries DEF EvictRecord
<1>2. ASSUME NEW h \in evict'[a].left
      PROVE  /\ body'[h] # "none"
             /\ h \in nodes' /\ h \notin Again => node'[h].prio < node'[a].prio
    <2>1. h \in evict[a].left /\ h \in Node
        BY <1>1, <1>2 DEF Steady
    <2>2. evict[a].pc # "none"
        BY <2>1 DEF IInv, Agenda
    <2>3. /\ body[h] # "none"
          /\ h \in nodes /\ h \notin Again => node[h].prio < node[a].prio
        BY <2>1 DEF Spared, Underway
    <2> QED BY <2>1, <2>2, <2>3 DEF Steady
<1> QED BY <1>2 DEF Underway

LEMMA SteadySpares ==
    ASSUME IInv, Spared, \A q \in Node : Steady(q) /\ Unevicted(q)
    PROVE  Spared' /\ Lower
<1>1. \A a \in Node : Underway(a)'
    BY UnderwayKept
<1>2. \A q \in Node : Idle(q)'
    BY DEF Unevicted, Idle
<1> QED BY <1>1, <1>2 DEF Spared, Unevicted, Lower

\* A step that starts and stops nobody.
LEMMA QuietSpares ==
    ASSUME IInv, Spared, nodes' \subseteq nodes, UNCHANGED <<body, frame>>,
           \A q \in Node : evict'[q].left \subseteq evict[q].left,
           \A q \in Node : node'[q].prio = node[q].prio
    PROVE  Spared' /\ Lower
<1>1. \A q \in Node : Steady(q) /\ Unevicted(q)
    BY DEF Steady, Unevicted, Spared, Idle
<1> QED BY <1>1, SteadySpares

LEMMA ReportSpares ==
    ASSUME IInv, Spared, NEW r \in Rid,
           Report(r) \/ Hub(r) \/ CreatedReply(r) \/ CreatedTimeout(r)
    PROVE  Spared' /\ Lower
<1>0. r \in Node /\ node \in [Node -> NodeRecord]
    BY Entries DEF Node
<1>1. CASE Report(r)
    <2>1. \A q \in Node : node'[q].prio = node[q].prio
        BY <1>0, <1>1 DEF Report, LifecycleCreated, LifecycleStarted, LifecycleStopped, NodeRecord
    <2>2. UNCHANGED <<nodes, body, frame, evict>>
        BY <1>1 DEF Report, LifecycleCreated, LifecycleStarted, LifecycleStopped, taskVars
    <2> QED BY <2>1, <2>2, QuietSpares
<1>2. CASE Hub(r)
    <2>1. UNCHANGED <<nodes, node, body, frame, evict>>
        BY <1>2 DEF Hub, HubCreated, HubStart, HubFinish, HubEnd, HubRejected, treeVars, taskVars
    <2> QED BY <2>1, QuietSpares
<1>3. CASE CreatedReply(r) \/ CreatedTimeout(r)
    <2>1. \A q \in Node : node'[q].prio = node[q].prio
        <3>1. CASE CreatedTimeout(r)
            BY <1>0, <3>1 DEF CreatedTimeout, NodeRecord
        <3>2. CASE node' = [node EXCEPT ![r].reply = "error"]
            BY <1>0, <3>2 DEF NodeRecord
        <3>3. ASSUME NEW claim, node' = [node EXCEPT ![r].reply = "ok", ![r].claim = claim]
              PROVE  \A q \in Node : node'[q].prio = node[q].prio
            BY <1>0, <3>3 DEF NodeRecord
        <3> QED BY <1>3, <3>1, <3>2, <3>3 DEF CreatedReply
    <2>2. UNCHANGED <<nodes, body, frame, evict>>
        BY <1>3 DEF CreatedReply, CreatedTimeout, taskVars
    <2> QED BY <2>1, <2>2, QuietSpares
<1> QED BY <1>1, <1>2, <1>3

LEMMA BodySpares ==
    ASSUME IInv, Spared, NEW r \in Rid, BodyTask(r) \/ BodyStopTimeout(r)
    PROVE  Spared' /\ Lower
<1>0. /\ r \in Node /\ node \in [Node -> NodeRecord] /\ body \in [Node -> Bodies]
    BY Entries DEF Node
<1>1. UNCHANGED <<nodes, frame, evict>>
    BY DEF BodyTask, RunBody, BodyStarted, BodyCancelled, BodyFinished, BodyStop, BodyStopped,
           BodyStopTimeout, treeVars
<1>2. PICK b \in {"done", "starting", "running", "stopwait"} : body' = [body EXCEPT ![r] = b]
    BY DEF BodyTask, RunBody, BodyStarted, BodyCancelled, BodyFinished, BodyStop, BodyStopped,
           BodyStopTimeout, BodyEnds
<1>3. \A q \in Node : node'[q].prio = node[q].prio
    <2>1. CASE RunBody(r) \/ BodyStop(r)
        BY <2>1 DEF RunBody, BodyStop, treeVars
    <2>2. CASE BodyStarted(r) \/ BodyCancelled(r) \/ BodyFinished(r) \/ BodyStopped(r)
               \/ BodyStopTimeout(r)
        <3>1. PICK s \in {"stopped", "running"} : node' = [node EXCEPT ![r].state = s]
            BY <2>2 DEF BodyStarted, BodyCancelled, BodyFinished, BodyStopped, BodyStopTimeout,
                        BodyEnds
        <3> QED BY <1>0, <3>1 DEF NodeRecord
    <2> QED BY <2>1, <2>2 DEF BodyTask
<1>4. \A q \in Node : Steady(q) /\ Unevicted(q)
    BY <1>0, <1>1, <1>2, <1>3 DEF Steady, Unevicted, Spared, Idle
<1> QED BY <1>4, SteadySpares

LEMMA RootSpares ==
    ASSUME IInv, Spared, RootBodyCancelled
    PROVE  Spared' /\ Lower
<1>0. /\ Root \in Node /\ node \in [Node -> NodeRecord] /\ body \in [Node -> Bodies]
    BY Entries DEF Node
<1>1. /\ UNCHANGED <<nodes, frame, evict>> /\ body' = [body EXCEPT ![Root] = "done"]
      /\ node' = [node EXCEPT ![Root].state = "stopped"]
    BY DEF RootBodyCancelled
<1>2. \A q \in Node : node'[q].prio = node[q].prio
    BY <1>0, <1>1 DEF NodeRecord
<1>3. \A q \in Node : Steady(q) /\ Unevicted(q)
    BY <1>0, <1>1, <1>2 DEF Steady, Unevicted, Spared, Idle
<1> QED BY <1>3, SteadySpares

\* Requests that start nobody.
LEMMA RequestSpares ==
    ASSUME RInv, Spared, NEW r \in Rid,
           \/ \E p \in Parents[r] : RoutineCreate(r, p)
           \/ RoutineDestroy(r) \/ StartParentNotRunning(r) \/ RoutineStop(r)
           \/ AcquireFree(r) \/ AcquireBlocked(r) \/ RoutineRelease(r)
    PROVE  Spared' /\ Lower
<1>0. /\ IInv /\ r \in Node /\ node \in [Node -> NodeRecord] /\ evict \in [Node -> EvictRecord]
      /\ Resting(r)
    BY Entries DEF Node, RInv, Books, Orderly
<1>1. ASSUME NEW p \in Parents[r], RoutineCreate(r, p) PROVE Spared' /\ Lower
    <2>1. /\ nodes' = nodes \cup {r} /\ node[r].state = "none"
          /\ node' = [node EXCEPT ![r].state = "created", ![r].parent = p]
          /\ UNCHANGED <<body, frame, evict>>
        BY <1>1 DEF RoutineCreate, taskVars
    <2>2. body[r] = "none"
        BY <1>0, <2>1 DEF Resting
    <2>3. \A q \in Node : node'[q].prio = node[q].prio
        BY <1>0, <2>1 DEF NodeRecord
    <2>4. \A q \in Node : Steady(q) /\ Unevicted(q)
        BY <2>1, <2>2, <2>3 DEF Steady, Unevicted, Spared, Idle
    <2> QED BY <1>0, <2>4, SteadySpares
<1>2. CASE RoutineDestroy(r) \/ StartParentNotRunning(r)
    <2>1. nodes' \subseteq nodes /\ UNCHANGED <<node, body, frame, evict>>
        BY <1>2 DEF RoutineDestroy, StartParentNotRunning, Destroy, Reject, taskVars
    <2> QED BY <1>0, <2>1, QuietSpares
<1>3. CASE RoutineStop(r) \/ AcquireFree(r) \/ RoutineRelease(r)
    <2>1. UNCHANGED <<nodes, body, frame, evict>>
        BY <1>3 DEF RoutineStop, AcquireFree, RoutineRelease, taskVars
    <2>2. \A q \in Node : node'[q].prio = node[q].prio
        BY <1>0, <1>3 DEF RoutineStop, AcquireFree, RoutineRelease, NodeRecord
    <2> QED BY <1>0, <2>1, <2>2, QuietSpares
<1>4. CASE AcquireBlocked(r)
    <2>1. UNCHANGED <<nodes, node, body, frame>>
        BY <1>4 DEF AcquireBlocked, treeVars
    <2>2. \A q \in Node : evict'[q].left \subseteq evict[q].left
        BY <1>0, <1>4 DEF AcquireBlocked, NoEvict
    <2> QED BY <1>0, <2>1, <2>2, QuietSpares
<1> QED BY <1>1, <1>2, <1>3, <1>4

\* A start gives a new priority: to one that waits for no eviction and has not been
\* started, or to one that is started again.
LEMMA StartSpares ==
    ASSUME RInv, Spared, NEW r \in Rid, StartFree(r) \/ StartRefused(r) \/ StartBlocked(r)
    PROVE  Spared' /\ Lower
<1>0. /\ IInv /\ r \in Node /\ node \in [Node -> NodeRecord] /\ evict \in [Node -> EvictRecord]
      /\ body \in [Node -> Bodies] /\ Resting(r)
    BY Entries DEF Node, RInv, Books, Orderly
<1>1. MayStart(r)
    BY DEF StartFree, StartRefused, StartBlocked
<1>2. evict[r].pc = "none" /\ (r \notin Again => body[r] = "none")
    BY <1>0, <1>1 DEF MayStart, Resting
<1>3. nodes' \subseteq nodes /\ UNCHANGED frame
    BY DEF StartFree, StartRefused, StartBlocked, StartNow, Reject, taskVars
<1>4. \A q \in Node : body[q] # "none" => body'[q] # "none"
    BY <1>0 DEF StartFree, StartRefused, StartBlocked, StartNow, taskVars
<1>5. \A q \in Node \ {r} : node'[q] = node[q]
    BY <1>0 DEF StartFree, StartRefused, StartBlocked, StartNow
<1>6. \A q \in Node : evict'[q].left \subseteq evict[q].left
    BY <1>0 DEF StartFree, StartRefused, StartBlocked, NoEvict, taskVars
<1>7. \A q \in Node : Steady(q) /\ Unevicted(q)
    BY <1>2, <1>3, <1>4, <1>5, <1>6 DEF Steady, Unevicted, Spared, Idle
<1> QED BY <1>0, <1>7, SteadySpares

\* What one invocation of _stop_node means to the priorities and the frames.
Stops(n, by, caller) ==
    /\ nodes' \subseteq nodes
    /\ \A q \in Node : node'[q].prio = node[q].prio
    /\ \A q \in Node \ {n} : frame'[q] = frame[q]
    /\ frame'[n].pc # "idle" /\ frame'[n].caller = caller /\ frame'[n].by = by

LEMMA StopSelfStops ==
    ASSUME IInv, NEW n \in Node, NEW nd \in [Node -> NodeRecord],
           \A q \in Node : nd[q].prio = node[q].prio,
           NEW fr \in FrameRecord, StopSelf(n, nd, fr)
    PROVE  Stops(n, fr.by, fr.caller)
<1>0. frame \in [Node -> FrameRecord]
    BY Entries
<1>1. nodes' \subseteq nodes
    BY DEF StopSelf, Destroy
<1>2. \A q \in Node : node'[q].prio = node[q].prio
    BY DEF StopSelf, NodeRecord
<1>3. PICK pc \in {"over", "body"} : frame' = [frame EXCEPT ![n] = [fr EXCEPT !.pc = pc]]
    BY DEF StopSelf
<1>4. /\ [fr EXCEPT !.pc = pc].pc = pc /\ [fr EXCEPT !.pc = pc].by = fr.by
      /\ [fr EXCEPT !.pc = pc].caller = fr.caller
    BY DEF FrameRecord
<1> QED BY <1>0, <1>1, <1>2, <1>3, <1>4 DEF Stops

LEMMA StopEnterStops ==
    ASSUME IInv, NEW n \in Node, NEW by \in Node \cup {NoParent},
           NEW caller \in {"nobody", "parent", "evictor"}, NEW tasks,
           StopEnter(n, by, caller, tasks)
    PROVE  Stops(n, by, caller)
<1> DEFINE nd == [node EXCEPT ![n].stopping = TRUE, ![n].by = IF by = NoParent THEN @ ELSE by]
           fr == [pc |-> "kids", kids |-> Kids(n), caller |-> caller, by |-> by]
<1>0. node \in [Node -> NodeRecord] /\ frame \in [Node -> FrameRecord]
    BY Entries
<1>1. nd \in [Node -> NodeRecord] /\ \A q \in Node : nd[q].prio = node[q].prio
    <2> DEFINE b == IF by = NoParent THEN node[n].by ELSE by
               rec == [node[n] EXCEPT !.stopping = TRUE, !.by = b]
    <2>1. nd = [node EXCEPT ![n] = rec]
        BY <1>0
    <2>2. b \in Node \cup {NoParent}
        BY <1>0 DEF NodeRecord
    <2>3. rec \in NodeRecord /\ rec.prio = node[n].prio
        BY <1>0, <2>2 DEF NodeRecord
    <2> QED BY <1>0, <2>1, <2>3
<1>2. fr \in FrameRecord /\ fr.by = by /\ fr.caller = caller /\ fr.pc = "kids"
    BY DEF FrameRecord, Kids, IInv, TypeOK
<1> HIDE DEF nd, fr
<1>3. CASE Kids(n) = {}
    <2>1. StopSelf(n, nd, fr)
        BY <1>3 DEF StopEnter, nd, fr
    <2> QED BY <1>1, <1>2, <2>1, StopSelfStops
<1>4. CASE Kids(n) # {}
    <2>1. node' = nd /\ frame' = [frame EXCEPT ![n] = fr] /\ UNCHANGED nodes
        BY <1>4 DEF StopEnter, nd, fr
    <2> QED BY <1>0, <1>1, <1>2, <2>1 DEF Stops
<1> QED BY <1>3, <1>4

\* A stop that is no eviction.
LEMMA StopsSpares ==
    ASSUME IInv, Spared, NEW n \in Node, NEW by, NEW caller, Stops(n, by, caller),
           caller # "evictor" \/ frame[n].pc # "idle", UNCHANGED <<body, evict>>
    PROVE  Spared' /\ Lower
<1>1. \A q \in Node : Steady(q)
    BY DEF Stops, Steady
<1>2. \A q \in Node : Unevicted(q)
    BY DEF Stops, Unevicted, Spared, Idle
<1> QED BY <1>1, <1>2, SteadySpares

LEMMA StopTaskSpares ==
    ASSUME IInv, Spared, NEW n \in Node, StopTask(n)
    PROVE  Spared' /\ Lower
<1>0. /\ node \in [Node -> NodeRecord] /\ frame \in [Node -> FrameRecord]
      /\ NoParent \in Node \cup {NoParent}
    BY Entries
<1>1. UNCHANGED <<body, evict>>
    BY DEF StopTask, RunStop, RunKid, RunEnded, KidsStopped, StopDone
<1>2. ASSUME NEW tasks, StopEnter(n, NoParent, "nobody", tasks) PROVE Spared' /\ Lower
    BY <1>0, <1>1, <1>2, StopEnterStops, StopsSpares
<1>3. CASE RunStop(n)
    BY <1>2, <1>3 DEF RunStop
<1>4. CASE RunEnded(n)
    <2>1. CASE UNCHANGED <<nodes, node, frame>>
        BY <1>1, <2>1, QuietSpares
    <2> QED BY <1>2, <1>4, <2>1 DEF RunEnded
<1>5. CASE RunKid(n)
    <2> DEFINE p == node[n].parent
    <2>1. p \in Node
        BY <1>5, TakeTask DEF RunKid
    <2>2. CASE node[n].stopping
        <3>1. /\ UNCHANGED <<nodes, node>>
              /\ frame' = [frame EXCEPT ![p].kids = @ \ {n}]
            BY <1>5, <2>2 DEF RunKid
        <3>2. \A q \in Node : frame'[q].pc = frame[q].pc /\ frame'[q].caller = frame[q].caller
            BY <1>0, <3>1 DEF FrameRecord
        <3>3. \A q \in Node : Steady(q) /\ Unevicted(q)
            BY <1>1, <3>1, <3>2 DEF Steady, Unevicted, Spared, Idle
        <3> QED BY <3>3, SteadySpares
    <2>3. CASE ~ node[n].stopping
        <3>1. StopEnter(n, frame[p].by, "parent", Tail(ready))
            BY <1>5, <2>3 DEF RunKid
        <3>2. frame[p].by \in Node \cup {NoParent}
            BY <1>0, <2>1 DEF FrameRecord
        <3> QED BY <1>1, <3>1, <3>2, StopEnterStops, StopsSpares
    <2> QED BY <2>2, <2>3
<1>6. CASE KidsStopped(n)
    <2>1. StopSelf(n, node, frame[n]) /\ frame[n] \in FrameRecord /\ frame[n].pc # "idle"
        BY <1>0, <1>6 DEF KidsStopped
    <2>2. Stops(n, frame[n].by, frame[n].caller)
        BY <1>0, <2>1, StopSelfStops
    <2> QED BY <1>1, <2>1, <2>2, StopsSpares
<1>7. CASE StopDone(n)
    <2>1. /\ nodes' \subseteq nodes /\ frame[n].pc = "body"
          /\ node' = [node EXCEPT ![n].state = "stopped"]
          /\ frame' = [frame EXCEPT ![n].pc = "over"]
        BY <1>7 DEF StopDone
    <2>2. \A q \in Node : node'[q].prio = node[q].prio
        BY <1>0, <2>1 DEF NodeRecord
    <2>3. \A q \in Node \ {n} : frame'[q] = frame[q]
        BY <1>0, <2>1
    <2>4. frame'[n].pc = "over"
        BY <1>0, <2>1 DEF FrameRecord
    <2>5. \A q \in Node : Steady(q) /\ Unevicted(q)
        BY <1>1, <2>1, <2>2, <2>3, <2>4 DEF Steady, Unevicted, Spared, Idle
    <2> QED BY <2>5, SteadySpares
<1> QED BY <1>3, <1>4, <1>5, <1>6, <1>7 DEF StopTask

\* The holders that an eviction goes on with.
LEMMA EvictNextSpares ==
    ASSUME RInv, Spared, NEW a \in Node, NEW left \in SUBSET Node, evict[a].pc # "none",
           \A h \in left : /\ body[h] # "none"
                           /\ h \in nodes /\ h \notin Again => node[h].prio < node[a].prio,
           NEW tasks, EvictNext(a, left, tasks)
    PROVE  Spared' /\ Lower
<1> DEFINE able == {h \in left \cap nodes : ~ node[h].stopping}
<1>0. /\ IInv /\ node \in [Node -> NodeRecord] /\ frame \in [Node -> FrameRecord]
      /\ evict \in [Node -> EvictRecord] /\ body \in [Node -> Bodies]
      /\ Waits(a) /\ Resting(a)
    BY Entries DEF RInv, Books, Orderly
<1>1. CASE able = {}
    <2>1. /\ evict' = [evict EXCEPT ![a] = NoEvict]
          /\ RetryStart(a, tasks) \/ RetryAcquire(a, tasks)
        BY <1>1 DEF EvictNext
    <2>2. \A q \in Node : evict'[q].left \subseteq evict[q].left
        BY <1>0, <2>1 DEF NoEvict
    <2>3. nodes' \subseteq nodes /\ UNCHANGED frame
        BY <2>1 DEF RetryStart, RetryAcquire, StartNow, Reject
    <2>4. \A q \in Node : node'[q].prio = node[q].prio
        <3>1. CASE RetryAcquire(a, tasks)
            BY <1>0, <3>1 DEF RetryAcquire, NodeRecord
        <3>2. CASE UNCHANGED node
            BY <3>2
        <3>3. CASE StartNow(a, node[a].prio, evict[a].try, tasks)
            BY <1>0, <3>3 DEF StartNow, NodeRecord
        <3> QED BY <2>1, <3>1, <3>2, <3>3 DEF RetryStart
    <2>5. \A q \in Node : body[q] # "none" => body'[q] # "none"
        BY <1>0, <2>1 DEF RetryStart, RetryAcquire, StartNow
    <2>6. \A q \in Node : Steady(q) /\ Unevicted(q)
        BY <2>2, <2>3, <2>4, <2>5 DEF Steady, Unevicted, Spared, Idle
    <2> QED BY <1>0, <2>6, SteadySpares
<1>2. CASE able # {}
    <2>1. PICK h \in able :
                /\ evict' = [evict EXCEPT ![a].pc = "waiting", ![a].on = h,
                                          ![a].left = {g \in left : g > h}]
                /\ StopEnter(h, a, "evictor", tasks)
                /\ UNCHANGED <<holders, body>>
        BY <1>2 DEF EvictNext
    <2>2. Stops(h, a, "evictor")
        BY <1>0, <2>1, StopEnterStops
    <2>3. evict'[a].left \subseteq left /\ \A q \in Node \ {a} : evict'[q] = evict[q]
        BY <1>0, <2>1 DEF EvictRecord
    <2>4. \A q \in Node : Idle(q)'
        BY <2>2 DEF Stops, Spared, Idle
    <2>5. Underway(a)'
        BY <2>1, <2>2, <2>3 DEF Stops, Underway
    <2>6. ASSUME NEW q \in Node, q # a PROVE Underway(q)'
        <3>1. evict'[q] = evict[q] /\ evict[q].left \subseteq Node
            BY <1>0, <2>3, <2>6 DEF EvictRecord
        <3> QED BY <2>1, <2>2, <2>6, <3>1 DEF Stops, Spared, Underway
    <2>7. Lower
        BY <2>1, <2>2 DEF Stops, Spared, Idle, Lower
    <2> QED BY <2>4, <2>5, <2>6, <2>7 DEF Spared
<1> QED BY <1>1, <1>2

\* Who occupies a module has been started.
LEMMA RivalsStarted ==
    ASSUME RInv, NEW a \in Node, NEW mods, NEW h \in Rivals(a, mods)
    PROVE  h \in Node /\ body[h] # "none"
<1>1. PICK m \in UNION {Cone(Above, x) : x \in mods} : h \in holders[m]
    BY DEF Rivals, EvictableHolders
<1>2. h \in Node /\ m \in Module
    BY <1>1, RivalsTyped DEF RInv, Cone
<1>3. Holds(h) # {}
    BY <1>1, <1>2 DEF Holds
<1> QED BY <1>2, <1>3 DEF RInv, Books, Orderly, Resting

LEMMA EvictTaskSpares ==
    ASSUME RInv, Spared, NEW a \in Node, EvictTask(a)
    PROVE  Spared' /\ Lower
<1>0. /\ IInv /\ Tasked /\ node \in [Node -> NodeRecord] /\ evict \in [Node -> EvictRecord]
    BY Entries DEF RInv, Books
<1>1. CASE RunEvict(a)
    <2> DEFINE rivals == Rivals(a, evict[a].mods)
    <2>1. CASE \E h \in rivals \cap nodes : node[h].prio >= node[a].prio
        <3>1. /\ evict' = [evict EXCEPT ![a] = NoEvict]
              /\ Reject(a, evict[a].try) \/ UNCHANGED <<nodes, told, toHub>>
              /\ UNCHANGED <<node, body, frame>>
            BY <1>1, <2>1 DEF RunEvict
        <3>2. nodes' \subseteq nodes /\ \A q \in Node : evict'[q].left \subseteq evict[q].left
            BY <1>0, <3>1 DEF Reject, NoEvict
        <3> QED BY <1>0, <3>1, <3>2, QuietSpares
    <2>2. CASE ~ \E h \in rivals \cap nodes : node[h].prio >= node[a].prio
        <3>1. EvictNext(a, rivals, Tail(ready))
            BY <1>1, <2>2 DEF RunEvict
        <3>2. rivals \in SUBSET Node /\ \A h \in rivals : body[h] # "none"
            BY <1>0, RivalsTyped, RivalsStarted
        <3>3. \A h \in rivals \cap nodes : node[h].prio < node[a].prio
            BY <1>0, <2>2, <3>2 DEF NodeRecord
        <3>4. evict[a].pc # "none"
            BY <1>0, <1>1, TaskTaken DEF RunEvict, Tasked
        <3> HIDE DEF rivals
        <3> QED BY <3>1, <3>2, <3>3, <3>4, EvictNextSpares
    <2> QED BY <2>1, <2>2
<1>2. CASE EvictResume(a)
    <2>1. evict[a].pc # "none" /\ EvictNext(a, evict[a].left, ready)
        BY <1>2 DEF EvictResume
    <2>2. evict[a].left \in SUBSET Node
        BY <1>0 DEF EvictRecord
    <2>3. \A h \in evict[a].left : /\ body[h] # "none"
                                   /\ h \in nodes /\ h \notin Again => node[h].prio < node[a].prio
        BY DEF Spared, Underway
    <2> QED BY <2>1, <2>2, <2>3, EvictNextSpares
<1> QED BY <1>1, <1>2 DEF EvictTask

LEMMA NextSpares == RInv /\ Spared /\ [Next]_vars => Spared' /\ Lower
<1> SUFFICES ASSUME RInv, Spared, [Next]_vars PROVE Spared' /\ Lower
    OBVIOUS
<1>0. IInv
    BY DEF RInv
<1>1. ASSUME NEW r \in Rid, Request(r) PROVE Spared' /\ Lower
    BY <1>1, RequestSpares, StartSpares DEF Request
<1>2. ASSUME NEW r \in Rid, BodyTask(r) \/ BodyStopTimeout(r) PROVE Spared' /\ Lower
    BY <1>0, <1>2, BodySpares
<1>3. ASSUME NEW r \in Rid, Report(r) \/ Hub(r) \/ CreatedReply(r) \/ CreatedTimeout(r)
      PROVE  Spared' /\ Lower
    BY <1>0, <1>3, ReportSpares
<1>4. ASSUME NEW r \in Node, StopTask(r) \/ EvictTask(r) PROVE Spared' /\ Lower
    BY <1>0, <1>4, StopTaskSpares, EvictTaskSpares
<1>5. CASE RootBodyCancelled
    BY <1>0, <1>5, RootSpares
<1>6. CASE UNCHANGED vars
    <2>1. UNCHANGED <<nodes, node, body, frame, evict>>
        BY <1>6 DEF vars
    <2> QED BY <1>0, <2>1, QuietSpares
<1> QED BY <1>1, <1>2, <1>3, <1>4, <1>5, <1>6 DEF Next

\* An eviction stops holders of strictly lower priority only (_evict_lower_holders), though
\* it compares once and then waits for one after the other: meanwhile the priority of a
\* holder stays what its start gave it, unless clients start it again, and nobody who waits
\* for an eviction is given another.
THEOREM OnlyLowerEvictedHolds == Spec => OnlyLowerEvicted
<1>1. Init => Spared
    BY DEF Init, Spared, Underway, Idle, NoEvict, IdleFrame
<1>2. RInv /\ Spared /\ [Next]_vars => Spared' /\ [Lower]_vars
    BY NextSpares
<1>3. Lower =>
        \A h \in Node \ Again : frame[h].pc = "idle" /\ frame'[h].caller = "evictor"
            => node[h].prio < node[frame'[h].by].prio
    BY DEF Lower
<1> QED BY RecordsHold, <1>1, <1>2, <1>3, PTL DEF Spec, OnlyLowerEvicted
===============================================================================
