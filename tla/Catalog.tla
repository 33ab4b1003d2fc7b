-------------------------------- MODULE Catalog --------------------------------
(***************************************************************************)
(* The catalog of routines: what hubs offer (push, register, reload,       *)
(* deregister) and the passive routines that the kernel starts by itself   *)
(* (manager.py from _on_catalog_push to _stop_running_by_name, hub.py).    *)
(* Every routine here is passive.  The modules they need may be taken, and *)
(* then their start is refused; a hub answers a creation in time.          *)
(***************************************************************************)
EXTENDS Naturals, Sequences, FiniteSets, SequencesExt

CONSTANTS
    Hub, Name,
    MaxId,     \* bound: the routines that are created
    MaxTask,   \* bound: the tasks the kernel makes
    MaxVer,    \* bound: the versions of classes that hubs come up with, and their returns
    MayAsk,    \* bound: the hubs that withdraw a routine, once each
    MayDrop,   \* bound: the hubs whose connection drops
    MayRefuse  \* whether a start may meet modules that others hold

ASSUME CatalogAssumption ==
    /\ MaxId \in Nat /\ MaxTask \in Nat /\ MaxVer \in Nat /\ MayRefuse \in BOOLEAN
    /\ MayAsk \subseteq Hub /\ MayDrop \subseteq Hub
    /\ "none" \notin Hub /\ IsFiniteSet(Name)

Id == 1..MaxId
Task == 1..MaxTask
Ver == 0..MaxVer

VARIABLES
    class,    \* class[h][n]: the version hub h has of n, 0 for none
    ver,      \* the versions made so far, and the returns
    entering, \* entering[h]: calls that have their answer and have yet to go on
    insts,    \* insts[h][i]: the version of the instance i, 0 for none
    early,    \* ghost: the instances made of a name that was being entered
    up, down, \* frames to the kernel and from it
    link,     \* whether hub h is connected
    route,    \* routes: owner and version of a name
    started,  \* _passive_started
    node,     \* the nodes table
    task,     \* the tasks made by pushes, registrations, reloads, deregistrations
    turn,     \* the task that has not come to an await yet, or 0
    asked     \* _pending_deregisters, by requester, and whether it still waits

vars == <<class, ver, entering, insts, early, up, down, link, route, started, node,
          task, turn, asked>>

NoRoute == [owner |-> "none", v |-> 0]
NoNode == [st |-> "none", name |-> "none", owner |-> "none"]
NoTask == [pc |-> "none", stops |-> "none", left |-> <<>>, names |-> <<>>,
           cur |-> 0, auto |-> FALSE]
NoAsk == [name |-> "none", holder |-> "none", waits |-> FALSE]

Frame == [k : {"push", "register", "reload", "deregister", "ack", "created", "failed", "stopped",
               "cmd", "done", "registered", "create", "stop", "destroy"},
          n : Name \cup {"none"}, v : Ver, i : {0} \cup Id, h : Hub \cup {"none"}]

TypeOK ==
    /\ class \in [Hub -> [Name -> Ver]] /\ ver \in Ver
    /\ entering \in [Hub -> Seq([n : Name, v : Ver])] /\ early \subseteq Id
    /\ insts \in [Hub -> [Id -> Ver]] /\ link \in [Hub -> BOOLEAN]
    /\ up \in [Hub -> Seq(Frame)] /\ down \in [Hub -> Seq(Frame)]
    /\ route \in [Name -> [owner : Hub \cup {"none"}, v : Ver]]
    /\ started \subseteq Name
    /\ node \in [Id -> [st : {"none", "creating", "created", "failed", "running",
                              "stopping", "gone"},
                        name : Name \cup {"none"}, owner : Hub \cup {"none"}]]
    /\ task \in [Task -> [pc : {"none", "new", "on", "done"}, stops : Name \cup {"none"},
                          left : Seq(Id), names : Seq(Name), cur : {0} \cup Id,
                          auto : BOOLEAN]]
    /\ turn \in {0} \cup Task
    /\ asked \in [Hub -> [name : Name \cup {"none"}, holder : Hub \cup {"none"}, waits : BOOLEAN]]

Init ==
    /\ class = [h \in Hub |-> [n \in Name |-> 0]] /\ ver = 0
    /\ entering = [h \in Hub |-> <<>>] /\ early = {}
    /\ insts = [h \in Hub |-> [i \in Id |-> 0]]
    /\ up = [h \in Hub |-> <<>>] /\ down = [h \in Hub |-> <<>>]
    /\ link = [h \in Hub |-> TRUE]
    /\ route = [n \in Name |-> NoRoute] /\ started = {}
    /\ node = [i \in Id |-> NoNode]
    /\ task = [t \in Task |-> NoTask] /\ turn = 0
    /\ asked = [h \in Hub |-> NoAsk]

-------------------------------------------------------------------------------

offer == <<class, ver, entering>>
made == <<insts, early>>
catalog == <<route, started>>
tasks == <<task, turn>>

F(k, n, v, i, h) == [k |-> k, n |-> n, v |-> v, i |-> i, h |-> h]
Sent(q, h, f) == IF h \in Hub /\ link[h] THEN [q EXCEPT ![h] = Append(@, f)] ELSE q

InTable(i) == node[i].st \in {"creating", "created", "failed", "running", "stopping"}
Named(n) == {i \in Id : InTable(i) /\ node[i].name = n}

-------------------------------------------------------------------------------
\* The hubs.

\* register_routine, reload_routine: a class of a new version is offered.  What the
\* kernel has ready runs before a hub acts on an answer.
Offer(h, n, k) ==
    /\ link[h] /\ ver < MaxVer /\ \A t \in Task : task[t].pc # "new"
    /\ ver' = ver + 1
    /\ up' = Sent(up, h, F(k, n, ver + 1, 0, h))
    /\ UNCHANGED <<class, entering, made, down, link, catalog, node, tasks, asked>>

\* deregister_routine.
Withdraw(h, n) ==
    /\ link[h] /\ h \in MayAsk /\ asked[h] = NoAsk
    /\ asked' = [asked EXCEPT ![h] = [NoAsk EXCEPT !.name = n, !.waits = TRUE]]
    /\ up' = Sent(up, h, F("deregister", n, 0, 0, h))
    /\ UNCHANGED <<offer, made, down, link, catalog, node, tasks>>

Entering(h, n) == \E j \in DOMAIN entering[h] : entering[h][j].n = n

\* A frame from the kernel: an answer only resolves the future of the call that waits
\* for it, and a creation is handled with the class the hub has by then.
HubTakes(h) ==
    /\ down[h] # <<>>
    /\ LET f == Head(down[h]) IN
        \/ /\ f.k = "registered"
           /\ entering' = [entering EXCEPT ![h] = Append(@, [n |-> f.n, v |-> f.v])]
           /\ UNCHANGED <<class, made, up, asked>>
        \/ /\ f.k = "cmd"
           /\ class' = [class EXCEPT ![h][f.n] = 0]
           /\ up' = Sent(up, h, F("ack", f.n, 0, 0, f.h))
           /\ UNCHANGED <<entering, made, asked>>
        \/ /\ f.k = "done"
           /\ asked' = [asked EXCEPT ![h].waits = FALSE]
           /\ UNCHANGED <<class, entering, made, up>>
        \/ /\ f.k = "create"
           /\ insts' = [insts EXCEPT ![h][f.i] = class[h][f.n]]
           /\ early' = IF Entering(h, f.n) THEN early \cup {f.i} ELSE early
           /\ up' = Sent(up, h, F(IF class[h][f.n] = 0 THEN "failed" ELSE "created",
                                  f.n, 0, f.i, h))
           /\ UNCHANGED <<class, entering, asked>>
        \/ /\ f.k \in {"stop", "destroy"}
           /\ insts' = [insts EXCEPT ![h][f.i] = 0]
           /\ up' = IF insts[h][f.i] = 0 THEN up ELSE Sent(up, h, F("stopped", f.n, 0, f.i, h))
           /\ UNCHANGED <<class, entering, early, asked>>
    /\ down' = [down EXCEPT ![h] = Tail(@)]
    /\ UNCHANGED <<ver, link, catalog, node, tasks>>

\* register_routine, reload_routine after their await: the class is entered, maybe
\* after frames that came behind the answer.
Enter(h) ==
    /\ entering[h] # <<>>
    /\ class' = [class EXCEPT ![h][Head(entering[h]).n] = Head(entering[h]).v]
    /\ entering' = [entering EXCEPT ![h] = Tail(@)]
    /\ UNCHANGED <<ver, made, up, down, link, catalog, node, tasks, asked>>

\* The hub comes back and pushes what it has.
Return(h) ==
    /\ ~ link[h] /\ ver < MaxVer /\ ver' = ver + 1
    /\ link' = [link EXCEPT ![h] = TRUE]
    /\ up' = [up EXCEPT ![h] = <<F("push", "none", 0, 0, h)>>]
    /\ UNCHANGED <<class, entering, made, down, catalog, node, tasks, asked>>

-------------------------------------------------------------------------------
\* The kernel's handlers.

\* A task that stops what is named n, if n is a name, and then starts the passive
\* routines ns.
Spawn(n, ns) ==
    \E t \in Task : /\ task[t].pc = "none" /\ \A s \in Task : s < t => task[s].pc # "none"
                    /\ task' = [task EXCEPT ![t] = [NoTask EXCEPT !.pc = "new", !.stops = n,
                                                                  !.names = ns]]

\* _on_catalog_push: names that are known stay with who has them, and every passive
\* routine of the catalog is started, whoever pushed.
Push(h) ==
    LET new == {n \in Name : class[h][n] # 0 /\ route[n] = NoRoute}
        known == [n \in Name |-> IF n \in new THEN [owner |-> h, v |-> class[h][n]] ELSE route[n]]
    IN  /\ route' = known
        /\ LET ns == {n \in Name : known[n] # NoRoute} IN
            IF ns = {} THEN UNCHANGED task ELSE Spawn("none", SetToSeq(ns))
        /\ UNCHANGED <<down, started, asked>>

\* _on_catalog_register.
Register(h, n, v) ==
    \/ /\ route[n] # NoRoute
       /\ UNCHANGED <<route, task, down>>
    \/ /\ route[n] = NoRoute
       /\ route' = [route EXCEPT ![n] = [owner |-> h, v |-> v]]
       /\ down' = Sent(down, h, F("registered", n, v, 0, h))
       /\ Spawn("none", <<n>>)

\* Wrong on purpose: the instances that run now are left alone.
ReloadOnly(h, n, v) ==
    /\ route' = [route EXCEPT ![n] = [owner |-> h, v |-> v]]
    /\ started' = started \ {n}
    /\ down' = Sent(down, h, F("registered", n, v, 0, h))
    /\ Spawn("none", <<n>>)

\* _on_catalog_reload: what runs is stopped, and then started anew.
Reload(h, n, v) ==
    /\ route' = [route EXCEPT ![n] = [owner |-> h, v |-> v]]
    /\ started' = started \ {n}
    /\ down' = Sent(down, h, F("registered", n, v, 0, h))
    /\ Spawn(n, <<n>>)

\* Wrong on purpose: a name that is not in the catalog is passed over.
DeregisterSilent(h, n) ==
    IF route[n] = NoRoute THEN UNCHANGED <<asked, down>>
    ELSE /\ asked' = [asked EXCEPT ![h].holder = route[n].owner]
         /\ down' = Sent(down, route[n].owner, F("cmd", n, 0, 0, h))

\* _on_catalog_deregister: the holder is told.
Deregister(h, n) ==
    IF route[n] = NoRoute
    THEN /\ down' = Sent(down, h, F("done", n, 0, 0, h))
         /\ UNCHANGED asked
    ELSE /\ asked' = [asked EXCEPT ![h].holder = route[n].owner]
         /\ down' = Sent(down, route[n].owner, F("cmd", n, 0, 0, h))

\* Wrong on purpose: the route stays.
DeregisterAckKeeps(g, h, n) ==
    /\ asked' = [asked EXCEPT ![h].holder = "none"]
    /\ started' = started \ {n}
    /\ Spawn(n, <<>>)
    /\ down' = Sent(down, h, F("done", n, 0, 0, h))
    /\ UNCHANGED route

\* _on_catalog_deregister_cmd_ack, from hub g for the request of h: only the hub that
\* was told answers, whoever has the route by now.
DeregisterAck(g, h, n) ==
    /\ asked[h].holder = g
    /\ asked' = [asked EXCEPT ![h].holder = "none"]
    /\ started' = started \ {n}
    /\ route' = [route EXCEPT ![n] = NoRoute]
    /\ Spawn(n, <<>>)
    /\ down' = Sent(down, h, F("done", n, 0, 0, h))

Dispatch(h) ==
    /\ up[h] # <<>> /\ turn = 0
    /\ LET f == Head(up[h])
           becomes(st) == node' = IF node[f.i].st = st[1] THEN [node EXCEPT ![f.i].st = st[2]]
                                  ELSE node IN
        \/ /\ f.k = "push" /\ Push(h) /\ UNCHANGED node
        \/ /\ f.k = "register" /\ Register(h, f.n, f.v) /\ UNCHANGED <<started, node, asked>>
        \/ /\ f.k = "reload" /\ Reload(h, f.n, f.v) /\ UNCHANGED <<node, asked>>
        \/ /\ f.k = "deregister" /\ Deregister(h, f.n) /\ UNCHANGED <<catalog, node, task>>
        \/ /\ f.k = "ack" /\ DeregisterAck(h, f.h, f.n) /\ UNCHANGED node
        \/ /\ f.k = "created" /\ becomes(<<"creating", "created">>)
           /\ UNCHANGED <<down, catalog, task, asked>>
        \/ /\ f.k = "failed" /\ becomes(<<"creating", "failed">>)
           /\ UNCHANGED <<down, catalog, task, asked>>
        \/ /\ f.k = "stopped" /\ becomes(<<"stopping", "gone">>)
           /\ UNCHANGED <<down, catalog, task, asked>>
    /\ up' = [up EXCEPT ![h] = Tail(@)]
    /\ UNCHANGED <<offer, made, link, turn>>

\* drop_conn and the reaping after it; the hub destroys what it runs.
Drop(h) ==
    /\ link[h] /\ h \in MayDrop /\ turn = 0
    /\ link' = [link EXCEPT ![h] = FALSE]
    /\ up' = [up EXCEPT ![h] = <<>>] /\ down' = [down EXCEPT ![h] = <<>>]
    /\ insts' = [insts EXCEPT ![h] = [i \in Id |-> 0]]
    /\ route' = [n \in Name |-> IF route[n].owner = h THEN NoRoute ELSE route[n]]
    /\ started' = {n \in started : route[n].owner # h}
    /\ node' = [i \in Id |-> IF InTable(i) /\ node[i].owner = h
                             THEN [node[i] EXCEPT !.st = "gone"] ELSE node[i]]
    /\ asked' = [asked EXCEPT ![h].waits = FALSE]
    /\ UNCHANGED <<offer, early, tasks>>

-------------------------------------------------------------------------------
\* The kernel's tasks.

\* A task runs for the first time, in the order the tasks were made, and looks up
\* what it has to stop.
Begin(t) ==
    /\ turn = 0 /\ turn' = t
    /\ task[t].pc = "new" /\ \A s \in Task : s < t => task[s].pc # "new"
    /\ task' = [task EXCEPT ![t].pc = "on",
                            ![t].left = IF task[t].stops = "none" THEN <<>>
                                        ELSE SetToSortSeq(Named(task[t].stops), <)]
    /\ UNCHANGED <<offer, made, up, down, link, catalog, node, asked>>

\* _stop_running_by_name, _stop_node: one after the other, except what is gone or
\* stopping.  What has not started is destroyed at once; what runs is waited for.
StopNext(t) ==
    /\ turn = t /\ task[t].left # <<>>
    /\ LET i == Head(task[t].left)
           told(k) == down' = Sent(down, node[i].owner, F(k, node[i].name, 0, i, node[i].owner))
       IN
        \/ /\ node[i].st \in {"gone", "stopping"}
           /\ task' = [task EXCEPT ![t].left = Tail(@)]
           /\ UNCHANGED <<node, down, turn>>
        \/ /\ node[i].st \in {"creating", "created", "failed"} /\ told("destroy")
           /\ task' = [task EXCEPT ![t].left = Tail(@)]
           /\ node' = [node EXCEPT ![i].st = "gone"]
           /\ UNCHANGED turn
        \/ /\ node[i].st = "running" /\ told("stop")
           /\ task' = [task EXCEPT ![t].left = Tail(@), ![t].cur = i]
           /\ node' = [node EXCEPT ![i].st = "stopping"]
           /\ turn' = 0
    /\ UNCHANGED <<offer, made, up, link, catalog, asked>>

Resumes(t) == turn = 0 /\ turn' = t /\ task[t].pc = "on" /\ task[t].cur # 0

StopDone(t) ==
    /\ Resumes(t) /\ ~ task[t].auto /\ ~ InTable(task[t].cur)
    /\ task' = [task EXCEPT ![t].cur = 0]
    /\ UNCHANGED <<offer, made, up, down, link, catalog, node, asked>>

Created(t, n) ==
    LET i == 1 + Cardinality({j \in Id : node[j].st # "none"}) IN
    /\ i \in Id /\ route[n] # NoRoute
    /\ started' = started \cup {n}
    /\ node' = [node EXCEPT ![i] = [st |-> "creating", name |-> n, owner |-> route[n].owner]]
    /\ task' = [task EXCEPT ![t].cur = i, ![t].auto = TRUE]
    /\ down' = Sent(down, route[n].owner, F("create", n, 0, i, route[n].owner))
    /\ turn' = 0

\* _remove_node_by_name: whatever is named like that leaves the table.
Removed(n) == [j \in Id |-> IF j \in Named(n) THEN [node[j] EXCEPT !.st = "gone"] ELSE node[j]]

\* _auto_start_passive: the next name, unless it has been started.  A name that has no
\* route any more fails like any other; a reload does not get that far (KeyError).
AutoCreate(t) ==
    /\ turn = t /\ task[t].left = <<>> /\ task[t].names # <<>>
    /\ LET n == Head(task[t].names) IN
        \/ /\ n \in started
           /\ task' = [task EXCEPT ![t].names = Tail(@)]
           /\ UNCHANGED <<started, node, down, turn>>
        \/ /\ n \notin started /\ route[n] = NoRoute
           /\ task' = [task EXCEPT ![t].names = Tail(@)]
           /\ node' = IF task[t].stops = "none" THEN Removed(n) ELSE node
           /\ UNCHANGED <<started, down, turn>>
        \/ n \notin started /\ Created(t, n)
    /\ UNCHANGED <<offer, made, up, link, route, asked>>

AutoStart(t) ==
    /\ Resumes(t) /\ task[t].auto /\ node[task[t].cur].st = "created"
    /\ node' = [node EXCEPT ![task[t].cur].st = "running"]
    /\ task' = [task EXCEPT ![t].cur = 0, ![t].auto = FALSE, ![t].names = Tail(@)]
    /\ UNCHANGED <<offer, made, up, down, link, catalog, asked>>

\* The creation has failed, or timed out because its node has gone; or the start is
\* refused.
AutoFail(t) ==
    /\ Resumes(t) /\ task[t].auto
    /\ node[task[t].cur].st \in {"failed", "gone"} \cup (IF MayRefuse THEN {"created"} ELSE {})
    /\ started' = started \ {Head(task[t].names)}
    /\ node' = Removed(Head(task[t].names))
    /\ task' = [task EXCEPT ![t].cur = 0, ![t].auto = FALSE, ![t].names = Tail(@)]
    /\ UNCHANGED <<offer, made, up, down, link, route, asked>>

Done(t) ==
    /\ turn = t /\ turn' = 0 /\ task[t].left = <<>> /\ task[t].names = <<>>
    /\ task' = [task EXCEPT ![t] = [NoTask EXCEPT !.pc = "done"]]
    /\ UNCHANGED <<offer, made, up, down, link, catalog, node, asked>>

\* Bound on interleavings: while a call has its answer and has yet to go on, only hubs
\* move.  A step of anyone else commutes with those, and what can come behind the
\* answer may be on its way before the answer is taken.
Window == \E h \in Hub : entering[h] # <<>>

Progress ==
    \/ \E h \in Hub : HubTakes(h) \/ Enter(h) \/ (~ Window /\ Dispatch(h))
    \/ /\ ~ Window
       /\ \E t \in Task : \/ Begin(t) \/ StopNext(t) \/ StopDone(t) \/ Done(t)
                          \/ AutoCreate(t) \/ AutoStart(t) \/ AutoFail(t)

Next ==
    \/ Progress
    \/ /\ ~ Window
       /\ \E h \in Hub : \/ Drop(h) \/ Return(h)
                         \/ \E n \in Name : \/ Withdraw(h, n)
                                            \/ \E k \in {"register", "reload"} : Offer(h, n, k)

Spec == Init /\ [][Next]_vars

\* Links deliver and tasks go on; nothing says that hubs offer or withdraw.
FairSpec == Spec /\ WF_vars(Progress)

-------------------------------------------------------------------------------

AtRest ==
    /\ ~ Window /\ \A h \in Hub : up[h] = <<>> /\ down[h] = <<>>
    /\ \A t \in Task : task[t].pc \in {"none", "done"}

\* At rest a route leads to a hub that is there and has the class of that version
\* (RoutineHub.register_routine, Kernel._on_catalog_deregister_cmd_ack).  (And every
\* variable has its type.)
RoutesServed ==
    TypeOK /\ (AtRest => \A n \in Name : route[n] # NoRoute =>
        link[route[n].owner] /\ class[route[n].owner][n] = route[n].v)

\* At rest there is one node of a passive routine at most, at the hub that the catalog
\* names, and of the version that the catalog has unless its creation came while
\* reload_routine had yet to enter the class: a reload leaves nothing else of the old
\* one in the table (Kernel._on_catalog_reload, _stop_running_by_name).
OneFresh ==
    AtRest => \A i, j \in Id : InTable(i) /\ InTable(j) /\ node[i].name = node[j].name =>
        /\ i = j
        /\ node[i].owner = route[node[i].name].owner
        /\ i \in early \/ insts[node[i].owner][i] = route[node[i].name].v

\* A deregistration that reaches the kernel is answered, unless the hub that has the
\* routine goes before it has said that it let go of it
\* (Kernel._on_catalog_deregister, _on_catalog_deregister_cmd_ack).
DeregisterAnswered ==
    \A h \in Hub : (\E j \in DOMAIN up[h] : up[h][j].k = "deregister") ~>
        \/ ~ asked[h].waits
        \/ asked[h].holder \in Hub /\ ~ link[asked[h].holder]

===============================================================================
