--------------------------------- MODULE Conns ---------------------------------
(***************************************************************************)
(* Hubs that dial the kernel, lose their connection and dial again: the    *)
(* two ends of a gRPC stream (grpc_server.py, grpc_client.py), the         *)
(* kernel's registry of connections and identities, and what becomes of    *)
(* the routines of a hub that has gone (drop_conn, _reap_dead, _stop_node, *)
(* _settle_local) and of all of them when the kernel stops.                *)
(* A routine is created and started in one step here, and its stop is the  *)
(* one of a routine that runs: Kernel.tla has the rest of its life.        *)
(***************************************************************************)
EXTENDS Integers, Sequences, FiniteSets

CONSTANTS
    Hub,      \* the identities of the hubs
    Local,    \* the hub in the kernel's own process
    Conn,     \* bound: the streams that are ever opened
    MaxId,    \* bound: the routines that are ever created
    Place,    \* bound: the parents and hosts each of them may have
    MayEnd,   \* bound: the routines that may end by themselves
    MayStop   \* bound: the routines that may be asked to stop

ASSUME ConnsAssumption ==
    /\ Local \in Hub /\ Local \notin Conn
    /\ {"none", "own", "kid", "shutdown"} \cap (Hub \cup Conn) = {}
    /\ MaxId \in Nat /\ IsFiniteSet(Conn)

Root == 0
Top == -1                     \* no parent
Id == 1..MaxId
Remote == Hub \ {Local}
Line == Conn \cup {Local}     \* the connections: a stream or the in-process link
Task == Conn \cup {"shutdown"}

VARIABLES
    hub,      \* hub[h]: up (on its connection c), down (about to dial) or closed for good
    insts,    \* insts[h]: the routines that hub h runs
    dialer,   \* dialer[c]: the hub that opened stream c
    cut,      \* streams that have broken: each end has yet to notice
    up, down, \* up[c], down[c]: frames on their way to the kernel and from it
    conns,    \* _conns
    hubOf,    \* KernelConn.hub_id
    hubConn,  \* _hub_conns
    routed,   \* owners of the entries of routes
    refused,  \* connections the kernel is closing because it knows their hub by another
    node,     \* the nodes table and the stop path of each node
    todo      \* what a task has still to stop, one after the other, oldest first

vars == <<hub, insts, dialer, cut, up, down, conns, hubOf, hubConn, routed, refused, node, todo>>

\* by: the task, or "own" or "kid" for a stop of its own or by its parent's; over:
\* its end has been reported; quick: stopped by the kernel's shutdown; waits: the
\* children its stop waits for; via: the connection it was created over; late:
\* whether the root had gone by then.
NodeRecord ==
    [phase : {"none", "up", "kids", "told", "gone"}, owner : Hub \cup {"none"},
     parent : {Root, Top} \cup Id, via : Line \cup {"none"}, waits : SUBSET Id,
     by : Task \cup {"none", "own", "kid"}, over : BOOLEAN, quick : BOOLEAN,
     late : BOOLEAN]

Frame == [k : {"push", "refused", "start", "stop", "stopped"}, id : {Root} \cup Id]

TypeOK ==
    /\ hub \in [Hub -> [on : {"up", "down", "closed"}, c : Line \cup {"none"}]]
    /\ insts \in [Hub -> SUBSET Id]
    /\ dialer \in [Conn -> Hub \cup {"none"}]
    /\ cut \subseteq Conn /\ refused \subseteq Conn /\ conns \subseteq Line
    /\ up \in [Line -> Seq(Frame)] /\ down \in [Line -> Seq(Frame)]
    /\ hubOf \in [Line -> Hub \cup {"none"}] /\ hubConn \in [Hub -> Line \cup {"none"}]
    /\ routed \subseteq Hub
    /\ node \in [{Root} \cup Id -> NodeRecord]
    /\ todo \in [Task -> SUBSET Id]

Unborn == [phase |-> "none", owner |-> "none", parent |-> Root, via |-> "none",
           waits |-> {}, by |-> "none", over |-> FALSE, quick |-> FALSE, late |-> FALSE]

Gone == [Unborn EXCEPT !.phase = "gone"]

Init ==
    /\ hub = [h \in Hub |-> IF h = Local THEN [on |-> "up", c |-> Local]
                            ELSE [on |-> "down", c |-> "none"]]
    /\ insts = [h \in Hub |-> {}]
    /\ dialer = [c \in Conn |-> "none"]
    /\ cut = {} /\ refused = {} /\ conns = {Local} /\ routed = {Local}
    /\ up = [c \in Line |-> <<>>] /\ down = [c \in Line |-> <<>>]
    /\ hubOf = [c \in Line |-> IF c = Local THEN Local ELSE "none"]
    /\ hubConn = [h \in Hub |-> IF h = Local THEN Local ELSE "none"]
    /\ node = [n \in {Root} \cup Id |-> [Unborn EXCEPT !.phase = IF n = Root THEN "up" ELSE "none"]]
    /\ todo = [t \in Task |-> {}]

-------------------------------------------------------------------------------

wire == <<hub, insts, dialer, cut>>
registry == <<conns, hubOf, hubConn, routed, refused>>
nodes == <<node, todo>>

F(k, n) == [k |-> k, id |-> n]
Put(q, c, f) == IF c \in cut THEN q ELSE [q EXCEPT ![c] = Append(@, f)]

InTable(n) == node[n].phase \in {"up", "kids", "told"}
Stopping(n) == node[n].phase \in {"kids", "told"}
Kids(n) == {k \in Id : InTable(k) /\ node[k].parent = n}

\* Kernel.stop has returned: Connection.close stops the server next.
Closing == node[Root].phase = "gone" /\ todo["shutdown"] = {}

\* _conn_of_owner: the live connection of a hub, if it has one.
Reachable(h) == hubConn[h] \in conns

-------------------------------------------------------------------------------
\* The streams.

\* _connect_once, _post_connect and _on_stream: the first frame pushes the catalog.
Dial(h, c) ==
    /\ hub[h].on = "down" /\ dialer[c] = "none" /\ ~ Closing
    /\ dialer' = [dialer EXCEPT ![c] = h]
    /\ hub' = [hub EXCEPT ![h] = [on |-> "up", c |-> c]]
    /\ conns' = conns \cup {c}
    /\ up' = [up EXCEPT ![c] = <<F("push", Root)>>]
    /\ UNCHANGED <<insts, cut, down, hubOf, hubConn, routed, refused, nodes>>

\* A stream breaks: what the server has read stays in its queue, the rest is lost.
Break(c) ==
    /\ c \in conns \ cut /\ c # Local
    /\ cut' = cut \cup {c}
    /\ \E k \in 0..Len(up[c]) : up' = [up EXCEPT ![c] = SubSeq(@, 1, k)]
    /\ down' = [down EXCEPT ![c] = <<>>]
    /\ UNCHANGED <<hub, insts, dialer, registry, nodes>>

\* The client's _run: the instances are destroyed before it dials again.
HubNotices(h) ==
    /\ hub[h].on = "up" /\ hub[h].c \in cut
    /\ hub' = [hub EXCEPT ![h].on = "down"]
    /\ insts' = [insts EXCEPT ![h] = {}]
    /\ UNCHANGED <<dialer, cut, up, down, registry, nodes>>

HubTakes(h) ==
    LET c == hub[h].c IN
    /\ hub[h].on = "up" /\ down[c] # <<>>
    /\ LET f == Head(down[c]) IN
        \/ /\ f.k = "start"
           /\ insts' = [insts EXCEPT ![h] = @ \cup {f.id}]
           /\ UNCHANGED <<hub, up>>
        \/ /\ f.k = "stop" /\ f.id \in insts[h]
           /\ insts' = [insts EXCEPT ![h] = @ \ {f.id}]
           /\ up' = Put(up, c, F("stopped", f.id))
           /\ UNCHANGED hub
        \/ /\ f.k = "stop" /\ f.id \notin insts[h]
           /\ UNCHANGED <<hub, insts, up>>
        \/ /\ f.k = "refused"
           /\ hub' = [hub EXCEPT ![h].on = "closed"]
           /\ UNCHANGED <<insts, up>>
    /\ down' = [down EXCEPT ![c] = Tail(@)]
    /\ UNCHANGED <<dialer, cut, registry, nodes>>

InstanceEnds(h, n) ==
    /\ hub[h].on = "up" /\ n \in insts[h] \cap MayEnd
    /\ insts' = [insts EXCEPT ![h] = @ \ {n}]
    /\ up' = Put(up, hub[h].c, F("stopped", n))
    /\ UNCHANGED <<hub, dialer, cut, down, registry, nodes>>

-------------------------------------------------------------------------------
\* The kernel's ends of the streams.

\* Wrong on purpose: the routines are looked up by the connection.
DropConnByConn(c) ==
    LET h == hubOf[c]
        dead == {n \in Id : InTable(n) /\ node[n].owner = c} IN
    /\ conns' = conns \ {c}
    /\ hubConn' = [g \in Hub |-> IF g = h /\ hubConn[g] = c THEN "none" ELSE hubConn[g]]
    /\ routed' = routed \ {h}
    /\ todo' = [todo EXCEPT ![c] = dead]
    /\ hubOf' = [hubOf EXCEPT ![c] = "none"]
    /\ refused' = refused \ {c}

\* drop_conn.
DropConn(c) ==
    LET h == hubOf[c]
        dead == {n \in Id : InTable(n) /\ node[n].owner = h} IN
    /\ conns' = conns \ {c}
    /\ hubConn' = [g \in Hub |-> IF g = h /\ hubConn[g] = c THEN "none" ELSE hubConn[g]]
    /\ routed' = routed \ {h}
    /\ todo' = [todo EXCEPT ![c] = dead]
    /\ hubOf' = [hubOf EXCEPT ![c] = "none"]
    /\ refused' = refused \ {c}

\* The server's end of a stream closes: it broke, or it was refused and the refusal
\* is out.
ServerNotices(c) ==
    /\ c \in conns \cap Conn
    /\ c \in cut \/ (c \in refused /\ down[c] = <<>>)
    /\ DropConn(c)
    /\ cut' = cut \cup {c}
    /\ UNCHANGED <<hub, insts, dialer, up, down, node>>

\* The worker of a closed stream has gone through its queue for two seconds.
WorkerGivesUp(c) ==
    /\ c \in Conn \ conns /\ up[c] # <<>>
    /\ up' = [up EXCEPT ![c] = <<>>]
    /\ UNCHANGED <<wire, down, registry, nodes>>

\* Wrong on purpose: the identity is taken over without a look.
CatalogPushOver(h, c) ==
    /\ hubConn' = [hubConn EXCEPT ![h] = c]
    /\ hubOf' = [hubOf EXCEPT ![c] = IF c \in conns THEN h ELSE @]
    /\ routed' = routed \cup {h}
    /\ UNCHANGED <<refused, down>>

\* _on_catalog_push: an identity known by another connection is refused.
CatalogPush(h, c) ==
    LET known == hubConn[h] \notin {"none", c} IN
    /\ hubConn' = IF known THEN hubConn ELSE [hubConn EXCEPT ![h] = c]
    /\ hubOf' = [hubOf EXCEPT ![c] = IF known \/ c \notin conns THEN @ ELSE h]
    /\ routed' = IF known THEN routed ELSE routed \cup {h}
    /\ refused' = IF known /\ c \in conns THEN refused \cup {c} ELSE refused
    /\ down' = IF known /\ c \in conns THEN Put(down, c, F("refused", Root)) ELSE down

\* The worker of c dispatches a frame; it goes on for a while when c has been dropped.
Dispatch(c) ==
    /\ up[c] # <<>>
    /\ LET f == Head(up[c]) IN
        \/ /\ f.k = "push"
           /\ CatalogPush(dialer[c], c)
           /\ UNCHANGED node
        \/ /\ f.k = "stopped"
           /\ node' = IF ~ InTable(f.id) THEN node
                      ELSE [node EXCEPT ![f.id].over = TRUE,
                                        ![f.id].by = IF @ = "none" THEN "own" ELSE @,
                                        ![f.id].waits = IF Stopping(f.id) THEN @ ELSE Kids(f.id),
                                        ![f.id].phase = IF @ = "up" THEN "kids" ELSE @]
           /\ UNCHANGED <<down, hubOf, hubConn, routed, refused>>
    /\ up' = [up EXCEPT ![c] = Tail(@)]
    /\ UNCHANGED <<wire, conns, todo>>

-------------------------------------------------------------------------------
\* Creation, and the stop path.

\* _on_routine_create to a start that has been sent, for a parent that is there.
Create(n, p, h) ==
    /\ node[n].phase = "none" /\ \A k \in Id : k < n => node[k].phase # "none"
    /\ <<p, h>> \in Place[n] /\ (p # Top => InTable(p))
    /\ h \in routed /\ Reachable(h)
    /\ node' = [node EXCEPT ![n].phase = "up", ![n].owner = h, ![n].parent = p,
                            ![n].via = hubConn[h], ![n].late = ~ InTable(Root)]
    /\ down' = Put(down, hubConn[h], F("start", n))
    /\ UNCHANGED <<wire, up, registry, todo>>

\* _stop_node is entered for n: its children as they are now are what it waits for.
Enter(n, by, quick) ==
    node' = [node EXCEPT ![n].phase = "kids", ![n].waits = Kids(n),
                         ![n].by = by, ![n].quick = quick]

\* _on_routine_stop.
StopAsked(n) ==
    /\ node[n].phase = "up" /\ n \in MayStop
    /\ Enter(n, "own", FALSE)
    /\ UNCHANGED <<wire, up, down, registry, todo>>

\* The cascade enters a child, or finds it gone or stopping and returns at once.
KidEntered(n, k) ==
    /\ node[n].phase = "kids" /\ k \in node[n].waits /\ node[k].phase = "up"
    /\ Enter(k, "kid", node[n].quick)
    /\ UNCHANGED <<wire, up, down, registry, todo>>

KidDone(n, k) ==
    /\ node[n].phase = "kids" /\ k \in node[n].waits
    /\ ~ InTable(k) \/ (Stopping(k) /\ node[k].by # "kid")
    /\ node' = [node EXCEPT ![n].waits = @ \ {k}]
    /\ UNCHANGED <<wire, up, down, registry, todo>>

Ready(n) == node[n].phase = "kids" /\ node[n].waits = {} /\ n # Root

\* Wrong on purpose: the shutdown settles the routines of its own process too.
SettlesAll(n) == ~ Reachable(node[n].owner) \/ node[n].quick

\* The host cannot be reached, or it will clean up by itself when the kernel goes:
\* _settle_local.
Settles(n) == ~ Reachable(node[n].owner) \/ (node[n].quick /\ node[n].owner # Local)

StopSettle(n) ==
    /\ Ready(n) /\ Settles(n)
    /\ node' = [node EXCEPT ![n] = Gone]
    /\ UNCHANGED <<wire, up, down, registry, todo>>

StopTell(n) ==
    /\ Ready(n) /\ ~ Settles(n) /\ ~ node[n].over
    /\ node' = [node EXCEPT ![n].phase = "told"]
    /\ down' = Put(down, hubConn[node[n].owner], F("stop", n))
    /\ UNCHANGED <<wire, up, registry, todo>>

\* The end has been reported.
StopEnds(n) ==
    /\ (Ready(n) /\ ~ Settles(n)) \/ node[n].phase = "told"
    /\ node[n].over
    /\ node' = [node EXCEPT ![n] = Gone]
    /\ UNCHANGED <<wire, up, down, registry, todo>>

\* STOP_TIMEOUT.
StopTimeout(n) ==
    /\ node[n].phase = "told" /\ ~ node[n].over
    /\ node' = [node EXCEPT ![n] = Gone]
    /\ UNCHANGED <<wire, up, down, registry, todo>>

-------------------------------------------------------------------------------
\* Tasks that stop one routine after the other.

\* The routine that the task has come to: ids are given in the order of creation.
Now(t, n) == n \in todo[t] /\ \A k \in todo[t] : n <= k

\* _reap_dead of a connection, or the sweep of Kernel.stop.
TaskEnters(t) ==
    /\ \E n \in Id : /\ Now(t, n) /\ node[n].phase = "up"
                    /\ Enter(n, t, t = "shutdown")
    /\ UNCHANGED <<wire, up, down, registry, todo>>

TaskGoesOn(t) ==
    /\ \E n \in Id : /\ Now(t, n) /\ (~ InTable(n) \/ (Stopping(n) /\ node[n].by # t))
                    /\ todo' = [todo EXCEPT ![t] = @ \ {n}]
    /\ UNCHANGED <<wire, up, down, registry, node>>

\* Kernel.stop: the root and what is below it, then what is left in the table.
Shutdown ==
    /\ node[Root].phase = "up"
    /\ Enter(Root, "own", TRUE)
    /\ UNCHANGED <<wire, up, down, registry, todo>>

\* Wrong on purpose: the cascade from the root is taken for everything.
NoSweep ==
    /\ node[Root].phase = "kids" /\ node[Root].waits = {}
    /\ node' = [node EXCEPT ![Root].phase = "gone"]
    /\ UNCHANGED <<wire, up, down, registry, todo>>

Sweep ==
    /\ node[Root].phase = "kids" /\ node[Root].waits = {}
    /\ node' = [node EXCEPT ![Root].phase = "gone"]
    /\ todo' = [todo EXCEPT !["shutdown"] = {n \in Id : InTable(n)}]
    /\ UNCHANGED <<wire, up, down, registry>>

\* Connection.close goes on: the server cancels its streams.
ServerStops ==
    /\ Closing /\ (conns \cap Conn) \ cut # {}
    /\ cut' = cut \cup (conns \cap Conn)
    /\ down' = [c \in Line |-> IF c = Local THEN down[c] ELSE <<>>]
    /\ UNCHANGED <<hub, insts, dialer, up, registry, nodes>>

Next ==
    \/ \E h \in Remote : HubNotices(h) \/ \E c \in Conn : Dial(h, c)
    \/ \E h \in Hub : HubTakes(h) \/ \E n \in Id : InstanceEnds(h, n)
    \/ \E c \in Conn : Break(c) \/ ServerNotices(c) \/ WorkerGivesUp(c)
    \/ \E c \in Line : Dispatch(c)
    \/ \E n \in Id : \/ \E p \in {Root, Top} \cup Id, h \in Hub : Create(n, p, h)
                     \/ StopAsked(n) \/ StopSettle(n) \/ StopTell(n)
                     \/ StopEnds(n) \/ StopTimeout(n)
    \/ \E n \in {Root} \cup Id, k \in Id : KidEntered(n, k) \/ KidDone(n, k)
    \/ \E t \in Task : TaskEnters(t) \/ TaskGoesOn(t)
    \/ Shutdown \/ Sweep \/ ServerStops

Spec == Init /\ [][Next]_vars

\* The event loops run: queues are worked off, tasks go on, broken streams are
\* noticed.  Nothing says that a hub dials, that a routine ends or that one stops.
Progress ==
    \/ \E h \in Hub : HubNotices(h) \/ HubTakes(h)
    \/ \E c \in Line : ServerNotices(c) \/ Dispatch(c)
    \/ \E n \in Id : StopSettle(n) \/ StopTell(n) \/ StopEnds(n) \/ StopTimeout(n)
    \/ \E n \in {Root} \cup Id, k \in Id : KidEntered(n, k) \/ KidDone(n, k)
    \/ \E t \in Task : TaskEnters(t) \/ TaskGoesOn(t)
    \/ Sweep \/ ServerStops

FairSpec == Spec /\ WF_vars(Progress)

-------------------------------------------------------------------------------

\* Two connections never serve one identity, however they drop and return
\* (Kernel._on_catalog_push, drop_conn).
OneConnPerHub ==
    \A c, d \in conns : hubOf[c] = hubOf[d] /\ hubOf[c] # "none" => c = d

\* A reaping stops only what was created over a connection that has gone, not what
\* the hub runs since it came back (Kernel._reap_dead).
NewOnesSpared == \A n \in Id : node[n].by \in Conn => node[n].via \notin conns

\* What the table of connections is for: one per identity, and each node is taken down
\* with the one it came over.  (And every variable has its type.)
ConnsTrue == TypeOK /\ OneConnPerHub /\ NewOnesSpared

\* When stop() returns, what is still in the table is being stopped by somebody, or
\* was created after the sweep began (Kernel.stop).
ShutdownReaches ==
    Closing =>
        \A n \in Id : node[n].phase = "up" => node[n].late

\* What a hub ran when its connection dropped leaves the table, whether it comes
\* back meanwhile or not (Kernel.drop_conn).
DeadLeave ==
    \A n \in Id : (InTable(n) /\ node[n].via \notin conns) ~> ~ InTable(n)

Runs(n) == \E h \in Hub : n \in insts[h]

\* No hub goes on running what has left the kernel's table (Kernel._stop_node,
\* Hub.handle_peer_down).
NoOrphans ==
    \A n \in Id : (Runs(n) /\ node[n].phase = "gone") ~> ~ Runs(n)

===============================================================================
