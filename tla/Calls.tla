--------------------------------- MODULE Calls ---------------------------------
(***************************************************************************)
(* Requests and streams between routines: the caller's side (ctx.py,       *)
(* _stream.py), the kernel's table of calls in flight (manager.py), the    *)
(* provider's side (routine.py), the hubs' dispatch (hub.py) and the queue *)
(* each hub sends from (grpc_client.py), which drops its oldest frame when *)
(* it is full.  Routines stop while calls are open; connections drop and   *)
(* come back, and the handlers of calls go on through it.  The caller      *)
(* waits in its routine's main task.                                       *)
(***************************************************************************)
EXTENDS Naturals, Sequences, SequencesExt

CONSTANTS
    Hub, Routine, Call,
    Home,        \* Home[r]: the hub that runs routine r
    ConnId,      \* ConnId[h]: the connection the kernel knows hub h by
    From, To,    \* From[c], To[c]: the routines that call and answer
    Kind, Id,    \* "req" or "stream", and the id the calling process gave it
    OutMax,      \* frames that the queue a hub sends from can hold
    MaxChunk,    \* bound: chunks of one stream
    MayDrop,     \* bound: the hubs that lose a connection their routines live on
    MayGiveUp    \* bound: the routines whose stop may go unconfirmed

ASSUME CallAssumption ==
    /\ Home \in [Routine -> Hub] /\ From \in [Call -> Routine] /\ To \in [Call -> Routine]
    /\ Kind \in [Call -> {"req", "stream"}]
    /\ DOMAIN ConnId = Hub /\ \A g, h \in Hub : ConnId[g] # h
    /\ \A c, d \in Call : Home[From[c]] = Home[From[d]] /\ Id[c] = Id[d] => c = d
    /\ MaxChunk \in Nat /\ OutMax \in Nat \ {0}

VARIABLES
    st,        \* what became of the call, for the caller
    readers,   \* stream readers registered at the callers' hubs
    got,       \* chunks the reader was fed
    serve,     \* the handler at the provider
    made,      \* chunks the handler has sent
    streams,   \* the handlers in the providers' tables of streams
    pending,   \* calls in the kernel's table of calls in flight
    node,      \* the kernel's node: "ending" from stopped to removal, or given up
    inst,      \* whether the hub has an instance
    link,      \* the hub's connection: "up", "down", or "dialled" until its catalog is pushed
    up, down,  \* frames on their way to the kernel, and from it; the last of up[h] are
               \* still in the queue that h sends from
    lost       \* the requests, chunks and cancellations that never got out of such a queue

vars == <<st, readers, got, serve, made, streams, pending, node, inst, link, up, down, lost>>

Frame == [k : {"call", "answer", "chunk", "eof", "cancel", "stopped"},
          of : Call \cup Routine,
          how : {"", "ok", "error", "cancelled"}]

TypeOK ==
    /\ st \in [Call -> {"idle", "wait", "open", "ok", "failed", "timeout", "left", "lost"}]
    /\ serve \in [Call -> {"none", "running", "over"}]
    /\ got \in [Call -> 0..MaxChunk] /\ made \in [Call -> 0..MaxChunk]
    /\ readers \subseteq Call /\ streams \subseteq Call /\ pending \subseteq Call
    /\ node \in [Routine -> {"up", "ending", "givenup", "gone"}]
    /\ inst \in [Routine -> BOOLEAN] /\ link \in [Hub -> {"up", "dialled", "down"}]
    /\ up \in [Hub -> Seq(Frame)] /\ down \in [Hub -> Seq(Frame)]
    /\ lost \subseteq Frame

Init ==
    /\ st = [c \in Call |-> "idle"]
    /\ serve = [c \in Call |-> "none"]
    /\ got = [c \in Call |-> 0] /\ made = [c \in Call |-> 0]
    /\ readers = {} /\ streams = {} /\ pending = {}
    /\ node = [r \in Routine |-> "up"]
    /\ inst = [r \in Routine |-> TRUE] /\ link = [h \in Hub |-> "up"]
    /\ up = [h \in Hub |-> <<>>] /\ down = [h \in Hub |-> <<>>]
    /\ lost = {}

-------------------------------------------------------------------------------

caller == <<st, readers, got>>
provider == <<serve, made, streams>>
kernel == <<pending, node>>
out == <<up, lost>>

Caller(c) == Home[From[c]]
Provider(c) == Home[To[c]]

F(k, x, how) == [k |-> k, of |-> x, how |-> how]

Loses(fs) == lost' = lost \cup {f \in fs : f.k \in {"call", "chunk", "cancel"}}

\* send_event: a full queue drops its oldest frame.  What the send loop has taken out
\* of it does not count, and without a connection it takes out nothing.
Up(h, f) ==
    LET n == (Len(up[h]) - OutMax) + 1 IN
    \/ /\ Len(up[h]) < OutMax \/ link[h] # "down"
       /\ up' = [up EXCEPT ![h] = Append(@, f)]
       /\ UNCHANGED lost
    \/ /\ n > 0
       /\ up' = [up EXCEPT ![h] = Append(RemoveAt(@, n), f)]
       /\ Loses({up[h][n]})

\* _send_to: what has no connection to go to is dropped, and a hub is known by its
\* name once it has pushed its catalog.
Down(q, h, f) == IF link[h] = "up" THEN [q EXCEPT ![h] = Append(@, f)] ELSE q

\* The frame the kernel makes up for a call that nobody will answer.
Failure(c) == F(IF Kind[c] = "req" THEN "answer" ELSE "eof", c, "error")

\* The kernel has a node for r.
HasNode(r) == node[r] \in {"up", "ending"}

Waiting(c) == st[c] \in {"wait", "open"}

-------------------------------------------------------------------------------
\* The caller.

\* req or stream_req: the future or the reader is registered, then the frame sent.
Ask(c) ==
    /\ st[c] = "idle" /\ inst[From[c]]
    /\ st' = [st EXCEPT ![c] = "wait"]
    /\ readers' = IF Kind[c] = "stream" THEN readers \cup {c} ELSE readers
    /\ Up(Caller(c), F("call", c, ""))
    /\ UNCHANGED <<got, provider, kernel, inst, link, down>>

\* req gives up on its future; a stream's handshake gives up on the first frame,
\* and leaves the reader registered.
Timeout(c) ==
    /\ st[c] = "wait"
    /\ st' = [st EXCEPT ![c] = "timeout"]
    /\ UNCHANGED <<readers, got, provider, kernel, inst, link, out, down>>

\* Wrong on purpose: a consumer that leaves says nothing to the provider.
LeaveSilently(c) ==
    /\ st[c] = "open"
    /\ st' = [st EXCEPT ![c] = "left"]
    /\ UNCHANGED <<readers, got, provider, kernel, inst, link, out, down>>

\* The consumer leaves the block of an unfinished stream.
Leave(c) ==
    /\ st[c] = "open"
    /\ st' = [st EXCEPT ![c] = "left"]
    /\ Up(Caller(c), F("cancel", c, ""))
    /\ UNCHANGED <<readers, got, provider, kernel, inst, link, down>>

\* _on_message_req_reply_delivered, _on_message_stream_data_delivered: a frame for
\* a future or a reader that is not registered is dropped.
CallerTakes(h) ==
    /\ down[h] # <<>> /\ Head(down[h]).k \in {"answer", "chunk", "eof"}
    /\ LET f == Head(down[h])
           c == f.of
           end == [st EXCEPT ![c] = IF Waiting(c) THEN IF f.how = "ok" THEN "ok" ELSE "failed"
                                    ELSE @] IN
        \/ /\ f.k = "answer"
           /\ st' = end
           /\ UNCHANGED <<readers, got>>
        \/ /\ f.k = "chunk" /\ c \in readers
           /\ got' = [got EXCEPT ![c] = @ + 1]
           /\ st' = [st EXCEPT ![c] = IF @ = "wait" THEN "open" ELSE @]
           /\ UNCHANGED readers
        \/ /\ f.k = "eof" /\ c \in readers
           /\ readers' = readers \ {c}
           /\ st' = end
           /\ UNCHANGED got
        \/ /\ f.k # "answer" /\ c \notin readers
           /\ UNCHANGED caller
    /\ down' = [down EXCEPT ![h] = Tail(@)]
    /\ UNCHANGED <<provider, kernel, inst, link, out>>

-------------------------------------------------------------------------------
\* The provider.

SameStream(c, d) == Provider(c) = Provider(d) /\ Id[c] = Id[d]

\* _on_message_req_delivered, _on_message_stream_open_delivered: nothing without
\* an instance.  A request nobody handles is refused, a stream is not.
Serve(h) ==
    /\ down[h] # <<>> /\ Head(down[h]).k = "call"
    /\ LET c == Head(down[h]).of IN
        \/ /\ ~ inst[To[c]]
           /\ UNCHANGED <<provider, out>>
        \/ /\ inst[To[c]]
           /\ serve' = [serve EXCEPT ![c] = "running"]
           /\ streams' = IF Kind[c] = "req" THEN streams
                         ELSE {d \in streams : ~ SameStream(c, d)} \cup {c}
           /\ UNCHANGED <<made, out>>
        \/ /\ inst[To[c]] /\ Kind[c] = "req"
           /\ Up(h, Failure(c))
           /\ UNCHANGED provider
        \/ /\ inst[To[c]] /\ Kind[c] = "stream"
           /\ UNCHANGED <<provider, out>>
    /\ down' = [down EXCEPT ![h] = Tail(@)]
    /\ UNCHANGED <<caller, kernel, inst, link>>

Chunk(c) ==
    /\ serve[c] = "running" /\ Kind[c] = "stream" /\ made[c] < MaxChunk
    /\ made' = [made EXCEPT ![c] = @ + 1]
    /\ Up(Provider(c), F("chunk", c, ""))
    /\ UNCHANGED <<caller, serve, streams, kernel, inst, link, down>>

\* The task of a handler ends, and takes what stream has its id out of the table.
Ended(c, how) ==
    /\ serve' = [serve EXCEPT ![c] = "over"]
    /\ streams' = IF Kind[c] = "req" THEN streams ELSE {d \in streams : ~ SameStream(c, d)}
    /\ Up(Provider(c), F(IF Kind[c] = "req" THEN "answer" ELSE "eof", c, how))
    /\ UNCHANGED <<caller, made, kernel, inst, link>>

\* The handler returns or raises; it outlives its instance.
Answer(c) ==
    /\ serve[c] = "running"
    /\ \E how \in {"ok", "error"} : Ended(c, how)
    /\ UNCHANGED down

\* _on_message_stream_cancel_delivered.
Cancelled(h) ==
    /\ down[h] # <<>> /\ Head(down[h]).k = "cancel"
    /\ down' = [down EXCEPT ![h] = Tail(@)]
    /\ \/ \E d \in streams : SameStream(d, Head(down[h]).of) /\ Ended(d, "cancelled")
       \/ /\ \A d \in streams : ~ SameStream(d, Head(down[h]).of)
          /\ UNCHANGED <<caller, provider, kernel, inst, link, out>>

-------------------------------------------------------------------------------
\* The kernel.

SameCall(c, d) == Kind[c] = Kind[d] /\ Id[c] = Id[d]

\* _on_message for a request or the opening of a stream.
Forward(h) ==
    /\ link[h] # "down" /\ up[h] # <<>> /\ Head(up[h]).k = "call"
    /\ LET c == Head(up[h]).of IN
        \/ /\ ~ HasNode(To[c])
           /\ down' = IF HasNode(From[c]) THEN Down(down, Caller(c), Failure(c)) ELSE down
           /\ UNCHANGED pending
        \/ /\ HasNode(To[c])
           /\ pending' = IF ~ HasNode(From[c]) THEN pending
                         ELSE {d \in pending : ~ (SameCall(c, d) /\ To[c] = To[d])} \cup {c}
           /\ down' = Down(down, Provider(c), Head(up[h]))
    /\ up' = [up EXCEPT ![h] = Tail(@)]
    /\ UNCHANGED <<caller, provider, node, inst, link, lost>>

\* Wrong on purpose: any frame of a stream closes its entry.
ReturnForgets(h) ==
    /\ link[h] # "down" /\ up[h] # <<>> /\ Head(up[h]).k \in {"answer", "chunk", "eof", "cancel"}
    /\ LET f == Head(up[h])
           r == IF f.k = "cancel" THEN To[f.of] ELSE From[f.of] IN
        /\ pending' = {d \in pending : ~ SameCall(f.of, d)}
        /\ down' = IF HasNode(r) THEN Down(down, Home[r], f) ELSE down
    /\ up' = [up EXCEPT ![h] = Tail(@)]
    /\ UNCHANGED <<caller, provider, node, inst, link, lost>>

\* _on_message for a reply, a chunk, the end of a stream or a cancellation: the
\* entries of a call that is answered leave the table, whoever made them.
Return(h) ==
    /\ link[h] # "down" /\ up[h] # <<>> /\ Head(up[h]).k \in {"answer", "chunk", "eof", "cancel"}
    /\ LET f == Head(up[h])
           r == IF f.k = "cancel" THEN To[f.of] ELSE From[f.of] IN
        /\ pending' = IF f.k \in {"answer", "eof"}
                      THEN {d \in pending : ~ SameCall(f.of, d)} ELSE pending
        /\ down' = IF HasNode(r) THEN Down(down, Home[r], f) ELSE down
    /\ up' = [up EXCEPT ![h] = Tail(@)]
    /\ UNCHANGED <<caller, provider, node, inst, link, lost>>

\* Wrong on purpose: what is made up for a stream ends it normally.
FailPendingOk(r) ==
    LET dead == {c \in pending : To[c] = r} IN
    /\ pending' = pending \ dead
    /\ down' = [h \in Hub |->
                 IF link[h] # "up" THEN down[h]
                 ELSE down[h] \o SetToSeq({[Failure(c) EXCEPT !.how = "ok"] :
                                            c \in {d \in dead : Caller(d) = h}})]

\* Wrong on purpose: the streams in flight are forgotten.
FailPendingReqs(r) ==
    LET dead == {c \in pending : To[c] = r} IN
    /\ pending' = pending \ dead
    /\ down' = [h \in Hub |->
                 IF link[h] # "up" THEN down[h]
                 ELSE down[h] \o SetToSeq({Failure(c) : c \in {d \in dead : Caller(d) = h
                                                                     /\ Kind[d] = "req"}})]

\* _unsubscribe_rid, _fail_pending_calls: every call to r is answered by a failure.
FailPending(r) ==
    LET dead == {c \in pending : To[c] = r} IN
    /\ pending' = pending \ dead
    /\ down' = [h \in Hub |->
                 IF link[h] # "up" THEN down[h]
                 ELSE down[h] \o SetToSeq({Failure(c) : c \in {d \in dead : Caller(d) = h}})]

\* _on_lifecycle_stopped.  The node stays until the children have stopped too.
Stopped(h) ==
    /\ link[h] # "down" /\ up[h] # <<>> /\ Head(up[h]).k = "stopped"
    /\ LET r == Head(up[h]).of IN
        /\ FailPending(r)
        /\ node' = [node EXCEPT ![r] = IF @ = "up" THEN "ending" ELSE "gone"]
    /\ up' = [up EXCEPT ![h] = Tail(@)]
    /\ UNCHANGED <<caller, provider, inst, link, lost>>

\* _remove_node, at the end of the stop path.
Removed(r) ==
    /\ node[r] = "ending"
    /\ node' = [node EXCEPT ![r] = "gone"]
    /\ UNCHANGED <<caller, provider, pending, inst, link, out, down>>

\* A stop that the hub does not confirm, also because it has lost the instance with an
\* earlier connection: the node goes, the calls to it stay.
GiveUp(r) ==
    /\ node[r] = "up" /\ link[Home[r]] = "up" /\ r \in MayGiveUp
    /\ node' = [node EXCEPT ![r] = "givenup"]
    /\ UNCHANGED <<caller, provider, pending, inst, link, out, down>>

\* _settle_local of a routine whose hub has no connection (_reap_dead, _stop_node).
Settle(r) ==
    /\ HasNode(r) /\ link[Home[r]] # "up"
    /\ FailPending(r)
    /\ node' = [node EXCEPT ![r] = "gone"]
    /\ UNCHANGED <<caller, provider, inst, link, out>>

-------------------------------------------------------------------------------
\* Ends.

\* The main task of r is over, and has left its streams on its way out; what it still
\* waited for is cut off with it.
Over(r) ==
    /\ inst[r] /\ \A c \in Call : From[c] = r => st[c] # "open"
    /\ inst' = [inst EXCEPT ![r] = FALSE]
    /\ st' = [c \in Call |-> IF From[c] = r /\ st[c] = "wait" THEN "lost" ELSE st[c]]
    /\ UNCHANGED <<readers, got, provider, kernel, link, down>>

\* An instance ends, and its end is reported.
End(r) == Over(r) /\ Up(Home[r], F("stopped", r, ""))

\* stop_all_local: without a connection it ends unreported.
EndLocally(r) == link[Home[r]] = "down" /\ Over(r) /\ UNCHANGED out

\* drop_conn at the kernel, _cleanup_call at the hub, which goes on with a new queue.
\* The entries to forget are looked up by the connection, and hold the name of the hub.
Drop(h) ==
    /\ link[h] # "down" /\ h \in MayDrop /\ \E r \in Routine : inst[r] /\ Home[r] = h
    /\ link' = [link EXCEPT ![h] = "down"]
    /\ pending' = {c \in pending : Caller(c) # ConnId[h]}
    /\ up' = [up EXCEPT ![h] = <<>>] /\ down' = [down EXCEPT ![h] = <<>>]
    /\ Loses(ToSet(up[h]))
    /\ UNCHANGED <<caller, provider, node, inst>>

\* _connect_once, when handle_peer_down has ended all instances: what the handlers
\* have sent meanwhile goes out.
Dial(h) ==
    /\ link[h] = "down" /\ \A r \in Routine : inst[r] => Home[r] # h
    /\ link' = [link EXCEPT ![h] = "dialled"]
    /\ UNCHANGED <<caller, provider, kernel, inst, out, down>>

\* _post_connect: from here on the kernel knows the hub's connection by its name.
CatalogPush(h) ==
    /\ link[h] = "dialled"
    /\ link' = [link EXCEPT ![h] = "up"]
    /\ UNCHANGED <<caller, provider, kernel, inst, out, down>>

Next ==
    \/ \E c \in Call : Ask(c) \/ Timeout(c) \/ Leave(c) \/ Chunk(c) \/ Answer(c)
    \/ \E h \in Hub : \/ CallerTakes(h) \/ Serve(h) \/ Cancelled(h)
                      \/ Forward(h) \/ Return(h) \/ Stopped(h)
                      \/ Drop(h) \/ Dial(h) \/ CatalogPush(h)
    \/ \E r \in Routine : \/ Removed(r) \/ GiveUp(r) \/ Settle(r)
                          \/ End(r) \/ EndLocally(r)

Spec == Init /\ [][Next]_vars

\* Links deliver, the kernel and the hubs work off their queues, a stop path comes
\* to its end; nothing says that a handler answers or that anything times out.
Progress ==
    \/ \E h \in Hub : \/ CallerTakes(h) \/ Serve(h) \/ Cancelled(h)
                      \/ Forward(h) \/ Return(h) \/ Stopped(h)
    \/ \E r \in Routine : Removed(r) \/ Settle(r)

FairSpec == Spec /\ WF_vars(Progress)

-------------------------------------------------------------------------------

InFlight(c) ==
    \E h \in Hub : \/ \E i \in DOMAIN up[h] : up[h][i].of = c /\ up[h][i].k # "chunk"
                   \/ \E i \in DOMAIN down[h] : down[h][i].of = c /\ down[h][i].k # "chunk"

\* Nobody else forgets a call: while a caller that the kernel knows and can reach waits,
\* its request, its answer or its failure is on a link, its handler works, or the kernel
\* has an entry for it - unless the queue its hub sends from has dropped the request
\* (Kernel._on_message, _fail_pending_calls, GrpcClientTransport.send_event).
NoLostCall ==
    \A c \in Call :
        Waiting(c) /\ HasNode(From[c]) /\ link[Caller(c)] = "up" /\ F("call", c, "") \notin lost =>
            InFlight(c) \/ serve[c] = "running" \/ c \in pending

\* A stream that ended normally was received whole, whatever stopped, dropped or came
\* back meanwhile, unless the queue of its provider's hub has dropped a chunk of it: a
\* made-up end is a failure, what outlives a connection keeps its order, and nothing
\* overtakes the chunks.  (And every variable has its type.)
DoneIsWhole ==
    TypeOK /\ \A c \in Call : Kind[c] = "stream" /\ st[c] = "ok" /\ F("chunk", c, "") \notin lost =>
                                got[c] = made[c] /\ serve[c] = "over"

\* No timeout watches a stream after its first frame: when its provider has been
\* reported stopped, or has gone with its hub, the stream still ends for a
\* consumer the kernel knows (Kernel._unsubscribe_rid).
OpenEnds ==
    \A c \in Call : (st[c] = "open" /\ node[To[c]] = "gone")
                        ~> (st[c] # "open" \/ ~ HasNode(From[c]))

\* A provider that lives does not go on for a consumer that has left, unless it has lost
\* its node, one of the two hubs its connection, or the cancellation its place in a queue:
\* then nothing cancels the handler (StreamCtx.__aexit__).
LeftStops ==
    \A c \in Call : st[c] = "left" ~> \/ serve[c] # "running" \/ ~ inst[To[c]] \/ ~ HasNode(To[c])
                                      \/ link[Caller(c)] # "up" \/ link[Provider(c)] # "up"
                                      \/ F("cancel", c, "") \in lost

===============================================================================
