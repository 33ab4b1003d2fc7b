------------------------------- MODULE ConnsProofs -------------------------------
(***************************************************************************)
(* The kernel's connections, for any hubs, streams and routines: proofs    *)
(* that an identity is served by one connection, that a reaping spares     *)
(* what came over a live one, and that the shutdown misses nothing that    *)
(* was there when its sweep began.                                         *)
(***************************************************************************)
EXTENDS Conns, SequenceTheorems, TLAPS

\* What travels: to the kernel the catalog and the ends of routines, from it a refusal,
\* starts and stops.
UpFrame == [k : {"push"}, id : {Root}] \cup [k : {"stopped"}, id : Id]
DownFrame == [k : {"refused"}, id : {Root}] \cup [k : {"start", "stop"}, id : Id]

Framed ==
    /\ TypeOK
    /\ up \in [Line -> Seq(UpFrame)] /\ down \in [Line -> Seq(DownFrame)]
    /\ up[Local] \in Seq([k : {"stopped"}, id : Id])

\* A stream in use has been opened by a hub.
Dialed ==
    /\ \A h \in Hub : hub[h].on = "up" =>
          hub[h].c \in Line /\ (hub[h].c \in Conn => dialer[hub[h].c] # "none")
    /\ \A c \in Conn : up[c] # <<>> \/ c \in conns => dialer[c] # "none"

\* The two tables of identities agree, and a stream knows no other than who opened it.
Known ==
    /\ \A c \in conns : hubOf[c] # "none" => hubConn[hubOf[c]] = c
    /\ \A h \in Hub : /\ hubConn[h] \in conns => hubOf[hubConn[h]] = h
                      /\ hubConn[h] \in Conn => dialer[hubConn[h]] = h
    /\ \A c \in Conn : hubOf[c] \in {"none", dialer[c]}

\* A routine that came over a live connection is owned by the identity of that one, and
\* no task of another has it on its list.
Owned ==
    /\ \A n \in Id : /\ InTable(n) => node[n].owner # "none"
                     /\ InTable(n) /\ node[n].via \in conns => hubOf[node[n].via] = node[n].owner
                     /\ node[n].via \in Conn => dialer[node[n].via] # "none"
                     /\ node[n].by \in Conn => node[n].via \notin conns
                     /\ node[n].phase = "none" => node[n].by \notin Conn
    /\ \A c \in Conn : \A n \in todo[c] : node[n].phase # "none" /\ node[n].via \notin conns

\* After the root, what is up is on the list of the sweep or came later.
Swept ==
    node[Root].phase = "gone" =>
        \A n \in Id : node[n].phase = "up" => node[n].late \/ n \in todo["shutdown"]

IInv == Framed /\ Dialed /\ Known /\ Owned /\ Swept

\* What every proof about a step starts from.
LEMMA Typed ==
    ASSUME IInv
    PROVE  /\ Framed /\ Dialed /\ Known /\ Owned /\ Swept /\ TypeOK
           /\ Local \in Hub /\ Local \in Line /\ Local \notin Conn /\ Conn \subseteq Line
           /\ "none" \notin Hub /\ "none" \notin Line /\ "none" \notin Conn
           /\ "own" \notin Conn /\ "kid" \notin Conn /\ "shutdown" \notin Conn
           /\ Conn \subseteq Task /\ "shutdown" \in Task
           /\ Root \notin Id /\ Top \notin Id /\ Root # Top
           /\ node \in [{Root} \cup Id -> NodeRecord]
<1>1. Framed /\ Dialed /\ Known /\ Owned /\ Swept /\ TypeOK
    BY DEF IInv, Framed
<1>2. /\ Local \in Hub /\ Local \in Line /\ Local \notin Conn /\ Conn \subseteq Line
      /\ "none" \notin Hub /\ "none" \notin Line /\ "none" \notin Conn
      /\ "own" \notin Conn /\ "kid" \notin Conn /\ "shutdown" \notin Conn
      /\ Conn \subseteq Task /\ "shutdown" \in Task
    BY ConnsAssumption DEF Line, Task
<1>3. Root \notin Id /\ Top \notin Id /\ Root # Top
    BY DEF Root, Top, Id
<1>4. node \in [{Root} \cup Id -> NodeRecord]
    BY <1>1 DEF TypeOK
<1> QED BY <1>1, <1>2, <1>3, <1>4

\* A frame is put on a stream, unless it has broken.
LEMMA PutOn ==
    ASSUME NEW S, NEW q \in [Line -> Seq(S)], NEW c, NEW f \in S
    PROVE  /\ Put(q, c, f) \in [Line -> Seq(S)]
           /\ \A d \in Line : d # c => Put(q, c, f)[d] = q[d]
<1>1. CASE c \in cut
    BY <1>1 DEF Put
<1>2. CASE c \notin cut
    <2>1. Put(q, c, f) = [q EXCEPT ![c] = Append(q[c], f)]
        BY <1>2 DEF Put
    <2>2. \A d \in Line : Append(q[d], f) \in Seq(S)
        BY AppendProperties
    <2> QED BY <2>1, <2>2
<1> QED BY <1>1, <1>2

LEMMA PutUp ==
    ASSUME IInv, NEW c, NEW f \in UpFrame
    PROVE  /\ Put(up, c, f) \in [Line -> Seq(UpFrame)]
           /\ \A d \in Line : d # c => Put(up, c, f)[d] = up[d]
<1>1. up \in [Line -> Seq(UpFrame)]
    BY DEF IInv, Framed
<1> QED BY <1>1, PutOn

LEMMA PutDown ==
    ASSUME IInv, NEW c, NEW f \in DownFrame
    PROVE  Put(down, c, f) \in [Line -> Seq(DownFrame)]
<1>1. down \in [Line -> Seq(DownFrame)]
    BY DEF IInv, Framed
<1> QED BY <1>1, PutOn

\* What travels is a frame.
LEMMA FramesTyped ==
    ASSUME NEW S, NEW T, S \subseteq T, NEW q \in [Line -> Seq(S)]
    PROVE  q \in [Line -> Seq(T)]
<1>1. ASSUME NEW s \in Seq(S) PROVE s \in Seq(T)
    OBVIOUS
<1> QED BY <1>1

LEMMA Frames == UpFrame \subseteq Frame /\ DownFrame \subseteq Frame
BY DEF UpFrame, DownFrame, Frame

LEMMA InitInv == Init => IInv
<1> SUFFICES ASSUME Init PROVE IInv
    OBVIOUS
<1>0. /\ Local \in Hub /\ Local \in Line /\ Local \notin Conn /\ Conn \subseteq Line
      /\ "none" \notin Hub /\ "none" \notin Line
      /\ Root \notin Id /\ Top \notin Id /\ Root # Top
    BY ConnsAssumption DEF Line, Root, Top, Id
<1>1. /\ conns = {Local} /\ hubOf \in [Line -> Hub \cup {"none"}] /\ hubConn \in [Hub -> Line \cup {"none"}]
      /\ hubOf[Local] = Local /\ \A c \in Conn : hubOf[c] = "none"
      /\ hubConn[Local] = Local /\ \A h \in Hub : h # Local => hubConn[h] = "none"
    BY <1>0 DEF Init
<1>2. \A n \in {Root} \cup Id : node[n] \in NodeRecord /\ node[n].via = "none" /\ node[n].by = "none"
    BY <1>0 DEF Init, Unborn, NodeRecord
<1>3. node[Root].phase = "up" /\ \A n \in Id : node[n].phase = "none"
    BY <1>0 DEF Init, Unborn
<1>4. /\ \A c \in Line : up[c] = <<>> /\ down[c] = <<>>
      /\ up \in [Line -> Seq(UpFrame)] /\ down \in [Line -> Seq(DownFrame)]
      /\ up \in [Line -> Seq(Frame)] /\ down \in [Line -> Seq(Frame)]
      /\ up[Local] \in Seq([k : {"stopped"}, id : Id])
    BY <1>0 DEF Init
<1>5. /\ hub \in [Hub -> [on : {"up", "down", "closed"}, c : Line \cup {"none"}]]
      /\ \A h \in Hub : hub[h].on = "up" => hub[h].c = Local
    BY <1>0 DEF Init
<1>6. /\ insts \in [Hub -> SUBSET Id] /\ dialer \in [Conn -> Hub \cup {"none"}]
      /\ todo \in [Task -> SUBSET Id] /\ \A t \in Task : todo[t] = {}
      /\ cut = {} /\ refused = {} /\ routed = {Local}
    BY DEF Init
<1>7. TypeOK
    <2>1. node \in [{Root} \cup Id -> NodeRecord]
        BY <1>2 DEF Init
    <2>2. conns \subseteq Line /\ routed \subseteq Hub /\ cut \subseteq Conn /\ refused \subseteq Conn
        BY <1>0, <1>1, <1>6
    <2> QED BY <1>1, <1>4, <1>5, <1>6, <2>1, <2>2 DEF TypeOK
<1>8. Framed /\ Dialed
    BY <1>0, <1>1, <1>4, <1>5, <1>7 DEF Framed, Dialed
<1>9. Known
    BY <1>0, <1>1 DEF Known
<1>10. Owned /\ Swept
    BY <1>0, <1>2, <1>3, <1>6, ConnsAssumption DEF Owned, Swept, InTable, Task, Line
<1> QED BY <1>8, <1>9, <1>10 DEF IInv

\* What a step that leaves the registry and the nodes alone keeps.
LEMMA RegistrySame ==
    ASSUME Known, UNCHANGED <<conns, hubOf, hubConn, dialer>>
    PROVE  Known'
BY DEF Known

LEMMA NodesSame ==
    ASSUME Owned, Swept, UNCHANGED <<conns, hubOf, dialer, node, todo>>
    PROVE  Owned' /\ Swept'
BY DEF Owned, Swept, InTable

\* The steps of the streams and of the hubs at their ends.
LEMMA StreamKeeps ==
    ASSUME IInv,
           \/ ServerStops
           \/ \E c \in Conn : Break(c) \/ WorkerGivesUp(c)
           \/ \E h \in Hub : HubNotices(h) \/ HubTakes(h) \/ \E n \in Id : InstanceEnds(h, n)
    PROVE  IInv'
<1>0. /\ Framed /\ Dialed /\ Known /\ Owned /\ Swept /\ TypeOK
      /\ Local \in Line /\ Local \notin Conn /\ Conn \subseteq Line
    BY Typed
<1>a. /\ up \in [Line -> Seq(UpFrame)] /\ down \in [Line -> Seq(DownFrame)]
      /\ up[Local] \in Seq([k : {"stopped"}, id : Id])
      /\ hub \in [Hub -> [on : {"up", "down", "closed"}, c : Line \cup {"none"}]]
      /\ insts \in [Hub -> SUBSET Id]
    BY <1>0 DEF Framed, TypeOK
<1>b. UNCHANGED <<conns, hubOf, hubConn, routed, refused, dialer, node, todo>>
    BY DEF ServerStops, Break, WorkerGivesUp, HubNotices, HubTakes, InstanceEnds, registry, nodes, wire
<1>c. Known' /\ Owned' /\ Swept'
    BY <1>0, <1>b, RegistrySame, NodesSame
\* What has to be shown of the streams.
<1>d. ASSUME up' \in [Line -> Seq(UpFrame)], down' \in [Line -> Seq(DownFrame)],
             up'[Local] \in Seq([k : {"stopped"}, id : Id]),
             hub' \in [Hub -> [on : {"up", "down", "closed"}, c : Line \cup {"none"}]],
             insts' \in [Hub -> SUBSET Id], cut' \subseteq Conn,
             \A h \in Hub : hub'[h].on = "up" => hub'[h] = hub[h],
             \A c \in Conn : up'[c] # <<>> => up[c] # <<>> \/ \E h \in Hub : hub[h].on = "up" /\ hub[h].c = c
      PROVE  IInv'
    <2>1. up' \in [Line -> Seq(Frame)] /\ down' \in [Line -> Seq(Frame)]
        BY <1>d, Frames, FramesTyped
    <2>2. TypeOK'
        BY <1>0, <1>b, <1>d, <2>1 DEF TypeOK
    <2>3. Framed'
        BY <1>d, <2>2 DEF Framed
    <2>4. Dialed'
        <3>1. \A h \in Hub : hub'[h].on = "up" => hub[h].on = "up" /\ hub'[h].c = hub[h].c
            BY <1>d
        <3>2. \A c \in Conn : up'[c] # <<>> => dialer[c] # "none"
            BY <1>0, <1>d DEF Dialed
        <3>3. \A c \in Conn : c \in conns => dialer[c] # "none"
            BY <1>0 DEF Dialed
        <3>4. \A h \in Hub : hub'[h].on = "up" => hub'[h].c \in Line /\ (hub'[h].c \in Conn => dialer[hub'[h].c] # "none")
            BY <1>0, <3>1 DEF Dialed
        <3> QED BY <1>b, <3>2, <3>3, <3>4 DEF Dialed
    <2> QED BY <1>c, <2>3, <2>4 DEF IInv
<1>1. CASE ServerStops
    <2>1. UNCHANGED <<hub, insts, up>> /\ cut' \subseteq Conn
        BY <1>0, <1>1 DEF ServerStops, TypeOK
    <2>2. down' \in [Line -> Seq(DownFrame)]
        BY <1>a, <1>1 DEF ServerStops
    <2> QED BY <1>a, <1>d, <2>1, <2>2
<1>2. ASSUME NEW c \in Conn, Break(c)
      PROVE  IInv'
    <2>1. UNCHANGED <<hub, insts>> /\ cut' \subseteq Conn /\ c # Local /\ c \in conns
        BY <1>0, <1>2 DEF Break, TypeOK
    <2>2. PICK k \in 0..Len(up[c]) : up' = [up EXCEPT ![c] = SubSeq(up[c], 1, k)]
        BY <1>2 DEF Break
    <2>3. SubSeq(up[c], 1, k) \in Seq(UpFrame)
        <3>1. up[c] \in Seq(UpFrame) /\ c \in Line
            BY <1>0, <1>a
        <3> QED BY <2>2, <3>1
    <2>4. up' \in [Line -> Seq(UpFrame)] /\ up'[Local] = up[Local] /\ \A d \in Conn : d # c => up'[d] = up[d]
        BY <1>0, <1>a, <2>1, <2>2, <2>3
    <2>5. up'[c] # <<>> => up[c] # <<>>
        <3>1. up'[c] = SubSeq(up[c], 1, k) /\ up[c] \in Seq(UpFrame)
            BY <1>0, <1>a, <2>2
        <3>2. ASSUME up[c] = <<>> PROVE SubSeq(up[c], 1, k) = <<>>
            BY <2>2, <3>2
        <3> QED BY <3>1, <3>2
    <2>6. down' \in [Line -> Seq(DownFrame)]
        BY <1>0, <1>a, <1>2 DEF Break
    <2> QED BY <1>a, <1>d, <2>1, <2>4, <2>5, <2>6
<1>3. ASSUME NEW c \in Conn, WorkerGivesUp(c)
      PROVE  IInv'
    <2>1. UNCHANGED <<hub, insts, cut, down>> /\ up' = [up EXCEPT ![c] = <<>>] /\ c # Local
        BY <1>0, <1>3 DEF WorkerGivesUp, wire
    <2>2. up' \in [Line -> Seq(UpFrame)] /\ up'[Local] = up[Local]
          /\ \A d \in Conn : up'[d] # <<>> => up[d] # <<>>
        BY <1>0, <1>a, <2>1
    <2>3. cut' \subseteq Conn
        BY <1>0, <2>1 DEF TypeOK
    <2> QED BY <1>a, <1>d, <2>1, <2>2, <2>3
<1>4. ASSUME NEW h \in Hub, HubNotices(h)
      PROVE  IInv'
    <2>1. UNCHANGED <<cut, up, down>> /\ hub' = [hub EXCEPT ![h].on = "down"] /\ insts' = [insts EXCEPT ![h] = {}]
        BY <1>4 DEF HubNotices
    <2>2. hub' \in [Hub -> [on : {"up", "down", "closed"}, c : Line \cup {"none"}]]
          /\ \A g \in Hub : hub'[g].on = "up" => hub'[g] = hub[g]
        BY <1>a, <2>1
    <2>3. cut' \subseteq Conn /\ insts' \in [Hub -> SUBSET Id]
        BY <1>0, <1>a, <2>1 DEF TypeOK
    <2> QED BY <1>a, <1>d, <2>1, <2>2, <2>3
\* An end is reported over the stream of a hub that is up.
<1>e. ASSUME NEW h \in Hub, hub[h].on = "up", NEW n \in Id, up' = Put(up, hub[h].c, F("stopped", n))
      PROVE  /\ up' \in [Line -> Seq(UpFrame)] /\ up'[Local] \in Seq([k : {"stopped"}, id : Id])
             /\ \A c \in Conn : up'[c] # <<>> => up[c] # <<>> \/ \E g \in Hub : hub[g].on = "up" /\ hub[g].c = c
    <2>1. F("stopped", n) \in UpFrame /\ F("stopped", n) \in [k : {"stopped"}, id : Id]
        BY DEF F, UpFrame
    <2>2. up' \in [Line -> Seq(UpFrame)] /\ \A c \in Line : c # hub[h].c => up'[c] = up[c]
        BY <1>e, <2>1, PutUp
    <2>3. up'[Local] = up[Local] \/ up'[Local] = Append(up[Local], F("stopped", n))
        BY <1>0, <1>a, <1>e DEF Put
    <2>4. up'[Local] \in Seq([k : {"stopped"}, id : Id])
        <3>1. Append(up[Local], F("stopped", n)) \in Seq([k : {"stopped"}, id : Id])
            BY <1>a, <2>1, AppendProperties
        <3> QED BY <1>a, <2>3, <3>1
    <2> QED BY <1>0, <1>e, <2>2, <2>4
<1>5. ASSUME NEW h \in Hub, HubTakes(h)
      PROVE  IInv'
    <2>1. /\ hub[h].on = "up" /\ down[hub[h].c] # <<>> /\ down' = [down EXCEPT ![hub[h].c] = Tail(down[hub[h].c])]
          /\ UNCHANGED cut
        BY <1>5 DEF HubTakes
    <2>2. hub[h].c \in Line
        BY <1>0, <2>1 DEF Dialed
    <2>3. /\ Head(down[hub[h].c]) \in DownFrame /\ Tail(down[hub[h].c]) \in Seq(DownFrame)
        BY <1>a, <2>1, <2>2, HeadTailProperties
    <2>4. down' \in [Line -> Seq(DownFrame)] /\ cut' \subseteq Conn
        BY <1>0, <1>a, <2>1, <2>3 DEF TypeOK
    <2> DEFINE f == Head(down[hub[h].c])
    <2>5. CASE f.k = "start" /\ insts' = [insts EXCEPT ![h] = @ \cup {f.id}] /\ UNCHANGED <<hub, up>>
        <3>1. f.id \in Id
            BY <2>3, <2>5 DEF DownFrame
        <3>2. insts' \in [Hub -> SUBSET Id]
            BY <1>a, <2>5, <3>1
        <3> QED BY <1>a, <1>d, <2>4, <2>5, <3>2
    <2>6. CASE /\ f.k = "stop" /\ f.id \in insts[h]
               /\ insts' = [insts EXCEPT ![h] = @ \ {f.id}] /\ up' = Put(up, hub[h].c, F("stopped", f.id))
               /\ UNCHANGED hub
        <3>1. f.id \in Id
            BY <1>a, <2>6
        <3>2. insts' \in [Hub -> SUBSET Id]
            BY <1>a, <2>6
        <3>3. /\ up' \in [Line -> Seq(UpFrame)] /\ up'[Local] \in Seq([k : {"stopped"}, id : Id])
              /\ \A c \in Conn : up'[c] # <<>> => up[c] # <<>> \/ \E g \in Hub : hub[g].on = "up" /\ hub[g].c = c
            BY <1>e, <2>1, <2>6, <3>1
        <3> QED BY <1>a, <1>d, <2>4, <2>6, <3>2, <3>3
    <2>7. CASE UNCHANGED <<hub, insts, up>>
        BY <1>a, <1>d, <2>4, <2>7
    <2>8. CASE hub' = [hub EXCEPT ![h].on = "closed"] /\ UNCHANGED <<insts, up>>
        <3>1. hub' \in [Hub -> [on : {"up", "down", "closed"}, c : Line \cup {"none"}]]
              /\ \A g \in Hub : hub'[g].on = "up" => hub'[g] = hub[g]
            BY <1>a, <2>8
        <3> QED BY <1>a, <1>d, <2>4, <2>8, <3>1
    <2> QED BY <1>5, <2>5, <2>6, <2>7, <2>8 DEF HubTakes
<1>6. ASSUME NEW h \in Hub, NEW n \in Id, InstanceEnds(h, n)
      PROVE  IInv'
    <2>1. /\ hub[h].on = "up" /\ insts' = [insts EXCEPT ![h] = @ \ {n}]
          /\ up' = Put(up, hub[h].c, F("stopped", n)) /\ UNCHANGED <<hub, cut, down>>
        BY <1>6 DEF InstanceEnds
    <2>2. insts' \in [Hub -> SUBSET Id] /\ cut' \subseteq Conn
        BY <1>0, <1>a, <2>1 DEF TypeOK
    <2> QED BY <1>a, <1>d, <1>e, <2>1, <2>2
<1> QED BY <1>1, <1>2, <1>3, <1>4, <1>5, <1>6

\* A hub dials: the stream is new to all.
LEMMA DialKeeps ==
    ASSUME IInv, NEW h \in Hub, NEW c \in Conn, Dial(h, c)
    PROVE  IInv'
<1>0. /\ Framed /\ Dialed /\ Known /\ Owned /\ Swept /\ TypeOK
      /\ Local \in Line /\ Local \notin Conn /\ Conn \subseteq Line /\ "none" \notin Hub /\ "none" \notin Line
    BY Typed
<1>1. /\ dialer[c] = "none" /\ dialer' = [dialer EXCEPT ![c] = h]
      /\ hub' = [hub EXCEPT ![h] = [on |-> "up", c |-> c]] /\ conns' = conns \cup {c}
      /\ up' = [up EXCEPT ![c] = <<F("push", Root)>>]
      /\ UNCHANGED <<insts, cut, down, hubOf, hubConn, routed, refused, node, todo>>
    BY DEF Dial, nodes
<1>2. /\ dialer' \in [Conn -> Hub \cup {"none"}] /\ dialer'[c] = h /\ \A d \in Conn : d # c => dialer'[d] = dialer[d]
      /\ hub' \in [Hub -> [on : {"up", "down", "closed"}, c : Line \cup {"none"}]]
      /\ hub'[h] = [on |-> "up", c |-> c] /\ \A g \in Hub : g # h => hub'[g] = hub[g]
    BY <1>0, <1>1 DEF TypeOK
<1>3. /\ up' \in [Line -> Seq(UpFrame)] /\ up'[Local] = up[Local] /\ \A d \in Conn : d # c => up'[d] = up[d]
    <2>1. <<F("push", Root)>> \in Seq(UpFrame)
        BY DEF F, UpFrame
    <2> QED BY <1>0, <1>1, <2>1 DEF Framed
<1>4. Framed'
    <2>1. up' \in [Line -> Seq(Frame)]
        BY <1>3, Frames, FramesTyped
    <2>2. conns' \subseteq Line
        BY <1>0, <1>1 DEF TypeOK
    <2>3. TypeOK'
        BY <1>0, <1>1, <1>2, <2>1, <2>2 DEF TypeOK
    <2> QED BY <1>0, <1>1, <1>3, <2>3 DEF Framed
<1>5. Dialed'
    <2>1. \A g \in Hub : hub'[g].on = "up" =>
             hub'[g].c \in Line /\ (hub'[g].c \in Conn => dialer'[hub'[g].c] # "none")
        BY <1>0, <1>2 DEF Dialed
    <2>2. \A d \in Conn : up'[d] # <<>> \/ d \in conns' => dialer'[d] # "none"
        BY <1>0, <1>1, <1>2, <1>3 DEF Dialed
    <2> QED BY <2>1, <2>2 DEF Dialed
<1>6. c \notin conns /\ hubOf[c] = "none" /\ \A g \in Hub : hubConn[g] # c
    BY <1>0, <1>1 DEF Dialed, Known
<1>7. Known'
    <2>1. \A d \in conns' : hubOf'[d] # "none" => hubConn'[hubOf'[d]] = d
        BY <1>0, <1>1, <1>6 DEF Known
    <2>2. \A g \in Hub : /\ hubConn'[g] \in conns' => hubOf'[hubConn'[g]] = g
                         /\ hubConn'[g] \in Conn => dialer'[hubConn'[g]] = g
        BY <1>0, <1>1, <1>2, <1>6 DEF Known
    <2>3. \A d \in Conn : hubOf'[d] \in {"none", dialer'[d]}
        BY <1>0, <1>1, <1>2, <1>6 DEF Known
    <2> QED BY <2>1, <2>2, <2>3 DEF Known
<1>8. \A n \in Id : node[n].via # c
    BY <1>0, <1>1 DEF Owned
<1>9. \A d \in Conn : \A n \in todo[d] : n \in Id
    BY <1>0 DEF TypeOK, Task
<1>10. Owned' /\ Swept'
    BY <1>0, <1>1, <1>2, <1>8, <1>9 DEF Owned, Swept, InTable
<1> QED BY <1>4, <1>5, <1>7, <1>10 DEF IInv

\* The kernel's end of a stream closes: its identity is free, its routines go on the list.
LEMMA DropKeeps ==
    ASSUME IInv, NEW c \in Conn, ServerNotices(c)
    PROVE  IInv'
<1>0. /\ Framed /\ Dialed /\ Known /\ Owned /\ Swept /\ TypeOK
      /\ Local \in Line /\ Local \notin Conn /\ Conn \subseteq Line
      /\ "none" \notin Hub /\ "none" \notin Line /\ "shutdown" \notin Conn /\ Conn \subseteq Task
    BY Typed
<1>1. /\ c \in conns /\ conns' = conns \ {c} /\ routed' = routed \ {hubOf[c]} /\ refused' = refused \ {c}
      /\ hubConn' = [g \in Hub |-> IF g = hubOf[c] /\ hubConn[g] = c THEN "none" ELSE hubConn[g]]
      /\ todo' = [todo EXCEPT ![c] = {n \in Id : InTable(n) /\ node[n].owner = hubOf[c]}]
      /\ hubOf' = [hubOf EXCEPT ![c] = "none"]
      /\ cut' = cut \cup {c} /\ UNCHANGED <<hub, insts, dialer, up, down, node>>
    BY DEF ServerNotices, DropConn
<1>2. /\ \A g \in Hub : hubConn'[g] = hubConn[g] \/ (hubConn[g] = c /\ hubConn'[g] = "none" /\ g = hubOf[c])
      /\ hubConn' \in [Hub -> Line \cup {"none"}]
      /\ hubOf' \in [Line -> Hub \cup {"none"}] /\ hubOf'[c] = "none"
      /\ \A d \in Line : d # c => hubOf'[d] = hubOf[d]
      /\ conns \subseteq Line
    BY <1>0, <1>1 DEF TypeOK
<1>3. Framed'
    <2>1. todo' \in [Task -> SUBSET Id]
        BY <1>0, <1>1 DEF TypeOK
    <2>2. TypeOK'
        BY <1>0, <1>1, <1>2, <2>1 DEF TypeOK
    <2> QED BY <1>0, <1>1, <2>2 DEF Framed
<1>4. Dialed'
    BY <1>0, <1>1 DEF Dialed
<1>5. Known'
    <2>1. ASSUME NEW d \in conns', hubOf'[d] # "none" PROVE hubConn'[hubOf'[d]] = d
        <3>1. d \in conns /\ d # c /\ hubOf'[d] = hubOf[d] /\ hubOf[d] \in Hub
            BY <1>0, <1>1, <1>2, <2>1 DEF TypeOK
        <3>2. hubConn[hubOf[d]] = d
            BY <1>0, <2>1, <3>1 DEF Known
        <3> QED BY <1>2, <3>1, <3>2
    <2>2. ASSUME NEW g \in Hub
          PROVE  /\ hubConn'[g] \in conns' => hubOf'[hubConn'[g]] = g
                 /\ hubConn'[g] \in Conn => dialer'[hubConn'[g]] = g
        BY <1>0, <1>1, <1>2 DEF Known
    <2>3. \A d \in Conn : hubOf'[d] \in {"none", dialer'[d]}
        BY <1>0, <1>1, <1>2 DEF Known
    <2> QED BY <2>1, <2>2, <2>3 DEF Known
\* Who is owned by its identity came over this connection, or over one that has gone.
<1>6. ASSUME NEW n \in Id, InTable(n), node[n].owner = hubOf[c]
      PROVE  node[n].via \notin conns'
    <2>1. node[n].via \in conns => hubOf[node[n].via] = hubOf[c] /\ hubOf[c] # "none"
        BY <1>0, <1>6 DEF Owned
    <2>2. node[n].via \in conns => node[n].via = c
        BY <1>0, <1>1, <2>1 DEF Known
    <2> QED BY <1>1, <2>2
<1>7. Owned'
    <2>1. ASSUME NEW n \in Id
          PROVE  /\ InTable(n)' => node'[n].owner # "none"
                 /\ InTable(n)' /\ node'[n].via \in conns' => hubOf'[node'[n].via] = node'[n].owner
                 /\ node'[n].via \in Conn => dialer'[node'[n].via] # "none"
                 /\ node'[n].by \in Conn => node'[n].via \notin conns'
                 /\ node'[n].phase = "none" => node'[n].by \notin Conn
        BY <1>0, <1>1, <1>2 DEF Owned, InTable
    <2>2. ASSUME NEW d \in Conn, NEW n \in todo'[d]
          PROVE  node'[n].phase # "none" /\ node'[n].via \notin conns'
        <3>1. CASE d = c
            <4>1. n \in Id /\ InTable(n) /\ node[n].owner = hubOf[c]
                BY <1>0, <1>1, <2>2, <3>1 DEF TypeOK
            <4> QED BY <1>1, <1>6, <4>1 DEF InTable
        <3>2. CASE d # c
            <4>1. n \in todo[d]
                BY <1>0, <1>1, <2>2, <3>2 DEF TypeOK
            <4> QED BY <1>0, <1>1, <4>1 DEF Owned
        <3> QED BY <3>1, <3>2
    <2> QED BY <2>1, <2>2 DEF Owned
<1>8. Swept'
    <2>1. todo'["shutdown"] = todo["shutdown"]
        BY <1>0, <1>1 DEF TypeOK, Task
    <2> QED BY <1>0, <1>1, <2>1 DEF Swept
<1> QED BY <1>3, <1>4, <1>5, <1>7, <1>8 DEF IInv

\* What becomes of a node on its stop path: it goes, or it stays with its owner and the
\* connection it came over, and only a task that has it on its list stops it.
Ages(n) ==
    \/ node'[n] = Gone
    \/ /\ node'[n].owner = node[n].owner /\ node'[n].via = node[n].via /\ node'[n].late = node[n].late
       /\ node'[n].phase = node[n].phase \/ (InTable(n) /\ node'[n].phase \in {"kids", "told"})
       /\ node'[n].by \in Conn => node'[n].by = node[n].by \/ n \in todo[node'[n].by]

LEMMA StopPathKeeps ==
    ASSUME IInv, UNCHANGED <<conns, hubOf, dialer>>, \A n \in Id : Ages(n),
           node'[Root].phase = "gone" => node[Root].phase = "gone",
           \A c \in Conn : todo'[c] \subseteq todo[c],
           \A n \in todo["shutdown"] : n \in todo'["shutdown"] \/ node[n].phase # "up"
    PROVE  Owned' /\ Swept'
<1>0. /\ Owned /\ Swept /\ "none" \notin Line /\ "none" \notin Conn /\ conns \subseteq Line
      /\ \A c \in Conn : todo[c] \subseteq Id
    BY Typed DEF TypeOK
<1>1. Gone.via = "none" /\ Gone.by = "none" /\ Gone.phase = "gone"
    BY DEF Gone, Unborn
<1>2. ASSUME NEW n \in Id, node'[n] = Gone
      PROVE  /\ ~ InTable(n)' /\ node'[n].via \notin Conn /\ node'[n].by \notin Conn
             /\ node'[n].via \notin conns' /\ node'[n].phase # "none" /\ node'[n].phase # "up"
    BY <1>0, <1>1, <1>2 DEF InTable
<1>3. ASSUME NEW n \in Id, node'[n] # Gone
      PROVE  /\ node'[n].owner = node[n].owner /\ node'[n].via = node[n].via /\ node'[n].late = node[n].late
             /\ node'[n].phase = node[n].phase \/ (InTable(n) /\ node'[n].phase \in {"kids", "told"})
             /\ node'[n].by \in Conn => node'[n].by = node[n].by \/ n \in todo[node'[n].by]
    BY <1>3 DEF Ages
<1>4. ASSUME NEW n \in Id
      PROVE  /\ InTable(n)' => node'[n].owner # "none"
             /\ InTable(n)' /\ node'[n].via \in conns' => hubOf'[node'[n].via] = node'[n].owner
             /\ node'[n].via \in Conn => dialer'[node'[n].via] # "none"
             /\ node'[n].by \in Conn => node'[n].via \notin conns'
             /\ node'[n].phase = "none" => node'[n].by \notin Conn
    <2>1. CASE node'[n] = Gone
        BY <1>2, <2>1
    <2>2. CASE node'[n] # Gone
        <3>1. InTable(n)' => InTable(n)
            BY <1>3, <2>2 DEF InTable
        <3>2. node'[n].by \in Conn => node[n].via \notin conns
            BY <1>0, <1>3, <2>2 DEF Owned
        <3>3. node'[n].phase = "none" => node'[n].by \notin Conn
            <4>1. node[n].by \in Conn => node[n].phase # "none"
                BY <1>0 DEF Owned
            <4>2. \A c \in Conn : n \in todo[c] => node[n].phase # "none"
                BY <1>0 DEF Owned
            <4> QED BY <1>3, <2>2, <4>1, <4>2
        <3> QED BY <1>0, <1>3, <2>2, <3>1, <3>2, <3>3 DEF Owned
    <2> QED BY <2>1, <2>2
<1>5. ASSUME NEW c \in Conn, NEW n \in todo'[c]
      PROVE  node'[n].phase # "none" /\ node'[n].via \notin conns'
    <2>1. n \in Id /\ node[n].phase # "none" /\ node[n].via \notin conns
        BY <1>0, <1>5 DEF Owned
    <2>2. CASE node'[n] = Gone
        BY <1>2, <2>1, <2>2
    <2>3. CASE node'[n] # Gone
        BY <1>3, <2>1, <2>3
    <2> QED BY <2>2, <2>3
<1>6. Swept'
    <2>1. ASSUME node'[Root].phase = "gone", NEW n \in Id, node'[n].phase = "up"
          PROVE  node'[n].late \/ n \in todo'["shutdown"]
        <3>1. node'[n] # Gone
            BY <1>2, <2>1
        <3>2. node[n].phase = "up" /\ node'[n].late = node[n].late
            BY <1>3, <2>1, <3>1
        <3> QED BY <1>0, <2>1, <3>2 DEF Swept
    <2> QED BY <2>1 DEF Swept
<1> QED BY <1>4, <1>5, <1>6 DEF Owned

\* A hub pushes its catalog: it is known by this connection, or refused.
LEMMA PushKeeps ==
    ASSUME IInv, NEW c \in Conn, up[c] # <<>>, CatalogPush(dialer[c], c),
           up' = [up EXCEPT ![c] = Tail(up[c])],
           UNCHANGED <<hub, insts, dialer, cut, conns, node, todo>>
    PROVE  IInv'
<1>0. /\ Framed /\ Dialed /\ Known /\ Owned /\ Swept /\ TypeOK
      /\ Local \in Line /\ Local \notin Conn /\ Conn \subseteq Line
      /\ "none" \notin Hub /\ "none" \notin Line
    BY Typed
<1> DEFINE h == dialer[c]
<1>1. h \in Hub
    BY <1>0 DEF Dialed, TypeOK
<1>2. /\ up' \in [Line -> Seq(UpFrame)] /\ up'[Local] = up[Local]
      /\ \A d \in Conn : up'[d] # <<>> => up[d] # <<>>
    <2>1. up[c] \in Seq(UpFrame) /\ up \in [Line -> Seq(UpFrame)]
        BY <1>0 DEF Framed
    <2>2. Tail(up[c]) \in Seq(UpFrame)
        BY <2>1, HeadTailProperties
    <2> QED BY <1>0, <2>1, <2>2
<1>3. down' \in [Line -> Seq(DownFrame)]
    <2>1. F("refused", Root) \in DownFrame
        BY DEF F, DownFrame
    <2>2. down \in [Line -> Seq(DownFrame)]
        BY <1>0 DEF Framed
    <2> QED BY <2>1, <2>2, PutDown DEF CatalogPush
<1>4. \/ /\ hubConn[h] \in {"none", c} /\ hubConn' = [hubConn EXCEPT ![h] = c]
         /\ hubOf' = [hubOf EXCEPT ![c] = IF c \notin conns THEN @ ELSE h] /\ routed' = routed \cup {h}
         /\ refused' = refused
      \/ /\ UNCHANGED <<hubConn, hubOf, routed>> /\ refused' \in {refused, refused \cup {c}}
    BY <1>0 DEF CatalogPush, TypeOK
<1>5. CASE UNCHANGED <<hubConn, hubOf, routed>> /\ refused' \in {refused, refused \cup {c}}
    <2>1. Known' /\ Owned' /\ Swept'
        BY <1>0, <1>5, RegistrySame, NodesSame
    <2>2. Dialed'
        BY <1>0, <1>2 DEF Dialed
    <2>3. up' \in [Line -> Seq(Frame)] /\ down' \in [Line -> Seq(Frame)]
        BY <1>2, <1>3, Frames, FramesTyped
    <2>4. TypeOK'
        BY <1>0, <1>5, <2>3 DEF TypeOK
    <2>5. Framed'
        BY <1>0, <1>2, <1>3, <2>4 DEF Framed
    <2> QED BY <2>1, <2>2, <2>5 DEF IInv
<1>6. CASE /\ hubConn[h] \in {"none", c} /\ hubConn' = [hubConn EXCEPT ![h] = c]
           /\ hubOf' = [hubOf EXCEPT ![c] = IF c \notin conns THEN @ ELSE h] /\ routed' = routed \cup {h}
           /\ refused' = refused
    <2>1. /\ hubConn' \in [Hub -> Line \cup {"none"}] /\ hubOf' \in [Line -> Hub \cup {"none"}]
          /\ hubConn'[h] = c /\ \A g \in Hub : g # h => hubConn'[g] = hubConn[g]
          /\ \A d \in Line : d # c => hubOf'[d] = hubOf[d]
          /\ c \in conns => hubOf'[c] = h
          /\ c \notin conns => hubOf'[c] = hubOf[c]
          /\ conns \subseteq Line
        BY <1>0, <1>1, <1>6 DEF TypeOK
    <2>2. hubOf[c] \in {"none", h}
        BY <1>0 DEF Known
    <2>3. Known'
        <3>1. ASSUME NEW d \in conns', hubOf'[d] # "none" PROVE hubConn'[hubOf'[d]] = d
            <4>1. CASE d = c
                BY <2>1, <3>1, <4>1
            <4>2. CASE d # c
                <5>1. hubOf'[d] = hubOf[d] /\ hubOf[d] \in Hub /\ hubConn[hubOf[d]] = d
                    BY <1>0, <2>1, <3>1, <4>2 DEF Known, TypeOK
                <5> QED BY <1>0, <1>6, <2>1, <4>2, <5>1
            <4> QED BY <4>1, <4>2
        <3>2. ASSUME NEW g \in Hub
              PROVE  /\ hubConn'[g] \in conns' => hubOf'[hubConn'[g]] = g
                     /\ hubConn'[g] \in Conn => dialer'[hubConn'[g]] = g
            <4>1. CASE g = h
                BY <2>1, <4>1
            <4>2. CASE g # h
                <5>1. hubConn'[g] = hubConn[g] /\ (hubConn[g] \in Conn => dialer[hubConn[g]] = g)
                    BY <1>0, <2>1, <4>2 DEF Known
                <5>2. hubConn[g] # c
                    BY <4>2, <5>1
                <5> QED BY <1>0, <2>1, <5>1, <5>2 DEF Known
            <4> QED BY <4>1, <4>2
        <3>3. \A d \in Conn : hubOf'[d] \in {"none", dialer'[d]}
            BY <1>0, <2>1 DEF Known
        <3> QED BY <3>1, <3>2, <3>3 DEF Known
    <2>4. Owned'
        <3>1. \A n \in Id : /\ node'[n].via \in Conn => dialer'[node'[n].via] # "none"
                            /\ node'[n].by \in Conn => node'[n].via \notin conns'
                            /\ InTable(n)' => node'[n].owner # "none"
                            /\ node'[n].phase = "none" => node'[n].by \notin Conn
            BY <1>0 DEF Owned, InTable
        <3>2. ASSUME NEW n \in Id, InTable(n)', node'[n].via \in conns'
              PROVE  hubOf'[node'[n].via] = node'[n].owner
            <4>1. InTable(n) /\ hubOf[node[n].via] = node[n].owner /\ node[n].owner # "none"
                BY <1>0, <3>2 DEF Owned, InTable
            <4> QED BY <2>1, <2>2, <3>2, <4>1
        <3>3. \A d \in Conn : \A n \in todo'[d] : node'[n].phase # "none" /\ node'[n].via \notin conns'
            BY <1>0 DEF Owned
        <3> QED BY <3>1, <3>2, <3>3 DEF Owned
    <2>5. Swept'
        BY <1>0 DEF Swept
    <2>6. Dialed'
        BY <1>0, <1>2 DEF Dialed
    <2>7. up' \in [Line -> Seq(Frame)] /\ down' \in [Line -> Seq(Frame)]
        BY <1>2, <1>3, Frames, FramesTyped
    <2>8. TypeOK'
        BY <1>0, <1>1, <1>6, <2>1, <2>7 DEF TypeOK
    <2>9. Framed'
        BY <1>0, <1>2, <1>3, <2>8 DEF Framed
    <2> QED BY <2>3, <2>4, <2>5, <2>6, <2>9 DEF IInv
<1> QED BY <1>4, <1>5, <1>6

\* The worker of a connection dispatches the first frame of its queue.
LEMMA DispatchKeeps ==
    ASSUME IInv, NEW c \in Line, Dispatch(c)
    PROVE  IInv'
<1>0. /\ Framed /\ Dialed /\ Known /\ Owned /\ Swept /\ TypeOK
      /\ Local \in Line /\ Local \notin Conn /\ Conn \subseteq Line /\ Root \notin Id
      /\ node \in [{Root} \cup Id -> NodeRecord] /\ "own" \notin Conn
    BY Typed
<1> DEFINE f == Head(up[c])
<1>1. up[c] # <<>> /\ up' = [up EXCEPT ![c] = Tail(up[c])] /\ UNCHANGED <<hub, insts, dialer, cut, conns, todo>>
    BY DEF Dispatch, wire
<1>2. up[c] \in Seq(UpFrame) /\ up \in [Line -> Seq(UpFrame)] /\ (c = Local => up[c] \in Seq([k : {"stopped"}, id : Id]))
    BY <1>0 DEF Framed
<1>3. /\ f \in UpFrame /\ Tail(up[c]) \in Seq(UpFrame)
      /\ c = Local => f.k = "stopped" /\ Tail(up[c]) \in Seq([k : {"stopped"}, id : Id])
    <2>1. f \in UpFrame /\ Tail(up[c]) \in Seq(UpFrame)
        BY <1>1, <1>2, HeadTailProperties
    <2>2. ASSUME c = Local PROVE f \in [k : {"stopped"}, id : Id] /\ Tail(up[c]) \in Seq([k : {"stopped"}, id : Id])
        BY <1>1, <1>2, <2>2, HeadTailProperties
    <2> QED BY <2>1, <2>2
<1>4. CASE f.k = "push"
    <2>1. c \in Conn
        BY <1>3, <1>4 DEF Line
    <2>2. CatalogPush(dialer[c], c) /\ UNCHANGED node
        BY <1>4 DEF Dispatch
    <2> QED BY <1>1, <2>1, <2>2, PushKeeps
<1>5. CASE f.k = "stopped"
    <2>1. UNCHANGED <<down, hubOf, hubConn, routed, refused>> /\ f.id \in Id
        BY <1>3, <1>5 DEF Dispatch, UpFrame
    <2>2. \/ node' = node
          \/ /\ InTable(f.id)
             /\ node' = [node EXCEPT ![f.id].over = TRUE,
                                     ![f.id].by = IF @ = "none" THEN "own" ELSE @,
                                     ![f.id].waits = IF Stopping(f.id) THEN @ ELSE Kids(f.id),
                                     ![f.id].phase = IF @ = "up" THEN "kids" ELSE @]
        BY <1>5 DEF Dispatch
    <2>3. /\ node' \in [{Root} \cup Id -> NodeRecord] /\ node'[Root] = node[Root] /\ \A n \in Id : Ages(n)
        <3>1. CASE node' = node
            BY <1>0, <3>1 DEF Ages
        <3>2. CASE /\ InTable(f.id)
                   /\ node' = [node EXCEPT ![f.id].over = TRUE,
                                           ![f.id].by = IF @ = "none" THEN "own" ELSE @,
                                           ![f.id].waits = IF Stopping(f.id) THEN @ ELSE Kids(f.id),
                                           ![f.id].phase = IF @ = "up" THEN "kids" ELSE @]
            <4>1. Kids(f.id) \subseteq Id
                BY DEF Kids
            <4>2. PICK b \in {"own"} \cup {node[f.id].by}, w \in {node[f.id].waits, Kids(f.id)},
                       p \in {node[f.id].phase, "kids"} :
                       node' = [node EXCEPT ![f.id] = [node[f.id] EXCEPT !.over = TRUE, !.by = b, !.waits = w, !.phase = p]]
                <5>1. node[f.id] \in NodeRecord /\ f.id \in {Root} \cup Id
                    BY <1>0, <2>1
                <5>2. node' = [node EXCEPT ![f.id] = [node[f.id] EXCEPT !.over = TRUE,
                                     !.by = IF node[f.id].by = "none" THEN "own" ELSE node[f.id].by,
                                     !.waits = IF Stopping(f.id) THEN node[f.id].waits ELSE Kids(f.id),
                                     !.phase = IF node[f.id].phase = "up" THEN "kids" ELSE node[f.id].phase]]
                    BY <1>0, <2>1, <3>2, <5>1 DEF NodeRecord
                <5> QED BY <5>2
            <4>3. [node[f.id] EXCEPT !.over = TRUE, !.by = b, !.waits = w, !.phase = p] \in NodeRecord
                <5>1. node[f.id] \in NodeRecord
                    BY <1>0, <2>1
                <5> QED BY <4>1, <4>2, <5>1 DEF NodeRecord
            <4>4. /\ node' \in [{Root} \cup Id -> NodeRecord]
                  /\ \A n \in {Root} \cup Id : n # f.id => node'[n] = node[n]
                  /\ node'[f.id] = [node[f.id] EXCEPT !.over = TRUE, !.by = b, !.waits = w, !.phase = p]
                BY <1>0, <2>1, <4>2, <4>3
            <4>5. /\ node'[f.id].owner = node[f.id].owner /\ node'[f.id].via = node[f.id].via
                  /\ node'[f.id].late = node[f.id].late
                  /\ node'[f.id].phase = node[f.id].phase \/ node'[f.id].phase = "kids"
                  /\ node'[f.id].by = node[f.id].by \/ node'[f.id].by = "own"
                <5>1. node[f.id] \in NodeRecord
                    BY <1>0, <2>1
                <5> QED BY <4>2, <4>4, <5>1 DEF NodeRecord
            <4> QED BY <1>0, <2>1, <3>2, <4>4, <4>5 DEF Ages
        <3> QED BY <2>2, <3>1, <3>2
    <2>4. Owned' /\ Swept'
        BY <1>1, <2>1, <2>3, StopPathKeeps
    <2>5. Known'
        BY <1>0, <1>1, <2>1, RegistrySame
    <2>6. /\ up' \in [Line -> Seq(UpFrame)] /\ up'[Local] \in Seq([k : {"stopped"}, id : Id])
          /\ \A d \in Conn : up'[d] # <<>> => up[d] # <<>>
        BY <1>0, <1>1, <1>2, <1>3 DEF Framed
    <2>7. up' \in [Line -> Seq(Frame)]
        BY <2>6, Frames, FramesTyped
    <2>8. TypeOK'
        BY <1>0, <1>1, <2>1, <2>3, <2>7 DEF TypeOK
    <2>9. Framed' /\ Dialed'
        BY <1>0, <1>1, <2>1, <2>6, <2>8 DEF Framed, Dialed
    <2> QED BY <2>4, <2>5, <2>9 DEF IInv
<1> QED BY <1>4, <1>5 DEF Dispatch

\* A routine is created over the live connection of its hub.
LEMMA CreateKeeps ==
    ASSUME IInv, NEW n \in Id, NEW p \in {Root, Top} \cup Id, NEW h \in Hub, Create(n, p, h)
    PROVE  IInv'
<1>0. /\ Framed /\ Dialed /\ Known /\ Owned /\ Swept /\ TypeOK
      /\ Local \in Line /\ Local \notin Conn /\ Conn \subseteq Line /\ Root \notin Id
      /\ node \in [{Root} \cup Id -> NodeRecord] /\ "none" \notin Hub
    BY Typed
<1>1. /\ node[n].phase = "none" /\ hubConn[h] \in conns /\ hubConn[h] \in Line
      /\ UNCHANGED <<hub, insts, dialer, cut, up, conns, hubOf, hubConn, routed, refused, todo>>
      /\ down' = Put(down, hubConn[h], F("start", n))
    BY <1>0 DEF Create, wire, registry, Reachable, TypeOK
<1>2. PICK b \in BOOLEAN : /\ b = ~ InTable(Root)
                           /\ node' = [node EXCEPT ![n] = [node[n] EXCEPT !.phase = "up", !.owner = h,
                                       !.parent = p, !.via = hubConn[h], !.late = b]]
    <2>1. node' = [node EXCEPT ![n] = [node[n] EXCEPT !.phase = "up", !.owner = h,
                                       !.parent = p, !.via = hubConn[h], !.late = ~ InTable(Root)]]
        BY <1>0 DEF Create
    <2> QED BY <2>1 DEF InTable
<1>3. /\ node' \in [{Root} \cup Id -> NodeRecord]
      /\ \A k \in {Root} \cup Id : k # n => node'[k] = node[k]
      /\ node'[n].phase = "up" /\ node'[n].owner = h /\ node'[n].via = hubConn[h]
      /\ node'[n].by = node[n].by /\ node'[n].late = b
    <2>1. node[n] \in NodeRecord
        BY <1>0
    <2>2. [node[n] EXCEPT !.phase = "up", !.owner = h, !.parent = p, !.via = hubConn[h], !.late = b] \in NodeRecord
        BY <1>1, <1>2, <2>1 DEF NodeRecord
    <2>3. /\ node' \in [{Root} \cup Id -> NodeRecord]
          /\ \A k \in {Root} \cup Id : k # n => node'[k] = node[k]
          /\ node'[n] = [node[n] EXCEPT !.phase = "up", !.owner = h, !.parent = p, !.via = hubConn[h], !.late = b]
        BY <1>0, <1>2, <2>2
    <2> QED BY <2>1, <2>3 DEF NodeRecord
<1>4. /\ hubOf[hubConn[h]] = h /\ (hubConn[h] \in Conn => dialer[hubConn[h]] # "none")
    BY <1>0, <1>1 DEF Known
<1>5. Owned'
    <2>1. \A c \in Conn : \A k \in todo[c] : k # n /\ k \in Id
        BY <1>0, <1>1 DEF Owned, TypeOK, Task
    <2>2. ASSUME NEW k \in Id
          PROVE  /\ InTable(k)' => node'[k].owner # "none"
                 /\ InTable(k)' /\ node'[k].via \in conns' => hubOf'[node'[k].via] = node'[k].owner
                 /\ node'[k].via \in Conn => dialer'[node'[k].via] # "none"
                 /\ node'[k].phase = "none" => node'[k].by \notin Conn
        BY <1>0, <1>1, <1>3, <1>4 DEF Owned, InTable
    <2>3. ASSUME NEW k \in Id, node'[k].by \in Conn PROVE node'[k].via \notin conns'
        <3>1. CASE k # n
            BY <1>0, <1>1, <1>3, <2>3, <3>1 DEF Owned
        <3>2. CASE k = n
            BY <1>0, <1>1, <1>3, <1>4, <2>3, <3>2 DEF Owned
        <3> QED BY <3>1, <3>2
    <2>4. \A c \in Conn : \A k \in todo'[c] : node'[k].phase # "none" /\ node'[k].via \notin conns'
        BY <1>0, <1>1, <1>3, <2>1 DEF Owned
    <2> QED BY <2>2, <2>3, <2>4 DEF Owned
<1>6. Swept'
    <2>1. node'[Root] = node[Root]
        BY <1>0, <1>3
    <2>2. node[Root].phase = "gone" => node'[n].late
        BY <1>2, <1>3 DEF InTable
    <2> QED BY <1>0, <1>1, <1>3, <2>1, <2>2 DEF Swept
<1>7. Known'
    BY <1>0, <1>1, RegistrySame
<1>8. down' \in [Line -> Seq(DownFrame)]
    <2>1. F("start", n) \in DownFrame
        BY DEF F, DownFrame
    <2> QED BY <1>1, <2>1, PutDown
<1>9. TypeOK'
    <2>1. down' \in [Line -> Seq(Frame)]
        BY <1>8, Frames, FramesTyped
    <2> QED BY <1>0, <1>1, <1>3, <2>1 DEF TypeOK
<1>10. Framed' /\ Dialed'
    BY <1>0, <1>1, <1>8, <1>9 DEF Framed, Dialed
<1> QED BY <1>5, <1>6, <1>7, <1>10 DEF IInv

\* The stop of a node begins.
LEMMA Entered ==
    ASSUME IInv, NEW n \in {Root} \cup Id, NEW b \in Task \cup {"own", "kid"}, NEW q \in BOOLEAN,
           Enter(n, b, q)
    PROVE  /\ node' \in [{Root} \cup Id -> NodeRecord]
           /\ \A k \in {Root} \cup Id : k # n => node'[k] = node[k]
           /\ node'[n].phase = "kids" /\ node'[n].by = b
           /\ node'[n].owner = node[n].owner /\ node'[n].via = node[n].via
           /\ node'[n].late = node[n].late
<1>1. node \in [{Root} \cup Id -> NodeRecord] /\ node[n] \in NodeRecord
    BY Typed
<1>2. Kids(n) \subseteq Id
    BY DEF Kids
<1>3. node' = [node EXCEPT ![n] = [node[n] EXCEPT !.phase = "kids", !.waits = Kids(n), !.by = b, !.quick = q]]
    BY <1>1 DEF Enter
<1>4. [node[n] EXCEPT !.phase = "kids", !.waits = Kids(n), !.by = b, !.quick = q] \in NodeRecord
    BY <1>1, <1>2 DEF NodeRecord
<1>5. /\ node' \in [{Root} \cup Id -> NodeRecord]
      /\ \A k \in {Root} \cup Id : k # n => node'[k] = node[k]
      /\ node'[n] = [node[n] EXCEPT !.phase = "kids", !.waits = Kids(n), !.by = b, !.quick = q]
    BY <1>1, <1>3, <1>4
<1> QED BY <1>1, <1>5 DEF NodeRecord

\* What has to be shown of a step on the stop path.
LEMMA NodeStepKeeps ==
    ASSUME IInv, UNCHANGED <<hub, insts, dialer, cut, up, conns, hubOf, hubConn, routed, refused>>,
           down' \in [Line -> Seq(DownFrame)],
           node' \in [{Root} \cup Id -> NodeRecord], todo' \in [Task -> SUBSET Id],
           \A n \in Id : Ages(n),
           node'[Root].phase = "gone" => node[Root].phase = "gone",
           \A c \in Conn : todo'[c] \subseteq todo[c],
           \A n \in todo["shutdown"] : n \in todo'["shutdown"] \/ node[n].phase # "up"
    PROVE  IInv'
<1>0. Framed /\ Dialed /\ Known /\ TypeOK
    BY Typed
<1>1. Owned' /\ Swept'
    BY StopPathKeeps
<1>2. Known'
    BY <1>0, RegistrySame
<1>3. down' \in [Line -> Seq(Frame)]
    BY Frames, FramesTyped
<1>4. TypeOK'
    BY <1>0, <1>3 DEF TypeOK
<1>5. Framed' /\ Dialed'
    BY <1>0, <1>4 DEF Framed, Dialed
<1> QED BY <1>1, <1>2, <1>5 DEF IInv

\* The steps of the stop path, and those of the tasks.
LEMMA StopKeeps ==
    ASSUME IInv,
           \/ Shutdown
           \/ \E n \in Id : StopAsked(n) \/ StopSettle(n) \/ StopTell(n) \/ StopEnds(n) \/ StopTimeout(n)
           \/ \E n \in {Root} \cup Id, k \in Id : KidEntered(n, k) \/ KidDone(n, k)
           \/ \E t \in Task : TaskEnters(t) \/ TaskGoesOn(t)
    PROVE  IInv'
<1>0. /\ TypeOK /\ Root \notin Id /\ node \in [{Root} \cup Id -> NodeRecord]
      /\ "own" \notin Conn /\ "kid" \notin Conn /\ "shutdown" \notin Conn /\ Conn \subseteq Task
      /\ "shutdown" \in Task /\ todo \in [Task -> SUBSET Id] /\ down \in [Line -> Seq(DownFrame)]
    BY Typed DEF TypeOK, Framed
\* A node is entered that is up.
<1>1. ASSUME NEW n \in {Root} \cup Id, NEW b \in Task \cup {"own", "kid"}, NEW q \in BOOLEAN,
             Enter(n, b, q), node[n].phase = "up", b \in Conn => n \in todo[b],
             UNCHANGED <<wire, up, down, registry, todo>>
      PROVE  IInv'
    <2>1. /\ node' \in [{Root} \cup Id -> NodeRecord]
          /\ \A k \in {Root} \cup Id : k # n => node'[k] = node[k]
          /\ node'[n].phase = "kids" /\ node'[n].by = b
          /\ node'[n].owner = node[n].owner /\ node'[n].via = node[n].via
          /\ node'[n].late = node[n].late
        BY <1>1, Entered
    <2>2. \A k \in Id : Ages(k)
        BY <1>1, <2>1 DEF Ages, InTable
    <2>3. node'[Root].phase = "gone" => node[Root].phase = "gone"
        BY <2>1
    <2>4. UNCHANGED <<hub, insts, dialer, cut, up, conns, hubOf, hubConn, routed, refused, down, todo>>
        BY <1>1 DEF wire, registry
    <2> QED BY <1>0, <2>1, <2>2, <2>3, <2>4, NodeStepKeeps
\* A node goes.
<1>2. ASSUME NEW n \in Id, node' = [node EXCEPT ![n] = Gone],
             UNCHANGED <<wire, up, down, registry, todo>>
      PROVE  IInv'
    <2>1. Gone \in NodeRecord
        BY DEF Gone, Unborn, NodeRecord
    <2>2. /\ node' \in [{Root} \cup Id -> NodeRecord] /\ node'[n] = Gone
          /\ \A k \in {Root} \cup Id : k # n => node'[k] = node[k]
        BY <1>0, <1>2, <2>1
    <2>3. \A k \in Id : Ages(k)
        BY <2>2 DEF Ages
    <2>4. node'[Root].phase = "gone" => node[Root].phase = "gone"
        BY <1>0, <2>2
    <2>5. UNCHANGED <<hub, insts, dialer, cut, up, conns, hubOf, hubConn, routed, refused, down, todo>>
        BY <1>2 DEF wire, registry
    <2> QED BY <1>0, <2>2, <2>3, <2>4, <2>5, NodeStepKeeps
<1>3. CASE Shutdown
    <2>1. /\ Enter(Root, "own", TRUE) /\ node[Root].phase = "up"
          /\ UNCHANGED <<wire, up, down, registry, todo>>
        BY <1>3 DEF Shutdown
    <2>2. Root \in {Root} \cup Id /\ TRUE \in BOOLEAN
        OBVIOUS
    <2> QED BY <1>0, <1>1, <2>1, <2>2
<1>4. ASSUME NEW n \in Id, StopAsked(n) PROVE IInv'
    BY <1>0, <1>1, <1>4 DEF StopAsked
<1>5. ASSUME NEW n \in Id, StopSettle(n) \/ StopEnds(n) \/ StopTimeout(n) PROVE IInv'
    BY <1>2, <1>5 DEF StopSettle, StopEnds, StopTimeout
<1>6. ASSUME NEW n \in Id, StopTell(n) PROVE IInv'
    <2>1. /\ node' = [node EXCEPT ![n].phase = "told"] /\ node[n].phase = "kids"
          /\ down' = Put(down, hubConn[node[n].owner], F("stop", n))
          /\ UNCHANGED <<hub, insts, dialer, cut, up, conns, hubOf, hubConn, routed, refused, todo>>
        BY <1>6 DEF StopTell, Ready, wire, registry
    <2>2. F("stop", n) \in DownFrame
        BY DEF F, DownFrame
    <2>3. down' \in [Line -> Seq(DownFrame)]
        BY <2>1, <2>2, PutDown
    <2>4. node[n] \in NodeRecord
        BY <1>0
    <2>5. [node[n] EXCEPT !.phase = "told"] \in NodeRecord
        BY <2>4 DEF NodeRecord
    <2>6. /\ node' \in [{Root} \cup Id -> NodeRecord] /\ node'[n] = [node[n] EXCEPT !.phase = "told"]
          /\ \A k \in {Root} \cup Id : k # n => node'[k] = node[k]
        BY <1>0, <2>1, <2>5
    <2>7. /\ node'[n].owner = node[n].owner /\ node'[n].via = node[n].via /\ node'[n].late = node[n].late
          /\ node'[n].phase = "told" /\ node'[n].by = node[n].by
        BY <2>4, <2>6 DEF NodeRecord
    <2>8. \A k \in Id : Ages(k)
        BY <2>1, <2>6, <2>7 DEF Ages, InTable
    <2>9. node'[Root].phase = "gone" => node[Root].phase = "gone"
        BY <1>0, <2>6
    <2> QED BY <1>0, <2>1, <2>3, <2>6, <2>8, <2>9, NodeStepKeeps
<1>7. ASSUME NEW n \in {Root} \cup Id, NEW k \in Id, KidEntered(n, k) PROVE IInv'
    <2>1. Enter(k, "kid", node[n].quick) /\ node[k].phase = "up" /\ UNCHANGED <<wire, up, down, registry, todo>>
        BY <1>7 DEF KidEntered
    <2>2. node[n].quick \in BOOLEAN
        BY <1>0 DEF NodeRecord
    <2> QED BY <1>0, <1>1, <2>1, <2>2
<1>8. ASSUME NEW n \in {Root} \cup Id, NEW k \in Id, KidDone(n, k) PROVE IInv'
    <2>1. /\ node' = [node EXCEPT ![n].waits = @ \ {k}]
          /\ UNCHANGED <<hub, insts, dialer, cut, up, conns, hubOf, hubConn, routed, refused, down, todo>>
        BY <1>8 DEF KidDone, wire, registry
    <2>2. node[n] \in NodeRecord
        BY <1>0
    <2>3. [node[n] EXCEPT !.waits = @ \ {k}] \in NodeRecord
        BY <2>2 DEF NodeRecord
    <2>4. /\ node' \in [{Root} \cup Id -> NodeRecord] /\ node'[n] = [node[n] EXCEPT !.waits = @ \ {k}]
          /\ \A j \in {Root} \cup Id : j # n => node'[j] = node[j]
        BY <1>0, <2>1, <2>3
    <2>5. /\ node'[n].owner = node[n].owner /\ node'[n].via = node[n].via /\ node'[n].late = node[n].late
          /\ node'[n].phase = node[n].phase /\ node'[n].by = node[n].by
        BY <2>2, <2>4 DEF NodeRecord
    <2>6. \A j \in Id : Ages(j)
        BY <2>4, <2>5 DEF Ages
    <2>7. node'[Root].phase = "gone" => node[Root].phase = "gone"
        BY <2>4, <2>5
    <2> QED BY <1>0, <2>1, <2>4, <2>6, <2>7, NodeStepKeeps
<1>9. ASSUME NEW t \in Task, TaskEnters(t) PROVE IInv'
    <2>1. PICK n \in Id : n \in todo[t] /\ node[n].phase = "up" /\ Enter(n, t, t = "shutdown")
        BY <1>9 DEF TaskEnters, Now
    <2>2. PICK q \in BOOLEAN : q = (t = "shutdown")
        OBVIOUS
    <2>3. Enter(n, t, q)
        BY <2>1, <2>2
    <2>4. UNCHANGED <<wire, up, down, registry, todo>>
        BY <1>9 DEF TaskEnters
    <2> QED BY <1>1, <2>1, <2>3, <2>4
<1>10. ASSUME NEW t \in Task, TaskGoesOn(t) PROVE IInv'
    <2>1. PICK n \in Id : (~ InTable(n) \/ Stopping(n)) /\ todo' = [todo EXCEPT ![t] = @ \ {n}]
        BY <1>10 DEF TaskGoesOn
    <2>2. UNCHANGED <<hub, insts, dialer, cut, up, conns, hubOf, hubConn, routed, refused, down, node>>
        BY <1>10 DEF TaskGoesOn, wire, registry
    <2>3. /\ todo' \in [Task -> SUBSET Id] /\ \A s \in Task : todo'[s] \subseteq todo[s]
          /\ \A s \in Task : \A k \in todo[s] : k \in todo'[s] \/ k = n
        BY <1>0, <2>1
    <2>4. node[n].phase # "up"
        BY <2>1 DEF InTable, Stopping
    <2>5. \A k \in Id : Ages(k)
        BY <2>2 DEF Ages
    <2> QED BY <1>0, <2>2, <2>3, <2>4, <2>5, NodeStepKeeps
<1> QED BY <1>3, <1>4, <1>5, <1>6, <1>7, <1>8, <1>9, <1>10

\* The root has gone: all that is left is on the list.
LEMMA SweepKeeps ==
    ASSUME IInv, Sweep
    PROVE  IInv'
<1>0. /\ Framed /\ Dialed /\ Known /\ Owned /\ TypeOK /\ Root \notin Id
      /\ node \in [{Root} \cup Id -> NodeRecord]
      /\ "shutdown" \notin Conn /\ "shutdown" \in Task /\ Conn \subseteq Task
    BY Typed
<1>1. /\ node' = [node EXCEPT ![Root].phase = "gone"]
      /\ todo' = [todo EXCEPT !["shutdown"] = {n \in Id : InTable(n)}]
      /\ UNCHANGED <<hub, insts, dialer, cut, up, down, conns, hubOf, hubConn, routed, refused>>
    BY DEF Sweep, wire, registry
<1>2. /\ node' \in [{Root} \cup Id -> NodeRecord] /\ \A n \in Id : node'[n] = node[n]
    <2>1. [node[Root] EXCEPT !.phase = "gone"] \in NodeRecord
        BY <1>0 DEF NodeRecord
    <2> QED BY <1>0, <1>1, <2>1
<1>3. /\ todo' \in [Task -> SUBSET Id] /\ todo'["shutdown"] = {n \in Id : InTable(n)}
      /\ \A c \in Conn : todo'[c] = todo[c] /\ todo[c] \subseteq Id
    BY <1>0, <1>1 DEF TypeOK
<1>4. Known'
    BY <1>0, <1>1, RegistrySame
<1>5. Owned'
    BY <1>0, <1>1, <1>2, <1>3 DEF Owned, InTable
<1>6. Swept'
    BY <1>2, <1>3 DEF Swept, InTable
<1>7. TypeOK'
    BY <1>0, <1>1, <1>2, <1>3 DEF TypeOK
<1>8. Framed' /\ Dialed'
    BY <1>0, <1>1, <1>7 DEF Framed, Dialed
<1> QED BY <1>4, <1>5, <1>6, <1>8 DEF IInv

LEMMA NextKeeps == IInv /\ [Next]_vars => IInv'
<1> SUFFICES ASSUME IInv, [Next]_vars PROVE IInv'
    OBVIOUS
<1>1. CASE UNCHANGED vars
    <2>1. /\ Framed /\ Dialed /\ Known /\ Owned /\ Swept /\ TypeOK
        BY Typed
    <2>2. TypeOK' /\ Framed' /\ Dialed' /\ Known'
        BY <1>1, <2>1 DEF vars, TypeOK, Framed, Dialed, Known
    <2>3. Owned' /\ Swept'
        BY <1>1, <2>1, NodesSame DEF vars
    <2> QED BY <2>2, <2>3 DEF IInv
<1>2. CASE Next
    <2>1. Remote \subseteq Hub
        BY DEF Remote
    <2> QED BY <1>2, <2>1, StreamKeeps, DialKeeps, DropKeeps, DispatchKeeps, CreateKeeps, StopKeeps, SweepKeeps DEF Next
<1> QED BY <1>1, <1>2

LEMMA Inductive == Spec => []IInv
BY InitInv, NextKeeps, PTL DEF Spec

-------------------------------------------------------------------------------

\* One connection per identity, however hubs drop and return; and a node is taken down by
\* the task of the connection it came over, when that one has gone (_on_catalog_push,
\* drop_conn, _reap_dead).
THEOREM ConnsTrueHolds == Spec => []ConnsTrue
<1>1. IInv => OneConnPerHub
    BY DEF IInv, Known, OneConnPerHub
<1>2. IInv => NewOnesSpared
    BY DEF IInv, Owned, NewOnesSpared
<1>3. IInv => ConnsTrue
    BY <1>1, <1>2, Typed DEF ConnsTrue
<1> QED BY <1>3, Inductive, PTL

\* When stop() returns, nobody has missed what was there when its sweep began
\* (Kernel.stop).
THEOREM ShutdownReachesHolds == Spec => []ShutdownReaches
<1>1. IInv => ShutdownReaches
    BY DEF IInv, Swept, ShutdownReaches, Closing
<1> QED BY <1>1, Inductive, PTL

===============================================================================
