-------------------------- MODULE HubLifecycleProofs --------------------------
(***************************************************************************)
(* The end of a routine in its hub, for any number of kernel processes:    *)
(* proofs that under the first kernel the end of an instance is reported   *)
(* once, after its code, and never missed, and that what a lost connection *)
(* stopped is over before the hub talks to the next kernel.                *)
(***************************************************************************)
EXTENDS HubLifecycle, SequenceTheorems, TLAPS

\* The conjuncts of TypeOK that a step disturbs are proved together, without the one
\* about the instances that tasks are about, which is OfWorld.
OfWorld == \A k \in Kinds, w \in World : task[k][w].pc # "none" => task[k][w].of \in World

\* A world that has not come has no tasks, and no instance is made ahead of its time.
Ahead ==
    /\ \A k \in Kinds, w \in World : task[k][w].pc # "none" => w <= world
    /\ table <= world
    /\ \A k \in Kinds, w \in World : task[k][w].of <= w

\* The runner of this world is about the instance in the table, if there is one, and
\* there is none before the kernel has asked for it.
OneRunner ==
    task["run"][world].pc # "none" =>
        /\ asked \in {"start", "running", "stop"}
        /\ table \in {Nobody, task["run"][world].of}

\* The stopper of a lost connection: it is at work only until the hub connects again,
\* it is about the instance that the runner of its world is about, and once it is
\* in charge no runner of that instance begins.
DownInOrder(w) ==
    LET i == task["down"][w].of IN
    /\ w = world => ~ up
    /\ w < world => task["down"][w].pc = "done"
    /\ task["run"][w].pc # "none" => task["run"][w].of = i
    /\ task["down"][w].pc \in {"wait", "close", "done"} => flags[i].finalized
    /\ task["down"][w].pc \in {"close", "done"} =>
          \A v \in World : task["run"][v].of = i => task["run"][v].pc \notin {"work", "close"}
    /\ task["down"][w].pc = "done" => table # i

Downs == \A w \in World : task["down"][w].pc # "none" => DownInOrder(w)

\* Under the first kernel: a stopper past its wait has seen the runner out, and is in
\* charge; who has closed has called on_stopped; a report is sent by one who has closed.
First ==
    FirstKernel =>
        /\ \A k \in Kinds : task[k][1].pc # "none" => asked # "nothing"
        /\ table # Nobody => task["create"][1].pc # "none"
        /\ task["down"][1].pc = "none"
        /\ task["destroy"][1].pc # "none" => asked = "destroy"
        /\ \A k \in Stops : task[k][1].pc \in {"wait", "close", "done"} => flags[1].finalized
        /\ \A k \in Stops : task[k][1].pc \in {"close", "done"} =>
              task["run"][1].pc \notin {"work", "close"} /\ hooks[1] > 0
        /\ task["run"][1].pc = "close" => hooks[1] > 0
        /\ task["destroy"][1].pc = "close" => hooks[1] > 0
        /\ flags[1].sent =>
              /\ hooks[1] > 0
              /\ task["run"][1].pc \notin {"work", "close"}
              /\ flags[1].finalized \/ task["run"][1].pc = "done" \/ asked = "destroy"

\* What has been reported under the first kernel: an instance, or that there is none.
Told ==
    FirstKernel =>
        /\ Len(reports) <= 1
        /\ reports = <<>> => ~ flags[1].sent
        /\ reports # <<>> => flags[1].sent \/ (\A k \in Kinds : task[k][1].pc = "none")
        /\ reports # <<>> => asked # "nothing"
        /\ Forgotten => reports # <<>>

\* A lost connection is not the last one: the bound is on the kernels that come.
NotLast == ~ up => world < MaxWorld

IInv == TypeOK /\ Ahead /\ OneRunner /\ Downs /\ First /\ Told

Pcs == {"none", "spawned", "work", "wait", "close", "done"}

\* A task that goes on, and one that is made: the others, and what they are about, stay.
LEMMA MovedTask ==
    ASSUME task \in [Kinds -> [World -> TaskRecord]],
           NEW k \in Kinds, NEW w \in World, NEW pc \in Pcs, task' = Moved(k, w, pc)
    PROVE  /\ task' \in [Kinds -> [World -> TaskRecord]]
           /\ task'[k][w].pc = pc /\ task'[k][w].of = task[k][w].of
           /\ \A j \in Kinds, v \in World : j # k \/ v # w => task'[j][v] = task[j][v]
    BY DEF Moved, TaskRecord, Pcs

LEMMA MadeTask ==
    ASSUME task \in [Kinds -> [World -> TaskRecord]], world \in World,
           NEW k \in Kinds, NEW pc \in Pcs, NEW i \in World, task' = Made(k, pc, i)
    PROVE  /\ task' \in [Kinds -> [World -> TaskRecord]]
           /\ task'[k][world].pc = pc /\ task'[k][world].of = i
           /\ \A j \in Kinds, v \in World : j # k \/ v # world => task'[j][v] = task[j][v]
    BY DEF Made, TaskRecord, Pcs

\* A flag of an instance is set or reset: the other flags stay, and the other instances'.
LEMMA SetFlag ==
    ASSUME flags \in [World -> FlagRecord], NEW i \in World, NEW b \in BOOLEAN
    PROVE  /\ flags' = [flags EXCEPT ![i].requested = b] =>
                /\ flags' \in [World -> FlagRecord]
                /\ \A j \in World : flags'[j].finalized = flags[j].finalized /\ flags'[j].sent = flags[j].sent
           /\ flags' = [flags EXCEPT ![i].inProgress = b] =>
                /\ flags' \in [World -> FlagRecord]
                /\ \A j \in World : flags'[j].finalized = flags[j].finalized /\ flags'[j].sent = flags[j].sent
           /\ flags' = [flags EXCEPT ![i].finalized = b] =>
                /\ flags' \in [World -> FlagRecord]
                /\ \A j \in World : flags'[j].sent = flags[j].sent
                /\ \A j \in World : j # i => flags'[j].finalized = flags[j].finalized
                /\ flags'[i].finalized = b
           /\ flags' = [flags EXCEPT ![i].sent = b] =>
                /\ flags' \in [World -> FlagRecord]
                /\ \A j \in World : flags'[j].finalized = flags[j].finalized
                /\ \A j \in World : j # i => flags'[j].sent = flags[j].sent
                /\ flags'[i].sent = b
    BY DEF FlagRecord

LEMMA InitInv == Init => IInv
<1> USE WorldAssumption
<1> SUFFICES ASSUME Init PROVE IInv
    OBVIOUS
<1>1. 1 \in World /\ Nobody \notin World
    BY DEF World, Nobody
<1>2. \A k \in Kinds, w \in World : task[k][w] = NoTask
    BY DEF Init
<1>3. TypeOK
    BY <1>1, <1>2 DEF Init, TypeOK, FlagRecord, NoFlags, TaskRecord, NoTask
<1>4. Ahead
    BY <1>1, <1>2 DEF Init, Ahead, NoTask, Nobody, World
<1>5. OneRunner /\ Downs
    BY <1>1, <1>2 DEF Init, OneRunner, Downs, NoTask, Kinds, Stops
<1>6. First /\ Told
    BY <1>1, <1>2 DEF Init, First, Told, NoTask, NoFlags, Kinds, Stops, Forgotten
<1> QED BY <1>3, <1>4, <1>5, <1>6 DEF IInv

\* What every proof about a step starts from.
LEMMA Typed ==
    ASSUME IInv
    PROVE  /\ TypeOK /\ OfWorld /\ Ahead /\ OneRunner /\ Downs /\ First /\ Told
           /\ task \in [Kinds -> [World -> TaskRecord]] /\ flags \in [World -> FlagRecord]
           /\ world \in World /\ 1 \in World /\ World \subseteq Nat /\ Nobody \notin World
           /\ \A k \in {"create", "run", "destroy", "down", "self", "stop"} : k \in Kinds
           /\ Stops = {"stop", "self", "down"}
           /\ \A k \in Kinds, w \in World : task[k][w].pc \in Pcs
<1>1. TypeOK /\ OfWorld /\ Ahead /\ OneRunner /\ Downs /\ First /\ Told
    BY DEF IInv, TypeOK, OfWorld
<1>2. 1 \in World /\ World \subseteq Nat /\ Nobody \notin World
    BY WorldAssumption DEF World, Nobody
<1>3. /\ \A k \in {"create", "run", "destroy", "down", "self", "stop"} : k \in Kinds
      /\ Stops = {"stop", "self", "down"}
    BY DEF Kinds, Stops
<1>4. task \in [Kinds -> [World -> TaskRecord]] /\ flags \in [World -> FlagRecord] /\ world \in World
    BY <1>1 DEF TypeOK
<1>5. ASSUME NEW k \in Kinds, NEW w \in World PROVE task[k][w].pc \in Pcs
    <2>1. task[k][w] \in TaskRecord
        BY <1>4
    <2> QED BY <2>1 DEF TaskRecord, Pcs
<1> QED BY <1>1, <1>2, <1>3, <1>4, <1>5

\* What is in order after a task has gone on, or one other than the runner was made for
\* the instance in the table, whatever else the step does.
LEMMA MovedKeeps ==
    ASSUME IInv, NEW k \in Kinds, NEW w \in World, NEW pc \in Pcs \ {"none"},
           task[k][w].pc # "none", task' = Moved(k, w, pc),
           world' = world, table' \in {table, Nobody}, asked' \in {asked, "running"}
    PROVE  /\ task' \in [Kinds -> [World -> TaskRecord]]
           /\ task'[k][w].pc = pc /\ task'[k][w].of = task[k][w].of /\ task[k][w].of \in World
           /\ \A j \in Kinds, v \in World : j # k \/ v # w => task'[j][v] = task[j][v]
           /\ \A j \in Kinds, v \in World : /\ task'[j][v].of = task[j][v].of
                                            /\ (task'[j][v].pc = "none" <=> task[j][v].pc = "none")
           /\ OfWorld' /\ Ahead' /\ OneRunner'
<1>0. /\ OfWorld /\ Ahead /\ OneRunner /\ task \in [Kinds -> [World -> TaskRecord]]
      /\ world \in World /\ World \subseteq Nat /\ "run" \in Kinds
    BY Typed
<1>1. /\ task' \in [Kinds -> [World -> TaskRecord]]
      /\ task'[k][w].pc = pc /\ task'[k][w].of = task[k][w].of
      /\ \A j \in Kinds, v \in World : j # k \/ v # w => task'[j][v] = task[j][v]
    BY <1>0, MovedTask
<1>2. \A j \in Kinds, v \in World : /\ task'[j][v].of = task[j][v].of
                                   /\ (task'[j][v].pc = "none" <=> task[j][v].pc = "none")
    <2> SUFFICES ASSUME NEW j \in Kinds, NEW v \in World
                 PROVE  /\ task'[j][v].of = task[j][v].of
                        /\ (task'[j][v].pc = "none" <=> task[j][v].pc = "none")
        OBVIOUS
    <2>1. CASE j = k /\ v = w
        BY <2>1, <1>1
    <2>2. CASE j # k \/ v # w
        BY <2>2, <1>1
    <2> QED BY <2>1, <2>2
<1>3. OfWorld' /\ task[k][w].of \in World
    BY <1>0, <1>2 DEF OfWorld
<1>4. Ahead'
    <2>1. table' <= world
        <3>1. table <= world /\ 0 <= world
            BY <1>0 DEF Ahead
        <3> QED BY <3>1 DEF Nobody
    <2> QED BY <1>0, <1>2, <2>1 DEF Ahead
<1>5. OneRunner'
    BY <1>0, <1>2 DEF OneRunner
<1> QED BY <1>1, <1>2, <1>3, <1>4, <1>5

LEMMA MadeKeeps ==
    ASSUME IInv, NEW k \in Kinds \ {"run"}, NEW pc \in Pcs \ {"none"}, table # Nobody,
           task' = Made(k, pc, table), world' = world, table' = table,
           \/ asked' = asked
           \/ asked = "running" /\ asked' = "stop"
           \/ asked = "created" /\ asked' = "destroy"
    PROVE  /\ task' \in [Kinds -> [World -> TaskRecord]] /\ table \in World
           /\ task'[k][world].pc = pc /\ task'[k][world].of = table
           /\ \A j \in Kinds, v \in World : j # k \/ v # world => task'[j][v] = task[j][v]
           /\ OfWorld' /\ Ahead' /\ OneRunner'
<1>0. /\ OfWorld /\ Ahead /\ OneRunner /\ task \in [Kinds -> [World -> TaskRecord]]
      /\ world \in World /\ World \subseteq Nat /\ "run" \in Kinds
      /\ table \in World /\ table <= world
    BY Typed DEF TypeOK, Ahead
<1>1. /\ task' \in [Kinds -> [World -> TaskRecord]]
      /\ task'[k][world].pc = pc /\ task'[k][world].of = table
      /\ \A j \in Kinds, v \in World : j # k \/ v # world => task'[j][v] = task[j][v]
    BY <1>0, MadeTask
<1>2. OfWorld'
    BY <1>0, <1>1 DEF OfWorld
<1>3. Ahead'
    <2>1. ASSUME NEW j \in Kinds, NEW v \in World
          PROVE  task'[j][v].of <= v /\ (task'[j][v].pc # "none" => v <= world)
        <3>1. CASE j = k /\ v = world
            BY <3>1, <1>0, <1>1
        <3>2. CASE j # k \/ v # world
            BY <3>2, <1>0, <1>1 DEF Ahead
        <3> QED BY <3>1, <3>2
    <2> QED BY <2>1, <1>0 DEF Ahead
<1>4. OneRunner'
    BY <1>0, <1>1 DEF OneRunner
<1> QED BY <1>0, <1>1, <1>2, <1>3, <1>4

\* What the kernel asks for, short of a stop and a destroy.
LEMMA RequestKeeps ==
    ASSUME IInv, HandleCreatedUnknown \/ HandleCreated \/ HandleStart \/ HandleRejected
    PROVE  IInv'
<1>0. /\ TypeOK /\ OfWorld /\ Ahead /\ OneRunner /\ Downs /\ First /\ Told
      /\ task \in [Kinds -> [World -> TaskRecord]] /\ flags \in [World -> FlagRecord]
      /\ world \in World /\ 1 \in World /\ World \subseteq Nat /\ Nobody \notin World
      /\ "create" \in Kinds /\ "run" \in Kinds /\ "destroy" \in Kinds /\ "down" \in Kinds
      /\ "self" \in Kinds /\ "stop" \in Kinds /\ Stops = {"stop", "self", "down"}
    BY Typed
<1>1. CASE HandleCreatedUnknown
    <2>1. TypeOK'
        BY <1>0, <1>1 DEF HandleCreatedUnknown, Report, Arrives, TypeOK, World
    <2>2. Ahead' /\ OneRunner' /\ Downs'
        BY <1>0, <1>1 DEF HandleCreatedUnknown, Ahead, OneRunner, Downs, DownInOrder
    <2>3. First'
        BY <1>0, <1>1 DEF HandleCreatedUnknown, First, FirstKernel
    <2>4. Told'
        BY <1>0, <1>1 DEF HandleCreatedUnknown, Told, First, FirstKernel, Report, Forgotten, TypeOK
    <2> QED BY <2>1, <2>2, <2>3, <2>4 DEF IInv
<1>2. CASE HandleCreated
    <2>0. PICK i \in World :
             /\ i <= world /\ table' = i /\ flags' = [flags EXCEPT ![i].finalized = FALSE]
             /\ task' = Made("create", "work", i) /\ up /\ asked = "nothing" /\ asked' = "created"
             /\ (i = table \/ (table = Nobody /\ i = world))
             /\ UNCHANGED <<world, up, reports, hooks>>
        <3>1. CASE table # Nobody
            BY <1>0, <1>2, <3>1 DEF HandleCreated, TypeOK, Ahead
        <3>2. CASE table = Nobody
            <4>1. world \in Nat /\ world <= world
                BY <1>0
            <4>2. /\ table' = world /\ flags' = [flags EXCEPT ![world].finalized = FALSE]
                  /\ task' = Made("create", "work", world) /\ up /\ asked = "nothing" /\ asked' = "created"
                  /\ UNCHANGED <<world, up, reports, hooks>>
                BY <1>2, <3>2 DEF HandleCreated
            <4> QED BY <4>1, <4>2, <3>2, <1>0
        <3> QED BY <3>1, <3>2
    <2>a. /\ task' \in [Kinds -> [World -> TaskRecord]]
          /\ task'["create"][world].pc = "work" /\ task'["create"][world].of = i
          /\ \A j \in Kinds, v \in World : j # "create" \/ v # world => task'[j][v] = task[j][v]
        BY <1>0, <2>0, MadeTask DEF Pcs
    <2>1. TypeOK'
        <3>1. flags' \in [World -> FlagRecord]
            BY <1>0, <2>0 DEF FlagRecord
        <3>2. OfWorld'
            BY <1>0, <2>0, <2>a DEF OfWorld
        <3> QED BY <3>1, <3>2, <2>0, <2>a, <1>0 DEF TypeOK, OfWorld
    <2>2. Ahead'
        <3>1. table' <= world'
            BY <2>0
        <3>2. ASSUME NEW k \in Kinds, NEW w \in World PROVE task'[k][w].of <= w /\ (task'[k][w].pc # "none" => w <= world)
            <4>1. CASE k = "create" /\ w = world
                BY <4>1, <1>0, <2>0, <2>a
            <4>2. CASE k # "create" \/ w # world
                BY <4>2, <1>0, <2>a DEF Ahead
            <4> QED BY <4>1, <4>2
        <3> QED BY <3>1, <3>2, <2>0 DEF Ahead
    <2>9. OneRunner'
        BY <1>0, <2>0, <2>a DEF OneRunner
    <2>3. Downs'
        <3> SUFFICES ASSUME NEW w \in World, task["down"][w].pc # "none" PROVE DownInOrder(w)'
            BY <1>0, <2>0, <2>a DEF Downs
        <3>1. w <= world /\ task["down"][w].of \in World /\ task["down"][w].of <= w
            BY <1>0 DEF Ahead, OfWorld
        <3>2. DownInOrder(w)
            BY <1>0 DEF Downs
        <3>3. w < world /\ task["down"][w].pc = "done"
            BY <3>1, <3>2, <1>0, <2>0 DEF DownInOrder
        <3>4. task["down"][w].of # i
            BY <1>0, <2>0, <3>1, <3>2, <3>3 DEF DownInOrder
        <3>5. /\ task'["down"][w] = task["down"][w]
              /\ \A v \in World : task'["run"][v] = task["run"][v]
              /\ flags'[task["down"][w].of] = flags[task["down"][w].of]
            BY <1>0, <2>0, <2>a, <3>1, <3>4
        <3> QED BY <3>1, <3>2, <3>3, <3>4, <3>5, <2>0 DEF DownInOrder
    <2>4. First'
        <3> SUFFICES ASSUME FirstKernel PROVE First'
            BY <2>0 DEF First, FirstKernel
        <3>1. world = 1 /\ \A k \in Kinds : task[k][1].pc = "none"
            BY <1>0, <2>0 DEF First, FirstKernel
        <3>2. \A k \in Stops \cup {"run", "destroy", "down"} : task'[k][1].pc = "none"
            BY <3>1, <1>0, <2>a
        <3>3. ~ flags[1].sent /\ ~ flags'[1].sent
            BY <3>1, <1>0, <2>0 DEF FlagRecord, Told, FirstKernel
        <3>4. task'["create"][1].pc = "work"
            BY <2>a, <3>1
        <3> QED BY <3>2, <3>3, <3>4, <1>0, <2>0 DEF First
    <2>5. Told'
        BY <1>0, <2>0, <2>a DEF Told, First, FirstKernel, Forgotten
    <2> QED BY <2>1, <2>2, <2>3, <2>4, <2>5, <2>9 DEF IInv
<1>3. CASE HandleStart
    <2>0. /\ up /\ asked = "created" /\ asked' = "start" /\ UNCHANGED <<world, up, table, flags, reports, hooks>>
          /\ task["create"][world].pc = "done"
        BY <1>3 DEF HandleStart, Ready
    <2>1. CASE table = Nobody
        <3>1. task' = task
            BY <1>3, <2>1 DEF HandleStart
        <3> QED BY <1>0, <2>0, <3>1 DEF IInv, TypeOK, Ahead, OneRunner, Downs, DownInOrder, First, Told, FirstKernel, Forgotten
    <2>2. CASE table # Nobody
        <3>0. table \in World /\ table <= world
            BY <1>0, <2>2 DEF TypeOK, Ahead
        <3>a. /\ task' \in [Kinds -> [World -> TaskRecord]]
              /\ task'["run"][world].pc = "spawned" /\ task'["run"][world].of = table
              /\ \A j \in Kinds, v \in World : j # "run" \/ v # world => task'[j][v] = task[j][v]
            <4>1. task' = Made("run", "spawned", table)
                BY <1>3, <2>2 DEF HandleStart
            <4> QED BY <4>1, <3>0, <1>0, MadeTask DEF Pcs
        <3>1. TypeOK'
            <4>1. OfWorld'
                BY <1>0, <2>0, <3>0, <3>a DEF OfWorld
            <4> QED BY <4>1, <2>0, <3>a, <1>0 DEF TypeOK, OfWorld
        <3>2. Ahead'
            <4>1. ASSUME NEW k \in Kinds, NEW w \in World
                  PROVE  task'[k][w].of <= w /\ (task'[k][w].pc # "none" => w <= world)
                <5>1. CASE k = "run" /\ w = world
                    BY <5>1, <1>0, <3>0, <3>a
                <5>2. CASE k # "run" \/ w # world
                    BY <5>2, <1>0, <3>a DEF Ahead
                <5> QED BY <5>1, <5>2
            <4> QED BY <4>1, <3>0, <2>0 DEF Ahead
        <3>3. OneRunner'
            BY <1>0, <2>0, <3>a DEF OneRunner
        <3>4. Downs'
            <4> SUFFICES ASSUME NEW w \in World, task["down"][w].pc # "none" PROVE DownInOrder(w)'
                BY <1>0, <3>a DEF Downs
            <4>1. DownInOrder(w) /\ w # world
                BY <1>0, <2>0 DEF Downs, DownInOrder
            <4>2. task'["down"][w] = task["down"][w] /\ task'["run"][w] = task["run"][w]
                BY <1>0, <3>a, <4>1
            <4>3. \A v \in World : task'["run"][v].pc \in {"work", "close"} => task'["run"][v] = task["run"][v]
                BY <1>0, <3>a
            <4> QED BY <4>1, <4>2, <4>3, <2>0 DEF DownInOrder
        <3>5. First'
            <4> SUFFICES ASSUME FirstKernel' PROVE First'
                BY DEF First
            <4>1. FirstKernel /\ world = 1 /\ task["run"][1].pc = "none"
                BY <1>0, <2>0 DEF FirstKernel, OneRunner
            <4>2. \A j \in Kinds : j # "run" => task'[j][1] = task[j][1]
                BY <1>0, <3>a, <4>1
            <4>3. task'["run"][1].pc = "spawned"
                BY <3>a, <4>1
            <4> QED BY <1>0, <2>0, <4>1, <4>2, <4>3 DEF First
        <3>6. Told'
            <4>1. FirstKernel => (reports # <<>> => flags[1].sent)
                BY <1>0, <2>0 DEF Told, FirstKernel
            <4> QED BY <4>1, <1>0, <2>0, <2>2 DEF Told, First, FirstKernel, Forgotten
        <3> QED BY <3>1, <3>2, <3>3, <3>4, <3>5, <3>6 DEF IInv
    <2> QED BY <2>1, <2>2
<1>4. CASE HandleRejected
    <2>0. /\ up /\ asked = "created" /\ asked' = "rejected" /\ table' = Nobody
          /\ UNCHANGED <<world, up, flags, task, reports, hooks>>
        BY <1>4 DEF HandleRejected, Cleanup, Ready
    <2>1. TypeOK' /\ Ahead' /\ OneRunner'
        BY <1>0, <2>0 DEF TypeOK, Ahead, OneRunner, Nobody
    <2>2. Downs'
        BY <1>0, <2>0 DEF Downs, DownInOrder, OfWorld
    <2>3. First' /\ Told'
        BY <1>0, <2>0 DEF First, Told, FirstKernel, Forgotten
    <2> QED BY <2>1, <2>2, <2>3 DEF IInv
<1> QED BY <1>1, <1>2, <1>3, <1>4

\* A stop begins: the task is made, nobody is in charge yet.
LEMMA StopKeeps ==
    ASSUME IInv, NEW k \in Stops, k = "down" => up' = FALSE,
           k # "down" => up' = up, Stop(k), UNCHANGED <<world, table, reports, hooks>>,
           \/ asked' = asked /\ asked # "nothing"
           \/ asked' = asked /\ k # "stop"
           \/ asked = "running" /\ asked' = "stop"
    PROVE  IInv'
<1>0. /\ TypeOK /\ OfWorld /\ Ahead /\ OneRunner /\ Downs /\ First /\ Told
      /\ task \in [Kinds -> [World -> TaskRecord]] /\ flags \in [World -> FlagRecord]
      /\ world \in World /\ 1 \in World /\ World \subseteq Nat /\ Nobody \notin World
      /\ "create" \in Kinds /\ "run" \in Kinds /\ "destroy" \in Kinds /\ "down" \in Kinds
      /\ "self" \in Kinds /\ "stop" \in Kinds /\ Stops = {"stop", "self", "down"}
    BY Typed
<1>1. CASE table # Nobody /\ ~ flags[table].inProgress /\ ~ flags[table].finalized
    <2>0. flags' = [flags EXCEPT ![table].inProgress = TRUE] /\ task' = Made(k, "spawned", table)
        BY <1>1 DEF Stop
    <2>1. /\ task' \in [Kinds -> [World -> TaskRecord]] /\ table \in World
          /\ task'[k][world].pc = "spawned" /\ task'[k][world].of = table
          /\ \A j \in Kinds, v \in World : j # k \/ v # world => task'[j][v] = task[j][v]
          /\ OfWorld' /\ Ahead' /\ OneRunner'
        BY <1>0, <1>1, <2>0, MadeKeeps DEF Pcs
    <2>2. /\ flags' \in [World -> FlagRecord]
          /\ \A i \in World : flags'[i].finalized = flags[i].finalized /\ flags'[i].sent = flags[i].sent
        BY <1>0, <2>0, <2>1, SetFlag
    <2>3. TypeOK'
        BY <1>0, <2>1, <2>2 DEF TypeOK, OfWorld
    <2>4. \A v \in World : task'["run"][v] = task["run"][v]
        BY <1>0, <2>1
    <2>5. Downs'
        <3> SUFFICES ASSUME NEW w \in World, task'["down"][w].pc # "none" PROVE DownInOrder(w)'
            BY DEF Downs
        <3>1. CASE k = "down" /\ w = world
            BY <3>1, <1>0, <2>1, <2>4 DEF DownInOrder, OneRunner
        <3>2. CASE k # "down" \/ w # world
            <4>1. task'["down"][w] = task["down"][w] /\ task["down"][w].of \in World /\ DownInOrder(w)
                BY <3>2, <1>0, <2>1 DEF Downs, OfWorld
            <4> QED BY <4>1, <2>2, <2>4 DEF DownInOrder
        <3> QED BY <3>1, <3>2
    <2>6. First'
        <3> SUFFICES ASSUME FirstKernel' PROVE First'
            BY DEF First
        <3>1. FirstKernel /\ k # "down" /\ world = 1
            BY <1>0 DEF FirstKernel
        <3>2. asked # "nothing"
            BY <1>0, <1>1, <2>1, <3>1 DEF First, FirstKernel, Told
        <3> QED BY <1>0, <2>1, <2>2, <2>4, <3>1, <3>2 DEF First
    <2>7. Told'
        <3> SUFFICES ASSUME FirstKernel' PROVE Told'
            BY DEF Told
        <3>1. FirstKernel /\ world = 1 /\ (reports # <<>> => flags[1].sent)
            BY <1>0, <1>1 DEF FirstKernel, First, Told
        <3>2. asked # "nothing"
            BY <1>0, <1>1, <3>1 DEF First
        <3> QED BY <1>0, <1>1, <2>2, <3>1, <3>2 DEF Told, Forgotten
    <2> QED BY <2>1, <2>3, <2>5, <2>6, <2>7 DEF IInv
<1>2. CASE ~ (table # Nobody /\ ~ flags[table].inProgress /\ ~ flags[table].finalized)
    <2>0. UNCHANGED <<flags, task>>
        BY <1>2 DEF Stop
    <2>1. TypeOK' /\ Ahead' /\ OneRunner'
        BY <1>0, <2>0 DEF TypeOK, Ahead, OneRunner
    <2>2. Downs'
        BY <1>0, <2>0 DEF Downs, DownInOrder
    <2>3. First' /\ Told'
        BY <1>0, <2>0 DEF First, Told, FirstKernel, Forgotten
    <2> QED BY <2>1, <2>2, <2>3 DEF IInv
<1> QED BY <1>1, <1>2

\* A task goes on: what it must respect so that the stopper of a lost connection stays
\* in order.
LEMMA DownsKept ==
    ASSUME IInv, NEW k \in Kinds, NEW w \in World, NEW pc \in Pcs \ {"none"},
           task[k][w].pc \notin {"none", "done"}, task' = Moved(k, w, pc),
           world' = world, up' = up, table' \in {table, Nobody}, asked' \in {asked, "running"},
           \A i \in World : flags[i].finalized => flags'[i].finalized,
           k = "run" /\ pc \in {"work", "close"} =>
               task["run"][w].pc \in {"work", "close"} \/ ~ flags[task["run"][w].of].finalized,
           k = "down" /\ pc \in {"wait", "close", "done"} => flags'[task["down"][w].of].finalized,
           k = "down" /\ pc \in {"close", "done"} => Main(task["down"][w].of) = {},
           pc = "done" /\ k # "create" => table' = Nobody \/ k = "run"
    PROVE  Downs'
<1>0. /\ OfWorld /\ Ahead /\ Downs /\ World \subseteq Nat /\ Nobody \notin World
      /\ "run" \in Kinds /\ "down" \in Kinds
    BY Typed
<1>1. /\ task'[k][w].pc = pc /\ task'[k][w].of = task[k][w].of /\ task[k][w].of \in World
      /\ \A j \in Kinds, v \in World : j # k \/ v # w => task'[j][v] = task[j][v]
      /\ \A j \in Kinds, v \in World : /\ task'[j][v].of = task[j][v].of
                                       /\ (task'[j][v].pc = "none" <=> task[j][v].pc = "none")
    BY MovedKeeps
<1> SUFFICES ASSUME NEW v \in World, task["down"][v].pc # "none" PROVE DownInOrder(v)'
    BY <1>0, <1>1 DEF Downs
<1>2. DownInOrder(v) /\ task["down"][v].of \in World
    BY <1>0 DEF Downs, OfWorld
<1> DEFINE i == task["down"][v].of
<1>3. CASE k = "down" /\ v = w
    <2>1. v = world \/ ~ (v < world)
        BY <1>2, <1>3 DEF DownInOrder
    <2>2. \A u \in World : task'["run"][u] = task["run"][u]
        BY <1>0, <1>1, <1>3
    <2>3. Main(i) = {} => \A u \in World : task["run"][u].of = i => task["run"][u].pc \notin {"work", "close"}
        BY DEF Main
    <2>4. /\ task'["down"][v].of = i /\ task'["down"][v].pc = pc /\ i \in World
          /\ pc = "done" => table' = Nobody
        BY <1>1, <1>2, <1>3
    <2> QED BY <1>0, <1>2, <1>3, <2>1, <2>2, <2>3, <2>4 DEF DownInOrder
<1>4. CASE k # "down" \/ v # w
    <2>1. task'["down"][v] = task["down"][v]
        BY <1>0, <1>1, <1>4
    <2>2. \A u \in World : task'["run"][u].of = task["run"][u].of
                         /\ (task'["run"][u].pc = "none" <=> task["run"][u].pc = "none")
        BY <1>0, <1>1
    <2>3. ASSUME task["down"][v].pc \in {"close", "done"}, NEW u \in World, task["run"][u].of = i
          PROVE  task'["run"][u].pc \notin {"work", "close"}
        <3>1. task["run"][u].pc \notin {"work", "close"} /\ flags[i].finalized
            BY <2>3, <1>2 DEF DownInOrder
        <3>2. CASE k = "run" /\ u = w
            BY <3>1, <3>2, <2>3, <1>1
        <3>3. CASE k # "run" \/ u # w
            BY <3>1, <3>3, <1>0, <1>1
        <3> QED BY <3>2, <3>3
    <2>4. task["down"][v].pc = "done" => table' # i
        BY <1>0, <1>2 DEF DownInOrder
    <2> QED BY <1>2, <2>1, <2>2, <2>3, <2>4 DEF DownInOrder
<1> QED BY <1>3, <1>4

\* Under the first kernel everything is about one instance.
LEMMA InFirst ==
    ASSUME IInv, FirstKernel, NEW k \in Kinds, NEW w \in World, task[k][w].pc # "none"
    PROVE  w = 1 /\ task[k][w].of = 1 /\ asked # "nothing"
<1>1. w <= 1 /\ task[k][w].of <= w /\ task[k][w].of \in World /\ w \in Nat /\ First
    BY Typed DEF Ahead, OfWorld, FirstKernel
<1>2. w = 1 /\ task[k][w].of = 1
    BY <1>1 DEF World
<1> QED BY <1>1, <1>2 DEF First

\* The same for the account that the first kernel has of it: who closes has called
\* on_stopped, and who is done has reported and cleaned up, or was cancelled.
LEMMA FirstKept ==
    ASSUME IInv, NEW k \in Kinds, NEW w \in World, NEW pc \in Pcs \ {"none"},
           task[k][w].pc \notin {"none", "done"}, task' = Moved(k, w, pc),
           world' = world, up' = up, table' \in {table, Nobody},
           asked' = asked \/ (asked = "start" /\ asked' = "running"),
           \A i \in World : flags[i].finalized => flags'[i].finalized,
           \A i \in World : hooks[i] > 0 => hooks'[i] > 0,
           k \in Stops /\ pc \in {"wait", "close"} => flags'[task[k][w].of].finalized,
           k \in Stops /\ pc = "close" => Main(task[k][w].of) = {},
           k = "run" /\ pc = "work" => ~ flags[task["run"][w].of].finalized,
           k = "run" /\ pc = "close" => task["run"][w].pc = "work",
           k # "create" /\ pc = "close" => hooks'[task[k][w].of] > 0,
           k \in Stops /\ pc = "done" => task[k][w].pc = "close",
           \A i \in World : flags'[i].sent => flags[i].sent \/ (i = task[k][w].of /\ task[k][w].pc = "close" /\ pc = "done"),
           task[k][w].pc = "close" => k # "create"
    PROVE  First'
<1> SUFFICES ASSUME FirstKernel' PROVE First'
    BY DEF First
<1>0. /\ FirstKernel /\ First /\ OneRunner /\ world = 1 /\ 1 \in World
      /\ "create" \in Kinds /\ "run" \in Kinds /\ "destroy" \in Kinds /\ "down" \in Kinds
      /\ "self" \in Kinds /\ "stop" \in Kinds /\ Stops = {"stop", "self", "down"}
    BY Typed DEF FirstKernel
<1>1. w = 1 /\ task[k][w].of = 1 /\ asked # "nothing"
    BY <1>0, InFirst
<1>2. /\ task'[k][1].pc = pc
      /\ \A j \in Kinds : j # k => task'[j][1] = task[j][1]
    BY <1>1, <1>0, MovedKeeps
<1>3. Main(1) = {} => (task["run"][1].of = 1 => task["run"][1].pc \notin {"work", "close"})
    BY <1>0 DEF Main
<1>4. task["run"][1].pc # "none" => task["run"][1].of = 1
    BY <1>0, InFirst
<1>5. \A j \in Kinds : task'[j][1].pc = "none" <=> task[j][1].pc = "none"
    BY <1>1, <1>0, MovedKeeps
<1>6. task["run"][1].pc \in {"work", "close"} \/ k = "run" => asked # "destroy"
    BY <1>0, <1>1 DEF OneRunner
<1>a. /\ \A j \in Kinds : task'[j][1].pc # "none" => asked' # "nothing"
      /\ table' # Nobody => task'["create"][1].pc # "none"
      /\ task'["down"][1].pc = "none"
      /\ task'["destroy"][1].pc # "none" => asked' = "destroy"
    BY <1>0, <1>1, <1>5 DEF First
<1>b. ASSUME NEW j \in Stops, task'[j][1].pc \in {"wait", "close", "done"} PROVE flags'[1].finalized
    <2>1. CASE j = k
        BY <2>1, <1>b, <1>0, <1>1, <1>2 DEF First
    <2>2. CASE j # k
        BY <2>2, <1>b, <1>0, <1>2 DEF First
    <2> QED BY <2>1, <2>2
<1>c. ASSUME NEW j \in Stops, task'[j][1].pc \in {"close", "done"}
      PROVE  task'["run"][1].pc \notin {"work", "close"} /\ hooks'[1] > 0
    <2>1. CASE j = k
        <3>1. task'["run"][1] = task["run"][1]
            BY <2>1, <1>0, <1>2
        <3>2. CASE pc = "close"
            BY <2>1, <3>1, <3>2, <1>0, <1>1, <1>3, <1>4
        <3>3. CASE pc = "done"
            BY <2>1, <3>1, <3>3, <1>0, <1>1 DEF First
        <3> QED BY <2>1, <3>2, <3>3, <1>c, <1>2
    <2>2. CASE j # k
        <3>1. task["run"][1].pc \notin {"work", "close"} /\ hooks[1] > 0 /\ flags[1].finalized
            BY <2>2, <1>c, <1>0, <1>2 DEF First
        <3> QED BY <3>1, <1>0, <1>1, <1>2
    <2> QED BY <2>1, <2>2
<1>d. task'["run"][1].pc = "close" => hooks'[1] > 0
    <2>1. CASE k = "run"
        BY <2>1, <1>0, <1>1, <1>2
    <2>2. CASE k # "run"
        BY <2>2, <1>0, <1>2 DEF First
    <2> QED BY <2>1, <2>2
<1>e. task'["destroy"][1].pc = "close" => hooks'[1] > 0
    <2>1. CASE k = "destroy"
        BY <2>1, <1>0, <1>1, <1>2
    <2>2. CASE k # "destroy"
        BY <2>2, <1>0, <1>2 DEF First
    <2> QED BY <2>1, <2>2
<1>f. ASSUME flags'[1].sent
      PROVE  /\ hooks'[1] > 0
             /\ task'["run"][1].pc \notin {"work", "close"}
             /\ flags'[1].finalized \/ task'["run"][1].pc = "done" \/ asked' = "destroy"
    <2>1. CASE flags[1].sent
        <3>1. /\ hooks[1] > 0 /\ task["run"][1].pc \notin {"work", "close"}
              /\ flags[1].finalized \/ task["run"][1].pc = "done" \/ asked = "destroy"
            BY <2>1, <1>0 DEF First
        <3>2. CASE k = "run"
            BY <3>1, <3>2, <1>0, <1>1, <1>2, <1>6
        <3>3. CASE k # "run"
            BY <3>1, <3>3, <1>0, <1>2
        <3> QED BY <3>2, <3>3
    <2>2. CASE ~ flags[1].sent
        <3>1. task[k][1].pc = "close" /\ pc = "done" /\ k # "create"
            BY <2>2, <1>f, <1>0, <1>1
        <3>2. CASE k = "run"
            BY <3>1, <3>2, <1>0, <1>2 DEF First
        <3>3. CASE k = "destroy"
            <4>1. hooks[1] > 0 /\ asked = "destroy"
                BY <3>1, <3>3, <1>0 DEF First
            <4>2. task'["run"][1].pc \notin {"work", "close"}
                BY <4>1, <1>6, <1>2, <1>0, <3>3
            <4> QED BY <4>1, <4>2, <1>0
        <3>4. CASE k \in Stops
            <4>1. k \in {"stop", "self", "down"} /\ task[k][w].of = 1 /\ pc = "done"
                BY <3>1, <3>4, <1>0, <1>1
            <4>2. flags'[1].finalized
                BY <3>4, <4>1, <1>b, <1>2
            <4> QED BY <3>1, <3>4, <4>1, <4>2, <1>0, <1>2, <1>c
        <3> QED BY <3>1, <3>2, <3>3, <3>4 DEF Kinds
    <2> QED BY <2>1, <2>2
<1> QED BY <1>a, <1>b, <1>c, <1>d, <1>e, <1>f DEF First

\* And for what it has been told: a report goes out with the flag that forbids the
\* next, and who cleans up has seen one go out.
LEMMA ToldKept ==
    ASSUME IInv, NEW k \in Kinds, NEW w \in World, NEW pc \in Pcs \ {"none"},
           task[k][w].pc \notin {"none", "done"}, task' = Moved(k, w, pc),
           world' = world, up' = up,
           asked' = asked \/ (asked = "start" /\ asked' = "running"),
           \/ table' = table /\ reports' = reports /\ \A i \in World : flags'[i].sent = flags[i].sent
           \/ table' = Nobody /\ k = "down"
           \/ /\ table' = Nobody /\ flags'[task[k][w].of].sent
              /\ \/ flags[task[k][w].of].sent /\ reports' = reports
                 \/ ~ flags[task[k][w].of].sent /\ Report(w)
    PROVE  Told'
<1> SUFFICES ASSUME FirstKernel' PROVE Told'
    BY DEF Told
<1>0. /\ FirstKernel /\ First /\ Told /\ 1 \in World /\ world \in World /\ TypeOK
      /\ "down" \in Kinds /\ \A j \in Kinds, v \in World : task[j][v].pc \in Pcs
    BY Typed DEF FirstKernel
<1>1. w = 1 /\ task[k][w].of = 1 /\ asked # "nothing" /\ k # "down"
    BY <1>0, InFirst DEF First
<1>2. reports # <<>> => flags[1].sent
    BY <1>0, <1>1 DEF Told
<1>3. \A j \in Kinds : task'[j][1].pc = "none" <=> task[j][1].pc = "none"
    BY <1>1, <1>0, MovedKeeps
<1>4. CASE table' = table /\ reports' = reports /\ \A i \in World : flags'[i].sent = flags[i].sent
    BY <1>0, <1>1, <1>2, <1>4 DEF Told, Forgotten
<1>5. CASE table' = Nobody /\ flags[1].sent /\ flags'[1].sent /\ reports' = reports
    BY <1>0, <1>1, <1>2, <1>5 DEF Told
<1>6. CASE table' = Nobody /\ ~ flags[1].sent /\ flags'[1].sent /\ Report(w)
    <2>1. reports = <<>> /\ reports' = Append(<<>>, <<w, Arrives>>)
        BY <1>2, <1>6, <1>0 DEF Report
    <2>2. Len(reports') = 1 /\ reports' # <<>>
        BY <2>1
    <2> QED BY <1>0, <1>1, <1>6, <2>2 DEF Told
<1> QED BY <1>1, <1>4, <1>5, <1>6

\* A report is between worlds, and a call of on_stopped is one more.
LEMMA ReportTyped ==
    ASSUME TypeOK, NEW w \in World, Report(w)
    PROVE  reports' \in Seq(World \X (World \cup {MaxWorld + 1}))
<1>1. Arrives \in World \cup {MaxWorld + 1}
    BY WorldAssumption DEF TypeOK, Arrives, World
<1> QED BY <1>1 DEF TypeOK, Report

\* Afterwards the instance has been reported, by this call or by an earlier one.
LEMMA Sent ==
    ASSUME TypeOK, NEW i \in World, NEW w \in World, Send(i, w)
    PROVE  /\ flags' \in [World -> FlagRecord]
           /\ \A j \in World : flags'[j].finalized = flags[j].finalized
           /\ \A j \in World : j # i => flags'[j].sent = flags[j].sent
           /\ reports' \in Seq(World \X (World \cup {MaxWorld + 1}))
           /\ flags'[i].sent
           /\ (flags[i].sent /\ reports' = reports) \/ (~ flags[i].sent /\ Report(w))
<1>1. CASE flags[i].sent
    <2>1. UNCHANGED <<flags, reports>>
        BY <1>1, Zenon DEF Send
    <2> QED BY <1>1, <2>1 DEF TypeOK
<1>2. CASE ~ flags[i].sent
    <2>1. flags' = [flags EXCEPT ![i].sent = TRUE] /\ Report(w) /\ flags \in [World -> FlagRecord]
        BY <1>2 DEF Send, TypeOK
    <2> QED BY <1>2, <2>1, SetFlag, ReportTyped
<1> QED BY <1>1, <1>2

LEMMA HookCalled ==
    ASSUME TypeOK, NEW i \in World, FireOnStopped(i)
    PROVE  /\ hooks' \in [World -> Nat] /\ hooks'[i] > 0
           /\ \A j \in World : hooks[j] > 0 => hooks'[j] > 0
    BY DEF TypeOK, FireOnStopped

LEMMA CreateKeeps ==
    ASSUME IInv, NEW w \in World, CreatedDone(w)
    PROVE  IInv'
<1>0. /\ TypeOK /\ "create" \in Kinds /\ "create" \notin Stops /\ "done" \in Pcs \ {"none"}
      /\ task["create"][w].pc = "work" /\ task' = Moved("create", w, "done")
      /\ UNCHANGED <<world, up, asked, table, flags, reports, hooks>>
    BY Typed DEF CreatedDone, Pcs
<1>1. Ahead' /\ OneRunner' /\ OfWorld' /\ task' \in [Kinds -> [World -> TaskRecord]]
    BY <1>0, MovedKeeps
<1>2. TypeOK'
    BY <1>0, <1>1 DEF TypeOK, OfWorld
<1>3. Downs'
    BY <1>0, DownsKept
<1>4. First'
    BY <1>0, FirstKept
<1>5. Told'
    BY <1>0, ToldKept
<1> QED BY <1>1, <1>2, <1>3, <1>4, <1>5 DEF IInv

LEMMA RunnerKeeps ==
    ASSUME IInv, NEW w \in World, Runner(w)
    PROVE  IInv'
<1>0. /\ TypeOK /\ OfWorld /\ "run" \in Kinds /\ "run" \notin Stops /\ flags \in [World -> FlagRecord]
      /\ {"work", "close", "done"} \subseteq Pcs \ {"none"}
    BY Typed DEF Pcs
<1> DEFINE i == task["run"][w].of
<1>1. CASE RunnerBegins(w)
    <2>0. /\ task["run"][w].pc = "spawned" /\ UNCHANGED <<world, up, table, reports, hooks>>
          /\ i \in World
        BY <1>0, <1>1 DEF RunnerBegins, OfWorld
    <2>1. CASE flags[i].finalized
        <3>0. task' = Moved("run", w, "done") /\ UNCHANGED <<flags, asked>>
            BY <1>1, <2>1 DEF RunnerBegins, Instance
        <3>1. Ahead' /\ OneRunner' /\ OfWorld' /\ task' \in [Kinds -> [World -> TaskRecord]]
            BY <1>0, <2>0, <3>0, MovedKeeps
        <3>2. TypeOK'
            BY <1>0, <2>0, <3>0, <3>1 DEF TypeOK, OfWorld
        <3>3. Downs'
            BY <1>0, <2>0, <3>0, DownsKept
        <3>4. First'
            BY <1>0, <2>0, <3>0, FirstKept
        <3>5. Told'
            BY <1>0, <2>0, <3>0, ToldKept
        <3> QED BY <3>1, <3>2, <3>3, <3>4, <3>5 DEF IInv
    <2>2. CASE ~ flags[i].finalized
        <3>0. /\ flags' = [flags EXCEPT ![i].requested = FALSE, ![i].inProgress = FALSE]
              /\ task' = Moved("run", w, "work")
              /\ asked' = asked \/ (asked = "start" /\ asked' = "running")
            BY <1>1, <2>2 DEF RunnerBegins, Instance
        <3>a. /\ flags' \in [World -> FlagRecord]
              /\ \A j \in World : flags'[j].finalized = flags[j].finalized /\ flags'[j].sent = flags[j].sent
            BY <1>0, <2>0, <3>0 DEF FlagRecord
        <3>1. Ahead' /\ OneRunner' /\ OfWorld' /\ task' \in [Kinds -> [World -> TaskRecord]]
            BY <1>0, <2>0, <3>0, MovedKeeps
        <3>2. TypeOK'
            BY <1>0, <2>0, <3>0, <3>a, <3>1 DEF TypeOK, OfWorld
        <3>3. Downs'
            BY <1>0, <2>0, <2>2, <3>0, <3>a, DownsKept
        <3>4. First'
            BY <1>0, <2>0, <2>2, <3>0, <3>a, FirstKept
        <3>5. Told'
            BY <1>0, <2>0, <3>0, <3>a, ToldKept
        <3> QED BY <3>1, <3>2, <3>3, <3>4, <3>5 DEF IInv
    <2> QED BY <2>1, <2>2
<1>2. CASE RunReturns(w)
    <2>0. /\ task["run"][w].pc = "work" /\ task' = Moved("run", w, "close") /\ FireOnStopped(i)
          /\ UNCHANGED <<world, up, asked, table, flags, reports>> /\ i \in World
        BY <1>0, <1>2 DEF RunReturns, Instance, OfWorld
    <2>a. /\ hooks' \in [World -> Nat] /\ hooks'[i] > 0
          /\ \A j \in World : hooks[j] > 0 => hooks'[j] > 0
        BY <1>0, <2>0, HookCalled
    <2>1. Ahead' /\ OneRunner' /\ OfWorld' /\ task' \in [Kinds -> [World -> TaskRecord]]
        BY <1>0, <2>0, MovedKeeps
    <2>2. TypeOK'
        BY <1>0, <2>0, <2>a, <2>1 DEF TypeOK, OfWorld
    <2>3. Downs'
        BY <1>0, <2>0, DownsKept
    <2>4. First'
        BY <1>0, <2>0, <2>a, FirstKept
    <2>5. Told'
        BY <1>0, <2>0, ToldKept
    <2> QED BY <2>1, <2>2, <2>3, <2>4, <2>5 DEF IInv
<1>3. CASE RunnerEnds(w)
    <2>0. /\ task["run"][w].pc = "close" /\ task' = Moved("run", w, "done") /\ Send(i, w)
          /\ table' = Nobody /\ UNCHANGED <<world, up, asked, hooks>> /\ i \in World
        BY <1>0, <1>3 DEF RunnerEnds, Instance, Cleanup, OfWorld
    <2>a. /\ flags' \in [World -> FlagRecord]
          /\ \A j \in World : flags'[j].finalized = flags[j].finalized
          /\ \A j \in World : j # i => flags'[j].sent = flags[j].sent
          /\ reports' \in Seq(World \X (World \cup {MaxWorld + 1}))
          /\ flags'[i].sent
          /\ (flags[i].sent /\ reports' = reports) \/ (~ flags[i].sent /\ Report(w))
        BY <1>0, <2>0, Sent
    <2>1. Ahead' /\ OneRunner' /\ OfWorld' /\ task' \in [Kinds -> [World -> TaskRecord]]
        BY <1>0, <2>0, MovedKeeps
    <2>2. TypeOK'
        BY <1>0, <2>0, <2>a, <2>1 DEF TypeOK, OfWorld
    <2>3. Downs'
        BY <1>0, <2>0, <2>a, DownsKept
    <2>4. First'
        <3>1. /\ \A j \in World : flags'[j].sent => flags[j].sent \/ j = i
              /\ \A j \in World : flags[j].finalized => flags'[j].finalized
              /\ \A j \in World : hooks[j] > 0 => hooks'[j] > 0
            BY <2>0, <2>a
        <3> QED BY <1>0, <2>0, <3>1, FirstKept
    <2>5. Told'
        BY <1>0, <2>0, <2>a, ToldKept
    <2> QED BY <2>1, <2>2, <2>3, <2>4, <2>5 DEF IInv
<1>4. CASE RunnerCancelled(w)
    <2>0. /\ task["run"][w].pc \in {"work", "close"} /\ task' = Moved("run", w, "done")
          /\ UNCHANGED <<world, up, asked, table, flags, reports, hooks>>
        BY <1>4 DEF RunnerCancelled
    <2>1. Ahead' /\ OneRunner' /\ OfWorld' /\ task' \in [Kinds -> [World -> TaskRecord]]
        BY <1>0, <2>0, MovedKeeps
    <2>2. TypeOK'
        BY <1>0, <2>0, <2>1 DEF TypeOK, OfWorld
    <2>3. Downs'
        BY <1>0, <2>0, DownsKept
    <2>4. First'
        BY <1>0, <2>0, FirstKept
    <2>5. Told'
        BY <1>0, <2>0, ToldKept
    <2> QED BY <2>1, <2>2, <2>3, <2>4, <2>5 DEF IInv
<1> QED BY <1>1, <1>2, <1>3, <1>4 DEF Runner

LEMMA StopperKeeps ==
    ASSUME IInv, NEW k \in Stops, NEW w \in World, Stopper(k, w)
    PROVE  IInv'
<1>0. /\ TypeOK /\ OfWorld /\ Downs /\ flags \in [World -> FlagRecord]
      /\ k \in Kinds /\ k # "run" /\ k # "create" /\ "down" \in Kinds
      /\ {"work", "wait", "close", "done"} \subseteq Pcs \ {"none"}
    BY Typed DEF Pcs
<1> DEFINE i == task[k][w].of
<1>1. CASE StopperBegins(k, w)
    <2>0. /\ task[k][w].pc = "spawned" /\ task' = Moved(k, w, "work") /\ i \in World
          /\ flags' = [flags EXCEPT ![i].requested = TRUE]
          /\ UNCHANGED <<world, up, asked, table, reports, hooks>>
        BY <1>0, <1>1 DEF StopperBegins, Instance, OfWorld
    <2>a. /\ flags' \in [World -> FlagRecord]
          /\ \A j \in World : flags'[j].finalized = flags[j].finalized /\ flags'[j].sent = flags[j].sent
        BY <1>0, <2>0, SetFlag
    <2>1. Ahead' /\ OneRunner' /\ OfWorld' /\ task' \in [Kinds -> [World -> TaskRecord]]
        BY <1>0, <2>0, MovedKeeps
    <2>2. TypeOK'
        BY <1>0, <2>0, <2>a, <2>1 DEF TypeOK, OfWorld
    <2>3. Downs'
        BY <1>0, <2>0, <2>a, DownsKept
    <2>4. First'
        BY <1>0, <2>0, <2>a, FirstKept
    <2>5. Told'
        BY <1>0, <2>0, <2>a, ToldKept
    <2> QED BY <2>1, <2>2, <2>3, <2>4, <2>5 DEF IInv
<1>2. CASE StopperFinalizes(k, w)
    <2>0. /\ task[k][w].pc = "work" /\ i \in World
          /\ flags' = [flags EXCEPT ![i].finalized = TRUE]
          /\ UNCHANGED <<world, up, asked, table, reports>>
        BY <1>0, <1>2 DEF StopperFinalizes, Instance, OfWorld
    <2>a. /\ flags' \in [World -> FlagRecord] /\ flags'[i].finalized
          /\ \A j \in World : flags'[j].sent = flags[j].sent
          /\ \A j \in World : flags[j].finalized => flags'[j].finalized
        BY <1>0, <2>0, SetFlag
    <2>b. PICK pc \in {"wait", "close"} :
             /\ task' = Moved(k, w, pc)
             /\ pc = "wait" => hooks' = hooks
             /\ pc = "close" => Main(i) = {} /\ FireOnStopped(i)
        BY <1>2 DEF StopperFinalizes, Instance
    <2>c. /\ hooks' \in [World -> Nat] /\ (pc = "close" => hooks'[i] > 0)
          /\ \A j \in World : hooks[j] > 0 => hooks'[j] > 0
        BY <1>0, <2>0, <2>b, HookCalled DEF TypeOK
    <2>1. Ahead' /\ OneRunner' /\ OfWorld' /\ task' \in [Kinds -> [World -> TaskRecord]]
        BY <1>0, <2>0, <2>b, MovedKeeps
    <2>2. TypeOK'
        BY <1>0, <2>0, <2>a, <2>c, <2>1 DEF TypeOK, OfWorld
    <2>3. Downs'
        BY <1>0, <2>0, <2>a, <2>b, DownsKept
    <2>4. First'
        BY <1>0, <2>0, <2>a, <2>b, <2>c, FirstKept
    <2>5. Told'
        BY <1>0, <2>0, <2>a, <2>b, ToldKept
    <2> QED BY <2>1, <2>2, <2>3, <2>4, <2>5 DEF IInv
<1>3. CASE StopperResumes(k, w)
    <2>0. /\ task[k][w].pc = "wait" /\ task' = Moved(k, w, "close") /\ i \in World
          /\ Main(i) = {} /\ FireOnStopped(i)
          /\ UNCHANGED <<world, up, asked, table, flags, reports>>
        BY <1>0, <1>3 DEF StopperResumes, Instance, OfWorld
    <2>a. /\ hooks' \in [World -> Nat] /\ hooks'[i] > 0
          /\ \A j \in World : hooks[j] > 0 => hooks'[j] > 0
        BY <1>0, <2>0, HookCalled
    <2>b. k = "down" => flags[i].finalized
        BY <1>0, <2>0 DEF Downs, DownInOrder
    <2>1. Ahead' /\ OneRunner' /\ OfWorld' /\ task' \in [Kinds -> [World -> TaskRecord]]
        BY <1>0, <2>0, MovedKeeps
    <2>2. TypeOK'
        BY <1>0, <2>0, <2>a, <2>1 DEF TypeOK, OfWorld
    <2>3. Downs'
        BY <1>0, <2>0, <2>b, DownsKept
    <2>4. First'
        <3> SUFFICES ASSUME FirstKernel' PROVE First'
            BY DEF First
        <3>1. FirstKernel /\ First /\ w = 1 /\ i = 1
            BY <1>0, <2>0, InFirst, Typed DEF FirstKernel
        <3>2. flags[i].finalized
            BY <2>0, <3>1 DEF First
        <3> QED BY <1>0, <2>0, <2>a, <3>2, FirstKept
    <2>5. Told'
        BY <1>0, <2>0, ToldKept
    <2> QED BY <2>1, <2>2, <2>3, <2>4, <2>5 DEF IInv
<1>4. CASE StopperEnds(k, w)
    <2>0. /\ task[k][w].pc = "close" /\ task' = Moved(k, w, "done") /\ i \in World
          /\ table' = Nobody /\ UNCHANGED <<world, up, asked, hooks>>
          /\ flags' = [flags EXCEPT ![i].sent = @ \/ (k # "down" /\ ~ flags[i].sent), ![i].inProgress = FALSE]
          /\ (k # "down" /\ ~ flags[i].sent) => Report(w)
          /\ ~ (k # "down" /\ ~ flags[i].sent) => reports' = reports
        BY <1>0, <1>4 DEF StopperEnds, Instance, Cleanup, OfWorld
    <2>a. /\ flags' \in [World -> FlagRecord]
          /\ \A j \in World : flags'[j].finalized = flags[j].finalized
          /\ \A j \in World : j # i => flags'[j].sent = flags[j].sent
          /\ flags'[i].sent = (flags[i].sent \/ k # "down")
        BY <1>0, <2>0 DEF FlagRecord
    <2>b. reports' \in Seq(World \X (World \cup {MaxWorld + 1}))
        BY <1>0, <2>0, ReportTyped DEF TypeOK
    <2>c. k = "down" => flags[i].finalized /\ Main(i) = {}
        BY <1>0, <2>0 DEF Downs, DownInOrder, Main
    <2>1. Ahead' /\ OneRunner' /\ OfWorld' /\ task' \in [Kinds -> [World -> TaskRecord]]
        BY <1>0, <2>0, MovedKeeps
    <2>2. TypeOK'
        BY <1>0, <2>0, <2>a, <2>b, <2>1 DEF TypeOK, OfWorld
    <2>3. Downs'
        BY <1>0, <2>0, <2>a, <2>c, DownsKept
    <2>4. First'
        <3>1. /\ \A j \in World : flags'[j].sent => flags[j].sent \/ j = i
              /\ \A j \in World : flags[j].finalized => flags'[j].finalized
              /\ \A j \in World : hooks[j] > 0 => hooks'[j] > 0
            BY <2>0, <2>a
        <3>2. task[k][w].pc = "close" /\ task' = Moved(k, w, "done") /\ UNCHANGED <<world, up, asked>>
              /\ table' \in {table, Nobody}
            BY <2>0
        <3> QED BY <1>0, <3>1, <3>2, FirstKept
    <2>5. Told'
        BY <1>0, <2>0, <2>a, ToldKept
    <2> QED BY <2>1, <2>2, <2>3, <2>4, <2>5 DEF IInv
<1> QED BY <1>1, <1>2, <1>3, <1>4 DEF Stopper

LEMMA DestroyKeeps ==
    ASSUME IInv, HandleDestroy \/ \E w \in World : Destroyer(w)
    PROVE  IInv'
<1>0. /\ TypeOK /\ OfWorld /\ Ahead /\ OneRunner /\ Downs /\ First /\ Told
      /\ flags \in [World -> FlagRecord] /\ task \in [Kinds -> [World -> TaskRecord]]
      /\ world \in World /\ 1 \in World /\ Stops = {"stop", "self", "down"}
      /\ "destroy" \in Kinds /\ "destroy" \notin Stops /\ "run" \in Kinds /\ "down" \in Kinds
      /\ {"work", "close", "done"} \subseteq Pcs \ {"none"} /\ "create" \in Kinds
      /\ "self" \in Kinds /\ "stop" \in Kinds
    BY Typed DEF Pcs
<1>1. CASE HandleDestroy
    <2>0. up /\ asked = "created" /\ asked' = "destroy" /\ UNCHANGED <<world, up, table, reports, hooks>>
        BY <1>1 DEF HandleDestroy
    <2>1. CASE table = Nobody
        <3>1. UNCHANGED <<flags, task>>
            BY <1>1, <2>1 DEF HandleDestroy
        <3>2. TypeOK' /\ Ahead' /\ OneRunner' /\ Downs'
            BY <1>0, <2>0, <3>1 DEF TypeOK, Ahead, OneRunner, Downs, DownInOrder
        <3>3. First' /\ Told'
            BY <1>0, <2>0, <3>1 DEF First, Told, FirstKernel, Forgotten
        <3> QED BY <3>2, <3>3 DEF IInv
    <2>2. CASE table # Nobody
        <3>0. flags' = [flags EXCEPT ![table].requested = TRUE] /\ task' = Made("destroy", "work", table)
            BY <1>1, <2>2 DEF HandleDestroy
        <3>1. /\ task' \in [Kinds -> [World -> TaskRecord]] /\ table \in World
              /\ task'["destroy"][world].pc = "work" /\ task'["destroy"][world].of = table
              /\ \A j \in Kinds, v \in World : j # "destroy" \/ v # world => task'[j][v] = task[j][v]
              /\ OfWorld' /\ Ahead' /\ OneRunner'
            BY <1>0, <2>0, <2>2, <3>0, MadeKeeps
        <3>2. /\ flags' \in [World -> FlagRecord]
              /\ \A j \in World : flags'[j].finalized = flags[j].finalized /\ flags'[j].sent = flags[j].sent
            BY <1>0, <3>0, <3>1, SetFlag
        <3>3. TypeOK'
            BY <1>0, <2>0, <3>1, <3>2 DEF TypeOK, OfWorld
        <3>4. Downs'
            <4> SUFFICES ASSUME NEW w \in World, task'["down"][w].pc # "none" PROVE DownInOrder(w)'
                BY DEF Downs
            <4>1. /\ task'["down"][w] = task["down"][w] /\ task["down"][w].of \in World /\ DownInOrder(w)
                  /\ \A v \in World : task'["run"][v] = task["run"][v]
                BY <1>0, <3>1 DEF Downs, OfWorld
            <4> QED BY <2>0, <3>2, <4>1 DEF DownInOrder
        <3>5. First'
            <4> SUFFICES ASSUME FirstKernel' PROVE First'
                BY DEF First
            <4>1. FirstKernel /\ world = 1
                BY <2>0 DEF FirstKernel
            <4> QED BY <1>0, <2>0, <3>1, <3>2, <4>1 DEF First
        <3>6. Told'
            <4> SUFFICES ASSUME FirstKernel' PROVE Told'
                BY DEF Told
            <4>1. FirstKernel /\ world = 1 /\ (reports # <<>> => flags[1].sent)
                BY <1>0, <2>0, <2>2 DEF FirstKernel, First, Told
            <4> QED BY <1>0, <2>0, <2>2, <3>2, <4>1 DEF Told, Forgotten
        <3> QED BY <3>1, <3>3, <3>4, <3>5, <3>6 DEF IInv
    <2> QED BY <2>1, <2>2
<1>2. ASSUME NEW w \in World, DestroyCloses(w) PROVE IInv'
    <2> DEFINE i == task["destroy"][w].of
    <2>0. /\ task["destroy"][w].pc = "work" /\ task' = Moved("destroy", w, "close") /\ i \in World
          /\ FireOnStopped(i) /\ UNCHANGED <<world, up, asked, table, flags, reports>>
        BY <1>0, <1>2 DEF DestroyCloses, Instance, OfWorld
    <2>a. /\ hooks' \in [World -> Nat] /\ hooks'[i] > 0
          /\ \A j \in World : hooks[j] > 0 => hooks'[j] > 0
        BY <1>0, <2>0, HookCalled
    <2>1. Ahead' /\ OneRunner' /\ OfWorld' /\ task' \in [Kinds -> [World -> TaskRecord]]
        BY <1>0, <2>0, MovedKeeps
    <2>2. TypeOK'
        BY <1>0, <2>0, <2>a, <2>1 DEF TypeOK, OfWorld
    <2>3. Downs'
        BY <1>0, <2>0, DownsKept
    <2>4. First'
        BY <1>0, <2>0, <2>a, FirstKept
    <2>5. Told'
        BY <1>0, <2>0, ToldKept
    <2> QED BY <2>1, <2>2, <2>3, <2>4, <2>5 DEF IInv
<1>3. ASSUME NEW w \in World, DestroyEnds(w) PROVE IInv'
    <2> DEFINE i == task["destroy"][w].of
    <2>0. /\ task["destroy"][w].pc = "close" /\ task' = Moved("destroy", w, "done") /\ Send(i, w)
          /\ table' = Nobody /\ UNCHANGED <<world, up, asked, hooks>> /\ i \in World
        BY <1>0, <1>3 DEF DestroyEnds, Instance, Cleanup, OfWorld
    <2>a. /\ flags' \in [World -> FlagRecord]
          /\ \A j \in World : flags'[j].finalized = flags[j].finalized
          /\ \A j \in World : j # i => flags'[j].sent = flags[j].sent
          /\ reports' \in Seq(World \X (World \cup {MaxWorld + 1}))
          /\ flags'[i].sent
          /\ (flags[i].sent /\ reports' = reports) \/ (~ flags[i].sent /\ Report(w))
        BY <1>0, <2>0, Sent
    <2>1. Ahead' /\ OneRunner' /\ OfWorld' /\ task' \in [Kinds -> [World -> TaskRecord]]
        BY <1>0, <2>0, MovedKeeps
    <2>2. TypeOK'
        BY <1>0, <2>0, <2>a, <2>1 DEF TypeOK, OfWorld
    <2>3. Downs'
        BY <1>0, <2>0, <2>a, DownsKept
    <2>4. First'
        <3>1. /\ \A j \in World : flags'[j].sent => flags[j].sent \/ j = i
              /\ \A j \in World : flags[j].finalized => flags'[j].finalized
              /\ \A j \in World : hooks[j] > 0 => hooks'[j] > 0
            BY <2>0, <2>a
        <3> QED BY <1>0, <2>0, <3>1, FirstKept
    <2>5. Told'
        BY <1>0, <2>0, <2>a, ToldKept
    <2> QED BY <2>1, <2>2, <2>3, <2>4, <2>5 DEF IInv
<1> QED BY <1>1, <1>2, <1>3 DEF Destroyer

\* Whoever asks for the end of a running routine.
LEMMA StopAskedKeeps ==
    ASSUME IInv, HandleStop \/ RequestStop \/ PeerDown
    PROVE  IInv'
<1>0. {"stop", "self", "down"} \subseteq Stops
    BY DEF Stops
<1>1. CASE HandleStop
    BY <1>0, <1>1, StopKeeps DEF HandleStop
<1>2. CASE RequestStop
    BY <1>0, <1>2, StopKeeps DEF RequestStop
<1>3. CASE PeerDown
    BY <1>0, <1>3, StopKeeps DEF PeerDown
<1> QED BY <1>1, <1>2, <1>3

\* The next kernel comes when the stopper of the lost connection is done, and finds
\* nothing made for it.
LEMMA ReconnectKeeps ==
    ASSUME IInv, NotLast, Reconnect
    PROVE  IInv'
<1>0. /\ TypeOK /\ OfWorld /\ Ahead /\ OneRunner /\ Downs /\ First /\ Told
      /\ world \in World /\ World \subseteq Nat /\ "run" \in Kinds /\ "down" \in Kinds
    BY Typed
<1>1. /\ ~ up /\ task["down"][world].pc \in {"none", "done"}
      /\ up' = TRUE /\ world' = world + 1 /\ asked' = "nothing"
      /\ UNCHANGED <<table, flags, task, reports, hooks>>
    BY DEF Reconnect
<1>2. world' \in World /\ world' > world
    BY <1>0, <1>1, WorldAssumption DEF NotLast, World
<1>3. TypeOK'
    BY <1>0, <1>1, <1>2 DEF TypeOK
<1>4. Ahead'
    BY <1>0, <1>1, <1>2 DEF Ahead, TypeOK, Nobody
<1>5. OneRunner'
    BY <1>0, <1>1, <1>2 DEF OneRunner, Ahead
<1>6. Downs'
    <2> SUFFICES ASSUME NEW w \in World, task["down"][w].pc # "none" PROVE DownInOrder(w)'
        BY <1>1 DEF Downs
    <2>1. w <= world /\ DownInOrder(w) /\ w \in Nat /\ world \in Nat
        BY <1>0 DEF Ahead, Downs
    <2>2. task["down"][w].pc = "done" /\ w # world'
        BY <1>1, <1>2, <2>1 DEF DownInOrder
    <2> QED BY <1>1, <2>1, <2>2 DEF DownInOrder
<1>7. First' /\ Told'
    BY <1>0, <1>1, <1>2 DEF First, Told, FirstKernel, World
<1> QED BY <1>3, <1>4, <1>5, <1>6, <1>7 DEF IInv

LEMMA NextKeeps == IInv /\ NotLast /\ [Next]_vars => IInv' /\ NotLast'
<1> SUFFICES ASSUME IInv, NotLast, [Next]_vars PROVE IInv' /\ NotLast'
    OBVIOUS
<1>1. CASE FromKernel
    <2>1. up /\ up' = up
        BY <1>1 DEF FromKernel, HandleCreatedUnknown, HandleCreated, HandleStart, HandleRejected,
                    HandleStop, HandleDestroy
    <2> QED BY <1>1, <2>1, RequestKeeps, StopAskedKeeps, DestroyKeeps DEF FromKernel, NotLast
<1>2. CASE RequestStop \/ PeerDown
    <2>1. NotLast'
        BY <1>2 DEF NotLast, RequestStop, PeerDown
    <2> QED BY <1>2, <2>1, StopAskedKeeps
<1>3. CASE Reconnect
    BY <1>3, ReconnectKeeps DEF Reconnect, NotLast
<1>4. ASSUME NEW w \in World, CreatedDone(w) \/ Runner(w) \/ Destroyer(w) \/ \E k \in Stops : Stopper(k, w)
      PROVE  IInv' /\ NotLast'
    <2>1. up' = up /\ world' = world
        BY <1>4 DEF CreatedDone, Runner, RunnerBegins, RunReturns, RunnerEnds, RunnerCancelled,
                    Destroyer, DestroyCloses, DestroyEnds,
                    Stopper, StopperBegins, StopperFinalizes, StopperResumes, StopperEnds
    <2> QED BY <1>4, <2>1, CreateKeeps, RunnerKeeps, DestroyKeeps, StopperKeeps DEF NotLast
<1>5. CASE UNCHANGED vars
    <2>1. /\ TypeOK /\ Ahead /\ OneRunner /\ Downs /\ First /\ Told
          /\ UNCHANGED <<world, up, asked, table, flags, task, reports, hooks>>
        BY <1>5, Typed DEF vars
    <2>2. TypeOK' /\ Ahead' /\ OneRunner'
        BY <2>1 DEF TypeOK, Ahead, OneRunner
    <2>3. Downs'
        BY <2>1 DEF Downs, DownInOrder
    <2>4. First' /\ Told' /\ NotLast'
        BY <2>1 DEF First, Told, FirstKernel, Forgotten, NotLast
    <2> QED BY <2>2, <2>3, <2>4 DEF IInv
<1> QED BY <1>1, <1>2, <1>3, <1>4, <1>5 DEF Next

LEMMA Inductive == Spec => []IInv
<1>1. Init => IInv /\ NotLast
    BY InitInv DEF Init, NotLast
<1> QED BY <1>1, NextKeeps, PTL DEF Spec

\* Under the first kernel the end of an instance is reported at most once, and only when
\* run has been left and on_stopped has been called (LifecycleManager._send_stopped and
\* its callers), however stop, self-stop, destroy, return and cancellation interleave.
THEOREM ReportedOverHolds == Spec => []ReportedOver
<1>1. IInv => ReportedOver
    <2> SUFFICES ASSUME IInv PROVE ReportedOver
        OBVIOUS
    <2>1. TypeOK /\ First /\ Told
        BY Typed
    <2>2. ReportOnce /\ ReportedIsOver
        BY <2>1 DEF ReportOnce, ReportedIsOver, First, Told
    <2> QED BY <2>1, <2>2 DEF ReportedOver
<1> QED BY <1>1, Inductive, PTL

\* Under the first kernel the hub forgets no instance of a routine that this kernel has
\* created without having told it so (_cleanup after _send_stopped, and the class the
\* hub does not know).
THEOREM ForgottenIsToldHolds == Spec => []ForgottenIsTold
<1>1. IInv => ForgottenIsTold
    BY Typed DEF ForgottenIsTold, Told
<1> QED BY <1>1, Inductive, PTL

\* What the loss of a connection has stopped has left run and on_stopped before the hub
\* talks to the next kernel (stop_all_local, awaited before the link is made again).
THEOREM JoinedIsOverHolds == Spec => []JoinedIsOver
<1>1. IInv => JoinedIsOver
    <2> SUFFICES ASSUME IInv, NEW w \in World, w < world, task["down"][w].pc # "none"
                 PROVE  task["run"][w].pc \notin {"work", "close"}
        BY DEF JoinedIsOver
    <2>1. DownInOrder(w)
        BY Typed DEF Downs
    <2> QED BY <2>1 DEF DownInOrder
<1> QED BY <1>1, Inductive, PTL

===============================================================================
