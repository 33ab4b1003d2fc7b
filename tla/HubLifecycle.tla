----------------------------- MODULE HubLifecycle -----------------------------
(***************************************************************************)
(* The hub's side of one routine id (lifecycle.py, the tables of           *)
(* runtime.py, the stop flags of routine.py): instantiating, running,      *)
(* stopping and destroying an instance, each in a task of its own, and     *)
(* what the hub does when the kernel's process goes away and another one   *)
(* comes, that hands out the same ids again (grpc_client.py).              *)
(*                                                                         *)
(* A world is the lifetime of one kernel process.  In each world the       *)
(* kernel drives the id once, as Kernel.tla says: created, then start and  *)
(* at most one stop; or destroy, or a rejected start.  What a task does    *)
(* between two awaits is one action; an await of the routine's own code (a *)
(* hook, run) lasts as long as that code likes.                            *)
(***************************************************************************)
EXTENDS Naturals, Sequences

CONSTANT MaxWorld      \* bound: kernel processes in a behaviour

ASSUME WorldAssumption == MaxWorld \in Nat \ {0}

World == 1..MaxWorld
Nobody == 0

\* The tasks the hub may make for the id in one world.  The graceful stop has
\* three: stop, for the kernel; self, when the routine asks to be stopped (bound:
\* once in a world); down, for stop_all_local, which does not report.
Stops == {"stop", "self", "down"}
Kinds == Stops \cup {"create", "run", "destroy"}

VARIABLES
    world,      \* the kernel process the hub is connected to, or was last
    up,         \* whether the link to it is up
    asked,      \* the last thing that kernel has asked of the id
    table,      \* running_instances[id]: the world its instance was made in
    flags,      \* flags[i]: the stop flags of the instance made in world i
    task,       \* task[k][w]: the task of kind k made in world w
    reports,    \* stopped reports, in order: <<whose world's routine, to which world>>
    hooks       \* hooks[i]: calls of on_stopped on that instance

vars == <<world, up, asked, table, flags, task, reports, hooks>>

FlagRecord == [
    requested  : BOOLEAN,      \* _stop_requested
    inProgress : BOOLEAN,      \* _stop_in_progress
    finalized  : BOOLEAN,      \* _stop_finalized
    sent       : BOOLEAN]      \* _stopped_sent

\* spawned: created, not run yet.  work: in on_created, run, stop() or destroy().
\* wait: the stopper waits for the main task.  close: in on_stopped.
TaskRecord == [
    pc : {"none", "spawned", "work", "wait", "close", "done"},
    of : World \cup {Nobody}]          \* the instance it is about

TypeOK ==
    /\ world \in World
    /\ up \in BOOLEAN
    /\ asked \in {"nothing", "created", "start", "running", "stop", "destroy", "rejected"}
    /\ table \in World \cup {Nobody}
    /\ flags \in [World -> FlagRecord]
    /\ task \in [Kinds -> [World -> TaskRecord]]
    /\ \A k \in Kinds, w \in World : task[k][w].pc # "none" => task[k][w].of \in World
    /\ reports \in Seq(World \X (World \cup {MaxWorld + 1}))
    /\ hooks \in [World -> Nat]

NoFlags == [requested |-> FALSE, inProgress |-> FALSE, finalized |-> FALSE, sent |-> FALSE]
NoTask  == [pc |-> "none", of |-> Nobody]

Init ==
    /\ world = 1 /\ up = TRUE /\ asked = "nothing"
    /\ table = Nobody
    /\ flags = [i \in World |-> NoFlags]
    /\ task = [k \in Kinds |-> [w \in World |-> NoTask]]
    /\ reports = <<>>
    /\ hooks = [i \in World |-> 0]

-------------------------------------------------------------------------------

Moved(k, w, pc)    == [task EXCEPT ![k][w].pc = pc]
Made(k, pc, i)     == [task EXCEPT ![k][world] = [pc |-> pc, of |-> i]]
Instance(k, w)     == task[k][w].of

\* The main task of instance i that has begun and has not ended.
Main(i) == {w \in World : task["run"][w].of = i /\ task["run"][w].pc \in {"work", "close"}}

\* A report is put on the queue of the link, and the queue is emptied when the
\* link breaks: what is sent while the link is down waits for the next kernel.
Arrives == IF up THEN world ELSE world + 1

Report(w) == reports' = Append(reports, <<w, Arrives>>)

\* Wrong on purpose: no guard against the other task's report.
SendAgain(i, w) ==
    /\ flags' = [flags EXCEPT ![i].sent = TRUE]
    /\ Report(w)

\* _send_stopped: only the first call for an instance reports.
Send(i, w) ==
    IF flags[i].sent THEN UNCHANGED <<flags, reports>>
    ELSE /\ flags' = [flags EXCEPT ![i].sent = TRUE]
         /\ Report(w)

\* _cleanup: whatever instance the id now has leaves the tables.
Cleanup == table' = Nobody

\* _fire_on_stopped begins.
FireOnStopped(i) == hooks' = [hooks EXCEPT ![i] = @ + 1]

-------------------------------------------------------------------------------
\* What the kernel asks for.

\* handle_created of a class the hub does not know.
HandleCreatedUnknown ==
    /\ up /\ asked = "nothing"
    /\ asked' = "created"
    /\ Report(world)
    /\ UNCHANGED <<world, up, table, flags, task, hooks>>

\* handle_created up to its first await: an instance the id still has is used
\* again, otherwise one is made.
HandleCreated ==
    /\ up /\ asked = "nothing"
    /\ LET i == IF table # Nobody THEN table ELSE world IN
        /\ table' = i
        /\ flags' = [flags EXCEPT ![i].finalized = FALSE]
        /\ task' = Made("create", "work", i)
    /\ asked' = "created"
    /\ UNCHANGED <<world, up, reports, hooks>>

\* on_created has returned or raised: created is reported.
CreatedDone(w) ==
    /\ task["create"][w].pc = "work"
    /\ task' = Moved("create", w, "done")
    /\ UNCHANGED <<world, up, asked, table, flags, reports, hooks>>

Ready == asked = "created" /\ task["create"][world].pc = "done"

\* handle_start: skipped without an instance; otherwise the runner is made.
HandleStart ==
    /\ up /\ Ready
    /\ asked' = "start"
    /\ task' = IF table = Nobody THEN task ELSE Made("run", "spawned", table)
    /\ UNCHANGED <<world, up, table, flags, reports, hooks>>

\* _on_routine_rejected, for a start that was refused and is not a try_start.
HandleRejected ==
    /\ up /\ Ready
    /\ asked' = "rejected"
    /\ Cleanup
    /\ UNCHANGED <<world, up, flags, task, reports, hooks>>

\* begin_stop, and the task of the graceful stop: nothing without an instance,
\* nothing when a stop is under way or has been finalized.
Stop(kind) ==
    IF table # Nobody /\ ~ flags[table].inProgress /\ ~ flags[table].finalized
    THEN /\ flags' = [flags EXCEPT ![table].inProgress = TRUE]
         /\ task' = Made(kind, "spawned", table)
    ELSE UNCHANGED <<flags, task>>

\* handle_stop.
HandleStop ==
    /\ up /\ asked = "running"
    /\ asked' = "stop"
    /\ Stop("stop")
    /\ UNCHANGED <<world, up, table, reports, hooks>>

\* handle_destroy up to the destroy hook.
HandleDestroy ==
    /\ up /\ asked = "created"
    /\ asked' = "destroy"
    /\ IF table # Nobody
        THEN /\ flags' = [flags EXCEPT ![table].requested = TRUE]
             /\ task' = Made("destroy", "work", table)
        ELSE UNCHANGED <<flags, task>>
    /\ UNCHANGED <<world, up, table, reports, hooks>>

\* request_stop: code of the routine (a message handler, run, a hook) asks for
\* the end of its own instance.
RequestStop ==
    /\ table # Nobody /\ task["self"][world].pc = "none"
    /\ Stop("self")
    /\ UNCHANGED <<world, up, asked, table, reports, hooks>>

-------------------------------------------------------------------------------
\* The runner.

\* The runner's first step, up to on_started and run: a stop that has been
\* finalized wins; otherwise the stop flags are reset and started is reported.
RunnerBegins(w) ==
    /\ task["run"][w].pc = "spawned"
    /\ LET i == Instance("run", w) IN
        IF flags[i].finalized
        THEN /\ task' = Moved("run", w, "done")
             /\ UNCHANGED <<flags, asked>>
        ELSE /\ flags' = [flags EXCEPT ![i].requested = FALSE, ![i].inProgress = FALSE]
             /\ task' = Moved("run", w, "work")
             /\ asked' = IF up /\ world = w /\ asked = "start" THEN "running" ELSE asked
    /\ UNCHANGED <<world, up, table, reports, hooks>>

\* run returns, or raises: on_stopped is called, whoever else is stopping.
RunReturns(w) ==
    /\ task["run"][w].pc = "work"
    /\ task' = Moved("run", w, "close")
    /\ FireOnStopped(Instance("run", w))
    /\ UNCHANGED <<world, up, asked, table, flags, reports>>

\* on_stopped has returned: report, clean up.
RunnerEnds(w) ==
    /\ task["run"][w].pc = "close"
    /\ task' = Moved("run", w, "done")
    /\ Send(Instance("run", w), w)
    /\ Cleanup
    /\ UNCHANGED <<world, up, asked, hooks>>

\* A stopper that waits for the main task of w.
StopperWaits(w) ==
    \E k \in Stops, v \in World :
        task[k][v].pc = "wait" /\ Instance(k, v) = Instance("run", w)

\* Wrong on purpose: a cancelled runner cleans up, and reports nothing.
RunnerCancelledCleans(w) ==
    /\ task["run"][w].pc \in {"work", "close"} /\ StopperWaits(w)
    /\ task' = Moved("run", w, "done")
    /\ Cleanup
    /\ UNCHANGED <<world, up, asked, flags, reports, hooks>>

\* Wrong on purpose: when patience is lost, run is only waited for again.
RunnerCancelledLate(w) ==
    /\ task["run"][w].pc = "close" /\ StopperWaits(w)
    /\ task' = Moved("run", w, "done")
    /\ UNCHANGED <<world, up, asked, table, flags, reports, hooks>>

\* The stopper has lost patience and cancelled the main task: the runner leaves
\* without a word, in run (a run that swallows the cancellation returns instead)
\* and in on_stopped alike.
RunnerCancelled(w) ==
    /\ task["run"][w].pc \in {"work", "close"} /\ StopperWaits(w)
    /\ task' = Moved("run", w, "done")
    /\ UNCHANGED <<world, up, asked, table, flags, reports, hooks>>

-------------------------------------------------------------------------------
\* The graceful stop, k \in Stops.

StopperBegins(k, w) ==
    /\ task[k][w].pc = "spawned"
    /\ flags' = [flags EXCEPT ![Instance(k, w)].requested = TRUE]
    /\ task' = Moved(k, w, "work")
    /\ UNCHANGED <<world, up, asked, table, reports, hooks>>

\* stop() has returned, raised or timed out: from here on the stopper is in
\* charge; it waits for the main task if there is one.
StopperFinalizes(k, w) ==
    /\ task[k][w].pc = "work"
    /\ LET i == Instance(k, w) IN
        /\ flags' = [flags EXCEPT ![i].finalized = TRUE]
        /\ IF Main(i) # {}
            THEN task' = Moved(k, w, "wait") /\ UNCHANGED hooks
            ELSE task' = Moved(k, w, "close") /\ FireOnStopped(i)
    /\ UNCHANGED <<world, up, asked, table, reports>>

\* The main task has ended.
StopperResumes(k, w) ==
    /\ task[k][w].pc = "wait" /\ Main(Instance(k, w)) = {}
    /\ task' = Moved(k, w, "close")
    /\ FireOnStopped(Instance(k, w))
    /\ UNCHANGED <<world, up, asked, table, flags, reports>>

\* on_stopped has returned: report (unless the kernel is gone), clean up.
StopperEnds(k, w) ==
    /\ task[k][w].pc = "close"
    /\ LET i == Instance(k, w)
           tells == k # "down" /\ ~ flags[i].sent
       IN  /\ flags' = [flags EXCEPT ![i].sent = @ \/ tells, ![i].inProgress = FALSE]
           /\ IF tells THEN Report(w) ELSE UNCHANGED reports
    /\ task' = Moved(k, w, "done")
    /\ Cleanup
    /\ UNCHANGED <<world, up, asked, hooks>>

-------------------------------------------------------------------------------
\* The destroy task.

\* destroy() has returned, raised or timed out.
DestroyCloses(w) ==
    /\ task["destroy"][w].pc = "work"
    /\ task' = Moved("destroy", w, "close")
    /\ FireOnStopped(Instance("destroy", w))
    /\ UNCHANGED <<world, up, asked, table, flags, reports>>

DestroyEnds(w) ==
    /\ task["destroy"][w].pc = "close"
    /\ task' = Moved("destroy", w, "done")
    /\ Send(Instance("destroy", w), w)
    /\ Cleanup
    /\ UNCHANGED <<world, up, asked, hooks>>

-------------------------------------------------------------------------------
\* The kernel's process dies and another one comes.

\* handle_peer_down, stop_all_local: the instance is stopped unless somebody is
\* stopping it already.
PeerDown ==
    /\ up /\ world < MaxWorld
    /\ up' = FALSE
    /\ Stop("down")
    /\ UNCHANGED <<world, asked, table, reports, hooks>>

\* Wrong on purpose: the hub connects again at once.
ReconnectUnjoined ==
    /\ ~ up
    /\ up' = TRUE /\ world' = world + 1 /\ asked' = "nothing"
    /\ UNCHANGED <<table, flags, task, reports, hooks>>

\* The hub connects again, once what stop_all_local has made is done.
Reconnect ==
    /\ ~ up
    /\ task["down"][world].pc \in {"none", "done"}
    /\ up' = TRUE /\ world' = world + 1 /\ asked' = "nothing"
    /\ UNCHANGED <<table, flags, task, reports, hooks>>

-------------------------------------------------------------------------------

FromKernel == HandleCreatedUnknown \/ HandleCreated \/ HandleStart \/ HandleRejected
              \/ HandleStop \/ HandleDestroy
Runner(w)  == RunnerBegins(w) \/ RunReturns(w) \/ RunnerEnds(w) \/ RunnerCancelled(w)
Stopper(k, w) == StopperBegins(k, w) \/ StopperFinalizes(k, w)
                 \/ StopperResumes(k, w) \/ StopperEnds(k, w)
Destroyer(w) == DestroyCloses(w) \/ DestroyEnds(w)

Next ==
    \/ FromKernel \/ RequestStop \/ PeerDown \/ Reconnect
    \/ \E w \in World : \/ CreatedDone(w) \/ Runner(w) \/ Destroyer(w)
                        \/ \E k \in Stops : Stopper(k, w)

Spec == Init /\ [][Next]_vars

\* The event loop runs what can go on; stop() is bounded by a timeout and the
\* main task is cancelled; on_stopped is trusted to return.  run may take for ever.
Fairness == \A w \in World :
    /\ WF_vars(RunnerBegins(w)) /\ WF_vars(RunnerEnds(w)) /\ WF_vars(RunnerCancelled(w))
    /\ \A k \in Stops : WF_vars(Stopper(k, w))

FairSpec == Spec /\ Fairness

-------------------------------------------------------------------------------
\* While the first kernel lives.  (Across kernels these fail: the instance, its
\* flags and the tasks about it outlive the link.)

FirstKernel == world = 1 /\ up

\* Once an instance has been reported stopped, run is over and on_stopped has been called.
ReportedIsOver ==
    FirstKernel /\ flags[1].sent => task["run"][1].pc # "work" /\ hooks[1] > 0

\* The hub drops no instance in silence: when the kernel has created the routine
\* and the hub has no instance of it any more, that kernel has been told.
Forgotten == asked \notin {"nothing", "rejected"} /\ table = Nobody
ForgottenIsTold == FirstKernel /\ Forgotten => reports # <<>>

\* The kernel hears of the end of a routine once, whoever ends it (the runner, up
\* to two stops, a destroy).
ReportOnce == FirstKernel => Len(reports) <= 1

\* One report, and after the last line of run: the kernel gives the modules of the
\* routine to others on that report (LifecycleManager._send_stopped and its callers).
ReportedOver == TypeOK /\ ReportOnce /\ ReportedIsOver

\* The stop of a running routine is confirmed, whatever its own code does.
StopConfirmed == FirstKernel /\ asked = "stop" ~> reports # <<>> \/ ~ up

-------------------------------------------------------------------------------
\* Across kernels.

\* A routine that the lost connection stopped has left run and on_stopped when
\* the hub talks to the next kernel, whatever else was stopping it meanwhile.
JoinedIsOver ==
    \A w \in World : w < world /\ task["down"][w].pc # "none" =>
        task["run"][w].pc \notin {"work", "close"}

===============================================================================
