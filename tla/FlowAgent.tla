-------------------------------- MODULE FlowAgent --------------------------------
(***************************************************************************)
(* The turn and step loop of agents/flow: an inbox of two queues, one      *)
(* driver at a time, tools called concurrently, a cooperative abort and    *)
(* compactions that want the agent idle.  One event loop: an action goes   *)
(* from one await to the next.                                             *)
(***************************************************************************)
EXTENDS Naturals, Sequences, FiniteSets

CONSTANTS
    Follow,        \* messages of high priority: next-turn, they wake
    Steer,         \* of middle priority: next-step, they wake
    Inject,        \* of low priority: next-step, they do not wake
    Call,          \* the tool calls that the model may make
    Compact,       \* the requests to compact
    MaxStep,       \* _max_turns: the steps after which a turn owes nothing
    MaxInterrupt   \* bound: the interrupts

Msg == Follow \cup Steer \cup Inject

ASSUME FlowAssumption ==
    /\ Follow \cap Steer = {} /\ Follow \cap Inject = {} /\ Steer \cap Inject = {}
    /\ MaxStep \in Nat \ {0} /\ MaxInterrupt \in Nat
    /\ "cancel" \notin Msg /\ "none" \notin Compact

VARIABLES
    sent,        \* the messages that have come in
    lock,        \* _event_lock: who holds it, and who waits
    held,        \* whether the holder has put its message into the inbox
    nextTurn, nextStep,   \* the inbox
    claimed,     \* what the step that is about to begin has claimed
    logged,      \* the messages in the event log
    gone,        \* those that were cleared or lost
    fresh,       \* those put into the inbox since the last interrupt
    interrupts,  \* the interrupts so far
    driver,      \* _running and _driver_task
    asks,        \* the calls of the current step
    called, fed, \* the calls with a function_call and a function_call_output in the log
    co,          \* the coroutine that executes a call
    kern,        \* its routine, in the kernel
    undo,        \* the calls whose routine an interrupt has sent a destroy
    compact,     \* the requests to compact
    maint        \* _maintenance_task

vars == <<sent, lock, held, nextTurn, nextStep, claimed, logged, gone, fresh, interrupts,
          driver, asks, called, fed, co, kern, undo, compact, maint>>

mail == <<sent, lock, held>>
inbox == <<nextTurn, nextStep>>
fate == <<claimed, logged, gone, fresh>>
tools == <<asks, called, fed, co, kern, undo>>
upkeep == <<compact, maint>>

NoDriver == [pc |-> "none", step |-> 0, abort |-> FALSE, raised |-> FALSE]
Fresh == [NoDriver EXCEPT !.pc = "new"]

TypeOK ==
    /\ sent \subseteq Msg /\ lock \in Seq(Msg \cup {"cancel"}) /\ held \in BOOLEAN
    /\ nextTurn \in Seq(Follow) /\ nextStep \in Seq(Steer \cup Inject)
    /\ claimed \subseteq Msg /\ logged \subseteq Msg /\ gone \subseteq Msg /\ fresh \subseteq Msg
    /\ interrupts \in 0..MaxInterrupt
    /\ driver \in [pc : {"none", "new", "pre", "stream", "answered", "tools", "closing"},
                   step : Nat, abort : BOOLEAN, raised : BOOLEAN]
    /\ asks \subseteq Call /\ called \subseteq Call /\ fed \subseteq called /\ undo \subseteq Call
    /\ co \in [Call -> {"none", "new", "create", "start", "wait", "done", "aborted"}]
    /\ kern \in [Call -> {"none", "created", "starting", "running", "stopping", "over"}]
    /\ compact \in [Compact -> {"new", "runs", "over"}]
    /\ maint \in {"none"} \cup Compact

Init ==
    /\ sent = {} /\ lock = <<>> /\ held = FALSE /\ nextTurn = <<>> /\ nextStep = <<>>
    /\ claimed = {} /\ logged = {} /\ gone = {} /\ fresh = {} /\ interrupts = 0
    /\ driver = NoDriver
    /\ asks = {} /\ called = {} /\ fed = {} /\ undo = {}
    /\ co = [c \in Call |-> "none"] /\ kern = [c \in Call |-> "none"]
    /\ compact = [k \in Compact |-> "new"] /\ maint = "none"

-------------------------------------------------------------------------------

In(q) == {q[j] : j \in DOMAIN q}

\* Inbox.has_pending.
Pending == nextTurn # <<>> \/ nextStep # <<>>

Holds(x) == lock # <<>> /\ Head(lock) = x
Release == lock' = Tail(lock) /\ held' = FALSE

\* Wrong on purpose: a compaction is not looked at.
WakeAnyway == driver' = IF driver.pc = "none" THEN Fresh ELSE driver

\* _wake.
Wake == driver' = IF driver.pc = "none" /\ maint = "none" THEN Fresh ELSE driver

-------------------------------------------------------------------------------
\* What comes in.

\* on_chat_message, _on_input: the message waits for its turn at the lock.
Send(m) ==
    /\ m \notin sent
    /\ sent' = sent \cup {m} /\ lock' = Append(lock, m)
    /\ UNCHANGED <<held, inbox, fate, interrupts, driver, tools, upkeep>>

\* _deliver, _inject: into the inbox; then the frontend is told.
Enqueue(m) ==
    /\ Holds(m) /\ ~ held
    /\ IF m \in Follow THEN nextTurn' = Append(nextTurn, m) /\ UNCHANGED nextStep
                       ELSE nextStep' = Append(nextStep, m) /\ UNCHANGED nextTurn
    /\ held' = TRUE /\ fresh' = fresh \cup {m}
    /\ UNCHANGED <<sent, lock, claimed, logged, gone, interrupts, driver, tools, upkeep>>

Delivered(m) ==
    /\ Holds(m) /\ held
    /\ IF m \in Inject THEN UNCHANGED driver ELSE Wake
    /\ Release
    /\ UNCHANGED <<sent, inbox, fate, interrupts, tools, upkeep>>

\* on_interrupt_req.
Interrupt ==
    /\ interrupts < MaxInterrupt
    /\ interrupts' = interrupts + 1 /\ lock' = Append(lock, "cancel")
    /\ UNCHANGED <<sent, held, inbox, fate, driver, tools, upkeep>>

\* _cancel: the inbox is cleared and what runs is told to abort.  ToolScheduler.interrupt:
\* a tool that has started is stopped, any other destroyed.
Cancel ==
    /\ Holds("cancel")
    /\ nextTurn' = <<>> /\ nextStep' = <<>>
    /\ gone' = gone \cup In(nextTurn) \cup In(nextStep) /\ fresh' = {}
    /\ IF driver.pc = "none"
       THEN UNCHANGED <<driver, kern, undo>>
       ELSE /\ driver' = [driver EXCEPT !.abort = TRUE]
            /\ kern' = [c \in Call |-> IF co[c] = "wait" /\ kern[c] = "running"
                                       THEN "stopping" ELSE kern[c]]
            /\ undo' = undo \cup {c \in Call : co[c] = "start"}
    /\ Release
    /\ UNCHANGED <<sent, claimed, logged, interrupts, asks, called, fed, co, upkeep>>

-------------------------------------------------------------------------------
\* _drive and FlowLoop.

\* Inbox.claim.
ClaimTurn ==
    /\ claimed' = In(nextStep) \cup (IF nextTurn = <<>> THEN {} ELSE {Head(nextTurn)})
    /\ nextTurn' = IF nextTurn = <<>> THEN <<>> ELSE Tail(nextTurn)
    /\ nextStep' = <<>>

ClaimStep ==
    /\ claimed' = In(nextStep)
    /\ nextStep' = <<>>
    /\ UNCHANGED nextTurn

Between == driver.pc = "new" \/ (driver.pc = "closing" /\ ~ driver.raised)

\* Wrong on purpose: an abort is left to the steps.
TurnBeginsAnyway ==
    /\ Between /\ Pending
    /\ driver' = [driver EXCEPT !.pc = "pre", !.step = 0]
    /\ ClaimTurn
    /\ UNCHANGED <<mail, logged, gone, fresh, interrupts, tools, upkeep>>

\* FlowLoop.run, _turn and _pre_step up to the hooks.
TurnBegins ==
    /\ Between /\ ~ driver.abort /\ Pending
    /\ driver' = [driver EXCEPT !.pc = "pre", !.step = 0]
    /\ ClaimTurn
    /\ UNCHANGED <<mail, logged, gone, fresh, interrupts, tools, upkeep>>

\* The end of _drive: who came in while the run was aborted has it driven again.
DriverEnds ==
    /\ driver.pc \in {"new", "closing"}
    /\ driver.raised \/ driver.abort \/ ~ Pending
    /\ driver' = IF driver.abort /\ Pending /\ maint = "none" THEN Fresh ELSE NoDriver
    /\ UNCHANGED <<mail, inbox, fate, interrupts, tools, upkeep>>

\* The turn is left: turn/end, and the frontend is told.
Close(raised) == driver' = [driver EXCEPT !.pc = "closing", !.raised = raised]

\* The hooks have let the step in: its messages are logged, the request is made.
StepBegins ==
    /\ driver.pc = "pre" /\ ~ driver.abort
    /\ driver' = [driver EXCEPT !.pc = "stream", !.step = @ + 1]
    /\ logged' = logged \cup claimed /\ claimed' = {}
    /\ UNCHANGED <<mail, inbox, gone, fresh, interrupts, tools, upkeep>>

StepAborted ==
    /\ driver.pc = "pre" /\ driver.abort
    /\ Close(TRUE)
    /\ gone' = gone \cup claimed /\ claimed' = {}
    /\ UNCHANGED <<mail, inbox, logged, fresh, interrupts, tools, upkeep>>

\* _stream_llm: aborted at the next event, or failed.
StreamBreaks ==
    /\ driver.pc = "stream"
    /\ (driver.abort /\ Close(TRUE)) \/ Close(FALSE)
    /\ UNCHANGED <<mail, inbox, fate, interrupts, tools, upkeep>>

\* It completes, with the calls of the model; the frontend is told.
StreamCompletes(cs) ==
    /\ driver.pc = "stream" /\ ~ driver.abort
    /\ \A c \in cs : co[c] = "none"
    /\ driver' = [driver EXCEPT !.pc = "answered"]
    /\ asks' = cs
    /\ UNCHANGED <<mail, inbox, fate, interrupts, called, fed, co, kern, undo, upkeep>>

\* The end of a step: the turn goes on while it owes the model something.
Boundary(owes) ==
    IF driver.abort THEN Close(TRUE) /\ UNCHANGED <<inbox, claimed>>
    ELSE IF owes \/ nextStep # <<>>
    THEN driver' = [driver EXCEPT !.pc = "pre"] /\ ClaimStep
    ELSE Close(FALSE) /\ UNCHANGED <<inbox, claimed>>

StepCompletes ==
    /\ driver.pc = "answered" /\ asks = {}
    /\ Boundary(FALSE)
    /\ UNCHANGED <<mail, logged, gone, fresh, interrupts, tools, upkeep>>

\* The calls are logged, each gets a task.
CallTools ==
    /\ driver.pc = "answered" /\ asks # {}
    /\ driver' = [driver EXCEPT !.pc = "tools"]
    /\ called' = called \cup asks
    /\ co' = [c \in Call |-> IF c \in asks THEN "new" ELSE co[c]]
    /\ UNCHANGED <<mail, inbox, fate, interrupts, asks, fed, kern, undo, upkeep>>

\* ToolScheduler.execute: the tasks run.  Under an abort they raise it, and the turn with
\* them; an unknown tool, or one that is not admitted, is an outcome.
ToolsBegin(refused) ==
    /\ driver.pc = "tools" /\ \E c \in asks : co[c] = "new"
    /\ refused \subseteq asks
    /\ IF driver.abort
       THEN /\ co' = [c \in Call |-> IF c \in asks THEN "aborted" ELSE co[c]]
            /\ Close(TRUE)
       ELSE /\ co' = [c \in Call |-> IF c \notin asks THEN co[c]
                                     ELSE IF c \in refused THEN "done" ELSE "create"]
            /\ UNCHANGED driver
    /\ UNCHANGED <<mail, inbox, fate, interrupts, asks, called, fed, kern, undo, upkeep>>

\* All have an outcome, in whatever way: it is logged.
Gathered ==
    /\ driver.pc = "tools" /\ \A c \in asks : co[c] = "done"
    /\ fed' = fed \cup asks
    /\ Boundary(driver.step < MaxStep)
    /\ UNCHANGED <<mail, logged, gone, fresh, interrupts, asks, called, co, kern, undo, upkeep>>

-------------------------------------------------------------------------------
\* _execute_one, and the routine that it creates.

others == <<mail, inbox, fate, interrupts, driver, asks, called, fed, upkeep>>

\* The routine is created and asked to start, or it is not.
Created(c) ==
    /\ co[c] = "create"
    /\ \/ co' = [co EXCEPT ![c] = "start"] /\ kern' = [kern EXCEPT ![c] = "created"]
       \/ co' = [co EXCEPT ![c] = "done"] /\ UNCHANGED kern
    /\ UNCHANGED <<others, undo>>

\* The kernel takes the start, or refuses it.
Starting(c) ==
    /\ kern[c] = "created"
    /\ \/ kern' = [kern EXCEPT ![c] = "starting"] /\ UNCHANGED co
       \/ kern' = [kern EXCEPT ![c] = "over"] /\ co' = [co EXCEPT ![c] = "done"]
    /\ UNCHANGED <<others, undo>>

Started(c) ==
    /\ kern[c] = "starting"
    /\ kern' = [kern EXCEPT ![c] = "running"]
    /\ co' = [co EXCEPT ![c] = IF @ = "start" THEN "wait" ELSE @]
    /\ UNCHANGED <<others, undo>>

\* Wrong on purpose: the failed start is not caught.
UndoneRaises(c) ==
    /\ c \in undo /\ undo' = undo \ {c}
    /\ kern' = [kern EXCEPT ![c] = IF @ = "created" THEN "over" ELSE @]
    /\ co' = [co EXCEPT ![c] = IF @ = "start" THEN "done" ELSE @]
    /\ IF co[c] = "start" THEN Close(TRUE) ELSE UNCHANGED driver
    /\ UNCHANGED <<mail, inbox, fate, interrupts, asks, called, fed, upkeep>>

\* The destroy of an interrupt: it succeeds for a routine that is not started; for any
\* other it is rejected, and the rejection fails the start that is waited for.
Undone(c) ==
    /\ c \in undo /\ undo' = undo \ {c}
    /\ kern' = [kern EXCEPT ![c] = IF @ = "created" THEN "over" ELSE @]
    /\ co' = [co EXCEPT ![c] = IF @ = "start" THEN "done" ELSE @]
    /\ UNCHANGED others

ToolEnds(c) ==
    /\ kern[c] \in {"running", "stopping"}
    /\ kern' = [kern EXCEPT ![c] = "over"]
    /\ co' = [co EXCEPT ![c] = "done"]
    /\ UNCHANGED <<others, undo>>

-------------------------------------------------------------------------------
\* run_maintenance.

\* A request waits until the driver is done; while another is at work it is refused.
CompactBegins(k) ==
    /\ compact[k] = "new" /\ driver.pc = "none"
    /\ IF maint = "none"
       THEN compact' = [compact EXCEPT ![k] = "runs"] /\ maint' = k
       ELSE compact' = [compact EXCEPT ![k] = "over"] /\ UNCHANGED maint
    /\ UNCHANGED <<mail, inbox, fate, interrupts, driver, tools>>

\* Wrong on purpose: who came in meanwhile is left to the next message.
CompactEndsOnly(k) ==
    /\ maint = k
    /\ compact' = [compact EXCEPT ![k] = "over"] /\ maint' = "none"
    /\ UNCHANGED <<mail, inbox, fate, interrupts, driver, tools>>

CompactEnds(k) ==
    /\ maint = k
    /\ compact' = [compact EXCEPT ![k] = "over"] /\ maint' = "none"
    /\ driver' = IF Pending /\ driver.pc = "none" THEN Fresh ELSE driver
    /\ UNCHANGED <<mail, inbox, fate, interrupts, tools>>

Progress ==
    \/ \E m \in Msg : Enqueue(m) \/ Delivered(m)
    \/ Cancel
    \/ TurnBegins \/ DriverEnds \/ StepBegins \/ StepAborted \/ StreamBreaks \/ StepCompletes
    \/ CallTools \/ Gathered
    \/ \E cs \in SUBSET Call : StreamCompletes(cs) \/ ToolsBegin(cs)
    \/ \E c \in Call : Created(c) \/ Starting(c) \/ Started(c) \/ Undone(c) \/ ToolEnds(c)
    \/ \E k \in Compact : CompactEnds(k)

Next == Progress \/ Interrupt \/ (\E m \in Msg : Send(m)) \/ (\E k \in Compact : CompactBegins(k))

Spec == Init /\ [][Next]_vars

\* The loop runs its tasks, streams and tools end; nobody has to send anything.
FairSpec == Spec /\ WF_vars(Progress)

-------------------------------------------------------------------------------

\* A message that has come in is in one place until it is logged, and only an interrupt
\* that comes after it takes it away: what is said after an interrupt never falls with the
\* turn that the interrupt aborts (_cancel, throw_if_aborted, Inbox.claim).
Kept ==
    /\ \A m \in sent :
          LET places == <<m \in In(lock) /\ ~ (Holds(m) /\ held), m \in In(nextTurn) \cup In(nextStep),
                          m \in claimed, m \in logged, m \in gone>>
          IN  Cardinality({j \in DOMAIN places : places[j]}) = 1
    /\ gone \cap fresh = {}

\* A compaction and a turn never work on the log at the same time, nor do two compactions
\* (_wake, run_maintenance).  (And every variable has its type.)
CompactsAlone ==
    /\ TypeOK
    /\ maint # "none" => driver.pc = "none"
    /\ \A k \in Compact : compact[k] = "runs" <=> maint = k

\* A call whose tool has begun has its output in the log when the next request is made,
\* whatever became of the tool (ToolScheduler.execute, _step).
BegunIsAnswered ==
    driver.pc = "stream" => \A c \in called : co[c] = "aborted" \/ c \in fed

\* A message that wakes is logged in the end, or an interrupt takes it away (_wake, _drive,
\* run_maintenance).
Answered == \A m \in Follow \cup Steer : (m \in sent) ~> (m \in logged \cup gone)

===============================================================================
