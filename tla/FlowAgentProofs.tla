---------------------------- MODULE FlowAgentProofs ----------------------------
(***************************************************************************)
(* The turn and step loop, for any messages, calls, compactions and        *)
(* bounds: proofs that a turn and a compaction never work on the log at    *)
(* the same time, that a call that has begun has its output before the     *)
(* next request, and that a message is kept in one place until it is       *)
(* logged or an interrupt that comes after it takes it away.               *)
(***************************************************************************)
EXTENDS FlowAgent, QueueLemmas, SequenceTheorems, FiniteSetTheorems, TLAPS

\* CompactsAlone, and what the type of fed rests on: the calls whose tools run are in
\* the log.
IInv == CompactsAlone /\ (driver.pc = "tools" => asks \subseteq called)

Drivers == [pc : {"none", "new", "pre", "stream", "answered", "tools", "closing"},
            step : Nat, abort : BOOLEAN, raised : BOOLEAN]

\* What a queue holds is of its type, and so is what is left when its head is taken.
LEMMA QueueType ==
    ASSUME NEW S, NEW q \in Seq(S)
    PROVE  /\ In(q) \subseteq S
           /\ q # <<>> => Head(q) \in S /\ Tail(q) \in Seq(S)
           /\ \A x \in S : Append(q, x) \in Seq(S)
    BY HeadTailProperties, AppendProperties, ElementOfSeq DEF In

\* Whoever drives, a step of the driver leaves a driver.
LEMMA DriverType ==
    ASSUME driver \in Drivers,
           NEW p \in {"none", "new", "pre", "stream", "answered", "tools", "closing"},
           NEW n \in Nat, NEW b \in BOOLEAN
    PROVE  /\ [driver EXCEPT !.pc = p] \in Drivers /\ [driver EXCEPT !.pc = p].pc = p
           /\ [driver EXCEPT !.pc = p, !.step = n] \in Drivers
           /\ [driver EXCEPT !.pc = p, !.step = n].pc = p
           /\ [driver EXCEPT !.pc = p, !.raised = b] \in Drivers
           /\ [driver EXCEPT !.pc = p, !.raised = b].pc = p
           /\ [driver EXCEPT !.abort = b] \in Drivers
           /\ [driver EXCEPT !.abort = b].pc = driver.pc
           /\ driver.step \in Nat /\ driver.pc \in {"none", "new", "pre", "stream", "answered", "tools", "closing"}
           /\ Fresh \in Drivers /\ NoDriver \in Drivers /\ Fresh.pc = "new" /\ NoDriver.pc = "none"
    BY DEF Drivers, Fresh, NoDriver

LEMMA InitInv == Init => IInv
<1> SUFFICES ASSUME Init PROVE IInv
    OBVIOUS
<1>1. /\ lock \in Seq(Msg \cup {"cancel"}) /\ nextTurn \in Seq(Follow)
      /\ nextStep \in Seq(Steer \cup Inject)
    BY DEF Init
<1>2. driver.pc = "none" /\ driver \in Drivers
    BY DEF Init, NoDriver, Drivers
<1>3. \A k \in Compact : compact[k] # "runs" /\ k # "none"
    BY FlowAssumption DEF Init
<1>4. compact \in [Compact -> {"new", "runs", "over"}] /\ co \in [Call -> {"none", "new", "create", "start", "wait", "done", "aborted"}]
      /\ kern \in [Call -> {"none", "created", "starting", "running", "stopping", "over"}]
    BY DEF Init
<1>5. /\ sent = {} /\ held = FALSE /\ claimed = {} /\ logged = {} /\ gone = {} /\ fresh = {}
      /\ asks = {} /\ called = {} /\ fed = {} /\ undo = {} /\ maint = "none"
    BY DEF Init
<1>6. interrupts \in 0..MaxInterrupt
    BY FlowAssumption DEF Init
<1>7. TypeOK
    BY <1>1, <1>2, <1>4, <1>5, <1>6 DEF TypeOK, Drivers
<1> QED BY <1>2, <1>3, <1>5, <1>7 DEF IInv, CompactsAlone

\* Messages that come in, and interrupts.
LEMMA MailInv ==
    ASSUME IInv,
           Cancel \/ Interrupt \/ \E m \in Msg : Send(m) \/ Enqueue(m) \/ Delivered(m)
    PROVE  IInv'
<1> USE FlowAssumption
<1>0. driver \in Drivers /\ TypeOK
    BY DEF IInv, CompactsAlone, TypeOK, Drivers
<1>1. ASSUME NEW m \in Msg, Send(m)
      PROVE  IInv'
    BY <1>1, <1>0, QueueType DEF Send, IInv, CompactsAlone, TypeOK, inbox, fate, tools, upkeep
<1>2. ASSUME NEW m \in Msg, Enqueue(m)
      PROVE  IInv'
    <2>1. m \in Follow \/ m \in Steer \cup Inject
        BY DEF Msg
    <2>2. nextTurn' \in Seq(Follow) /\ nextStep' \in Seq(Steer \cup Inject)
        <3>1. CASE m \in Follow
            <4>1. nextTurn' = Append(nextTurn, m) /\ nextStep' = nextStep
                BY <3>1, <1>2 DEF Enqueue
            <4> QED BY <3>1, <4>1, <1>0, QueueType DEF TypeOK
        <3>2. CASE m \notin Follow
            <4>1. nextTurn' = nextTurn /\ nextStep' = Append(nextStep, m) /\ m \in Steer \cup Inject
                BY <3>2, <2>1, <1>2 DEF Enqueue
            <4> QED BY <4>1, <1>0, QueueType DEF TypeOK
        <3> QED BY <3>1, <3>2
    <2>3. UNCHANGED <<sent, lock, claimed, logged, gone, interrupts, driver, tools, upkeep>>
          /\ held' = TRUE /\ fresh' = fresh \cup {m}
        BY <1>2 DEF Enqueue
    <2>4. TypeOK'
        BY <2>2, <2>3, <1>0 DEF TypeOK, tools, upkeep
    <2> QED BY <2>3, <2>4 DEF IInv, CompactsAlone, tools, upkeep
<1>3. ASSUME NEW m \in Msg, Delivered(m)
      PROVE  IInv'
    <2>1. lock' \in Seq(Msg \cup {"cancel"})
        BY <1>3, <1>0, QueueType DEF Delivered, Release, Holds, TypeOK
    <2>2. driver' = driver \/ (driver' = Fresh /\ maint = "none")
        BY <1>3 DEF Delivered, Wake
    <2>3. \/ driver' = driver
          \/ driver' \in Drivers /\ (maint # "none" => driver'.pc = "none") /\ driver'.pc # "tools"
        BY <2>2, <1>0, DriverType DEF IInv, CompactsAlone
    <2>4. UNCHANGED <<sent, inbox, fate, interrupts, tools, upkeep>> /\ held' = FALSE
        BY <1>3 DEF Delivered, Release
    <2> QED BY <2>1, <2>3, <2>4 DEF IInv, CompactsAlone, TypeOK, Drivers, inbox, fate, tools, upkeep
<1>4. CASE Interrupt
    BY <1>4, <1>0, QueueType DEF Interrupt, IInv, CompactsAlone, TypeOK, inbox, fate, tools, upkeep
<1>5. CASE Cancel
    <2>1. lock' \in Seq(Msg \cup {"cancel"})
        BY <1>5, <1>0, QueueType DEF Cancel, Release, Holds, TypeOK
    <2>2. driver' \in Drivers /\ driver'.pc = driver.pc
        BY <1>5, <1>0, DriverType DEF Cancel
    <2>3. kern' \in [Call -> {"none", "created", "starting", "running", "stopping", "over"}]
        BY <1>5, <1>0 DEF Cancel, TypeOK
    <2>4. In(nextTurn) \subseteq Msg /\ In(nextStep) \subseteq Msg
        BY <1>0, QueueType DEF TypeOK, Msg
    <2>5. <<>> \in Seq(Follow) /\ <<>> \in Seq(Steer \cup Inject)
        OBVIOUS
    <2>6. undo' \subseteq Call
        BY <1>5, <1>0 DEF Cancel, TypeOK
    <2>7. UNCHANGED <<sent, claimed, logged, interrupts, asks, called, fed, co, upkeep>>
          /\ held' = FALSE /\ nextTurn' = <<>> /\ nextStep' = <<>> /\ fresh' = {}
          /\ gone' = gone \cup In(nextTurn) \cup In(nextStep)
        BY <1>5 DEF Cancel, Release
    <2> QED BY <2>1, <2>2, <2>3, <2>4, <2>5, <2>6, <2>7 DEF IInv, CompactsAlone, TypeOK, Drivers, upkeep
<1> QED BY <1>1, <1>2, <1>3, <1>4, <1>5


\* What a step claims leaves the inbox, and is of the type of a message.
LEMMA ClaimType ==
    ASSUME TypeOK, ClaimTurn \/ ClaimStep
    PROVE  /\ claimed' \subseteq Msg /\ nextTurn' \in Seq(Follow)
           /\ nextStep' \in Seq(Steer \cup Inject)
<1>1. In(nextStep) \subseteq Steer \cup Inject /\ In(nextTurn) \subseteq Follow
    BY QueueType DEF TypeOK
<1>2. nextTurn # <<>> => Head(nextTurn) \in Follow /\ Tail(nextTurn) \in Seq(Follow)
    BY QueueType DEF TypeOK
<1>3. <<>> \in Seq(Follow) /\ <<>> \in Seq(Steer \cup Inject) /\ nextTurn \in Seq(Follow)
    BY DEF TypeOK
<1>4. nextStep' = <<>> /\ claimed' \subseteq Msg
    BY <1>1, <1>2 DEF ClaimTurn, ClaimStep, Msg
<1>5. nextTurn' \in Seq(Follow)
    BY <1>2, <1>3 DEF ClaimTurn, ClaimStep
<1> QED BY <1>3, <1>4, <1>5

\* The steps of the driver.  Each leaves the compactions alone, and is taken by a driver
\* that is there: no compaction works.
LEMMA LoopInv ==
    ASSUME IInv,
           \/ TurnBegins \/ StepBegins \/ StepAborted \/ StreamBreaks \/ StepCompletes
           \/ CallTools \/ Gathered \/ DriverEnds
           \/ \E cs \in SUBSET Call : StreamCompletes(cs) \/ ToolsBegin(cs)
    PROVE  IInv'
<1>0. driver \in Drivers /\ TypeOK
    BY DEF IInv, CompactsAlone, TypeOK, Drivers
<1>1. CASE TurnBegins
    <2>1. driver' \in Drivers /\ driver'.pc = "pre" /\ driver.pc # "none"
        <3>1. driver' = [driver EXCEPT !.pc = "pre", !.step = 0] /\ driver.pc # "none"
            BY <1>1 DEF TurnBegins, Between
        <3>2. 0 \in Nat
            OBVIOUS
        <3> QED BY <3>1, <3>2, <1>0, DriverType
    <2>2. UNCHANGED <<mail, logged, gone, fresh, interrupts, tools, upkeep>> /\ ClaimTurn
        BY <1>1 DEF TurnBegins
    <2>3. TypeOK'
        BY <2>1, <2>2, <1>0, ClaimType DEF TypeOK, Drivers, mail, tools, upkeep
    <2> QED BY <2>1, <2>2, <2>3 DEF IInv, CompactsAlone, upkeep
<1>2. CASE StepBegins
    <2>1. driver' \in Drivers /\ driver'.pc = "stream" /\ driver.pc # "none"
        <3>1. driver' = [driver EXCEPT !.pc = "stream", !.step = driver.step + 1]
            BY <1>2 DEF StepBegins
        <3>2. driver.step + 1 \in Nat
            BY <1>0 DEF Drivers
        <3>3. driver.pc # "none"
            BY <1>2 DEF StepBegins
        <3> QED BY <3>1, <3>2, <3>3, <1>0, DriverType
    <2>2. UNCHANGED <<mail, inbox, gone, fresh, interrupts, tools, upkeep>>
          /\ logged' = logged \cup claimed /\ claimed' = {}
        BY <1>2 DEF StepBegins
    <2>3. TypeOK'
        BY <2>1, <2>2, <1>0 DEF TypeOK, Drivers, mail, inbox, tools, upkeep
    <2> QED BY <2>1, <2>2, <2>3 DEF IInv, CompactsAlone, upkeep
<1>3. CASE StepAborted
    <2>1. driver' \in Drivers /\ driver'.pc = "closing" /\ driver.pc # "none"
        BY <1>3, <1>0, DriverType DEF StepAborted, Close
    <2>2. UNCHANGED <<mail, inbox, logged, fresh, interrupts, tools, upkeep>>
          /\ gone' = gone \cup claimed /\ claimed' = {}
        BY <1>3 DEF StepAborted
    <2>3. TypeOK'
        BY <2>1, <2>2, <1>0 DEF TypeOK, Drivers, mail, inbox, tools, upkeep
    <2> QED BY <2>1, <2>2, <2>3 DEF IInv, CompactsAlone, upkeep
<1>4. CASE StreamBreaks
    <2>1. driver' \in Drivers /\ driver'.pc = "closing" /\ driver.pc # "none"
        BY <1>4, <1>0, DriverType DEF StreamBreaks, Close
    <2>2. UNCHANGED <<mail, inbox, fate, interrupts, tools, upkeep>>
        BY <1>4 DEF StreamBreaks
    <2>3. TypeOK'
        BY <2>1, <2>2, <1>0 DEF TypeOK, Drivers, mail, inbox, fate, tools, upkeep
    <2> QED BY <2>1, <2>2, <2>3 DEF IInv, CompactsAlone, upkeep
\* The end of a step.
<1>5. ASSUME NEW owes \in BOOLEAN, driver.pc # "none", Boundary(owes), fed' \subseteq called,
             UNCHANGED <<mail, logged, gone, fresh, interrupts, asks, called, co, kern, undo, upkeep>>
      PROVE  IInv'
    <2>1. driver' \in Drivers /\ driver'.pc \in {"pre", "closing"}
        <3>1. \/ driver' = [driver EXCEPT !.pc = "closing", !.raised = TRUE]
              \/ driver' = [driver EXCEPT !.pc = "closing", !.raised = FALSE]
              \/ driver' = [driver EXCEPT !.pc = "pre"]
            BY <1>5 DEF Boundary, Close
        <3>2. CASE driver' = [driver EXCEPT !.pc = "pre"]
            BY <3>2, <1>0, DriverType
        <3>3. CASE driver' = [driver EXCEPT !.pc = "closing", !.raised = TRUE]
            BY <3>3, <1>0, DriverType
        <3>4. CASE driver' = [driver EXCEPT !.pc = "closing", !.raised = FALSE]
            BY <3>4, <1>0, DriverType
        <3> QED BY <3>1, <3>2, <3>3, <3>4
    <2>2. ClaimStep \/ UNCHANGED <<inbox, claimed>>
        BY <1>5 DEF Boundary
    <2>3. claimed' \subseteq Msg /\ nextTurn' \in Seq(Follow) /\ nextStep' \in Seq(Steer \cup Inject)
        BY <2>2, <1>0, ClaimType DEF TypeOK, inbox
    <2>4. TypeOK'
        BY <2>1, <2>3, <1>5, <1>0 DEF TypeOK, Drivers, mail, upkeep
    <2> QED BY <2>1, <2>4, <1>5 DEF IInv, CompactsAlone, upkeep
<1>6. CASE StepCompletes
    BY <1>6, <1>5, <1>0 DEF StepCompletes, TypeOK, tools
<1>7. CASE Gathered
    <2>1. fed' \subseteq called
        BY <1>7, <1>0 DEF Gathered, IInv, TypeOK
    <2>2. (driver.step < MaxStep) \in BOOLEAN
        OBVIOUS
    <2> QED BY <1>7, <1>5, <2>1, <2>2 DEF Gathered
<1>8. CASE CallTools
    <2>1. driver' \in Drivers /\ driver'.pc = "tools" /\ driver.pc # "none"
        BY <1>8, <1>0, DriverType DEF CallTools
    <2>2. UNCHANGED <<mail, inbox, fate, interrupts, asks, fed, kern, undo, upkeep>>
          /\ called' = called \cup asks
        BY <1>8 DEF CallTools
    <2>3. co' \in [Call -> {"none", "new", "create", "start", "wait", "done", "aborted"}]
        BY <1>8, <1>0 DEF CallTools, TypeOK
    <2>4. TypeOK'
        BY <2>1, <2>2, <2>3, <1>0 DEF TypeOK, Drivers, mail, inbox, fate, upkeep
    <2> QED BY <2>1, <2>2, <2>4 DEF IInv, CompactsAlone, upkeep
<1>9. CASE DriverEnds
    <2>1. UNCHANGED <<mail, inbox, fate, interrupts, tools, upkeep>> /\ driver.pc # "none"
        BY <1>9 DEF DriverEnds
    <2>2. driver' \in Drivers /\ driver'.pc # "tools"
        BY <1>9, DriverType, <1>0 DEF DriverEnds
    <2>3. maint = "none"
        BY <2>1 DEF IInv, CompactsAlone
    <2>4. TypeOK'
        BY <2>1, <2>2, <1>0 DEF TypeOK, Drivers, mail, inbox, fate, tools, upkeep
    <2> QED BY <2>1, <2>2, <2>3, <2>4 DEF IInv, CompactsAlone, upkeep
<1>10. ASSUME NEW cs \in SUBSET Call, StreamCompletes(cs)
       PROVE  IInv'
    <2>1. driver' \in Drivers /\ driver'.pc = "answered" /\ driver.pc # "none"
        BY <1>10, <1>0, DriverType DEF StreamCompletes
    <2>2. UNCHANGED <<mail, inbox, fate, interrupts, called, fed, co, kern, undo, upkeep>> /\ asks' = cs
        BY <1>10 DEF StreamCompletes
    <2>3. TypeOK'
        BY <2>1, <2>2, <1>0 DEF TypeOK, Drivers, mail, inbox, fate, upkeep
    <2> QED BY <2>1, <2>2, <2>3 DEF IInv, CompactsAlone, upkeep
<1>11. ASSUME NEW cs \in SUBSET Call, ToolsBegin(cs)
       PROVE  IInv'
    <2>1. driver' \in Drivers /\ (driver' = driver \/ driver'.pc = "closing") /\ driver.pc # "none"
        BY <1>11, <1>0, DriverType DEF ToolsBegin, Close
    <2>2. UNCHANGED <<mail, inbox, fate, interrupts, asks, called, fed, kern, undo, upkeep>>
        BY <1>11 DEF ToolsBegin
    <2>3. co' \in [Call -> {"none", "new", "create", "start", "wait", "done", "aborted"}]
        BY <1>11, <1>0 DEF ToolsBegin, TypeOK
    <2>4. TypeOK'
        BY <2>1, <2>2, <2>3, <1>0 DEF TypeOK, Drivers, mail, inbox, fate, upkeep
    <2> QED BY <2>1, <2>2, <2>4 DEF IInv, CompactsAlone, upkeep
<1> QED BY <1>1, <1>2, <1>3, <1>4, <1>6, <1>7, <1>8, <1>9, <1>10, <1>11

\* What becomes of a tool touches neither the log nor the compactions.
LEMMA ToolInv ==
    ASSUME IInv, NEW c \in Call,
           Created(c) \/ Starting(c) \/ Started(c) \/ Undone(c) \/ ToolEnds(c)
    PROVE  IInv'
<1>1. TypeOK
    BY DEF IInv, CompactsAlone
<1>2. UNCHANGED others
    BY DEF Created, Starting, Started, Undone, ToolEnds
<1>3. /\ co' \in [Call -> {"none", "new", "create", "start", "wait", "done", "aborted"}]
      /\ kern' \in [Call -> {"none", "created", "starting", "running", "stopping", "over"}]
      /\ undo' \subseteq Call
    BY <1>1 DEF Created, Starting, Started, Undone, ToolEnds, TypeOK
<1>4. TypeOK'
    BY <1>1, <1>2, <1>3 DEF TypeOK, others, mail, inbox, fate, upkeep
<1> QED BY <1>2, <1>4 DEF IInv, CompactsAlone, others, upkeep

\* The compactions.
LEMMA UpkeepInv ==
    ASSUME IInv, NEW k \in Compact, CompactBegins(k) \/ CompactEnds(k)
    PROVE  IInv'
<1>0. driver \in Drivers /\ TypeOK /\ k # "none"
    BY FlowAssumption DEF IInv, CompactsAlone, TypeOK, Drivers
<1>1. /\ UNCHANGED <<mail, inbox, fate, interrupts, tools>>
      /\ compact' \in [Compact -> {"new", "runs", "over"}] /\ maint' \in {"none"} \cup Compact
    BY <1>0 DEF CompactBegins, CompactEnds, TypeOK
<1>2. driver' \in Drivers /\ (driver' = driver \/ (driver'.pc = "new" /\ maint' = "none"))
    BY <1>0, DriverType DEF CompactBegins, CompactEnds
<1>3. TypeOK'
    BY <1>0, <1>1, <1>2 DEF TypeOK, Drivers, mail, inbox, fate, tools
<1>4. (maint' # "none" => driver'.pc = "none") /\ \A j \in Compact : compact'[j] = "runs" <=> maint' = j
    BY <1>0, <1>2, FlowAssumption DEF CompactBegins, CompactEnds, IInv, CompactsAlone, TypeOK
<1> QED BY <1>1, <1>2, <1>3, <1>4 DEF IInv, CompactsAlone, tools

LEMMA NextInv == IInv /\ [Next]_vars => IInv'
<1> SUFFICES ASSUME IInv, [Next]_vars PROVE IInv'
    OBVIOUS
<1>1. CASE UNCHANGED vars
    BY <1>1 DEF vars, mail, inbox, fate, tools, upkeep, IInv, CompactsAlone, TypeOK
<1> QED BY <1>1, MailInv, LoopInv, ToolInv, UpkeepInv DEF Next, Progress

-------------------------------------------------------------------------------

\* A compaction works on the log of the agent alone, and the variables keep their types:
\* for every number of messages, tools, compactions and interrupts.
THEOREM CompactsAloneHolds == Spec => []CompactsAlone
<1>1. IInv => CompactsAlone
    BY DEF IInv
<1> QED BY <1>1, InitInv, NextInv, PTL DEF Spec

-------------------------------------------------------------------------------

\* A call in the log has its output, or its tool has never begun, or the step still waits
\* for it.
Fed ==
    /\ \A c \in called : co[c] = "aborted" \/ c \in fed \/ (driver.pc = "tools" /\ c \in asks)
    /\ driver.pc = "answered" => \A c \in asks : co[c] = "none"
    /\ driver.pc = "tools" => \A b, c \in asks : co[b] = "new" => co[c] = "new"
    /\ \A c \in Call : kern[c] # "none" => co[c] \in {"start", "wait", "done"}

\* What has come in is in one place, and what an interrupt has yet to take away came
\* before it.
Waits(m) == m \in Queued(lock) /\ ~ (Holds(m) /\ held)
Lies(m)  == m \in Queued(nextTurn) \/ m \in Queued(nextStep)
Placed ==
    /\ \A m \in Msg : /\ m \notin sent => m \notin Queued(lock)
                      /\ m \notin sent => ~ (Lies(m) \/ m \in claimed \cup logged \cup gone)
                      /\ m \in sent => Waits(m) \/ Lies(m) \/ m \in claimed \cup logged \cup gone
                      /\ Waits(m) => ~ Lies(m) /\ m \notin claimed \cup logged \cup gone
                      /\ Lies(m) => m \notin claimed \cup logged \cup gone
                      /\ m \in claimed => m \notin logged \cup gone
                      /\ m \in logged => m \notin gone
    /\ Once(lock, Msg) /\ Once(nextTurn, Msg)
    /\ held => lock # <<>> /\ Head(lock) # "cancel"
    /\ driver.pc # "pre" => claimed = {}
    /\ gone \cap fresh = {}
    /\ driver.abort => claimed \cap fresh = {}

\* What every proof about the messages starts from.
Waiter == Msg \cup {"cancel"}
LEMMA Typed ==
    ASSUME IInv
    PROVE  /\ TypeOK /\ driver \in Drivers
           /\ lock \in Seq(Waiter) /\ Msg \subseteq Waiter /\ "cancel" \in Waiter /\ "cancel" \notin Msg
           /\ nextTurn \in Seq(Follow) /\ nextStep \in Seq(Steer \cup Inject)
           /\ In(nextTurn) = Queued(nextTurn) /\ In(nextStep) = Queued(nextStep)
           /\ Queued(nextTurn) \subseteq Follow /\ Queued(nextStep) \subseteq Steer \cup Inject
           /\ Follow \subseteq Msg /\ Steer \subseteq Msg /\ Inject \subseteq Msg
           /\ Queued(nextTurn) \cap Queued(nextStep) = {}
           /\ claimed \subseteq Msg /\ logged \subseteq Msg /\ gone \subseteq Msg
<1>1. TypeOK /\ driver \in Drivers
    BY DEF IInv, CompactsAlone, TypeOK, Drivers
<1>2. lock \in Seq(Waiter) /\ nextTurn \in Seq(Follow) /\ nextStep \in Seq(Steer \cup Inject)
    BY <1>1 DEF TypeOK, Waiter
<1>3. In(nextTurn) = Queued(nextTurn) /\ In(nextStep) = Queued(nextStep)
    BY DEF In, Queued
<1>4. Queued(nextTurn) \subseteq Follow /\ Queued(nextStep) \subseteq Steer \cup Inject
    BY <1>2, <1>3, QueueType
<1>5. /\ Msg \subseteq Waiter /\ "cancel" \in Waiter /\ "cancel" \notin Msg
      /\ Follow \subseteq Msg /\ Steer \subseteq Msg /\ Inject \subseteq Msg
    BY FlowAssumption DEF Msg, Waiter
<1>6. Queued(nextTurn) \cap Queued(nextStep) = {}
    BY <1>4, FlowAssumption
<1>7. claimed \subseteq Msg /\ logged \subseteq Msg /\ gone \subseteq Msg
    BY <1>1 DEF TypeOK
<1> QED BY <1>1, <1>2, <1>3, <1>4, <1>5, <1>6, <1>7

LEMMA PlacedAtFirst == Init => Placed
<1> SUFFICES ASSUME Init PROVE Placed
    OBVIOUS
<1>1. /\ lock = <<>> /\ nextTurn = <<>> /\ nextStep = <<>> /\ held = FALSE /\ sent = {}
      /\ claimed = {} /\ logged = {} /\ gone = {} /\ fresh = {} /\ driver.abort = FALSE
    BY DEF Init, NoDriver
<1>2. Queued(<<>>) = {} /\ Once(<<>>, Msg)
    BY DEF Queued, Once
<1> QED BY <1>1, <1>2 DEF Placed, Waits, Lies

\* Steps that leave the messages where they are.
LEMMA PlacedSame ==
    ASSUME Placed, UNCHANGED <<mail, inbox, fate>>,
           driver' = driver \/ driver.pc # "pre"
    PROVE  Placed'
<1>1. UNCHANGED <<sent, lock, held, nextTurn, nextStep, claimed, logged, gone, fresh>>
    BY DEF mail, inbox, fate
<1>2. driver'.pc # "pre" => claimed' = {}
    BY <1>1 DEF Placed
<1>3. driver'.abort => claimed' \cap fresh' = {}
    BY <1>1 DEF Placed
<1> QED BY <1>1, <1>2, <1>3 DEF Placed, Waits, Lies, Holds

\* Somebody comes to the lock.
LEMMA ArrivalPlaced ==
    ASSUME IInv, Placed, Interrupt \/ \E m \in Msg : Send(m)
    PROVE  Placed'
<1>0. lock \in Seq(Waiter) /\ Msg \subseteq Waiter /\ "cancel" \in Waiter /\ "cancel" \notin Msg
    BY Typed
<1>1. PICK x \in Waiter : /\ lock' = Append(lock, x) /\ (x \in Msg => x \notin sent)
                          /\ \A m \in Msg : (m \in sent') <=> (m \in sent \/ m = x)
    BY <1>0 DEF Interrupt, Send, fate
<1>2. UNCHANGED <<held, nextTurn, nextStep, claimed, logged, gone, fresh, driver>>
    BY DEF Interrupt, Send, inbox, fate
<1>3. /\ Queued(lock') = Queued(lock) \cup {x} /\ Once(lock', Msg) /\ lock' # <<>>
      /\ lock # <<>> => Head(lock') = Head(lock)
    <2>1. x \in Msg => x \notin Queued(lock)
        BY <1>1 DEF Placed
    <2>2. Once(lock, Msg)
        BY DEF Placed
    <2> QED BY <1>0, <1>1, <2>1, <2>2, Appended, AppendedOnce
<1>4. \A m \in Msg : Waits(m)' <=> (Waits(m) \/ m = x)
    <2>1. held => lock # <<>> /\ Head(lock) # "cancel"
        BY DEF Placed
    <2>2. held => Head(lock) \in Queued(lock)
        BY <2>1, <1>0, Left
    <2>3. \A m \in Msg : m = x => ~ (held /\ Head(lock) = m)
        BY <2>2, <1>1 DEF Placed
    <2> QED BY <1>2, <1>3, <2>1, <2>3 DEF Waits, Holds
<1>5. \A m \in Msg : Lies(m)' <=> Lies(m)
    BY <1>2 DEF Lies
<1> QED BY <1>1, <1>2, <1>3, <1>4, <1>5 DEF Placed

\* The first at the lock puts its message into the inbox.
LEMMA EnqueuePlaced ==
    ASSUME IInv, Placed, NEW m \in Msg, Enqueue(m)
    PROVE  Placed'
<1>0. /\ lock \in Seq(Waiter) /\ nextTurn \in Seq(Follow) /\ nextStep \in Seq(Steer \cup Inject)
      /\ Msg \subseteq Waiter /\ "cancel" \notin Msg
    BY Typed
<1>1. /\ lock # <<>> /\ Head(lock) = m /\ held = FALSE /\ held' = TRUE /\ fresh' = fresh \cup {m}
      /\ UNCHANGED <<sent, lock, claimed, logged, gone, driver>>
    BY <1>0, Typed DEF Enqueue, Holds, TypeOK
<1>2. m \in Queued(lock) /\ Waits(m) /\ m \in sent
    <2>1. m \in Queued(lock)
        BY <1>0, <1>1, Left
    <2> QED BY <2>1, <1>1 DEF Waits, Placed
<1>3. ~ Lies(m) /\ m \notin claimed \cup logged \cup gone
    BY <1>2 DEF Placed
<1>4. /\ \A n \in Msg : Lies(n)' <=> (Lies(n) \/ n = m)
      /\ Once(nextTurn', Msg)
    <2>1. CASE m \in Follow
        <3>1. nextTurn' = Append(nextTurn, m) /\ nextStep' = nextStep
            BY <2>1 DEF Enqueue
        <3>2. Queued(nextTurn') = Queued(nextTurn) \cup {m} /\ (Once(nextTurn, Msg) => Once(nextTurn', Msg))
            BY <3>1, <2>1, <1>0, <1>3, Appended, AppendedOnce DEF Lies
        <3> QED BY <3>1, <3>2 DEF Lies, Placed
    <2>2. CASE m \notin Follow
        <3>1. nextTurn' = nextTurn /\ nextStep' = Append(nextStep, m) /\ m \in Steer \cup Inject
            BY <2>2 DEF Enqueue, Msg
        <3>2. Queued(nextStep') = Queued(nextStep) \cup {m}
            BY <3>1, <1>0, Appended
        <3> QED BY <3>1, <3>2 DEF Lies, Placed
    <2> QED BY <2>1, <2>2
<1>5. \A n \in Msg : Waits(n)' <=> (Waits(n) /\ n # m)
    BY <1>1 DEF Waits, Holds
<1>6. Head(lock') # "cancel"
    BY <1>0, <1>1
<1> QED BY <1>1, <1>2, <1>3, <1>4, <1>5, <1>6 DEF Placed

\* It is told to the frontend, and leaves.
LEMMA DeliveredPlaced ==
    ASSUME IInv, Placed, NEW m \in Msg, Delivered(m)
    PROVE  Placed'
<1>0. /\ lock \in Seq(Waiter) /\ Msg \subseteq Waiter /\ driver \in Drivers
    BY Typed
<1>1. /\ lock # <<>> /\ Head(lock) = m /\ held = TRUE /\ held' = FALSE /\ lock' = Tail(lock)
      /\ UNCHANGED <<sent, nextTurn, nextStep, claimed, logged, gone, fresh>>
    BY Typed DEF Delivered, Holds, Release, inbox, fate, TypeOK
<1>2. driver' = driver \/ (driver' = Fresh /\ driver.pc = "none")
    BY DEF Delivered, Wake
<1>3. driver'.pc # "pre" => claimed' = {}
    BY <1>1, <1>2 DEF Placed
<1>4. driver'.abort => claimed' \cap fresh' = {}
    BY <1>1, <1>2 DEF Placed
<1>5. /\ Queued(lock) = Queued(lock') \cup {m} /\ m \notin Queued(lock') /\ Once(lock', Msg)
    BY <1>0, <1>1, Left, LeftOnce DEF Placed
<1>6. \A n \in Msg : (Waits(n)' <=> Waits(n)) /\ (Lies(n)' <=> Lies(n))
    BY <1>1, <1>5 DEF Waits, Holds, Lies
<1> QED BY <1>1, <1>3, <1>4, <1>5, <1>6 DEF Placed

\* An interrupt takes what lies in the inbox.
LEMMA CancelPlaced ==
    ASSUME IInv, Placed, Cancel
    PROVE  Placed'
<1>0. /\ lock \in Seq(Waiter) /\ driver \in Drivers /\ "cancel" \notin Msg
      /\ In(nextTurn) = Queued(nextTurn) /\ In(nextStep) = Queued(nextStep)
    BY Typed
<1>1. /\ lock # <<>> /\ Head(lock) = "cancel" /\ held' = FALSE /\ lock' = Tail(lock)
      /\ nextTurn' = <<>> /\ nextStep' = <<>> /\ fresh' = {}
      /\ gone' = gone \cup Queued(nextTurn) \cup Queued(nextStep)
      /\ UNCHANGED <<sent, claimed, logged>>
    BY <1>0 DEF Cancel, Holds, Release
<1>2. driver'.pc = driver.pc
    BY <1>0, DriverType DEF Cancel
<1>3. ~ held
    BY <1>1 DEF Placed
<1>4. Queued(lock) = Queued(lock') \cup {"cancel"} /\ Once(lock', Msg)
    BY <1>0, <1>1, Left, LeftOnce DEF Placed
<1>5. Queued(<<>>) = {} /\ Once(<<>>, Msg)
    BY DEF Queued, Once
<1>6. \A n \in Msg : /\ Waits(n)' <=> Waits(n)
                     /\ ~ Lies(n)' /\ (n \in gone' <=> (n \in gone \/ Lies(n)))
                     /\ n \in Queued(lock') <=> n \in Queued(lock)
    BY <1>0, <1>1, <1>3, <1>4, <1>5 DEF Waits, Holds, Lies
<1>7. \A n \in Msg : /\ Waits(n)' => ~ Lies(n)' /\ n \notin claimed' \cup logged' \cup gone'
                     /\ n \in claimed' => n \notin logged' \cup gone'
                     /\ n \in logged' => n \notin gone'
    BY <1>1, <1>6 DEF Placed
<1>8. \A n \in Msg : /\ n \notin sent' => n \notin Queued(lock') /\ ~ (Lies(n)' \/ n \in claimed' \cup logged' \cup gone')
                     /\ n \in sent' => Waits(n)' \/ Lies(n)' \/ n \in claimed' \cup logged' \cup gone'
    BY <1>1, <1>6 DEF Placed
<1>9. driver'.pc # "pre" => claimed' = {}
    BY <1>1, <1>2 DEF Placed
<1> QED BY <1>1, <1>4, <1>5, <1>6, <1>7, <1>8, <1>9 DEF Placed


\* A step claims: what lies in the inbox, and is claimed.
LEMMA ClaimPlaced ==
    ASSUME IInv, Placed, driver.pc # "pre", driver'.pc = "pre", driver'.abort = FALSE,
           ClaimTurn \/ ClaimStep, UNCHANGED <<mail, logged, gone, fresh>>
    PROVE  Placed'
<1>0. /\ nextTurn \in Seq(Follow) /\ Queued(nextTurn) \subseteq Follow
      /\ Queued(nextTurn) \cap Queued(nextStep) = {}
      /\ In(nextStep) = Queued(nextStep) /\ Follow \subseteq Msg
    BY Typed
<1>1. claimed = {} /\ Once(nextTurn, Msg)
    BY DEF Placed
<1>2. Queued(<<>>) = {} /\ nextStep' = <<>>
    BY DEF Queued, ClaimTurn, ClaimStep
<1>3. \/ claimed' = Queued(nextStep) /\ nextTurn' = nextTurn
      \/ /\ claimed' = Queued(nextStep) \cup {Head(nextTurn)} /\ nextTurn' = Tail(nextTurn)
         /\ nextTurn # <<>>
    BY <1>0 DEF ClaimTurn, ClaimStep
<1>4. nextTurn # <<>> => /\ Queued(nextTurn) = Queued(Tail(nextTurn)) \cup {Head(nextTurn)}
                         /\ Once(Tail(nextTurn), Msg) /\ Head(nextTurn) \notin Queued(Tail(nextTurn))
    <2>1. ASSUME nextTurn # <<>>
          PROVE  /\ Queued(nextTurn) = Queued(Tail(nextTurn)) \cup {Head(nextTurn)}
                 /\ Once(Tail(nextTurn), Msg) /\ Head(nextTurn) \notin Queued(Tail(nextTurn))
        <3>1. Head(nextTurn) \in Msg
            BY <2>1, <1>0, QueueType
        <3> QED BY <2>1, <3>1, <1>0, <1>1, Left, LeftOnce
    <2> QED BY <2>1
<1>5. /\ \A m \in Msg : /\ Lies(m) <=> (Lies(m)' \/ m \in claimed')
                        /\ ~ (Lies(m)' /\ m \in claimed')
      /\ Once(nextTurn', Msg)
    <2>1. CASE claimed' = Queued(nextStep) /\ nextTurn' = nextTurn
        BY <2>1, <1>0, <1>1, <1>2 DEF Lies
    <2>2. CASE /\ claimed' = Queued(nextStep) \cup {Head(nextTurn)} /\ nextTurn' = Tail(nextTurn)
               /\ nextTurn # <<>>
        BY <2>2, <1>0, <1>2, <1>4 DEF Lies
    <2> QED BY <1>3, <2>1, <2>2
<1>6. UNCHANGED <<sent, lock, held, logged, gone, fresh>>
    BY DEF mail
<1>7. \A m \in Msg : Waits(m)' <=> Waits(m)
    BY <1>6 DEF Waits, Holds
<1> QED BY <1>1, <1>5, <1>6, <1>7 DEF Placed

\* The steps of the driver.
LEMMA LoopPlaced ==
    ASSUME IInv, Placed,
           \/ TurnBegins \/ StepBegins \/ StepAborted \/ StreamBreaks \/ StepCompletes
           \/ CallTools \/ Gathered \/ DriverEnds
           \/ \E cs \in SUBSET Call : StreamCompletes(cs) \/ ToolsBegin(cs)
    PROVE  Placed'
<1>0. TypeOK /\ driver \in Drivers
    BY Typed
<1>1. CASE TurnBegins
    <2>1. /\ driver' = [driver EXCEPT !.pc = "pre", !.step = 0] /\ ~ driver.abort /\ driver.pc # "pre"
          /\ ClaimTurn /\ UNCHANGED <<mail, logged, gone, fresh>>
        BY <1>1 DEF TurnBegins, Between
    <2>2. driver'.pc = "pre" /\ driver'.abort = FALSE
        BY <2>1, <1>0 DEF Drivers
    <2> QED BY <2>1, <2>2, ClaimPlaced
\* The end of a step.
<1>2. ASSUME NEW owes \in BOOLEAN, driver.pc # "pre", Boundary(owes), UNCHANGED <<mail, logged, gone, fresh>>
      PROVE  Placed'
    <2>1. CASE /\ ~ driver.abort /\ driver' = [driver EXCEPT !.pc = "pre"] /\ ClaimStep
        <3>1. driver'.pc = "pre" /\ driver'.abort = FALSE
            BY <2>1, <1>0 DEF Drivers
        <3> QED BY <2>1, <3>1, <1>2, ClaimPlaced
    <2>2. CASE UNCHANGED <<inbox, claimed>>
        <3>1. UNCHANGED <<mail, inbox, fate>>
            BY <2>2, <1>2 DEF fate
        <3> QED BY <3>1, <1>2, PlacedSame
    <2> QED BY <1>2, <2>1, <2>2 DEF Boundary
<1>3. CASE StepCompletes
    BY <1>3, <1>2 DEF StepCompletes
<1>4. CASE Gathered
    <2>1. driver.pc # "pre" /\ Boundary(driver.step < MaxStep) /\ UNCHANGED <<mail, logged, gone, fresh>>
        BY <1>4 DEF Gathered
    <2>2. (driver.step < MaxStep) \in BOOLEAN
        OBVIOUS
    <2> QED BY <1>2, <2>1, <2>2
<1>5. CASE StepBegins
    <2>1. /\ UNCHANGED <<sent, lock, held, nextTurn, nextStep, gone, fresh>>
          /\ logged' = logged \cup claimed /\ claimed' = {}
        BY <1>5 DEF StepBegins, mail, inbox
    <2>2. \A m \in Msg : (Waits(m)' <=> Waits(m)) /\ (Lies(m)' <=> Lies(m))
        BY <2>1 DEF Waits, Lies, Holds
    <2> QED BY <2>1, <2>2 DEF Placed
<1>6. CASE StepAborted
    <2>1. /\ UNCHANGED <<sent, lock, held, nextTurn, nextStep, logged, fresh>> /\ driver.abort
          /\ gone' = gone \cup claimed /\ claimed' = {}
        BY <1>6 DEF StepAborted, mail, inbox
    <2>2. \A m \in Msg : (Waits(m)' <=> Waits(m)) /\ (Lies(m)' <=> Lies(m))
        BY <2>1 DEF Waits, Lies, Holds
    <2>3. gone' \cap fresh' = {}
        BY <2>1 DEF Placed
    <2> QED BY <2>1, <2>2, <2>3 DEF Placed
<1>7. CASE StreamBreaks
    BY <1>7, PlacedSame DEF StreamBreaks
<1>8. CASE CallTools
    BY <1>8, PlacedSame DEF CallTools
<1>9. CASE DriverEnds
    BY <1>9, PlacedSame DEF DriverEnds
<1>10. ASSUME NEW cs \in SUBSET Call, StreamCompletes(cs) \/ ToolsBegin(cs)
       PROVE  Placed'
    BY <1>10, PlacedSame DEF StreamCompletes, ToolsBegin
<1> QED BY <1>1, <1>3, <1>4, <1>5, <1>6, <1>7, <1>8, <1>9, <1>10

LEMMA NextPlaced == IInv /\ Placed /\ [Next]_vars => Placed'
<1> SUFFICES ASSUME IInv, Placed, [Next]_vars PROVE Placed'
    OBVIOUS
<1>1. CASE UNCHANGED vars
    <2>1. UNCHANGED <<mail, inbox, fate>> /\ driver' = driver
        BY <1>1 DEF vars, mail, inbox, fate
    <2> QED BY <2>1, PlacedSame
<1>2. ASSUME NEW c \in Call, Created(c) \/ Starting(c) \/ Started(c) \/ Undone(c) \/ ToolEnds(c)
      PROVE  Placed'
    <2>1. UNCHANGED <<mail, inbox, fate>> /\ driver' = driver
        BY <1>2 DEF Created, Starting, Started, Undone, ToolEnds, others
    <2> QED BY <2>1, PlacedSame
<1>3. ASSUME NEW k \in Compact, CompactBegins(k) \/ CompactEnds(k)
      PROVE  Placed'
    <2>1. UNCHANGED <<mail, inbox, fate>> /\ (driver' = driver \/ driver.pc # "pre")
        BY <1>3 DEF CompactBegins, CompactEnds
    <2> QED BY <2>1, PlacedSame
<1> QED BY <1>1, <1>2, <1>3, ArrivalPlaced, EnqueuePlaced, DeliveredPlaced, CancelPlaced, LoopPlaced
        DEF Next, Progress


\* The steps that leave the tools and their calls alone.
LEMMA FedSame ==
    ASSUME Fed, UNCHANGED <<asks, called, fed, co, kern>>,
           driver'.pc = driver.pc \/ (driver.pc # "tools" /\ driver'.pc \notin {"tools", "answered"})
    PROVE  Fed'
BY DEF Fed

LEMMA FedAtFirst == Init => Fed
BY DEF Init, Fed, NoDriver

\* What comes in, and the compactions.
LEMMA FedAround ==
    ASSUME IInv, Fed,
           \/ Cancel \/ Interrupt \/ \E m \in Msg : Send(m) \/ Enqueue(m) \/ Delivered(m)
           \/ \E k \in Compact : CompactBegins(k) \/ CompactEnds(k)
    PROVE  Fed'
<1>0. driver \in Drivers /\ TypeOK
    BY Typed
<1>1. CASE Cancel
    <2>1. driver'.pc = driver.pc /\ UNCHANGED <<asks, called, fed, co>>
        BY <1>0, <1>1, DriverType DEF Cancel
    <2>2. \A c \in Call : kern'[c] # "none" => kern[c] # "none"
        BY <1>0, <1>1 DEF Cancel, TypeOK
    <2> QED BY <2>1, <2>2 DEF Fed
<1>2. CASE ~ Cancel
    <2>1. UNCHANGED <<asks, called, fed, co, kern>>
        BY <1>2 DEF Interrupt, Send, Enqueue, Delivered, CompactBegins, CompactEnds, tools
    <2>2. driver' = driver \/ (driver.pc = "none" /\ driver' = Fresh)
        BY <1>2 DEF Interrupt, Send, Enqueue, Delivered, CompactBegins, CompactEnds, Wake
    <2>3. driver'.pc = driver.pc \/ (driver.pc # "tools" /\ driver'.pc \notin {"tools", "answered"})
        BY <2>2, <1>0, DriverType
    <2> QED BY <2>1, <2>3, FedSame
<1> QED BY <1>1, <1>2

\* The steps of the driver.
LEMMA FedLoop ==
    ASSUME IInv, Fed,
           \/ TurnBegins \/ StepBegins \/ StepAborted \/ StreamBreaks \/ StepCompletes
           \/ CallTools \/ Gathered \/ DriverEnds
           \/ \E cs \in SUBSET Call : StreamCompletes(cs) \/ ToolsBegin(cs)
    PROVE  Fed'
<1>0. driver \in Drivers /\ TypeOK /\ asks \subseteq Call /\ called \subseteq Call
    BY Typed DEF TypeOK
<1>1. CASE TurnBegins \/ StepBegins \/ StepAborted \/ StreamBreaks \/ DriverEnds
    <2>1. UNCHANGED <<asks, called, fed, co, kern>>
        BY <1>1 DEF TurnBegins, StepBegins, StepAborted, StreamBreaks, DriverEnds, tools
    <2>2. driver.pc # "tools"
        BY <1>1 DEF TurnBegins, Between, StepBegins, StepAborted, StreamBreaks, DriverEnds
    <2>3. driver'.pc \notin {"tools", "answered"}
        <3>1. CASE DriverEnds
            BY <3>1, <1>0, DriverType DEF DriverEnds
        <3>2. CASE ~ DriverEnds
            BY <3>2, <1>0, <1>1 DEF TurnBegins, StepBegins, StepAborted, StreamBreaks, Close, Drivers
        <3> QED BY <3>1, <3>2
    <2> QED BY <2>1, <2>2, <2>3, FedSame
\* The end of a step.
<1>2. ASSUME NEW owes \in BOOLEAN, Boundary(owes)
      PROVE  driver'.pc \in {"pre", "closing"}
    BY <1>0, <1>2 DEF Boundary, Close, Drivers
<1>3. CASE StepCompletes
    <2>1. driver'.pc \in {"pre", "closing"} /\ driver.pc = "answered" /\ UNCHANGED <<asks, called, fed, co, kern>>
        BY <1>2, <1>3 DEF StepCompletes, tools
    <2> QED BY <2>1, FedSame
<1>4. CASE Gathered
    <2>1. (driver.step < MaxStep) \in BOOLEAN
        OBVIOUS
    <2>2. driver'.pc \in {"pre", "closing"} /\ fed' = fed \cup asks /\ UNCHANGED <<asks, called, co, kern>>
        BY <1>2, <1>4, <2>1 DEF Gathered
    <2> QED BY <2>2 DEF Fed
<1>5. CASE CallTools
    <2>1. /\ driver'.pc = "tools" /\ driver.pc = "answered" /\ called' = called \cup asks
          /\ UNCHANGED <<asks, fed, kern>>
        BY <1>0, <1>5, DriverType DEF CallTools
    <2>2. /\ \A c \in asks : co'[c] = "new" /\ co[c] = "none"
          /\ \A c \in Call : c \notin asks => co'[c] = co[c]
        BY <1>0, <1>5, <2>1 DEF CallTools, Fed
    <2>3. \A c \in Call : kern'[c] # "none" => co'[c] \in {"start", "wait", "done"}
        BY <1>0, <2>1, <2>2 DEF Fed
    <2>4. \A c \in called' : co'[c] = "aborted" \/ c \in fed' \/ c \in asks'
        BY <1>0, <2>1, <2>2 DEF Fed
    <2> QED BY <1>0, <2>1, <2>2, <2>3, <2>4 DEF Fed
<1>6. ASSUME NEW cs \in SUBSET Call, StreamCompletes(cs)
      PROVE  Fed'
    <2>1. /\ driver'.pc = "answered" /\ driver.pc = "stream" /\ UNCHANGED <<called, fed, co, kern>>
          /\ asks' = cs /\ \A c \in cs : co[c] = "none"
        BY <1>0, <1>6, DriverType DEF StreamCompletes
    <2> QED BY <2>1 DEF Fed
<1>7. ASSUME NEW cs \in SUBSET Call, ToolsBegin(cs)
      PROVE  Fed'
    <2>1. driver.pc = "tools" /\ UNCHANGED <<asks, called, fed, kern>> /\ \A c \in asks : co[c] = "new"
        BY <1>7 DEF ToolsBegin, fate, Fed
    <2>2. \A c \in asks : kern[c] = "none"
        BY <1>0, <2>1 DEF Fed
    <2>3. CASE driver.abort
        <3>1. /\ driver'.pc = "closing" /\ \A c \in asks : co'[c] = "aborted"
              /\ \A c \in Call : c \notin asks => co'[c] = co[c]
            BY <1>0, <1>7, <2>3 DEF ToolsBegin, Close, Drivers
        <3>2. \A c \in Call : kern'[c] # "none" => co'[c] \in {"start", "wait", "done"}
            BY <2>1, <2>2, <3>1 DEF Fed
        <3>3. \A c \in called' : co'[c] = "aborted" \/ c \in fed'
            BY <1>0, <2>1, <3>1 DEF Fed
        <3> QED BY <3>1, <3>2, <3>3 DEF Fed
    <2>4. CASE ~ driver.abort
        <3>1. /\ driver' = driver /\ \A c \in asks : co'[c] \in {"done", "create"}
              /\ \A c \in Call : c \notin asks => co'[c] = co[c]
            BY <1>0, <1>7, <2>4 DEF ToolsBegin
        <3>2. \A c \in Call : kern'[c] # "none" => co'[c] \in {"start", "wait", "done"}
            BY <2>1, <2>2, <3>1 DEF Fed
        <3>3. \A c \in called' : co'[c] = "aborted" \/ c \in fed' \/ c \in asks'
            BY <1>0, <2>1, <3>1 DEF Fed
        <3>4. \A c \in asks' : co'[c] # "new"
            BY <2>1, <3>1
        <3> QED BY <2>1, <3>1, <3>2, <3>3, <3>4 DEF Fed
    <2> QED BY <2>3, <2>4
<1> QED BY <1>1, <1>3, <1>4, <1>5, <1>6, <1>7

\* A tool that goes on has begun, and is not aborted any more.
LEMMA FedTool ==
    ASSUME IInv, Fed, NEW c \in Call,
           Created(c) \/ Starting(c) \/ Started(c) \/ Undone(c) \/ ToolEnds(c)
    PROVE  Fed'
<1>0. TypeOK /\ asks \subseteq Call /\ called \subseteq Call
    BY Typed DEF TypeOK
<1>1. UNCHANGED <<driver, asks, called, fed>>
    BY DEF Created, Starting, Started, Undone, ToolEnds, others
<1>2. /\ \A b \in Call : b # c => co'[b] = co[b] /\ kern'[b] = kern[b]
      /\ \/ co[c] = "create" /\ co'[c] \in {"start", "done"}
         \/ kern[c] # "none" /\ co'[c] \in {co[c], "wait", "done"}
         \/ co'[c] = co[c] /\ kern'[c] = kern[c]
         \/ co[c] = "start" /\ co'[c] = "done"
    BY <1>0 DEF Created, Starting, Started, Undone, ToolEnds, TypeOK
<1>3. \/ co'[c] = co[c] /\ (kern'[c] # "none" => kern[c] # "none")
      \/ co[c] \in {"create", "start", "wait", "done"} /\ co'[c] \in {"start", "wait", "done"}
    BY <1>2 DEF Fed
<1>4. \A b \in Call : kern'[b] # "none" => co'[b] \in {"start", "wait", "done"}
    BY <1>2, <1>3 DEF Fed
<1>5. \A b \in Call : /\ co[b] = "aborted" => co'[b] = "aborted"
                      /\ co'[b] = "none" <=> co[b] = "none"
                      /\ co'[b] = "new" <=> co[b] = "new"
    BY <1>2, <1>3
<1>6. \A b \in called' : co'[b] = "aborted" \/ b \in fed' \/ (driver'.pc = "tools" /\ b \in asks')
    BY <1>0, <1>1, <1>5 DEF Fed
<1>7. driver'.pc = "answered" => \A b \in asks' : co'[b] = "none"
    BY <1>0, <1>1, <1>5 DEF Fed
<1>8. driver'.pc = "tools" => \A a, b \in asks' : co'[a] = "new" => co'[b] = "new"
    BY <1>0, <1>1, <1>5 DEF Fed
<1> QED BY <1>4, <1>6, <1>7, <1>8 DEF Fed

LEMMA NextFed == IInv /\ Fed /\ [Next]_vars => Fed'
<1> SUFFICES ASSUME IInv, Fed, [Next]_vars PROVE Fed'
    OBVIOUS
<1>1. CASE UNCHANGED vars
    <2>1. UNCHANGED <<driver, asks, called, fed, co, kern>>
        BY <1>1 DEF vars, tools
    <2> QED BY <2>1, FedSame
<1> QED BY <1>1, FedAround, FedLoop, FedTool DEF Next, Progress

LEMMA Inductive == Spec => [](IInv /\ Placed /\ Fed)
BY InitInv, PlacedAtFirst, FedAtFirst, NextInv, NextPlaced, NextFed, PTL DEF Spec

\* Whatever became of its tool, a call that has begun has its output in the log when the
\* next request is made (ToolScheduler.execute, _step).
THEOREM BegunIsAnsweredHolds == Spec => []BegunIsAnswered
<1>1. Fed => BegunIsAnswered
    BY DEF Fed, BegunIsAnswered
<1> QED BY <1>1, Inductive, PTL

\* A message that has come in is in one place until it is logged, and only an interrupt
\* that comes after it takes it away (_cancel, throw_if_aborted, Inbox.claim).
THEOREM KeptHolds == Spec => []Kept
<1>1. ASSUME IInv, Placed, NEW m \in sent
      PROVE  LET places == <<m \in In(lock) /\ ~ (Holds(m) /\ held), m \in In(nextTurn) \cup In(nextStep),
                             m \in claimed, m \in logged, m \in gone>>
             IN  Cardinality({j \in DOMAIN places : places[j]}) = 1
    <2> DEFINE places == <<m \in In(lock) /\ ~ (Holds(m) /\ held), m \in In(nextTurn) \cup In(nextStep),
                           m \in claimed, m \in logged, m \in gone>>
    <2>1. m \in Msg
        BY <1>1, Typed DEF TypeOK
    <2>2. /\ (m \in In(lock) /\ ~ (Holds(m) /\ held)) <=> Waits(m)
          /\ m \in In(nextTurn) \cup In(nextStep) <=> Lies(m)
        BY DEF Waits, Lies, In, Queued
    <2>3. /\ DOMAIN places = 1..5
          /\ (places[1] <=> Waits(m)) /\ (places[2] <=> Lies(m)) /\ (places[3] <=> m \in claimed)
          /\ (places[4] <=> m \in logged) /\ (places[5] <=> m \in gone)
        <3>1. DOMAIN places = 1..5
            OBVIOUS
        <3>2. places[1] <=> (m \in In(lock) /\ ~ (Holds(m) /\ held))
            OBVIOUS
        <3>3. places[2] <=> m \in In(nextTurn) \cup In(nextStep)
            OBVIOUS
        <3>4. places[3] <=> m \in claimed
            OBVIOUS
        <3>5. places[4] <=> m \in logged
            OBVIOUS
        <3>6. places[5] <=> m \in gone
            OBVIOUS
        <3> QED BY <2>2, <3>1, <3>2, <3>3, <3>4, <3>5, <3>6
    <2> HIDE DEF places
    <2>4. /\ Waits(m) \/ Lies(m) \/ m \in claimed \/ m \in logged \/ m \in gone
          /\ Waits(m) => ~ Lies(m) /\ m \notin claimed \cup logged \cup gone
          /\ Lies(m) => m \notin claimed \cup logged \cup gone
          /\ m \in claimed => m \notin logged \cup gone
          /\ m \in logged => m \notin gone
        BY <1>1, <2>1 DEF Placed
    <2>5. PICK i \in 1..5 : places[i] /\ \A j \in 1..5 : places[j] => j = i
        <3>1. \A j \in 1..5 : j = 1 \/ j = 2 \/ j = 3 \/ j = 4 \/ j = 5
            OBVIOUS
        <3>2. 1 \in 1..5 /\ 2 \in 1..5 /\ 3 \in 1..5 /\ 4 \in 1..5 /\ 5 \in 1..5
            OBVIOUS
        <3> QED BY <2>3, <2>4, <3>1, <3>2
    <2>6. {j \in DOMAIN places : places[j]} = {i}
        BY <2>3, <2>5
    <2> QED BY <2>6, FS_Singleton DEF places
<1>2. IInv /\ Placed => Kept
    BY <1>1 DEF Kept, Placed
<1> QED BY <1>2, Inductive, PTL

===============================================================================
