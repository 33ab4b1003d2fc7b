-------------------------------- MODULE XmlAgent --------------------------------
(***************************************************************************)
(* The reactive agent of xml/agent/agent.py: messages, interrupts, the     *)
(* judgement of what users say while it speaks (reflex), one react task at *)
(* a time and the act routine that it drives.  All run on one event loop;  *)
(* an action goes from one await to the next.                              *)
(***************************************************************************)
EXTENDS Naturals, Sequences, FiniteSets

CONSTANTS
    User,          \* messages that users send
    Mail,          \* messages that other agents send: they wait until the agent is idle
    MaxReact,      \* bound: the react tasks
    MaxRound,      \* bound: the rounds of a react, each but the last with feedback
    MaxInterrupt,  \* bound: the interrupts
    MayFail        \* bound: the react tasks that may fail

React == 1..MaxReact

ASSUME AgentAssumption ==
    /\ MaxReact \in Nat /\ MaxRound \in Nat \ {0} /\ MaxInterrupt \in Nat
    /\ MayFail \subseteq React
    /\ User \cap Mail = {} /\ (User \cup Mail) \cap {"reflex", "interrupt", "drain"} = {}

Msg == User \cup Mail
Decision == {"pass", "interrupt", "defer", "drop"}

VARIABLES
    mail,       \* mail[m]: whether m is new, waits for a react, is sent or lost
    awaits,     \* the react task that m waits for
    lock,       \* _event_lock: who holds it, and who waits
    at,         \* where the holder is
    epoch,      \* _epoch
    interrupts, \* the interrupts so far
    react,      \* the react tasks
    cur,        \* _react_task, 0 for None
    act,        \* the act routine of a react
    told,       \* what the kernel was asked last to do with it
    curAct,     \* _cur_act, by the react that made it
    pending,    \* _reflex_pending
    deferred,   \* _deferred
    reflex,     \* the reflex task: where it is, and what it judges
    stored,     \* the messages in the history
    dropped,    \* those that a decision has dropped
    tail        \* the role of the last message in the history

vars == <<mail, awaits, lock, at, epoch, interrupts, react, cur, act, told, curAct,
          pending, deferred, reflex, stored, dropped, tail>>

NoReact == [pc |-> "none", round |-> 0, cancelled |-> FALSE, failed |-> FALSE,
            read |-> "none"]
NoReflex == [pc |-> "none", judged |-> {}, epoch |-> 0, inFlight |-> FALSE, decision |-> "pass"]

TypeOK ==
    /\ mail \in [Msg -> {"new", "waits", "sent", "lost"}] /\ awaits \in [Msg -> {0} \cup React]
    /\ lock \in Seq(Msg \cup {"reflex", "interrupt", "drain"})
    /\ at \in {"in", "join", "stop act", "stopping act"}
    /\ epoch \in Nat /\ interrupts \in 0..MaxInterrupt
    /\ react \in [React -> [pc : {"none", "new", "create", "start", "stream", "collect", "cut",
                                  "idle", "ended", "over"},
                            round : 0..MaxRound, cancelled : BOOLEAN, failed : BOOLEAN,
                            read : {"none", "user", "assistant"}]]
    /\ cur \in {0} \cup React /\ curAct \in {0} \cup React
    /\ act \in [React -> {"none", "creating", "created", "starting", "running", "loose", "over"}]
    /\ told \in [React -> {"none", "start", "stop"}]
    /\ pending \subseteq Msg /\ deferred \subseteq Msg
    /\ reflex \in [pc : {"none", "wait", "judge", "judged"}, judged : SUBSET Msg, epoch : Nat,
                   inFlight : BOOLEAN, decision : Decision]
    /\ stored \subseteq Msg /\ dropped \subseteq Msg
    /\ tail \in {"none", "user", "assistant"}

Init ==
    /\ mail = [m \in Msg |-> "new"] /\ awaits = [m \in Msg |-> 0]
    /\ lock = <<>> /\ at = "in" /\ epoch = 0 /\ interrupts = 0
    /\ react = [r \in React |-> NoReact] /\ cur = 0
    /\ act = [r \in React |-> "none"] /\ told = [r \in React |-> "none"] /\ curAct = 0
    /\ pending = {} /\ deferred = {} /\ reflex = NoReflex
    /\ stored = {} /\ dropped = {} /\ tail = "none"

-------------------------------------------------------------------------------

messages == <<pending, deferred, reflex, stored, dropped>>
reacts == <<react, cur, act, told, curAct>>

Ended(r) == react[r].pc \in {"ended", "over"}
InFlight == cur # 0 /\ ~ Ended(cur)

Holds(x) == lock # <<>> /\ Head(lock) = x
Holder == Head(lock)
Release == lock' = Tail(lock) /\ at' = "in"

\* _store_incoming.
Store(ms) ==
    /\ stored' = stored \cup ms
    /\ tail' = "user"

\* _start_react.
StartReact ==
    \E r \in React :
        /\ react[r].pc = "none" /\ \A q \in React : q < r => react[q].pc # "none"
        /\ react' = [react EXCEPT ![r].pc = "new"]
        /\ cur' = r

-------------------------------------------------------------------------------
\* What comes in.

\* on_chat_message, _on_input up to the lock.
Send(m) ==
    /\ m \in User /\ mail[m] = "new"
    /\ mail' = [mail EXCEPT ![m] = "sent"]
    /\ lock' = Append(lock, m)
    /\ UNCHANGED <<awaits, at, epoch, interrupts, reacts, messages, tail>>

\* _deliver_agent_message: when no react is in flight the message goes the way of any
\* other, else it waits for that task.
Deliver(m) ==
    /\ m \in Mail
    /\ \/ mail[m] = "new"
       \/ mail[m] = "waits" /\ Ended(awaits[m]) /\ ~ react[awaits[m]].cancelled
    /\ IF InFlight
       THEN /\ mail' = [mail EXCEPT ![m] = "waits"] /\ awaits' = [awaits EXCEPT ![m] = cur]
            /\ UNCHANGED lock
       ELSE /\ mail' = [mail EXCEPT ![m] = "sent"] /\ lock' = Append(lock, m)
            /\ UNCHANGED awaits
    /\ UNCHANGED <<at, epoch, interrupts, reacts, messages, tail>>

\* The task it awaits was cancelled: so is the delivery.
DeliverDies(m) ==
    /\ mail[m] = "waits" /\ Ended(awaits[m]) /\ react[awaits[m]].cancelled
    /\ mail' = [mail EXCEPT ![m] = "lost"]
    /\ UNCHANGED <<awaits, lock, at, epoch, interrupts, reacts, messages, tail>>

\* on_interrupt_req.
Interrupt ==
    /\ interrupts < MaxInterrupt
    /\ interrupts' = interrupts + 1
    /\ lock' = Append(lock, "interrupt")
    /\ UNCHANGED <<mail, awaits, at, epoch, reacts, messages, tail>>

-------------------------------------------------------------------------------
\* Who holds the lock.

\* _cancel_react: the task is cancelled, and waited for.  One that has not begun ends
\* at once.
CancelReact ==
    /\ cur' = 0
    /\ IF InFlight
       THEN /\ react' = [react EXCEPT ![cur].cancelled = TRUE,
                                      ![cur].pc = IF @ \in {"new", "idle"} THEN "ended" ELSE "cut"]
            /\ at' = "join"
       ELSE at' = "stop act" /\ UNCHANGED react
    /\ UNCHANGED <<act, told, curAct>>

\* _on_input: a user who speaks while a react is in flight is judged first.
InputJudged(m) ==
    /\ Holds(m) /\ at = "in" /\ m \in User /\ InFlight
    /\ pending' = pending \cup {m}
    /\ reflex' = IF reflex.pc = "none" THEN [NoReflex EXCEPT !.pc = "wait"] ELSE reflex
    /\ at' = "in"
    /\ lock' = IF reflex.pc = "none" THEN Append(Tail(lock), "reflex") ELSE Tail(lock)
    /\ UNCHANGED <<mail, awaits, epoch, interrupts, reacts, deferred, stored, dropped, tail>>

\* _on_input, _on_interrupt: what is in flight is cancelled.
TakeOver(x) ==
    /\ Holds(x) /\ at = "in" /\ x \in Msg \cup {"interrupt"} /\ ~ (x \in User /\ InFlight)
    /\ epoch' = epoch + 1
    /\ CancelReact
    /\ UNCHANGED <<mail, awaits, lock, interrupts, messages, tail>>

\* Wrong on purpose: the cancelled react is not waited for.
JoinedAnyway ==
    /\ at = "join" /\ at' = "stop act"
    /\ UNCHANGED <<mail, awaits, lock, epoch, interrupts, reacts, messages, tail>>

Joined ==
    /\ at = "join" /\ \A r \in React : react[r].cancelled => Ended(r)
    /\ at' = "stop act"
    /\ UNCHANGED <<mail, awaits, lock, epoch, interrupts, reacts, messages, tail>>

\* _interrupt_act_if_needed, handle.stop: the act is told to stop.
StopAct ==
    /\ at = "stop act" /\ curAct # 0
    /\ told' = [told EXCEPT ![curAct] = "stop"]
    /\ at' = "stopping act"
    /\ UNCHANGED <<mail, awaits, lock, epoch, interrupts, react, cur, act, curAct, messages, tail>>

\* Wrong on purpose: an act that has not ended by itself is left alone.
SilentAnyway == at \in {"stop act", "stopping act"}

\* There is nothing to stop, or the handle says that it is done; or the stop has its
\* answer, which may be the answer to an earlier start, or it was rejected or has timed
\* out, and that is only logged.
Silent ==
    \/ at = "stop act" /\ (curAct # 0 => act[curAct] = "over")
    \/ at = "stopping act"

\* The rest of _on_input and of _execute_reflex: the messages are stored and a react starts.
Reply ==
    /\ Silent /\ lock # <<>> /\ Holder \in Msg \cup {"reflex"}
    /\ curAct' = 0
    /\ Store(IF Holder = "reflex" THEN reflex.judged ELSE {Holder})
    /\ reflex' = IF Holder = "reflex" THEN NoReflex ELSE reflex
    /\ StartReact /\ Release
    /\ UNCHANGED <<mail, awaits, epoch, interrupts, act, told, pending, deferred, dropped>>

InterruptDone ==
    /\ Silent /\ Holds("interrupt")
    /\ curAct' = 0
    /\ Release
    /\ UNCHANGED <<mail, awaits, epoch, interrupts, react, cur, act, told, messages, tail>>

\* Wrong on purpose: that a react is in flight by then is not looked at.
DrainAnyway ==
    /\ Holds("drain") /\ at = "in"
    /\ Store(deferred) /\ deferred' = {}
    /\ epoch' = epoch + 1
    /\ StartReact /\ Release
    /\ UNCHANGED <<mail, awaits, interrupts, act, told, curAct, pending, reflex, dropped>>

\* _drain_deferred.
Drain ==
    /\ Holds("drain") /\ at = "in"
    /\ IF deferred = {} \/ InFlight
       THEN UNCHANGED <<epoch, react, cur, deferred, stored, tail>>
       ELSE /\ Store(deferred) /\ deferred' = {}
            /\ epoch' = epoch + 1
            /\ StartReact
    /\ Release
    /\ UNCHANGED <<mail, awaits, interrupts, act, told, curAct, pending, reflex, dropped>>

-------------------------------------------------------------------------------
\* _run_reflex.

\* What is pending is taken, together with a view of the scene.
ReflexTakes ==
    /\ Holds("reflex") /\ at = "in" /\ reflex.pc = "wait"
    /\ reflex' = [NoReflex EXCEPT !.pc = "judge", !.judged = pending, !.epoch = epoch,
                                  !.inFlight = InFlight]
    /\ pending' = {}
    /\ Release
    /\ UNCHANGED <<mail, awaits, epoch, interrupts, reacts, deferred, stored, dropped, tail>>

\* The chain decides; when it fails, it interrupts.
Judge(d) ==
    /\ reflex.pc = "judge" /\ (~ reflex.inFlight => d = "pass") /\ (d = "pass" => ~ reflex.inFlight)
    /\ reflex' = [reflex EXCEPT !.pc = "judged", !.decision = d]
    /\ lock' = Append(lock, "reflex")
    /\ UNCHANGED <<mail, awaits, at, epoch, interrupts, reacts, pending, deferred, stored, dropped, tail>>

Judged == Holds("reflex") /\ at = "in" /\ reflex.pc = "judged"
Stale == epoch # reflex.epoch
Decided == IF reflex.inFlight /\ ~ InFlight THEN "pass" ELSE reflex.decision

\* Wrong on purpose: what was judged is forgotten for what came in between.
ReflexAgainOnly ==
    /\ Judged /\ pending # {}
    /\ reflex' = [NoReflex EXCEPT !.pc = "wait"]
    /\ lock' = Append(Tail(lock), "reflex") /\ at' = "in"
    /\ UNCHANGED <<mail, awaits, epoch, interrupts, reacts, pending, deferred, stored, dropped, tail>>

\* More has come in: all of it is judged again.
ReflexAgain ==
    /\ Judged /\ pending # {}
    /\ pending' = reflex.judged \cup pending
    /\ reflex' = [NoReflex EXCEPT !.pc = "wait"]
    /\ lock' = Append(Tail(lock), "reflex") /\ at' = "in"
    /\ UNCHANGED <<mail, awaits, epoch, interrupts, reacts, deferred, stored, dropped, tail>>

\* Somebody else has taken over: the messages are stored and left at that.
ReflexStale ==
    /\ Judged /\ pending = {} /\ Stale
    /\ Store(reflex.judged) /\ reflex' = NoReflex
    /\ Release
    /\ UNCHANGED <<mail, awaits, epoch, interrupts, reacts, pending, deferred, dropped>>

\* _execute_reflex: the messages are dropped, or kept for later.
ReflexKeeps ==
    /\ Judged /\ pending = {} /\ ~ Stale /\ Decided \in {"drop", "defer"}
    /\ IF Decided = "drop" THEN dropped' = dropped \cup reflex.judged /\ UNCHANGED deferred
                           ELSE deferred' = deferred \cup reflex.judged /\ UNCHANGED dropped
    /\ reflex' = NoReflex
    /\ Release
    /\ UNCHANGED <<mail, awaits, epoch, interrupts, reacts, pending, stored, tail>>

\* They are answered, after what is in flight has been cancelled or without.
ReflexInterrupts ==
    /\ Judged /\ pending = {} /\ ~ Stale /\ Decided = "interrupt"
    /\ epoch' = epoch + 1
    /\ CancelReact
    /\ UNCHANGED <<mail, awaits, lock, interrupts, messages, tail>>

ReflexPasses ==
    /\ Judged /\ pending = {} /\ ~ Stale /\ Decided = "pass"
    /\ epoch' = epoch + 1
    /\ Store(reflex.judged) /\ reflex' = NoReflex
    /\ StartReact /\ Release
    /\ UNCHANGED <<mail, awaits, interrupts, act, told, curAct, pending, deferred, dropped>>

-------------------------------------------------------------------------------
\* _run_react and react.

rest == <<mail, awaits, lock, at, epoch, interrupts, cur, messages>>

Asks(r) ==
    /\ act' = [act EXCEPT ![r] = "creating"]
    /\ told' = [told EXCEPT ![r] = "none"]

\* The history is read and an act is asked for.
Build(r) ==
    /\ react[r].pc = "new"
    /\ react' = [react EXCEPT ![r].pc = "create", ![r].round = @ + 1, ![r].read = tail]
    /\ Asks(r)
    /\ UNCHANGED <<rest, curAct, tail>>

\* It is there, and told to start.
ActCreated(r) ==
    /\ react[r].pc = "create" /\ act[r] = "created"
    /\ react' = [react EXCEPT ![r].pc = "start"]
    /\ curAct' = r /\ told' = [told EXCEPT ![r] = "start"]
    /\ UNCHANGED <<rest, act, tail>>

\* The creation or the start is refused, or has timed out: the react fails.
ActFails(r) ==
    /\ react[r].pc \in {"create", "start"} /\ r \in MayFail
    /\ react' = [react EXCEPT ![r].pc = "idle", ![r].failed = TRUE]
    /\ UNCHANGED <<rest, act, told, curAct, tail>>

ActStarted(r) ==
    /\ react[r].pc = "start" /\ act[r] = "running"
    /\ react' = [react EXCEPT ![r].pc = "stream"]
    /\ UNCHANGED <<rest, act, told, curAct, tail>>

\* The stream ends, or it fails; then the act is left as it is.
StreamEnds(r) ==
    /\ react[r].pc = "stream"
    /\ \/ react' = [react EXCEPT ![r].pc = "collect"]
       \/ r \in MayFail /\ react' = [react EXCEPT ![r].pc = "idle", ![r].failed = TRUE]
    /\ UNCHANGED <<rest, act, told, curAct, tail>>

\* The act is over: the output is stored, and so is the feedback, with which the next
\* round begins; an act that has failed fails its react.
Collected(r) ==
    /\ react[r].pc = "collect" /\ act[r] = "over"
    /\ \/ /\ react' = [react EXCEPT ![r].pc = "idle"]
          /\ curAct' = 0 /\ tail' = "assistant"
          /\ UNCHANGED <<act, told>>
       \/ /\ r \in MayFail
          /\ react' = [react EXCEPT ![r].pc = "idle", ![r].failed = TRUE]
          /\ tail' = "assistant"
          /\ UNCHANGED <<act, told, curAct>>
       \/ /\ react[r].round < MaxRound
          /\ react' = [react EXCEPT ![r].pc = "create", ![r].round = @ + 1, ![r].read = "user"]
          /\ Asks(r)
          /\ curAct' = 0 /\ tail' = "user"
    /\ UNCHANGED rest

\* Cancelled: what there is of the output is stored.
CutShort(r) ==
    /\ react[r].pc = "cut"
    /\ react' = [react EXCEPT ![r].pc = "idle"]
    /\ tail' = "assistant"
    /\ UNCHANGED <<rest, act, told, curAct>>

\* What it has read and how many rounds it has taken end with it.
ReactEnds(r) ==
    /\ react[r].pc = "idle"
    /\ react' = [react EXCEPT ![r].pc = "ended", ![r].round = 0, ![r].read = "none"]
    /\ UNCHANGED <<rest, act, told, curAct, tail>>

\* Wrong on purpose: what is deferred is left to the next input.
OnReactDoneOnly(r) ==
    /\ react[r].pc = "ended"
    /\ react' = [react EXCEPT ![r].pc = "over"]
    /\ UNCHANGED <<mail, awaits, lock, at, epoch, interrupts, cur, messages, act, told, curAct, tail>>

\* _on_react_done.
OnReactDone(r) ==
    /\ react[r].pc = "ended"
    /\ react' = [react EXCEPT ![r].pc = "over"]
    /\ lock' = IF react[r].cancelled \/ deferred = {} THEN lock ELSE Append(lock, "drain")
    /\ UNCHANGED <<mail, awaits, at, epoch, interrupts, cur, messages, act, told, curAct, tail>>

-------------------------------------------------------------------------------
\* The act, as the kernel and its hub run it; it needs no modules.

acts == <<rest, react, told, curAct, tail>>
\* What becomes of an act that the agent has forgotten is followed as far as that it runs.
Followed(r) == ~ Ended(r) \/ curAct = r
Becomes(r, st) == act' = [act EXCEPT ![r] = st] /\ UNCHANGED acts

\* It is instantiated, or there is no such class.  One that nobody waits for is not started.
ActComes(r) ==
    /\ act[r] = "creating" /\ react[r].pc = "create"
    /\ Becomes(r, "created") \/ (r \in MayFail /\ Becomes(r, "over"))

\* The kernel takes the start: it refuses it, or has the hub run the act.
ActStarts(r) ==
    /\ act[r] = "created" /\ told[r] # "none"
    /\ Becomes(r, "starting") \/ (r \in MayFail /\ Becomes(r, "over"))

\* The hub has reported the start.
ActRuns(r) == act[r] = "starting" /\ Becomes(r, "running")

\* The kernel takes the stop before that report: it tells the hub nothing more, and the
\* instance runs on, unnoticed, unless the hub has not been told to start it either.
ActCutLoose(r) ==
    /\ act[r] = "starting" /\ told[r] = "stop"
    /\ \E st \in {"loose", "over"} : Becomes(r, st)

\* It ends by itself, or because it was told to; its react has seen the start by then.
ActEnds(r) ==
    /\ act[r] = "running" /\ react[r].pc # "start" /\ Followed(r)
    /\ Becomes(r, "over")

Progress ==
    \/ \E m \in Msg : Deliver(m) \/ DeliverDies(m) \/ InputJudged(m)
    \/ \E x \in Msg \cup {"interrupt"} : TakeOver(x)
    \/ Joined \/ StopAct \/ Reply \/ InterruptDone \/ Drain
    \/ ReflexTakes \/ ReflexAgain \/ ReflexStale \/ ReflexKeeps \/ ReflexInterrupts \/ ReflexPasses
    \/ \E d \in Decision : Judge(d)
    \/ \E r \in React : \/ Build(r) \/ ActCreated(r) \/ ActStarted(r) \/ StreamEnds(r)
                        \/ Collected(r) \/ CutShort(r) \/ ReactEnds(r) \/ OnReactDone(r)
                        \/ ActFails(r) \/ ActComes(r) \/ ActStarts(r) \/ ActRuns(r)
                        \/ ActCutLoose(r) \/ ActEnds(r)

Next == Progress \/ Interrupt \/ \E m \in User : Send(m)

Spec == Init /\ [][Next]_vars

\* Tasks go on, streams and acts end; nobody has to send anything.
FairSpec == Spec /\ WF_vars(Progress)

-------------------------------------------------------------------------------

\* One react is in flight at a time, and an input that cancels one waits for its end
\* (_cancel_react, _drain_deferred, _start_react).  (And every variable has its type.)
OneReact ==
    TypeOK /\ Cardinality({r \in React : react[r].pc \notin {"none", "ended", "over"}}) <= 1

\* A react reads a history whose last message is a user's: the model refuses any other
\* ("tail user", _execute_reflex and _drain_deferred).
RoundFollowsUser == \A r \in React : react[r].read # "assistant"

\* What a user says is somewhere until it is stored or dropped, and in one place
\* (_on_input, _run_reflex, _execute_reflex, _drain_deferred).
NothingLost ==
    \A m \in User : mail[m] = "sent" =>
        LET places == <<\E j \in DOMAIN lock : lock[j] = m, m \in pending, m \in reflex.judged,
                        m \in deferred, m \in stored, m \in dropped>>
        IN  Cardinality({j \in DOMAIN places : places[j]}) = 1

ActWatched(r) ==
    act[r] \in {"starting", "running", "loose"} =>
        ~ Ended(r) \/ curAct = r \/ told[r] = "stop"

\* An act that runs has its react in flight, or is the one that the next input stops, or
\* was told to stop: whatever is cancelled, no act is forgotten that nobody has told.  A
\* react that has failed is another matter (_interrupt_act_if_needed, react).
ActsWatched == \A r \in React : ~ react[r].failed => ActWatched(r)

\* What a user says is stored or dropped in the end; only an interrupt may leave it
\* deferred (_on_react_done, _drain_deferred).
Answered ==
    \A m \in User : mail[m] = "sent" ~> m \in stored \cup dropped \/ (m \in deferred /\ interrupts > 0)

===============================================================================
