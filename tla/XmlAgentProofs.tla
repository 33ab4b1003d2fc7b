---------------------------- MODULE XmlAgentProofs ----------------------------
(***************************************************************************)
(* The reactive agent, for any users, mails and bounds: proofs that one    *)
(* react is in flight at a time, that every round follows a user's         *)
(* message, that an act is watched as long as it runs, and that what users *)
(* say is in one place until it is stored or dropped.                      *)
(***************************************************************************)
EXTENDS XmlAgent, QueueLemmas, FiniteSetTheorems, TLAPS

Active(r) == react[r].pc \notin {"none", "ended", "over"}

\* A react in flight is the current one, or the cancelled one that is waited for.
Alone ==
    /\ \A r \in React : Active(r) => r = cur \/ (at = "join" /\ react[r].cancelled)
    /\ \A q, r \in React : Active(q) /\ Active(r) => q = r
    /\ at # "in" => lock # <<>> /\ cur = 0

\* A react that was cancelled does nothing new, and one that has not begun counts no round.
Begun ==
    \A r \in React :
        /\ react[r].cancelled => react[r].pc \in {"cut", "idle", "ended", "over"}
        /\ react[r].pc = "cut" => react[r].cancelled
        /\ react[r].pc \in {"none", "new"} => react[r].round = 0

\* A react that has not read the history yet will find a user's message at its end.
Follows ==
    \A r \in React : /\ react[r].pc = "new" => tail = "user"
                     /\ react[r].read # "assistant"

\* What the reflex has seen of the scene: as long as nobody has taken over since, no
\* react has begun.
Seen ==
    reflex.pc \in {"judge", "judged"} =>
        /\ reflex.epoch <= epoch
        /\ at # "in" /\ ~ Holds("reflex") => reflex.epoch < epoch
        /\ reflex.epoch = epoch /\ ~ reflex.inFlight => ~ InFlight
        /\ reflex.pc = "judged" /\ reflex.decision = "pass" => ~ reflex.inFlight

\* An act that was told to start, and not to stop yet, is the one at hand, and its react
\* drives it or somebody is about to stop it.
Drives(r) == react[r].pc \in {"start", "stream", "collect"}
Watched ==
    /\ \A r \in React :
        /\ Drives(r) => curAct = r
        /\ act[r] \in {"starting", "running", "loose"} => told[r] # "none"
        /\ ~ react[r].failed /\ told[r] = "start" /\ act[r] # "over" =>
              curAct = r /\ (Drives(r) \/ at # "in")
    /\ at = "stopping act" => curAct \in React /\ told[curAct] = "stop"

\* Who waits for the lock or holds it.
OnceIn(q) == Once(q, Msg)

\* A message is in one place from when it is sent.
Held(m)  == m \in Queued(lock)
Kept(m)  == m \in pending \cup reflex.judged \cup deferred \cup stored \cup dropped
Placed ==
    /\ OnceIn(lock)
    /\ \A m \in Msg : /\ mail[m] # "sent" => ~ Held(m) /\ ~ Kept(m)
                      /\ mail[m] = "sent" => Held(m) \/ Kept(m)
                      /\ Held(m) => ~ Kept(m)
                      /\ m \in pending => m \notin reflex.judged \cup deferred \cup stored \cup dropped
                      /\ m \in reflex.judged => m \notin deferred \cup stored \cup dropped
                      /\ m \in deferred => m \notin stored \cup dropped
                      /\ m \in stored => m \notin dropped
    /\ reflex.pc \in {"none", "wait"} => reflex.judged = {}

IInv == TypeOK /\ Alone /\ Begun /\ Follows /\ Seen /\ Watched /\ Placed

ReactRecord == [pc : {"none", "new", "create", "start", "stream", "collect", "cut",
                      "idle", "ended", "over"},
                round : 0..MaxRound, cancelled : BOOLEAN, failed : BOOLEAN,
                read : {"none", "user", "assistant"}]
ReflexRecord == [pc : {"none", "wait", "judge", "judged"}, judged : SUBSET Msg, epoch : Nat,
                 inFlight : BOOLEAN, decision : Decision]
Waiter == Msg \cup {"reflex", "interrupt", "drain"}
ActState == {"none", "creating", "created", "starting", "running", "loose", "over"}

LEMMA InitInv == Init => IInv
<1> SUFFICES ASSUME Init PROVE IInv
    OBVIOUS
<1>1. /\ \A r \in React : react[r] = NoReact /\ act[r] = "none" /\ told[r] = "none"
      /\ \A m \in Msg : mail[m] = "new"
      /\ reflex = NoReflex /\ lock = <<>> /\ at = "in" /\ cur = 0 /\ curAct = 0 /\ tail = "none"
      /\ pending = {} /\ deferred = {} /\ stored = {} /\ dropped = {}
    BY DEF Init
<1>2. TypeOK
    BY <1>1, AgentAssumption DEF Init, TypeOK, NoReact, NoReflex, Decision
<1>3. Alone /\ Begun /\ Follows /\ Seen /\ Watched
    BY <1>1 DEF Alone, Active, Begun, Follows, Seen, Watched, Drives, NoReact, NoReflex
<1>4. Placed
    <2>1. Queued(lock) = {} /\ OnceIn(lock)
        BY <1>1 DEF Queued, OnceIn, Once
    <2> QED BY <1>1, <2>1 DEF Placed, Held, Kept, NoReflex
<1> QED BY <1>2, <1>3, <1>4 DEF IInv

\* What every proof about a step starts from.
LEMMA Typed ==
    ASSUME IInv
    PROVE  /\ TypeOK /\ Alone /\ Begun /\ Follows /\ Seen /\ Watched /\ Placed
           /\ react \in [React -> ReactRecord] /\ reflex \in ReflexRecord
           /\ lock \in Seq(Waiter) /\ epoch \in Nat /\ 0 \notin React
           /\ {"reflex", "interrupt", "drain"} \subseteq Waiter
           /\ \A x \in {"reflex", "interrupt", "drain"} : x \notin Msg
           /\ User \subseteq Msg /\ Mail \subseteq Msg /\ Msg \subseteq Waiter
<1>1. TypeOK /\ Alone /\ Begun /\ Follows /\ Seen /\ Watched /\ Placed
    BY DEF IInv
<1>2. /\ react \in [React -> ReactRecord] /\ reflex \in ReflexRecord
      /\ lock \in Seq(Waiter) /\ epoch \in Nat
    BY <1>1 DEF TypeOK, ReactRecord, ReflexRecord, Waiter
<1>3. 0 \notin React
    BY DEF React
<1>4. /\ {"reflex", "interrupt", "drain"} \subseteq Waiter
      /\ \A x \in {"reflex", "interrupt", "drain"} : x \notin Msg
      /\ User \subseteq Msg /\ Mail \subseteq Msg /\ Msg \subseteq Waiter
    BY AgentAssumption DEF Waiter, Msg
<1> QED BY <1>1, <1>2, <1>3, <1>4

\* What a step that leaves the messages alone, or the lock, the epoch and the reflex, keeps.
LEMMA PlacedSame ==
    ASSUME Placed, UNCHANGED <<mail, lock, pending, deferred, reflex, stored, dropped>>
    PROVE  Placed'
BY DEF Placed, Held, Kept, Queued, OnceIn

\* A react in flight goes on, or ends.
LEMMA GoesOn ==
    ASSUME IInv, NEW r \in React, Active(r),
           UNCHANGED <<at, cur, epoch, reflex>>, lock' = lock \/ (lock # <<>> /\ lock' # <<>> /\ Head(lock') = Head(lock)),
           \A q \in React : q # r => react'[q] = react[q],
           react'[r].cancelled = react[r].cancelled, react'[r].pc # "none"
    PROVE  Alone' /\ Seen'
<1>0. Alone /\ Seen /\ 0 \notin React /\ cur \in {0} \cup React
    BY Typed DEF TypeOK
<1>1. \A q \in React : Active(q)' => Active(q)
    BY DEF Active
<1>2. \A q \in React : react'[q].cancelled = react[q].cancelled
    OBVIOUS
<1>3. Alone'
    BY <1>0, <1>1, <1>2 DEF Alone
<1>4. InFlight' => InFlight
    BY <1>0 DEF InFlight, Ended, Active
<1>5. Holds("reflex")' <=> Holds("reflex")
    BY DEF Holds
<1>6. Seen'
    BY <1>0, <1>4, <1>5 DEF Seen
<1> QED BY <1>3, <1>6

\* The steps of a react, and of its act.
LEMMA ReactKeeps ==
    ASSUME IInv, NEW r \in React,
           \/ Build(r) \/ ActCreated(r) \/ ActFails(r) \/ ActStarted(r) \/ StreamEnds(r)
           \/ Collected(r) \/ CutShort(r) \/ ReactEnds(r)
    PROVE  IInv'
<1>0. /\ TypeOK /\ Alone /\ Begun /\ Follows /\ Seen /\ Watched /\ Placed
      /\ react \in [React -> ReactRecord] /\ 0 \notin React
    BY Typed
<1>a. UNCHANGED <<mail, awaits, lock, at, epoch, interrupts, cur, pending, deferred, reflex, stored, dropped>>
    BY DEF Build, ActCreated, ActFails, ActStarted, StreamEnds, Collected, CutShort, ReactEnds, rest, messages
<1>b. Placed'
    BY <1>0, <1>a, PlacedSame
<1>c. react[r] \in ReactRecord /\ act \in [React -> ActState] /\ told \in [React -> {"none", "start", "stop"}]
    BY <1>0 DEF TypeOK, ActState
<1>d. Active(r) => \A q \in React : q # r => ~ Active(q) /\ react[q].pc # "new" /\ ~ Drives(q)
    BY <1>0 DEF Alone, Active, Drives
<1>e. Active(r) => at # "stopping act"
    BY <1>0 DEF Alone
<1>1. CASE Build(r)
    <2>0. /\ react[r].pc = "new" /\ act' = [act EXCEPT ![r] = "creating"] /\ UNCHANGED <<curAct, tail>>
          /\ told' = [told EXCEPT ![r] = "none"]
          /\ react' = [react EXCEPT ![r].pc = "create", ![r].round = @ + 1, ![r].read = tail]
        BY <1>1 DEF Build, Asks
    <2>1. tail = "user" /\ react[r].round = 0 /\ ~ react[r].cancelled /\ Active(r)
        BY <1>0, <2>0 DEF Follows, Begun, Active
    <2>2. /\ react' \in [React -> ReactRecord] /\ \A q \in React : q # r => react'[q] = react[q]
          /\ react'[r].pc = "create" /\ react'[r].cancelled = react[r].cancelled /\ react'[r].read = "user"
          /\ act' \in [React -> ActState] /\ told' \in [React -> {"none", "start", "stop"}]
          /\ act'[r] = "creating" /\ told'[r] = "none"
          /\ \A q \in React : q # r => act'[q] = act[q] /\ told'[q] = told[q]
        BY <1>0, <1>c, <2>0, <2>1, AgentAssumption DEF ReactRecord, ActState
    <2>3. TypeOK'
        BY <1>0, <1>a, <2>0, <2>2 DEF TypeOK, ReactRecord, ActState
    <2>4. Alone' /\ Seen'
        BY <1>a, <2>1, <2>2, GoesOn
    <2>5. Begun' /\ Follows'
        BY <1>0, <2>0, <2>2 DEF Begun, Follows
    <2>6. Watched'
        <3>1. at # "stopping act"
            BY <1>e, <2>1
        <3>2. \A q \in React : q # r => (Drives(q)' <=> Drives(q))
            BY <2>2 DEF Drives
        <3>3. ~ Drives(r)'
            BY <2>2 DEF Drives
        <3> QED BY <1>0, <1>a, <2>0, <2>2, <3>1, <3>2, <3>3 DEF Watched
    <2> QED BY <1>b, <2>3, <2>4, <2>5, <2>6 DEF IInv
<1>2. CASE ActCreated(r)
    <2>0. /\ react[r].pc = "create" /\ act[r] = "created" /\ curAct' = r /\ UNCHANGED <<act, tail>>
          /\ told' = [told EXCEPT ![r] = "start"]
          /\ react' = [react EXCEPT ![r].pc = "start"]
        BY <1>2 DEF ActCreated
    <2>1. ~ react[r].cancelled /\ Active(r) /\ at = "in"
        BY <1>0, <2>0 DEF Begun, Active, Alone
    <2>2. /\ react' \in [React -> ReactRecord] /\ \A q \in React : q # r => react'[q] = react[q]
          /\ react'[r].pc = "start" /\ react'[r].cancelled = react[r].cancelled /\ react'[r].read = react[r].read
          /\ told' \in [React -> {"none", "start", "stop"}] /\ told'[r] = "start"
          /\ \A q \in React : q # r => told'[q] = told[q]
        BY <1>0, <1>c, <2>0, <2>1 DEF ReactRecord
    <2>3. TypeOK'
        BY <1>0, <1>a, <2>0, <2>2 DEF TypeOK, ReactRecord, ActState
    <2>4. Alone' /\ Seen'
        BY <1>a, <2>1, <2>2, GoesOn
    <2>5. Begun' /\ Follows'
        BY <1>0, <2>0, <2>2 DEF Begun, Follows
    <2>6. Watched'
        <3>1. \A q \in React : q # r => ~ Drives(q)
            BY <1>d, <2>1
        <3>2. \A q \in React : q # r /\ ~ react[q].failed /\ told[q] = "start" => act[q] = "over"
            BY <1>0, <2>1, <3>1 DEF Watched
        <3> QED BY <1>0, <1>a, <2>0, <2>1, <2>2, <3>1, <3>2 DEF Watched, Drives
    <2> QED BY <1>b, <2>3, <2>4, <2>5, <2>6 DEF IInv
<1>8. CASE ActFails(r)
    <2>0. /\ react[r].pc \in {"create", "start"} /\ UNCHANGED <<act, told, curAct, tail>>
          /\ react' = [react EXCEPT ![r].pc = "idle", ![r].failed = TRUE]
        BY <1>8 DEF ActFails
    <2>1. ~ react[r].cancelled /\ Active(r)
        BY <1>0, <2>0 DEF Begun, Active
    <2>2. /\ react' \in [React -> ReactRecord] /\ \A q \in React : q # r => react'[q] = react[q]
          /\ react'[r].cancelled = react[r].cancelled /\ react'[r].read = react[r].read
          /\ react'[r].pc = "idle" /\ react'[r].failed
        BY <1>0, <1>c, <2>0, <2>1 DEF ReactRecord
    <2>3. TypeOK'
        BY <1>0, <1>a, <2>0, <2>2 DEF TypeOK, ReactRecord
    <2>4. Alone' /\ Seen'
        BY <1>a, <2>1, <2>2, GoesOn
    <2>5. Begun' /\ Follows'
        BY <1>0, <2>0, <2>2 DEF Begun, Follows
    <2>6. Watched'
        BY <1>0, <1>a, <2>0, <2>2 DEF Watched, Drives
    <2> QED BY <1>b, <2>3, <2>4, <2>5, <2>6 DEF IInv
<1>3. CASE ActStarted(r)
    <2>0. /\ react[r].pc = "start" /\ UNCHANGED <<act, told, curAct, tail>>
          /\ react' = [react EXCEPT ![r].pc = "stream"]
        BY <1>3 DEF ActStarted
    <2>1. ~ react[r].cancelled /\ Active(r)
        BY <1>0, <2>0 DEF Begun, Active
    <2>2. /\ react' \in [React -> ReactRecord] /\ \A q \in React : q # r => react'[q] = react[q]
          /\ react'[r].pc = "stream" /\ react'[r].cancelled = react[r].cancelled /\ react'[r].read = react[r].read
        BY <1>0, <1>c, <2>0, <2>1 DEF ReactRecord
    <2>3. TypeOK'
        BY <1>0, <1>a, <2>0, <2>2 DEF TypeOK, ReactRecord, ActState
    <2>4. Alone' /\ Seen'
        BY <1>a, <2>1, <2>2, GoesOn
    <2>5. Begun' /\ Follows'
        BY <1>0, <2>0, <2>2 DEF Begun, Follows
    <2>6. Watched'
        BY <1>0, <1>a, <2>0, <2>2 DEF Watched, Drives
    <2> QED BY <1>b, <2>3, <2>4, <2>5, <2>6 DEF IInv
<1>4. CASE StreamEnds(r)
    <2>0. react[r].pc = "stream" /\ UNCHANGED <<act, told, curAct, tail>>
        BY <1>4 DEF StreamEnds
    <2>1. ~ react[r].cancelled /\ Active(r)
        BY <1>0, <2>0 DEF Begun, Active
    <2>2. /\ react' \in [React -> ReactRecord] /\ \A q \in React : q # r => react'[q] = react[q]
          /\ react'[r].cancelled = react[r].cancelled /\ react'[r].read = react[r].read
          /\ \/ react'[r].pc = "collect" /\ react'[r].failed = react[r].failed
             \/ react'[r].pc = "idle" /\ react'[r].failed
        BY <1>0, <1>c, <1>4, <2>1 DEF ReactRecord, StreamEnds
    <2>3. TypeOK'
        BY <1>0, <1>a, <2>0, <2>2 DEF TypeOK, ReactRecord, ActState
    <2>4. Alone' /\ Seen'
        BY <1>a, <2>1, <2>2, GoesOn
    <2>5. Begun' /\ Follows'
        BY <1>0, <2>0, <2>2 DEF Begun, Follows
    <2>6. Watched'
        BY <1>0, <1>a, <2>0, <2>2 DEF Watched, Drives
    <2> QED BY <1>b, <2>3, <2>4, <2>5, <2>6 DEF IInv
<1>5. CASE Collected(r)
    <2>0. react[r].pc = "collect" /\ act[r] = "over" /\ tail' \in {"assistant", "user"}
        BY <1>5 DEF Collected
    <2>1. ~ react[r].cancelled /\ Active(r) /\ at = "in" /\ curAct = r
        BY <1>0, <2>0 DEF Begun, Active, Alone, Watched, Drives
    <2>2. /\ react' \in [React -> ReactRecord] /\ \A q \in React : q # r => react'[q] = react[q]
          /\ react'[r].cancelled = react[r].cancelled /\ react'[r].read \in {react[r].read, "user"}
          /\ react'[r].pc \in {"idle", "create"}
          /\ act' \in [React -> ActState] /\ told' \in [React -> {"none", "start", "stop"}]
          /\ curAct' \in {0, r}
          /\ \/ act'[r] = "over"
             \/ act'[r] = "creating" /\ told'[r] = "none"
          /\ \A q \in React : q # r => act'[q] = act[q] /\ told'[q] = told[q]
        <3>1. CASE react' = [react EXCEPT ![r].pc = "idle"] /\ act' = act /\ told' = told /\ curAct' = 0
            BY <1>0, <1>c, <2>0, <2>1, <3>1 DEF ReactRecord
        <3>2. CASE /\ react[r].round < MaxRound /\ curAct' = 0
                   /\ react' = [react EXCEPT ![r].pc = "create", ![r].round = @ + 1, ![r].read = "user"]
                   /\ Asks(r)
            <4>1. react[r].round + 1 \in 0..MaxRound
                BY <1>c, <3>2, AgentAssumption DEF ReactRecord
            <4> QED BY <1>0, <1>c, <2>0, <2>1, <3>2, <4>1 DEF ReactRecord, Asks, ActState
        <3>3. CASE /\ react' = [react EXCEPT ![r].pc = "idle", ![r].failed = TRUE]
                   /\ UNCHANGED <<act, told, curAct>>
            BY <1>0, <1>c, <2>0, <2>1, <3>3 DEF ReactRecord
        <3> QED BY <1>5, <3>1, <3>2, <3>3 DEF Collected
    <2>3. TypeOK'
        BY <1>0, <1>a, <2>0, <2>2 DEF TypeOK, ReactRecord, ActState
    <2>4. Alone' /\ Seen'
        BY <1>a, <2>1, <2>2, GoesOn
    <2>5. Begun' /\ Follows'
        BY <1>0, <1>d, <2>0, <2>1, <2>2 DEF Begun, Follows
    <2>6. Watched'
        <3>1. \A q \in React : q # r => ~ Drives(q)
            BY <1>d, <2>1
        <3>2. \A q \in React : q # r /\ ~ react[q].failed /\ told[q] = "start" => act[q] = "over"
            BY <1>0, <2>1, <3>1 DEF Watched
        <3> QED BY <1>0, <1>a, <2>0, <2>1, <2>2, <3>1, <3>2 DEF Watched, Drives
    <2> QED BY <1>b, <2>3, <2>4, <2>5, <2>6 DEF IInv
<1>6. CASE CutShort(r)
    <2>0. /\ react[r].pc = "cut" /\ tail' = "assistant" /\ UNCHANGED <<act, told, curAct>>
          /\ react' = [react EXCEPT ![r].pc = "idle"]
        BY <1>6 DEF CutShort
    <2>1. react[r].cancelled /\ Active(r)
        BY <1>0, <2>0 DEF Begun, Active
    <2>2. /\ react' \in [React -> ReactRecord] /\ \A q \in React : q # r => react'[q] = react[q]
          /\ react'[r].cancelled = react[r].cancelled /\ react'[r].read = react[r].read /\ react'[r].pc = "idle"
          /\ react'[r].failed = react[r].failed
        BY <1>0, <1>c, <2>0, <2>1 DEF ReactRecord
    <2>3. TypeOK'
        BY <1>0, <1>a, <2>0, <2>2 DEF TypeOK, ReactRecord, ActState
    <2>4. Alone' /\ Seen'
        BY <1>a, <2>1, <2>2, GoesOn
    <2>5. Begun' /\ Follows'
        BY <1>0, <1>d, <2>0, <2>1, <2>2 DEF Begun, Follows
    <2>6. Watched'
        BY <1>0, <1>a, <2>0, <2>2 DEF Watched, Drives
    <2> QED BY <1>b, <2>3, <2>4, <2>5, <2>6 DEF IInv
<1>7. CASE ReactEnds(r)
    <2>0. /\ react[r].pc = "idle" /\ UNCHANGED <<act, told, curAct, tail>>
          /\ react' = [react EXCEPT ![r].pc = "ended", ![r].round = 0, ![r].read = "none"]
        BY <1>7 DEF ReactEnds
    <2>1. Active(r)
        BY <2>0 DEF Active
    <2>2. /\ react' \in [React -> ReactRecord] /\ \A q \in React : q # r => react'[q] = react[q]
          /\ react'[r].cancelled = react[r].cancelled /\ react'[r].read = "none"
          /\ react'[r].pc = "ended" /\ react'[r].failed = react[r].failed
        <3>1. 0 \in 0..MaxRound
            BY AgentAssumption
        <3> QED BY <1>0, <1>c, <2>0, <3>1 DEF ReactRecord
    <2>3. TypeOK'
        BY <1>0, <1>a, <2>0, <2>2 DEF TypeOK, ReactRecord, ActState
    <2>4. Alone' /\ Seen'
        BY <1>a, <2>1, <2>2, GoesOn
    <2>5. Begun' /\ Follows'
        BY <1>0, <2>0, <2>2 DEF Begun, Follows
    <2>6. Watched'
        BY <1>0, <1>a, <2>0, <2>2 DEF Watched, Drives
    <2> QED BY <1>b, <2>3, <2>4, <2>5, <2>6 DEF IInv
<1> QED BY <1>1, <1>2, <1>3, <1>4, <1>5, <1>6, <1>7, <1>8

\* A message, or somebody else, gets in line.
LEMMA PlacedLater ==
    ASSUME IInv, NEW x \in Waiter, lock' = Append(lock, x),
           UNCHANGED <<pending, deferred, stored, dropped>>,
           reflex' = reflex \/ (reflex.pc = "judge" /\ reflex'.pc = "judged" /\ reflex'.judged = reflex.judged),
           \/ x \notin Msg /\ mail' = mail
           \/ x \in Msg /\ mail[x] # "sent" /\ mail' = [mail EXCEPT ![x] = "sent"]
    PROVE  Placed'
<1>0. Placed /\ lock \in Seq(Waiter) /\ mail \in [Msg -> {"new", "waits", "sent", "lost"}]
    BY Typed DEF TypeOK
<1>1. x \in Msg => x \notin Queued(lock)
    BY <1>0 DEF Placed, Held
<1>2. Queued(lock') = Queued(lock) \cup {x} /\ OnceIn(lock')
    BY <1>0, <1>1, Appended, AppendedOnce DEF Placed, OnceIn
<1>3. reflex'.judged = reflex.judged /\ (reflex'.pc \in {"none", "wait"} => reflex.pc \in {"none", "wait"})
    OBVIOUS
<1>4. \A m \in Msg : m # x => mail'[m] = mail[m]
    BY <1>0
<1>5. x \in Msg => mail'[x] = "sent" /\ ~ Kept(x)
    BY <1>0 DEF Placed
<1> QED BY <1>0, <1>2, <1>3, <1>4, <1>5 DEF Placed, Held, Kept, Queued, OnceIn

\* Nothing but the line changes for the rest.
LEMMA LineKeeps ==
    ASSUME IInv, NEW x \in Waiter, lock' = Append(lock, x),
           UNCHANGED <<at, epoch, react, cur, act, told, curAct, tail>>,
           reflex' = reflex \/ (reflex' = [reflex EXCEPT !.pc = "judged", !.decision = reflex'.decision]
                                /\ reflex.pc = "judge" /\ (reflex'.decision = "pass" => ~ reflex.inFlight))
    PROVE  Alone' /\ Begun' /\ Follows' /\ Seen' /\ Watched'
<1>0. Alone /\ Begun /\ Follows /\ Seen /\ Watched /\ lock \in Seq(Waiter) /\ reflex \in ReflexRecord
    BY Typed
<1>1. lock' # <<>> /\ (lock # <<>> => Head(lock') = Head(lock))
    BY <1>0, Appended
<1>2. Alone'
    BY <1>0, <1>1 DEF Alone, Active
<1>3. Begun' /\ Follows' /\ Watched'
    BY <1>0 DEF Begun, Follows, Watched, Drives
<1>4. Seen'
    <2>1. at # "in" => (Holds("reflex")' <=> Holds("reflex"))
        BY <1>0, <1>1 DEF Holds, Alone
    <2>2. InFlight' = InFlight
        BY DEF InFlight, Ended
    <2>3. /\ reflex'.epoch = reflex.epoch /\ reflex'.inFlight = reflex.inFlight
          /\ reflex'.pc \in {"judge", "judged"} => reflex.pc \in {"judge", "judged"}
          /\ reflex'.pc = "judged" /\ reflex'.decision = "pass" =>
                (reflex.pc = "judged" /\ reflex.decision = "pass") \/ ~ reflex.inFlight
        BY <1>0 DEF ReflexRecord
    <2> QED BY <1>0, <2>1, <2>2, <2>3 DEF Seen
<1> QED BY <1>2, <1>3, <1>4

\* What comes in.
LEMMA IncomingKeeps ==
    ASSUME IInv, \/ \E m \in User : Send(m)
                 \/ \E m \in Msg : Deliver(m) \/ DeliverDies(m)
                 \/ Interrupt
                 \/ \E d \in Decision : Judge(d)
    PROVE  IInv'
<1>0. /\ TypeOK /\ Alone /\ Begun /\ Follows /\ Seen /\ Watched /\ Placed
      /\ reflex \in ReflexRecord /\ lock \in Seq(Waiter)
      /\ "reflex" \in Waiter /\ "interrupt" \in Waiter /\ "reflex" \notin Msg /\ "interrupt" \notin Msg
      /\ User \subseteq Msg /\ Mail \subseteq Msg /\ Msg \subseteq Waiter /\ 0 \notin React
      /\ mail \in [Msg -> {"new", "waits", "sent", "lost"}]
    BY Typed DEF TypeOK
<1>1. ASSUME NEW m \in Msg, mail[m] # "sent", mail' = [mail EXCEPT ![m] = "sent"], lock' = Append(lock, m),
             UNCHANGED <<awaits, at, epoch, interrupts, reacts, messages, tail>>
      PROVE  IInv'
    <2>1. m \in Waiter /\ UNCHANGED <<pending, deferred, reflex, stored, dropped, react, cur, act, told, curAct>>
        BY <1>0, <1>1 DEF messages, reacts
    <2>2. Placed'
        BY <1>1, <2>1, PlacedLater
    <2>3. Alone' /\ Begun' /\ Follows' /\ Seen' /\ Watched'
        BY <1>1, <2>1, LineKeeps
    <2>4. lock' \in Seq(Waiter)
        BY <1>0, <1>1, <2>1, Appended
    <2>5. mail' \in [Msg -> {"new", "waits", "sent", "lost"}]
        BY <1>0, <1>1
    <2>6. TypeOK'
        BY <1>0, <1>1, <2>1, <2>4, <2>5 DEF TypeOK, Waiter
    <2> QED BY <2>2, <2>3, <2>6 DEF IInv
<1>2. ASSUME NEW m \in Msg, mail[m] # "sent", NEW s \in {"waits", "lost"}, mail' = [mail EXCEPT ![m] = s],
             awaits' \in [Msg -> {0} \cup React],
             UNCHANGED <<lock, at, epoch, interrupts, reacts, messages, tail>>
      PROVE  IInv'
    <2>1. UNCHANGED <<pending, deferred, reflex, stored, dropped, react, cur, act, told, curAct>>
        BY <1>2 DEF messages, reacts
    <2>2. /\ mail' \in [Msg -> {"new", "waits", "sent", "lost"}] /\ mail'[m] # "sent"
          /\ \A n \in Msg : n # m => mail'[n] = mail[n]
        BY <1>0, <1>2
    <2>3. TypeOK'
        BY <1>0, <1>2, <2>1, <2>2 DEF TypeOK
    <2>4. Placed'
        BY <1>0, <1>2, <2>1, <2>2 DEF Placed, Held, Kept, Queued, OnceIn
    <2>5. Alone' /\ Begun' /\ Follows' /\ Seen' /\ Watched'
        BY <1>0, <1>2, <2>1 DEF Alone, Active, Begun, Follows, Seen, Watched, Drives, InFlight, Ended, Holds
    <2> QED BY <2>3, <2>4, <2>5 DEF IInv
<1>3. ASSUME NEW m \in User, Send(m) PROVE IInv'
    BY <1>0, <1>1, <1>3 DEF Send
<1>4. ASSUME NEW m \in Msg, Deliver(m) PROVE IInv'
    <2>1. mail[m] # "sent" /\ UNCHANGED <<at, epoch, interrupts, reacts, messages, tail>>
        BY <1>4 DEF Deliver
    <2>2. CASE InFlight
        <3>1. /\ mail' = [mail EXCEPT ![m] = "waits"] /\ awaits' = [awaits EXCEPT ![m] = cur]
              /\ lock' = lock
            BY <1>4, <2>2 DEF Deliver
        <3>2. awaits' \in [Msg -> {0} \cup React]
            BY <1>0, <3>1 DEF TypeOK
        <3> QED BY <1>2, <2>1, <3>1, <3>2
    <2>3. CASE ~ InFlight
        BY <1>1, <1>4, <2>1, <2>3 DEF Deliver
    <2> QED BY <2>2, <2>3
<1>5. ASSUME NEW m \in Msg, DeliverDies(m) PROVE IInv'
    <2>1. awaits' \in [Msg -> {0} \cup React]
        BY <1>0, <1>5 DEF TypeOK, DeliverDies
    <2> QED BY <1>2, <1>5, <2>1 DEF DeliverDies
<1>6. CASE Interrupt
    <2>1. /\ lock' = Append(lock, "interrupt")
          /\ UNCHANGED <<mail, awaits, at, epoch, pending, deferred, reflex, stored, dropped,
                         react, cur, act, told, curAct, tail>>
        BY <1>6 DEF Interrupt, messages, reacts
    <2>a. interrupts' \in 0..MaxInterrupt
        <3>1. interrupts \in 0..MaxInterrupt /\ interrupts < MaxInterrupt /\ interrupts' = interrupts + 1
            BY <1>0, <1>6 DEF Interrupt, TypeOK
        <3> QED BY <3>1, AgentAssumption
    <2>2. Placed'
        BY <1>0, <2>1, PlacedLater
    <2>3. Alone' /\ Begun' /\ Follows' /\ Seen' /\ Watched'
        BY <1>0, <2>1, LineKeeps
    <2>4. lock' \in Seq(Waiter)
        BY <1>0, <2>1, Appended
    <2>5. TypeOK'
        BY <1>0, <2>1, <2>a, <2>4 DEF TypeOK, Waiter
    <2> QED BY <2>2, <2>3, <2>5 DEF IInv
<1>7. ASSUME NEW d \in Decision, Judge(d) PROVE IInv'
    <2>1. /\ reflex.pc = "judge" /\ (d = "pass" => ~ reflex.inFlight)
          /\ reflex' = [reflex EXCEPT !.pc = "judged", !.decision = d] /\ lock' = Append(lock, "reflex")
          /\ UNCHANGED <<mail, awaits, at, epoch, interrupts, pending, deferred, stored, dropped,
                         react, cur, act, told, curAct, tail>>
        BY <1>7 DEF Judge, reacts
    <2>2. /\ reflex' \in ReflexRecord /\ reflex'.pc = "judged" /\ reflex'.judged = reflex.judged
          /\ reflex'.decision = d
        BY <1>0, <2>1 DEF ReflexRecord
    <2>3. Placed'
        BY <1>0, <2>1, <2>2, PlacedLater
    <2>4. Alone' /\ Begun' /\ Follows' /\ Seen' /\ Watched'
        BY <1>0, <2>1, <2>2, LineKeeps
    <2>5. lock' \in Seq(Waiter)
        BY <1>0, <2>1, Appended
    <2>6. TypeOK'
        BY <1>0, <2>1, <2>2, <2>5 DEF TypeOK, Waiter, ReflexRecord
    <2> QED BY <2>3, <2>4, <2>6 DEF IInv
<1> QED BY <1>3, <1>4, <1>5, <1>6, <1>7

\* A react is done with, and its act goes on.
LEMMA AroundKeeps ==
    ASSUME IInv, NEW r \in React, OnReactDone(r) \/ ActComes(r) \/ ActStarts(r) \/ ActRuns(r) \/ ActCutLoose(r) \/ ActEnds(r)
    PROVE  IInv'
<1>0. /\ TypeOK /\ Alone /\ Begun /\ Follows /\ Seen /\ Watched /\ Placed
      /\ react \in [React -> ReactRecord] /\ 0 \notin React /\ lock \in Seq(Waiter)
      /\ "drain" \in Waiter /\ "drain" \notin Msg
    BY Typed
<1>1. CASE OnReactDone(r)
    <2>0. /\ react[r].pc = "ended" /\ react' = [react EXCEPT ![r].pc = "over"]
          /\ lock' \in {lock, Append(lock, "drain")}
          /\ UNCHANGED <<mail, awaits, at, epoch, interrupts, cur, pending, deferred, reflex, stored,
                         dropped, act, told, curAct, tail>>
        BY <1>1 DEF OnReactDone, messages
    <2>1. /\ react' \in [React -> ReactRecord] /\ \A q \in React : q # r => react'[q] = react[q]
          /\ react'[r].cancelled = react[r].cancelled /\ react'[r].read = react[r].read
          /\ react'[r].pc = "over" /\ react'[r].failed = react[r].failed
        <3>1. react[r] \in ReactRecord
            BY <1>0
        <3> QED BY <1>0, <2>0, <3>1 DEF ReactRecord
    <2>2. lock' \in Seq(Waiter) /\ (lock # <<>> => lock' # <<>> /\ Head(lock') = Head(lock))
        BY <1>0, <2>0, Appended
    <2>3. TypeOK'
        BY <1>0, <2>0, <2>1, <2>2 DEF TypeOK, ReactRecord, Waiter
    <2>4. Placed'
        <3>1. CASE lock' = lock
            BY <1>0, <2>0, <3>1, PlacedSame
        <3>2. CASE lock' = Append(lock, "drain")
            BY <1>0, <2>0, <3>2, PlacedLater
        <3> QED BY <2>0, <3>1, <3>2
    <2>5. Alone'
        BY <1>0, <2>0, <2>1, <2>2 DEF Alone, Active
    <2>6. Seen'
        <3>1. at # "in" => (Holds("reflex")' <=> Holds("reflex"))
            BY <1>0, <2>2 DEF Holds, Alone
        <3>2. InFlight' => InFlight
            BY <1>0, <2>0, <2>1 DEF InFlight, Ended, TypeOK
        <3> QED BY <1>0, <2>0, <3>1, <3>2 DEF Seen
    <2>7. Begun' /\ Follows'
        BY <1>0, <2>0, <2>1 DEF Begun, Follows
    <2>8. Watched'
        BY <1>0, <2>0, <2>1 DEF Watched, Drives
    <2> QED BY <2>3, <2>4, <2>5, <2>6, <2>7, <2>8 DEF IInv
<1>2. CASE ActComes(r) \/ ActStarts(r) \/ ActRuns(r) \/ ActCutLoose(r) \/ ActEnds(r)
    <2>0. UNCHANGED <<mail, awaits, lock, at, epoch, interrupts, cur, pending, deferred, reflex, stored,
                      dropped, react, told, curAct, tail>>
        BY <1>2 DEF ActComes, ActStarts, ActRuns, ActCutLoose, ActEnds, Becomes, acts, rest, messages
    <2>1. /\ act' \in [React -> ActState] /\ \A q \in React : q # r => act'[q] = act[q]
          /\ \/ act'[r] = "over"
             \/ act'[r] = "created" /\ act[r] # "over"
             \/ act'[r] \in {"starting", "running", "loose"} /\ told[r] # "none" /\ act[r] # "over"
        <3>1. /\ act \in [React -> ActState] /\ told \in [React -> {"none", "start", "stop"}]
              /\ act[r] \in {"starting", "running", "loose"} => told[r] # "none"
            BY <1>0 DEF TypeOK, ActState, Watched
        <3>2. ASSUME NEW st \in ActState, Becomes(r, st)
              PROVE  act' \in [React -> ActState] /\ act'[r] = st /\ \A q \in React : q # r => act'[q] = act[q]
            BY <3>1, <3>2 DEF Becomes
        <3>3. CASE ActComes(r)
            BY <3>2, <3>3 DEF ActComes, ActState
        <3>4. CASE ActStarts(r)
            BY <3>2, <3>4 DEF ActStarts, ActState
        <3>5. CASE ActRuns(r)
            BY <3>1, <3>2, <3>5 DEF ActRuns, ActState
        <3>6. CASE ActCutLoose(r)
            BY <3>2, <3>6 DEF ActCutLoose, ActState
        <3>7. CASE ActEnds(r)
            BY <3>2, <3>7 DEF ActEnds, ActState
        <3> QED BY <1>2, <3>3, <3>4, <3>5, <3>6, <3>7
    <2>2. TypeOK'
        BY <1>0, <2>0, <2>1 DEF TypeOK, ActState
    <2>3. Alone' /\ Begun' /\ Follows' /\ Seen'
        BY <1>0, <2>0 DEF Alone, Active, Begun, Follows, Seen, InFlight, Ended, Holds
    <2>4. Watched'
        BY <1>0, <2>0, <2>1 DEF Watched, Drives
    <2>5. Placed'
        BY <1>0, <2>0, PlacedSame
    <2> QED BY <2>2, <2>3, <2>4, <2>5 DEF IInv
<1> QED BY <1>1, <1>2

\* The holder leaves the line; the reflex may get in it.
LEMMA Passes ==
    ASSUME IInv, lock # <<>>, lock' \in {Tail(lock), Append(Tail(lock), "reflex")}
    PROVE  /\ lock' \in Seq(Waiter) /\ OnceIn(lock')
           /\ \A n \in Msg : n \in Queued(lock') <=> n \in Queued(lock) /\ n # Head(lock)
<1>0. lock \in Seq(Waiter) /\ "reflex" \in Waiter /\ "reflex" \notin Msg /\ OnceIn(lock)
    BY Typed DEF Placed
<1>1. /\ Tail(lock) \in Seq(Waiter) /\ OnceIn(Tail(lock))
      /\ Queued(lock) = Queued(Tail(lock)) \cup {Head(lock)}
      /\ Head(lock) \in Msg => Head(lock) \notin Queued(Tail(lock))
    BY <1>0, Left, LeftOnce DEF OnceIn
<1>2. CASE lock' = Tail(lock)
    BY <1>1, <1>2
<1>3. CASE lock' = Append(Tail(lock), "reflex")
    <2>1. /\ Append(Tail(lock), "reflex") \in Seq(Waiter)
          /\ Queued(Append(Tail(lock), "reflex")) = Queued(Tail(lock)) \cup {"reflex"}
        <3>1. \A q \in Seq(Waiter) : /\ Append(q, "reflex") \in Seq(Waiter)
                                     /\ Queued(Append(q, "reflex")) = Queued(q) \cup {"reflex"}
            BY <1>0, Appended
        <3>2. Tail(lock) \in Seq(Waiter)
            BY <1>1
        <3> QED BY <3>1, <3>2
    <2>2. OnceIn(Append(Tail(lock), "reflex"))
        BY <1>0, <1>1, AppendedOnce DEF OnceIn
    <2> QED BY <1>0, <1>1, <1>3, <2>1, <2>2
<1> QED BY <1>2, <1>3

\* No react is in flight, and every act that was told to start is over or told to stop,
\* unless its react has failed.
Quiet ==
    \A r \in React : ~ Active(r) /\ (~ react[r].failed /\ told[r] = "start" => act[r] = "over")

LEMMA QuietWhen ==
    ASSUME IInv, (at = "in" /\ ~ InFlight) \/ Silent
    PROVE  Quiet
<1>0. Alone /\ Watched /\ 0 \notin React
    BY Typed
<1>1. ASSUME NEW r \in React PROVE ~ Active(r)
    BY <1>0 DEF Alone, Active, InFlight, Ended, Silent
<1>2. ASSUME NEW r \in React, ~ react[r].failed, told[r] = "start" PROVE act[r] = "over"
    <2>1. ~ Drives(r)
        BY <1>1 DEF Drives, Active
    <2>2. CASE at = "in"
        BY <1>0, <1>2, <2>1, <2>2 DEF Watched
    <2>3. CASE Silent
        BY <1>0, <1>2, <2>3 DEF Watched, Silent
    <2> QED BY <2>2, <2>3
<1> QED BY <1>1, <1>2 DEF Quiet

\* A react starts on a history that ends in a user's message.
LEMMA Started ==
    ASSUME IInv, Quiet, StartReact, tail' = "user", at' = "in", UNCHANGED <<act, told>>
    PROVE  /\ Alone' /\ Begun' /\ Follows' /\ Watched'
           /\ react' \in [React -> ReactRecord] /\ cur' \in React
<1>0. Begun /\ Follows /\ react \in [React -> ReactRecord]
    BY Typed
<1>1. PICK r \in React : react[r].pc = "none" /\ react' = [react EXCEPT ![r].pc = "new"] /\ cur' = r
    BY DEF StartReact
<1>2. react[r] \in ReactRecord
    BY <1>0
<1>3. /\ react' \in [React -> ReactRecord] /\ \A q \in React : q # r => react'[q] = react[q]
      /\ react'[r].pc = "new" /\ react'[r].cancelled = react[r].cancelled
      /\ react'[r].read = react[r].read /\ react'[r].round = react[r].round
      /\ react'[r].failed = react[r].failed
    BY <1>0, <1>1, <1>2 DEF ReactRecord
<1>4. ~ react[r].cancelled
    BY <1>0, <1>1 DEF Begun
<1>5. Alone'
    BY <1>1, <1>3 DEF Alone, Quiet, Active
<1>6. Begun' /\ Follows'
    BY <1>0, <1>1, <1>3, <1>4 DEF Begun, Follows
<1>7. Watched'
    <2>1. \A q \in React : ~ Drives(q)
        BY DEF Quiet, Active, Drives
    <2>2. Watched
        BY Typed
    <2> QED BY <1>3, <2>1, <2>2 DEF Watched, Quiet, Drives
<1> QED BY <1>1, <1>3, <1>5, <1>6, <1>7

\* The holder cancels what is in flight.
LEMMA Cancels ==
    ASSUME IInv, at = "in", lock # <<>>, CancelReact, epoch' = epoch + 1,
           UNCHANGED <<lock, tail, reflex>>
    PROVE  /\ Alone' /\ Begun' /\ Follows' /\ Seen' /\ Watched'
           /\ react' \in [React -> ReactRecord] /\ cur' = 0 /\ at' \in {"join", "stop act"}
           /\ UNCHANGED <<act, told, curAct>>
<1>0. /\ Alone /\ Begun /\ Follows /\ Seen /\ Watched /\ react \in [React -> ReactRecord]
      /\ cur \in {0} \cup React /\ 0 \notin React /\ reflex \in ReflexRecord /\ epoch \in Nat
    BY Typed DEF TypeOK
<1>1. cur' = 0 /\ UNCHANGED <<act, told, curAct>>
    BY DEF CancelReact
<1>2. Seen'
    <2>1. reflex.epoch \in Nat /\ ~ InFlight' /\ (reflex.pc \in {"judge", "judged"} => reflex.epoch <= epoch)
        BY <1>0, <1>1 DEF InFlight, ReflexRecord, Seen
    <2> QED BY <1>0, <2>1 DEF Seen
<1>3. CASE InFlight
    <2>1. cur \in React /\ cur # 0
        BY <1>0, <1>3 DEF InFlight
    <2>2. /\ react' = [react EXCEPT ![cur].cancelled = TRUE,
                                    ![cur].pc = IF @ \in {"new", "idle"} THEN "ended" ELSE "cut"]
          /\ at' = "join"
        BY <1>3 DEF CancelReact
    <2>3. react[cur] \in ReactRecord
        BY <1>0, <2>1
    <2>4. /\ react' \in [React -> ReactRecord] /\ \A q \in React : q # cur => react'[q] = react[q]
          /\ react'[cur].pc \in {"ended", "cut"} /\ react'[cur].cancelled = TRUE
          /\ react'[cur].read = react[cur].read /\ react'[cur].failed = react[cur].failed
        BY <1>0, <2>1, <2>2, <2>3 DEF ReactRecord
    <2>5. Alone'
        BY <1>0, <1>1, <2>1, <2>2, <2>4 DEF Alone, Active
    <2>6. Begun' /\ Follows'
        BY <1>0, <2>1, <2>4 DEF Begun, Follows
    <2>7. Watched'
        BY <1>0, <1>1, <2>1, <2>2, <2>4 DEF Watched, Drives
    <2> QED BY <1>1, <1>2, <2>2, <2>4, <2>5, <2>6, <2>7
<1>4. CASE ~ InFlight
    <2>1. react' = react /\ at' = "stop act"
        BY <1>4 DEF CancelReact
    <2>2. Quiet
        BY <1>4, QuietWhen
    <2>3. Alone' /\ Begun' /\ Follows'
        BY <1>0, <1>1, <2>1, <2>2 DEF Alone, Active, Begun, Follows, Quiet
    <2>4. Watched'
        BY <1>0, <1>1, <2>1, <2>2 DEF Watched, Drives, Quiet, Active
    <2> QED BY <1>0, <1>1, <1>2, <2>1, <2>3, <2>4
<1> QED BY <1>3, <1>4

\* Nothing of the reacts changes, or of the acts.
LEMMA ReactsSame ==
    ASSUME IInv, at = "in", at' = "in", tail' \in {tail, "user"}, UNCHANGED <<react, cur, act, told, curAct>>
    PROVE  Alone' /\ Begun' /\ Follows' /\ Watched'
BY Typed DEF Alone, Active, Begun, Follows, Watched, Drives

\* The holder cancels, waits for what it has cancelled, and stops the act.
LEMMA TakingOverKeeps ==
    ASSUME IInv, \/ \E x \in Msg \cup {"interrupt"} : TakeOver(x)
                 \/ ReflexInterrupts \/ Joined \/ StopAct
    PROVE  IInv'
<1>0. /\ TypeOK /\ Alone /\ Begun /\ Follows /\ Seen /\ Watched /\ Placed
      /\ react \in [React -> ReactRecord] /\ 0 \notin React /\ epoch \in Nat
    BY Typed
<1>1. CASE (\E x \in Msg \cup {"interrupt"} : TakeOver(x)) \/ ReflexInterrupts
    <2>0. /\ at = "in" /\ lock # <<>> /\ CancelReact /\ epoch' = epoch + 1
          /\ UNCHANGED <<mail, awaits, lock, interrupts, pending, deferred, reflex, stored, dropped, tail>>
        BY <1>1 DEF TakeOver, ReflexInterrupts, Judged, Holds, messages
    <2>1. /\ Alone' /\ Begun' /\ Follows' /\ Seen' /\ Watched'
          /\ react' \in [React -> ReactRecord] /\ cur' = 0 /\ at' \in {"join", "stop act"}
          /\ UNCHANGED <<act, told, curAct>>
        BY <2>0, Cancels
    <2>2. TypeOK'
        <3>1. epoch' \in Nat
            BY <1>0, <2>0
        <3>2. cur' \in {0} \cup React
            BY <2>1
        <3>3. at' \in {"in", "join", "stop act", "stopping act"}
            BY <2>1
        <3> QED BY <1>0, <2>0, <2>1, <3>1, <3>2, <3>3 DEF TypeOK, ReactRecord, ActState
    <2>3. Placed'
        BY <1>0, <2>0, PlacedSame
    <2> QED BY <2>1, <2>2, <2>3 DEF IInv
<1>2. CASE Joined
    <2>0. /\ at = "join" /\ (\A r \in React : react[r].cancelled => Ended(r)) /\ at' = "stop act"
          /\ UNCHANGED <<mail, awaits, lock, epoch, interrupts, react, cur, act, told, curAct,
                         pending, deferred, reflex, stored, dropped, tail>>
        BY <1>2 DEF Joined, reacts, messages
    <2>1. TypeOK'
        BY <1>0, <2>0 DEF TypeOK
    <2>2. Placed'
        BY <1>0, <2>0, PlacedSame
    <2>3. Alone'
        BY <1>0, <2>0 DEF Alone, Active, Ended
    <2>4. Begun' /\ Follows' /\ Seen' /\ Watched'
        BY <1>0, <2>0 DEF Begun, Follows, Seen, Watched, Drives, InFlight, Ended, Holds
    <2> QED BY <2>1, <2>2, <2>3, <2>4 DEF IInv
<1>3. CASE StopAct
    <2>0. /\ at = "stop act" /\ curAct # 0 /\ told' = [told EXCEPT ![curAct] = "stop"]
          /\ at' = "stopping act"
          /\ UNCHANGED <<mail, awaits, lock, epoch, interrupts, react, cur, act, curAct,
                         pending, deferred, reflex, stored, dropped, tail>>
        BY <1>3 DEF StopAct, messages
    <2>1. curAct \in React /\ told \in [React -> {"none", "start", "stop"}]
        BY <1>0, <2>0 DEF TypeOK
    <2>2. /\ told' \in [React -> {"none", "start", "stop"}] /\ told'[curAct] = "stop"
          /\ \A q \in React : q # curAct => told'[q] = told[q]
        BY <2>0, <2>1
    <2>3. TypeOK'
        BY <1>0, <2>0, <2>2 DEF TypeOK
    <2>4. Placed'
        BY <1>0, <2>0, PlacedSame
    <2>5. Alone' /\ Begun' /\ Follows' /\ Seen'
        BY <1>0, <2>0 DEF Alone, Active, Begun, Follows, Seen, InFlight, Ended, Holds
    <2>6. Watched'
        BY <1>0, <2>0, <2>1, <2>2 DEF Watched, Drives
    <2> QED BY <2>3, <2>4, <2>5, <2>6 DEF IInv
<1> QED BY <1>1, <1>2, <1>3

\* The holder has silenced the agent, and answers or leaves.
LEMMA SilencedKeeps ==
    ASSUME IInv, Reply \/ InterruptDone
    PROVE  IInv'
<1>0. /\ TypeOK /\ Alone /\ Begun /\ Follows /\ Seen /\ Watched /\ Placed
      /\ react \in [React -> ReactRecord] /\ 0 \notin React /\ epoch \in Nat
      /\ lock \in Seq(Waiter) /\ "reflex" \notin Msg /\ "interrupt" \notin Msg
    BY Typed
<1>a. Quiet /\ at # "in" /\ lock # <<>> /\ cur = 0
    BY <1>0, QuietWhen DEF Reply, InterruptDone, Silent, Alone
<1>b. lock' = Tail(lock) /\ at' = "in" /\ curAct' = 0
    BY DEF Reply, InterruptDone, Release
<1>c. /\ lock' \in Seq(Waiter) /\ OnceIn(lock')
      /\ \A n \in Msg : n \in Queued(lock') <=> n \in Queued(lock) /\ n # Head(lock)
      /\ Head(lock) \in Queued(lock)
    BY <1>0, <1>a, <1>b, Passes, Left
<1>1. CASE Reply
    <2>0. /\ StartReact /\ tail' = "user" /\ Holder \in Msg \cup {"reflex"}
          /\ UNCHANGED <<mail, awaits, epoch, interrupts, act, told, pending, deferred, dropped>>
        BY <1>1 DEF Reply, Store
    <2>1. /\ Alone' /\ Begun' /\ Follows' /\ Watched'
          /\ react' \in [React -> ReactRecord] /\ cur' \in React
        BY <1>a, <1>b, <2>0, Started
    <2>2. CASE Holder = "reflex"
        <3>1. stored' = stored \cup reflex.judged /\ reflex' = NoReflex
            BY <1>1, <2>2 DEF Reply, Store
        <3>2. TypeOK'
            BY <1>0, <1>b, <1>c, <2>0, <2>1, <3>1 DEF TypeOK, ReactRecord, NoReflex, Waiter, Decision
        <3>3. Seen'
            BY <3>1 DEF Seen, NoReflex
        <3>4. Placed'
            BY <1>0, <1>c, <2>0, <2>2, <3>1 DEF Placed, Held, Kept, NoReflex, Holder
        <3> QED BY <2>1, <3>2, <3>3, <3>4 DEF IInv
    <2>3. CASE Holder \in Msg
        <3>1. stored' = stored \cup {Holder} /\ reflex' = reflex
            BY <1>0, <1>1, <2>3 DEF Reply, Store
        <3>2. TypeOK'
            BY <1>0, <1>b, <1>c, <2>0, <2>1, <2>3, <3>1 DEF TypeOK, ReactRecord, Waiter
        <3>3. Seen'
            BY <1>0, <1>a, <1>b, <2>0, <2>3, <3>1 DEF Seen, Holds, Holder
        <3>4. mail[Holder] = "sent" /\ Held(Holder)
            BY <1>0, <1>c, <2>3 DEF Placed, Held, Holder
        <3>5. Placed'
            BY <1>0, <1>c, <2>0, <2>3, <3>1, <3>4 DEF Placed, Held, Kept, Holder
        <3> QED BY <2>1, <3>2, <3>3, <3>5 DEF IInv
    <2> QED BY <2>0, <2>2, <2>3
<1>2. CASE InterruptDone
    <2>0. /\ Head(lock) = "interrupt"
          /\ UNCHANGED <<mail, awaits, epoch, interrupts, react, cur, act, told, pending, deferred, reflex,
                         stored, dropped, tail>>
        BY <1>2 DEF InterruptDone, Holds, messages
    <2>1. TypeOK'
        BY <1>0, <1>b, <1>c, <2>0 DEF TypeOK, Waiter
    <2>2. Alone' /\ Begun' /\ Follows' /\ Watched'
        BY <1>0, <1>a, <1>b, <2>0 DEF Alone, Active, Begun, Follows, Watched, Drives, Quiet
    <2>3. Seen'
        BY <1>0, <1>a, <1>b, <2>0 DEF Seen, Holds, InFlight
    <2>4. Placed'
        BY <1>0, <1>c, <2>0 DEF Placed, Held, Kept
    <2> QED BY <2>1, <2>2, <2>3, <2>4 DEF IInv
<1> QED BY <1>1, <1>2

\* The holder has nobody to silence.
LEMMA InKeeps ==
    ASSUME IInv, \/ \E m \in Msg : InputJudged(m)
                 \/ Drain \/ ReflexTakes \/ ReflexAgain \/ ReflexStale \/ ReflexKeeps \/ ReflexPasses
    PROVE  IInv'
<1>0. /\ TypeOK /\ Alone /\ Begun /\ Follows /\ Seen /\ Watched /\ Placed
      /\ react \in [React -> ReactRecord] /\ 0 \notin React /\ epoch \in Nat /\ reflex \in ReflexRecord
      /\ lock \in Seq(Waiter) /\ "reflex" \notin Msg /\ "drain" \notin Msg
    BY Typed
<1>a. /\ at = "in" /\ at' = "in" /\ lock # <<>> /\ lock' \in {Tail(lock), Append(Tail(lock), "reflex")}
      /\ UNCHANGED <<mail, awaits, interrupts, act, told, curAct>>
    BY DEF InputJudged, Drain, ReflexTakes, ReflexAgain, ReflexStale, ReflexKeeps, ReflexPasses,
           Holds, Judged, Release, reacts
<1>b. /\ lock' \in Seq(Waiter) /\ OnceIn(lock')
      /\ \A n \in Msg : n \in Queued(lock') <=> n \in Queued(lock) /\ n # Head(lock)
      /\ Head(lock) \in Queued(lock)
    BY <1>0, <1>a, Passes, Left
<1>1. ASSUME NEW m \in Msg, InputJudged(m) PROVE IInv'
    <2>0. /\ Head(lock) = m /\ pending' = pending \cup {m}
          /\ UNCHANGED <<epoch, react, cur, deferred, stored, dropped, tail>>
        BY <1>1 DEF InputJudged, Holds, reacts
    <2>1. /\ reflex' \in ReflexRecord /\ (reflex'.pc = "wait" \/ reflex' = reflex)
          /\ reflex'.judged = reflex.judged
        <3>1. CASE reflex.pc = "none"
            <4>1. reflex' = [NoReflex EXCEPT !.pc = "wait"] /\ reflex.judged = {}
                BY <1>0, <1>1, <3>1 DEF InputJudged, Placed
            <4> QED BY <4>1 DEF NoReflex, ReflexRecord, Decision
        <3>2. CASE reflex.pc # "none"
            BY <1>0, <1>1, <3>2 DEF InputJudged
        <3> QED BY <3>1, <3>2
    <2>2. TypeOK'
        BY <1>0, <1>a, <1>b, <1>1, <2>0, <2>1 DEF TypeOK, ReflexRecord, Waiter
    <2>3. Alone' /\ Begun' /\ Follows' /\ Watched'
        BY <1>a, <2>0, ReactsSame
    <2>4. Seen'
        BY <1>0, <1>a, <2>0, <2>1 DEF Seen, InFlight, Ended
    <2>5. mail[m] = "sent" /\ Held(m)
        BY <1>0, <1>1, <1>b, <2>0 DEF Placed, Held
    <2>6. reflex'.pc \in {"none", "wait"} => reflex'.judged = {}
        BY <1>0, <1>1, <2>1 DEF Placed, InputJudged, NoReflex
    <2>7. Placed'
        BY <1>0, <1>a, <1>b, <1>1, <2>0, <2>1, <2>5, <2>6 DEF Placed, Held, Kept
    <2> QED BY <2>2, <2>3, <2>4, <2>7 DEF IInv
<1>2. CASE Drain
    <2>0. Head(lock) = "drain" /\ UNCHANGED <<pending, reflex, dropped>>
        BY <1>2 DEF Drain, Holds
    <2>1. CASE deferred = {} \/ InFlight
        <3>0. UNCHANGED <<epoch, react, cur, deferred, stored, tail>>
            BY <1>2, <2>1 DEF Drain
        <3>1. TypeOK'
            BY <1>0, <1>a, <1>b, <2>0, <3>0 DEF TypeOK, Waiter
        <3>2. Alone' /\ Begun' /\ Follows' /\ Watched'
            BY <1>a, <3>0, ReactsSame
        <3>3. Seen'
            BY <1>0, <1>a, <2>0, <3>0 DEF Seen, InFlight, Ended
        <3>4. Placed'
            BY <1>0, <1>a, <1>b, <2>0, <3>0 DEF Placed, Held, Kept
        <3> QED BY <3>1, <3>2, <3>3, <3>4 DEF IInv
    <2>2. CASE ~ (deferred = {} \/ InFlight)
        <3>0. /\ stored' = stored \cup deferred /\ tail' = "user" /\ deferred' = {}
              /\ epoch' = epoch + 1 /\ StartReact
            BY <1>2, <2>2 DEF Drain, Store
        <3>1. /\ Alone' /\ Begun' /\ Follows' /\ Watched'
              /\ react' \in [React -> ReactRecord] /\ cur' \in React
            BY <1>a, <2>2, <3>0, QuietWhen, Started
        <3>2. TypeOK'
            BY <1>0, <1>a, <1>b, <2>0, <3>0, <3>1 DEF TypeOK, ReactRecord, Waiter
        <3>3. Seen'
            <4>1. reflex.epoch \in Nat
                BY <1>0 DEF ReflexRecord
            <4> QED BY <1>0, <1>a, <2>0, <3>0, <4>1 DEF Seen
        <3>4. Placed'
            BY <1>0, <1>a, <1>b, <2>0, <3>0 DEF Placed, Held, Kept
        <3> QED BY <3>1, <3>2, <3>3, <3>4 DEF IInv
    <2> QED BY <2>1, <2>2
<1>3. CASE ReflexTakes
    <2>0. /\ Head(lock) = "reflex" /\ reflex.pc = "wait" /\ pending' = {}
          /\ reflex' = [NoReflex EXCEPT !.pc = "judge", !.judged = pending, !.epoch = epoch,
                                        !.inFlight = InFlight]
          /\ UNCHANGED <<epoch, react, cur, deferred, stored, dropped, tail>>
        BY <1>3 DEF ReflexTakes, Holds, reacts
    <2>1. InFlight \in BOOLEAN /\ pending \subseteq Msg /\ reflex.judged = {}
        BY <1>0, <2>0 DEF InFlight, TypeOK, Placed
    <2>a. PICK b \in BOOLEAN :
             /\ b = InFlight
             /\ reflex' = [NoReflex EXCEPT !.pc = "judge", !.judged = pending, !.epoch = epoch, !.inFlight = b]
        BY <2>0, <2>1, Zenon
    <2>b. /\ reflex'.pc = "judge" /\ reflex'.judged = pending /\ reflex'.epoch = epoch
          /\ reflex'.inFlight = b /\ reflex' \in ReflexRecord
        BY <1>0, <2>1, <2>a DEF NoReflex, ReflexRecord, Decision
    <2>2. /\ reflex'.pc = "judge" /\ reflex'.judged = pending /\ reflex'.epoch = epoch
          /\ (reflex'.inFlight <=> InFlight) /\ reflex' \in ReflexRecord
        BY <2>a, <2>b
    <2>3. TypeOK'
        BY <1>0, <1>a, <1>b, <2>0, <2>2 DEF TypeOK, ReflexRecord, Waiter
    <2>4. Alone' /\ Begun' /\ Follows' /\ Watched'
        BY <1>a, <2>0, ReactsSame
    <2>5. Seen'
        BY <1>0, <1>a, <2>0, <2>2 DEF Seen, InFlight, Ended
    <2>6. Placed'
        BY <1>0, <1>a, <1>b, <2>0, <2>1, <2>2 DEF Placed, Held, Kept
    <2> QED BY <2>3, <2>4, <2>5, <2>6 DEF IInv
<1>4. CASE ReflexAgain
    <2>0. /\ Head(lock) = "reflex" /\ pending' = reflex.judged \cup pending
          /\ reflex' = [NoReflex EXCEPT !.pc = "wait"]
          /\ UNCHANGED <<epoch, react, cur, deferred, stored, dropped, tail>>
        BY <1>4 DEF ReflexAgain, Judged, Holds, reacts
    <2>1. reflex'.pc = "wait" /\ reflex'.judged = {} /\ reflex' \in ReflexRecord
        BY <2>0 DEF NoReflex, ReflexRecord, Decision
    <2>2. TypeOK'
        BY <1>0, <1>a, <1>b, <2>0, <2>1 DEF TypeOK, ReflexRecord, Waiter
    <2>3. Alone' /\ Begun' /\ Follows' /\ Watched'
        BY <1>a, <2>0, ReactsSame
    <2>4. Seen'
        BY <2>1 DEF Seen
    <2>5. Placed'
        BY <1>0, <1>a, <1>b, <2>0, <2>1 DEF Placed, Held, Kept
    <2> QED BY <2>2, <2>3, <2>4, <2>5 DEF IInv
<1>5. CASE ReflexStale
    <2>0. /\ Head(lock) = "reflex" /\ stored' = stored \cup reflex.judged /\ tail' = "user"
          /\ reflex' = NoReflex /\ UNCHANGED <<epoch, react, cur, pending, deferred, dropped>>
        BY <1>5 DEF ReflexStale, Judged, Holds, Store, reacts
    <2>1. reflex'.pc = "none" /\ reflex'.judged = {} /\ reflex' \in ReflexRecord
        BY <2>0 DEF NoReflex, ReflexRecord, Decision
    <2>2. TypeOK'
        BY <1>0, <1>a, <1>b, <2>0, <2>1 DEF TypeOK, ReflexRecord, Waiter
    <2>3. Alone' /\ Begun' /\ Follows' /\ Watched'
        BY <1>a, <2>0, ReactsSame
    <2>4. Seen'
        BY <2>1 DEF Seen
    <2>5. Placed'
        BY <1>0, <1>a, <1>b, <2>0, <2>1 DEF Placed, Held, Kept
    <2> QED BY <2>2, <2>3, <2>4, <2>5 DEF IInv
<1>6. CASE ReflexKeeps
    <2>0. /\ Head(lock) = "reflex" /\ reflex' = NoReflex
          /\ UNCHANGED <<epoch, react, cur, pending, stored, tail>>
          /\ \/ dropped' = dropped \cup reflex.judged /\ deferred' = deferred
             \/ deferred' = deferred \cup reflex.judged /\ dropped' = dropped
        BY <1>6 DEF ReflexKeeps, Judged, Holds, reacts
    <2>1. reflex'.pc = "none" /\ reflex'.judged = {} /\ reflex' \in ReflexRecord
        BY <2>0 DEF NoReflex, ReflexRecord, Decision
    <2>2. TypeOK'
        BY <1>0, <1>a, <1>b, <2>0, <2>1 DEF TypeOK, ReflexRecord, Waiter
    <2>3. Alone' /\ Begun' /\ Follows' /\ Watched'
        BY <1>a, <2>0, ReactsSame
    <2>4. Seen'
        BY <2>1 DEF Seen
    <2>5. Placed'
        BY <1>0, <1>a, <1>b, <2>0, <2>1 DEF Placed, Held, Kept
    <2> QED BY <2>2, <2>3, <2>4, <2>5 DEF IInv
<1>7. CASE ReflexPasses
    <2>0. /\ Head(lock) = "reflex" /\ stored' = stored \cup reflex.judged /\ tail' = "user"
          /\ reflex' = NoReflex /\ epoch' = epoch + 1 /\ StartReact
          /\ UNCHANGED <<pending, deferred, dropped>>
        BY <1>7 DEF ReflexPasses, Judged, Holds, Store
    <2>1. ~ InFlight
        <3>1. reflex.pc = "judged" /\ epoch = reflex.epoch /\ Decided = "pass"
            BY <1>7 DEF ReflexPasses, Judged, Stale
        <3>2. CASE reflex.inFlight /\ ~ InFlight
            BY <3>2
        <3>3. CASE ~ (reflex.inFlight /\ ~ InFlight)
            <4>1. reflex.decision = "pass"
                BY <3>1, <3>3 DEF Decided
            <4> QED BY <1>0, <3>1, <4>1 DEF Seen
        <3> QED BY <3>2, <3>3
    <2>2. /\ Alone' /\ Begun' /\ Follows' /\ Watched'
          /\ react' \in [React -> ReactRecord] /\ cur' \in React
        BY <1>a, <2>0, <2>1, QuietWhen, Started
    <2>3. reflex'.pc = "none" /\ reflex'.judged = {} /\ reflex' \in ReflexRecord
        BY <2>0 DEF NoReflex, ReflexRecord, Decision
    <2>4. TypeOK'
        BY <1>0, <1>a, <1>b, <2>0, <2>2, <2>3 DEF TypeOK, ReactRecord, ReflexRecord, Waiter
    <2>5. Seen'
        BY <2>3 DEF Seen
    <2>6. Placed'
        BY <1>0, <1>a, <1>b, <2>0, <2>3 DEF Placed, Held, Kept
    <2> QED BY <2>2, <2>4, <2>5, <2>6 DEF IInv
<1> QED BY <1>1, <1>2, <1>3, <1>4, <1>5, <1>6, <1>7

LEMMA NextKeeps == IInv /\ [Next]_vars => IInv'
<1> SUFFICES ASSUME IInv, [Next]_vars PROVE IInv'
    OBVIOUS
<1>1. User \subseteq Msg
    BY Typed
<1>2. CASE Next
    BY <1>1, <1>2, IncomingKeeps, TakingOverKeeps, SilencedKeeps, InKeeps, ReactKeeps, AroundKeeps
       DEF Next, Progress
<1>3. CASE UNCHANGED vars
    <2>1. /\ TypeOK /\ Alone /\ Begun /\ Follows /\ Seen /\ Watched /\ Placed
          /\ UNCHANGED <<mail, awaits, lock, at, epoch, interrupts, react, cur, act, told, curAct,
                         pending, deferred, reflex, stored, dropped, tail>>
        BY <1>3, Typed DEF vars
    <2>2. TypeOK' /\ Placed'
        BY <2>1, PlacedSame DEF TypeOK
    <2>3. Alone' /\ Begun' /\ Follows' /\ Seen' /\ Watched'
        BY <2>1 DEF Alone, Active, Begun, Follows, Seen, Watched, Drives, InFlight, Ended, Holds
    <2> QED BY <2>2, <2>3 DEF IInv
<1> QED BY <1>2, <1>3

LEMMA Inductive == Spec => []IInv
BY InitInv, NextKeeps, PTL DEF Spec

\* One react is in flight at a time, for any number of users, interrupts and reacts
\* (_cancel_react, _drain_deferred, _start_react), and every variable has its type.
THEOREM OneReactHolds == Spec => []OneReact
<1>1. IInv => OneReact
    <2> SUFFICES ASSUME IInv PROVE OneReact
        OBVIOUS
    <2> DEFINE going == {r \in React : react[r].pc \notin {"none", "ended", "over"}}
    <2>1. TypeOK /\ \A q, r \in going : q = r
        BY Typed DEF Alone, Active
    <2>2. CASE going = {}
        <3>1. Cardinality(going) = 0
            BY <2>2, FS_EmptySet
        <3> QED BY <2>1, <3>1 DEF OneReact
    <2>3. CASE going # {}
        <3>1. PICK r : going = {r}
            BY <2>1, <2>3
        <3>2. Cardinality(going) = 1
            BY <3>1, FS_Singleton
        <3> QED BY <2>1, <3>2 DEF OneReact
    <2> QED BY <2>2, <2>3
<1> QED BY <1>1, Inductive, PTL

\* Every round of a react reads a history that ends in a user's message
\* (_execute_reflex, _drain_deferred, react).
THEOREM RoundFollowsUserHolds == Spec => []RoundFollowsUser
<1>1. IInv => RoundFollowsUser
    BY Typed DEF Follows, RoundFollowsUser
<1> QED BY <1>1, Inductive, PTL

\* An act that runs has its react in flight, or is the one that the next input stops, or
\* was told to stop, unless its react has failed (_interrupt_act_if_needed, react).
THEOREM ActsWatchedHolds == Spec => []ActsWatched
<1>1. IInv => ActsWatched
    BY Typed DEF Watched, ActsWatched, ActWatched, TypeOK
<1> QED BY <1>1, Inductive, PTL

\* What a user says is in one place and one only, from the lock to the history or the
\* decision that drops it (_on_input, _run_reflex, _execute_reflex, _drain_deferred).
THEOREM NothingLostHolds == Spec => []NothingLost
<1>1. ASSUME IInv, NEW m \in User, mail[m] = "sent"
      PROVE  LET places == <<\E j \in DOMAIN lock : lock[j] = m, m \in pending, m \in reflex.judged,
                             m \in deferred, m \in stored, m \in dropped>>
             IN  Cardinality({j \in DOMAIN places : places[j]}) = 1
    <2> DEFINE places == <<\E j \in DOMAIN lock : lock[j] = m, m \in pending, m \in reflex.judged,
                           m \in deferred, m \in stored, m \in dropped>>
    <2>1. m \in Msg /\ Placed
        BY <1>1, Typed
    <2>2. (\E j \in DOMAIN lock : lock[j] = m) <=> Held(m)
        BY DEF Held, Queued
    <2>3. /\ DOMAIN places = 1..6
          /\ (places[1] <=> Held(m)) /\ (places[2] <=> m \in pending) /\ (places[3] <=> m \in reflex.judged)
          /\ (places[4] <=> m \in deferred) /\ (places[5] <=> m \in stored) /\ (places[6] <=> m \in dropped)
        <3>1. DOMAIN places = 1..6
            OBVIOUS
        <3>2. (places[1] <=> \E j \in DOMAIN lock : lock[j] = m)
            OBVIOUS
        <3>3. places[2] <=> m \in pending
            OBVIOUS
        <3>4. places[3] <=> m \in reflex.judged
            OBVIOUS
        <3>5. places[4] <=> m \in deferred
            OBVIOUS
        <3>6. places[5] <=> m \in stored
            OBVIOUS
        <3>7. places[6] <=> m \in dropped
            OBVIOUS
        <3> QED BY <2>2, <3>1, <3>2, <3>3, <3>4, <3>5, <3>6, <3>7
    <2> HIDE DEF places
    <2>4. /\ Held(m) \/ m \in pending \/ m \in reflex.judged \/ m \in deferred \/ m \in stored \/ m \in dropped
          /\ Held(m) => m \notin pending \cup reflex.judged \cup deferred \cup stored \cup dropped
          /\ m \in pending => m \notin reflex.judged \cup deferred \cup stored \cup dropped
          /\ m \in reflex.judged => m \notin deferred \cup stored \cup dropped
          /\ m \in deferred => m \notin stored \cup dropped
          /\ m \in stored => m \notin dropped
        BY <1>1, <2>1 DEF Placed, Kept
    <2>5. PICK i \in 1..6 : places[i] /\ \A j \in 1..6 : places[j] => j = i
        <3>1. \A j \in 1..6 : j = 1 \/ j = 2 \/ j = 3 \/ j = 4 \/ j = 5 \/ j = 6
            OBVIOUS
        <3>2. 1 \in 1..6 /\ 2 \in 1..6 /\ 3 \in 1..6 /\ 4 \in 1..6 /\ 5 \in 1..6 /\ 6 \in 1..6
            OBVIOUS
        <3> QED BY <2>3, <2>4, <3>1, <3>2
    <2>6. {j \in DOMAIN places : places[j]} = {i}
        BY <2>3, <2>5
    <2> QED BY <2>6, FS_Singleton DEF places
<1>2. IInv => NothingLost
    BY <1>1 DEF NothingLost
<1> QED BY <1>2, Inductive, PTL

===============================================================================
