------------------------------ MODULE CallsProofs ------------------------------
(***************************************************************************)
(* The calls of Calls.tla, for any hubs, routines and calls: proofs that a *)
(* stream that ended normally was received whole, and that a caller the    *)
(* kernel knows never waits alone.                                         *)
(*                                                                         *)
(* Neither is inductive.  The end of a stream says nothing of the chunks   *)
(* before it: the invariant counts them (Counted) in both queues on their  *)
(* way, as long as the caller waits and the queue of the provider's hub    *)
(* has dropped none, and says that the end of a stream is behind its       *)
(* chunks wherever it is, and that its handler works once (Served), also   *)
(* when the hub has lost its connection meanwhile.  A caller waits alone   *)
(* as soon as its request is dropped: the invariant names the place its    *)
(* call has come to (Answerable).                                          *)
(***************************************************************************)
EXTENDS Calls, QueueLemmas, FiniteSetTheorems

Asking(c) == {F("call", c, ""), F("cancel", c, "")}

Answering(c) == IF Kind[c] = "req" THEN {F("answer", c, how) : how \in {"ok", "error"}}
                ELSE {F("chunk", c, "")} \cup {F("eof", c, how) : how \in {"ok", "error", "cancelled"}}

\* What the hub of a caller or of a provider has to say, and what it is told.
UpFrames ==
    [h \in Hub |-> {f \in Frame :
        \/ \E c \in Call : Caller(c) = h /\ f \in Asking(c)
        \/ \E c \in Call : Provider(c) = h /\ f \in Answering(c)
        \/ \E r \in Routine : Home[r] = h /\ f = F("stopped", r, "")}]

DownFrames ==
    [h \in Hub |-> {f \in Frame :
        \/ \E c \in Call : Provider(c) = h /\ f \in Asking(c)
        \/ \E c \in Call : Caller(c) = h /\ f \in Answering(c)}]

\* Queues that hold frames where they belong.
Queues(frames) == {u \in [Hub -> Seq(Frame)] : \A h \in Hub : u[h] \in Seq(frames[h])}

\* Who waits is an instance, and a hub has none left when it dials again: the connection
\* on which a call is answered is the one on which it was made.
Lives ==
    /\ \A r \in Routine : inst[r] => link[Home[r]] # "dialled"
    /\ \A c \in Call : Waiting(c) => inst[From[c]]

Linked == up \in Queues(UpFrames) /\ down \in Queues(DownFrames) /\ Lives

\* The variables but the queues have their types.
Plain ==
    /\ st \in [Call -> {"idle", "wait", "open", "ok", "failed", "timeout", "left", "lost"}]
    /\ serve \in [Call -> {"none", "running", "over"}]
    /\ got \in [Call -> 0..MaxChunk] /\ made \in [Call -> 0..MaxChunk]
    /\ readers \subseteq Call /\ streams \subseteq Call /\ pending \subseteq Call
    /\ node \in [Routine -> {"up", "ending", "givenup", "gone"}]
    /\ inst \in [Routine -> BOOLEAN] /\ link \in [Hub -> {"up", "dialled", "down"}]
    /\ lost \subseteq Frame

\* There are finitely many calls that the kernel or a hub looks through.
Asked == {c \in Call : st[c] # "idle"}
Finite == IsFiniteSet(Asked) /\ pending \subseteq Asked

\* How often x is in the queue; whether each y is behind each x.
Count(q, x) == Cardinality({j \in DOMAIN q : q[j] = x})
Behind(q, x, y) == \A i, j \in DOMAIN q : q[i] = x /\ q[j] = y => i < j

Opening(c) == F("call", c, "")
ChunkOf(c) == F("chunk", c, "")
Eof(c) == F("eof", c, "ok")

\* A call is delivered once, so its handler works once: what has said its last word says
\* no more, and has said no chunk after it.
Served(c) ==
    LET sent == Count(up[Caller(c)], Opening(c)) + Count(down[Provider(c)], Opening(c)) IN
    /\ sent <= 1
    /\ st[c] = "idle" => serve[c] = "none" /\ sent = 0
    /\ serve[c] # "none" => sent = 0
    /\ serve[c] = "none" => made[c] = 0
    /\ c \in streams => serve[c] = "running" /\ Kind[c] = "stream"
    /\ Eof(c) \in Queued(up[Provider(c)]) \cup Queued(down[Caller(c)]) => serve[c] = "over"
    /\ Behind(up[Provider(c)], ChunkOf(c), Eof(c))
    /\ Behind(down[Caller(c)], ChunkOf(c), Eof(c))
    /\ Eof(c) \in Queued(down[Caller(c)]) => Count(up[Provider(c)], ChunkOf(c)) = 0

\* What the reader was fed and what is on its way is what was made, while the caller waits,
\* can be reached and nothing was dropped; and when the end has left the kernel, what is on
\* its way to the caller.
Counted(c) ==
    LET late == Count(up[Provider(c)], ChunkOf(c))
        near == Count(down[Caller(c)], ChunkOf(c)) IN
    /\ got[c] + near + late <= made[c]
    /\ c \in readers /\ Waiting(c) /\ HasNode(From[c]) /\ link[Caller(c)] = "up"
            /\ ChunkOf(c) \notin lost => got[c] + near + late = made[c]
    /\ c \in readers /\ Waiting(c) /\ Eof(c) \in Queued(down[Caller(c)])
            /\ ChunkOf(c) \notin lost => got[c] + near = made[c]
    /\ Kind[c] = "stream" /\ st[c] = "ok" /\ ChunkOf(c) \notin lost =>
            got[c] = made[c] /\ serve[c] = "over"

CallInv(c) == Served(c) /\ Counted(c)

IInv == Plain /\ Linked /\ Finite /\ \A c \in Call : CallInv(c)

\* No other call has the kind and id of c, whichever process makes it.
Unshared(c) == \A d \in Call : SameCall(d, c) => d = c

Ends(c) == Answering(c) \ {ChunkOf(c)}

\* The call of c is on its way to the kernel, or the kernel has an entry for it, or its
\* end is on its way to the caller.
Reached(c) ==
    \/ Opening(c) \in Queued(up[Caller(c)])
    \/ c \in pending
    \/ Ends(c) \cap Queued(down[Caller(c)]) # {}

\* A caller that waits, and that the kernel knows and can reach, will hear the end of its
\* call, unless its request has been dropped.
Answerable(c) ==
    /\ Waiting(c) /\ Kind[c] = "stream" => c \in readers
    /\ Waiting(c) /\ HasNode(From[c]) /\ link[Caller(c)] = "up" /\ Opening(c) \notin lost =>
            Reached(c)

-------------------------------------------------------------------------------
\* Queues.

LEMMA CountZero ==
    ASSUME NEW S, NEW q \in Seq(S), NEW x
    PROVE  /\ Count(q, x) \in Nat /\ IsFiniteSet({j \in DOMAIN q : q[j] = x})
           /\ (Count(q, x) = 0) <=> (x \notin Queued(q))
<1> DEFINE P == {j \in DOMAIN q : q[j] = x}
<1>1. DOMAIN q = 1..Len(q) /\ Len(q) \in Nat
    OBVIOUS
<1>2. IsFiniteSet(1..Len(q))
    BY <1>1, FS_Interval
<1>3. IsFiniteSet(P)
    BY <1>1, <1>2, FS_Subset
<1>4. Count(q, x) \in Nat /\ ((Count(q, x) = 0) <=> (P = {}))
    BY <1>3, FS_EmptySet, FS_CardinalityType DEF Count
<1>5. (P = {}) <=> (x \notin Queued(q))
    BY DEF Queued
<1> QED BY <1>3, <1>4, <1>5

LEMMA CountAppended ==
    ASSUME NEW S, NEW q \in Seq(S), NEW x \in S, NEW y
    PROVE  /\ x = y => Count(Append(q, x), y) = Count(q, y) + 1
           /\ x # y => Count(Append(q, x), y) = Count(q, y)
<1> DEFINE P == {j \in DOMAIN q : q[j] = y}
           A == {j \in DOMAIN Append(q, x) : Append(q, x)[j] = y}
<1>1. /\ Append(q, x)[Len(q) + 1] = x
      /\ \A j \in 1..Len(q) : Append(q, x)[j] = q[j]
      /\ DOMAIN q = 1..Len(q) /\ DOMAIN Append(q, x) = 1..(Len(q) + 1) /\ Len(q) \in Nat
    BY AppendProperties
<1>2. 1..(Len(q) + 1) = (1..Len(q)) \cup {Len(q) + 1} /\ Len(q) + 1 \notin 1..Len(q)
    BY <1>1
<1>3. IsFiniteSet(P) /\ Count(q, y) = Cardinality(P) /\ Count(Append(q, x), y) = Cardinality(A)
    BY CountZero DEF Count
<1>4. ASSUME x = y PROVE Count(Append(q, x), y) = Count(q, y) + 1
    <2>1. A = P \cup {Len(q) + 1} /\ Len(q) + 1 \notin P
        BY <1>1, <1>2, <1>4
    <2> QED BY <2>1, <1>3, FS_AddElement
<1>5. ASSUME x # y PROVE Count(Append(q, x), y) = Count(q, y)
    <2>1. A = P
        BY <1>1, <1>2, <1>5
    <2> QED BY <2>1, <1>3
<1> QED BY <1>4, <1>5

LEMMA CountLeft ==
    ASSUME NEW S, NEW q \in Seq(S), q # <<>>, NEW y
    PROVE  /\ Head(q) = y => Count(q, y) = Count(Tail(q), y) + 1
           /\ Head(q) # y => Count(q, y) = Count(Tail(q), y)
<1> DEFINE P == {j \in DOMAIN q : q[j] = y}
           T == {j \in DOMAIN Tail(q) : Tail(q)[j] = y}
           R == P \ {1}
           f == [j \in T |-> j + 1]
<1>1. /\ Tail(q) \in Seq(S) /\ Head(q) = q[1]
      /\ Len(q) \in Nat \ {0}
      /\ DOMAIN q = 1..Len(q) /\ DOMAIN Tail(q) = 1..(Len(q) - 1)
      /\ \A j \in 1..(Len(q) - 1) : Tail(q)[j] = q[j + 1]
    OBVIOUS
<1>2. IsFiniteSet(P) /\ IsFiniteSet(T) /\ Count(q, y) = Cardinality(P) /\ Count(Tail(q), y) = Cardinality(T)
      /\ Count(q, y) \in Nat /\ Count(Tail(q), y) \in Nat
    <2>1. IsFiniteSet(P) /\ Count(q, y) \in Nat
        BY CountZero
    <2>2. IsFiniteSet(T) /\ Count(Tail(q), y) \in Nat
        BY <1>1, CountZero
    <2> QED BY <2>1, <2>2 DEF Count
<1>3. f \in [T -> R]
    <2>1. ASSUME NEW j \in T PROVE j + 1 \in R
        BY <1>1, <2>1
    <2> QED BY <2>1
<1>4. \A r \in R : \E j \in T : f[j] = r
    <2>1. ASSUME NEW r \in R PROVE \E j \in T : f[j] = r
        <3>1. r \in 1..Len(q) /\ r # 1 /\ q[r] = y
            BY <1>1, <2>1
        <3>2. r - 1 \in 1..(Len(q) - 1) /\ (r - 1) + 1 = r
            BY <3>1, <1>1
        <3>3. Tail(q)[r - 1] = q[(r - 1) + 1]
            BY <3>2, <1>1
        <3>4. r - 1 \in T
            BY <3>1, <3>2, <3>3, <1>1
        <3> QED BY <3>2, <3>4
    <2> QED BY <2>1
<1>5. \A a, b \in T : f[a] = f[b] => a = b
    <2>1. \A a \in T : a \in Nat
        BY <1>1
    <2> QED BY <2>1
<1>6. Cardinality(R) = Cardinality(T)
    <2>1. f \in Surjection(T, R)
        BY <1>3, <1>4 DEF Surjection
    <2>2. f \in Injection(T, R)
        BY <1>3, <1>5 DEF Injection, IsInjective
    <2> HIDE DEF T, R, f
    <2> QED BY <2>1, <2>2, <1>2, FS_Surjection
<1>7. Cardinality(R) = IF 1 \in P THEN Cardinality(P) - 1 ELSE Cardinality(P)
    BY <1>2, FS_RemoveElement
<1>8. (1 \in P) <=> (Head(q) = y)
    BY <1>1
<1> HIDE DEF P, T, R
<1> QED BY <1>2, <1>6, <1>7, <1>8

LEMMA CountAll ==
    ASSUME NEW S, NEW q \in Seq(S), NEW s \in Seq(S), NEW y, y \notin Queued(s)
    PROVE  Count(q \o s, y) = Count(q, y)
<1>1. /\ Len(q) \in Nat /\ Len(s) \in Nat
      /\ DOMAIN q = 1..Len(q) /\ DOMAIN s = 1..Len(s)
      /\ DOMAIN (q \o s) = 1..(Len(q) + Len(s))
      /\ \A j \in 1..Len(q) : (q \o s)[j] = q[j]
      /\ \A j \in 1..Len(s) : (q \o s)[Len(q) + j] = s[j]
    BY ConcatProperties
<1>2. ASSUME NEW j \in 1..(Len(q) + Len(s)), j \notin 1..Len(q) PROVE (q \o s)[j] # y
    <2>1. j - Len(q) \in 1..Len(s) /\ Len(q) + (j - Len(q)) = j
        BY <1>1, <1>2
    <2>2. (q \o s)[Len(q) + (j - Len(q))] = s[j - Len(q)]
        BY <2>1, <1>1
    <2> QED BY <2>1, <2>2, <1>1 DEF Queued
<1>3. \A j \in 1..Len(q) : j \in 1..(Len(q) + Len(s))
    BY <1>1
<1>4. {j \in 1..(Len(q) + Len(s)) : (q \o s)[j] = y} = {j \in 1..Len(q) : q[j] = y}
    BY <1>1, <1>2, <1>3
<1> QED BY <1>1, <1>4 DEF Count

LEMMA BehindAppended ==
    ASSUME NEW S, NEW q \in Seq(S), NEW z \in S, NEW x, NEW y, Behind(q, x, y),
           z # x \/ (y \notin Queued(q) /\ x # y)
    PROVE  Behind(Append(q, z), x, y)
<1>1. /\ Append(q, z)[Len(q) + 1] = z
      /\ \A j \in 1..Len(q) : Append(q, z)[j] = q[j]
      /\ DOMAIN q = 1..Len(q) /\ DOMAIN Append(q, z) = 1..(Len(q) + 1) /\ Len(q) \in Nat
    BY AppendProperties
<1>2. ASSUME NEW i \in 1..(Len(q) + 1), NEW j \in 1..(Len(q) + 1),
             Append(q, z)[i] = x, Append(q, z)[j] = y
      PROVE  i < j
    <2>1. CASE i \in 1..Len(q) /\ j \in 1..Len(q)
        <3>1. q[i] = x /\ q[j] = y
            BY <1>1, <1>2, <2>1
        <3> QED BY <3>1, <2>1, <1>1 DEF Behind
    <2>2. CASE i \in 1..Len(q) /\ j = Len(q) + 1
        BY <1>1, <2>2
    <2>3. CASE i = Len(q) + 1
        <3>1. z = x /\ y \notin Queued(q) /\ x # y
            BY <1>1, <1>2, <2>3
        <3>2. j # Len(q) + 1
            BY <1>1, <1>2, <2>3, <3>1
        <3>3. j \in 1..Len(q)
            BY <3>2, <1>1
        <3>4. q[j] = y
            BY <3>3, <1>1, <1>2
        <3> QED BY <3>1, <3>3, <3>4, <1>1 DEF Queued
    <2> QED BY <1>1, <2>1, <2>2, <2>3
<1> QED BY <1>1, <1>2 DEF Behind

LEMMA BehindLeft ==
    ASSUME NEW S, NEW q \in Seq(S), q # <<>>, NEW x, NEW y, Behind(q, x, y)
    PROVE  /\ Behind(Tail(q), x, y)
           /\ Head(q) = y => x \notin Queued(q)
<1>1. /\ Tail(q) \in Seq(S) /\ Head(q) = q[1]
      /\ Len(q) \in Nat \ {0}
      /\ DOMAIN q = 1..Len(q) /\ DOMAIN Tail(q) = 1..(Len(q) - 1)
      /\ \A j \in 1..(Len(q) - 1) : Tail(q)[j] = q[j + 1]
    OBVIOUS
<1>2. ASSUME NEW i \in 1..(Len(q) - 1), NEW j \in 1..(Len(q) - 1),
             Tail(q)[i] = x, Tail(q)[j] = y
      PROVE  i < j
    <2>1. q[i + 1] = x /\ q[j + 1] = y /\ i + 1 \in 1..Len(q) /\ j + 1 \in 1..Len(q)
        BY <1>1, <1>2
    <2>2. i + 1 < j + 1
        BY <2>1, <1>1 DEF Behind
    <2> QED BY <2>2, <1>1
<1>3. ASSUME Head(q) = y, NEW i \in 1..Len(q), q[i] = x PROVE FALSE
    <2>1. 1 \in 1..Len(q) /\ q[1] = y
        BY <1>1, <1>3
    <2>2. i < 1
        BY <2>1, <1>3, <1>1 DEF Behind
    <2> QED BY <2>2, <1>1
<1> QED BY <1>1, <1>2, <1>3 DEF Behind, Queued

LEMMA BehindAll ==
    ASSUME NEW S, NEW q \in Seq(S), NEW s \in Seq(S), NEW x, NEW y, Behind(q, x, y),
           x \notin Queued(s), y \notin Queued(s)
    PROVE  Behind(q \o s, x, y)
<1>1. /\ Len(q) \in Nat /\ Len(s) \in Nat
      /\ DOMAIN q = 1..Len(q) /\ DOMAIN s = 1..Len(s)
      /\ DOMAIN (q \o s) = 1..(Len(q) + Len(s))
      /\ \A j \in 1..Len(q) : (q \o s)[j] = q[j]
      /\ \A j \in 1..Len(s) : (q \o s)[Len(q) + j] = s[j]
    BY ConcatProperties
<1>2. ASSUME NEW j \in 1..(Len(q) + Len(s)), (q \o s)[j] \in {x, y}
      PROVE  j \in 1..Len(q) /\ (q \o s)[j] = q[j]
    <2>1. CASE j \in 1..Len(q)
        BY <2>1, <1>1
    <2>2. CASE j \notin 1..Len(q)
        <3>1. j - Len(q) \in 1..Len(s) /\ Len(q) + (j - Len(q)) = j
            BY <1>1, <1>2, <2>2
        <3>2. (q \o s)[Len(q) + (j - Len(q))] = s[j - Len(q)]
            BY <3>1, <1>1
        <3> QED BY <3>1, <3>2, <1>1, <1>2 DEF Queued
    <2> QED BY <2>1, <2>2
<1> QED BY <1>1, <1>2 DEF Behind

\* One is taken out of the middle.
LEMMA TakenFrom ==
    ASSUME NEW S, NEW q \in Seq(S), NEW n \in 1..Len(q)
    PROVE  /\ RemoveAt(q, n) \in Seq(S)
           /\ Queued(RemoveAt(q, n)) \subseteq Queued(q)
           /\ Queued(q) \subseteq Queued(RemoveAt(q, n)) \cup {q[n]}
           /\ Count(q, q[n]) = Count(RemoveAt(q, n), q[n]) + 1
           /\ \A y : y # q[n] => Count(RemoveAt(q, n), y) = Count(q, y)
           /\ \A x, y : Behind(q, x, y) => Behind(RemoveAt(q, n), x, y)
<1> DEFINE p == RemoveAt(q, n)
           old(j) == IF j < n THEN j ELSE j + 1
<1>1. /\ Len(q) \in Nat \ {0} /\ DOMAIN q = 1..Len(q) /\ n \in Nat \ {0} /\ n <= Len(q)
      /\ \A j \in 1..Len(q) : q[j] \in S
    OBVIOUS
<1>2. /\ p \in Seq(S) /\ DOMAIN p = 1..(Len(q) - 1)
      /\ \A j \in 1..(Len(q) - 1) : p[j] = q[old(j)]
    <2>1. p = SubSeq(q, 1, n - 1) \o SubSeq(q, n + 1, Len(q))
        BY DEF RemoveAt
    <2>2. PICK a, b : a = SubSeq(q, 1, n - 1) /\ b = SubSeq(q, n + 1, Len(q))
        OBVIOUS
    <2>3. /\ a \in Seq(S) /\ Len(a) = n - 1
          /\ \A j \in 1..(n - 1) : a[j] = q[j]
        <3>1. CASE n = 1
            BY <1>1, <2>2, <3>1
        <3>2. CASE n # 1
            BY <1>1, <2>2, <3>2
        <3> QED BY <3>1, <3>2
    <2>4. /\ b \in Seq(S) /\ Len(b) = Len(q) - n
          /\ \A j \in 1..(Len(q) - n) : b[j] = q[n + j]
        <3>1. /\ n + 1 \in Int /\ Len(q) \in Int
              /\ \A i \in (n + 1)..Len(q) : q[i] \in S
            BY <1>1
        <3>2. /\ b \in Seq(S)
              /\ Len(b) = IF n + 1 <= Len(q) THEN Len(q) - (n + 1) + 1 ELSE 0
              /\ \A j \in 1..(Len(q) - (n + 1) + 1) : b[j] = q[(n + 1) + j - 1]
            BY <2>2, <3>1, SubSeqProperties
        <3>3. PICK m : m = Len(q)
            OBVIOUS
        <3>4. m \in Nat /\ n \in Nat /\ n <= m
            BY <1>1, <3>3
        <3>5. m - (n + 1) + 1 = m - n /\ (n + 1 <= m \/ m - n = 0)
            BY <3>4
        <3>6. ASSUME NEW j \in 1..(m - n) PROVE (n + 1) + j - 1 = n + j
            BY <3>4
        <3>7. Len(b) = m - n
            BY <3>2, <3>3, <3>5
        <3>8. \A j \in 1..(m - n) : b[j] = q[n + j]
            BY <3>2, <3>3, <3>5, <3>6
        <3> QED BY <3>2, <3>3, <3>7, <3>8
    <2>5. /\ a \o b \in Seq(S) /\ DOMAIN (a \o b) = 1..(Len(a) + Len(b))
          /\ \A j \in 1..Len(a) : (a \o b)[j] = a[j]
          /\ \A j \in 1..Len(b) : (a \o b)[Len(a) + j] = b[j]
        <3>1. a \in Seq(S) /\ b \in Seq(S)
            BY <2>3, <2>4
        <3> QED BY <3>1, ConcatProperties
    <2>6. ASSUME NEW j \in 1..(Len(q) - 1) PROVE (a \o b)[j] = q[old(j)]
        <3>1. CASE j < n
            BY <1>1, <2>3, <2>5, <2>6, <3>1
        <3>2. CASE ~ (j < n)
            <4>1. j - (n - 1) \in 1..(Len(q) - n) /\ (n - 1) + (j - (n - 1)) = j
                  /\ n + (j - (n - 1)) = j + 1
                BY <1>1, <2>6, <3>2
            <4>2. (a \o b)[Len(a) + (j - (n - 1))] = b[j - (n - 1)]
                BY <2>4, <2>5, <4>1
            <4> QED BY <2>3, <2>4, <3>2, <4>1, <4>2
        <3> QED BY <3>1, <3>2
    <2>7. Len(a) + Len(b) = Len(q) - 1
        BY <1>1, <2>3, <2>4
    <2> QED BY <2>1, <2>2, <2>5, <2>6, <2>7
<1>3. \A j \in 1..(Len(q) - 1) : old(j) \in 1..Len(q) /\ old(j) # n
    BY <1>1
<1>4. \A i, j \in 1..(Len(q) - 1) : (old(i) < old(j)) <=> (i < j)
    BY <1>1
<1>5. ASSUME NEW i \in 1..Len(q), i # n PROVE \E j \in 1..(Len(q) - 1) : old(j) = i
    <2>1. CASE i < n
        BY <1>1, <1>5, <2>1
    <2>2. CASE ~ (i < n)
        <3>1. i - 1 \in 1..(Len(q) - 1) /\ ~ (i - 1 < n) /\ (i - 1) + 1 = i
            BY <1>1, <1>5, <2>2
        <3> QED BY <3>1
    <2> QED BY <2>1, <2>2
<1> HIDE DEF p, old
<1>6. Queued(p) \subseteq Queued(q) /\ Queued(q) \subseteq Queued(p) \cup {q[n]}
    <2>1. ASSUME NEW y \in Queued(p) PROVE y \in Queued(q)
        <3>1. PICK j \in 1..(Len(q) - 1) : y = p[j]
            BY <1>2, <2>1 DEF Queued
        <3>2. y = q[old(j)] /\ old(j) \in DOMAIN q
            BY <1>1, <1>2, <1>3, <3>1
        <3> QED BY <3>2 DEF Queued
    <2>2. ASSUME NEW y \in Queued(q), y # q[n] PROVE y \in Queued(p)
        <3>1. PICK i \in 1..Len(q) : y = q[i] /\ i # n
            BY <1>1, <2>2 DEF Queued
        <3>2. PICK j \in 1..(Len(q) - 1) : old(j) = i
            BY <1>5, <3>1
        <3>3. y = p[j] /\ j \in DOMAIN p
            BY <1>2, <3>1, <3>2
        <3> QED BY <3>3 DEF Queued
    <2> QED BY <2>1, <2>2
<1>7. \A x, y : Behind(q, x, y) => Behind(p, x, y)
    BY <1>1, <1>2, <1>3, <1>4 DEF Behind
<1>8. ASSUME NEW y
      PROVE  Count(q, y) = IF y = q[n] THEN Count(p, y) + 1 ELSE Count(p, y)
    <2> DEFINE Q == {j \in DOMAIN q : q[j] = y}
               T == {j \in DOMAIN p : p[j] = y}
               R == Q \ {n}
               g == [j \in T |-> old(j)]
    <2>1. /\ IsFiniteSet(Q) /\ IsFiniteSet(T) /\ Cardinality(Q) \in Nat /\ Cardinality(T) \in Nat
          /\ Count(q, y) = Cardinality(Q) /\ Count(p, y) = Cardinality(T)
        BY <1>2, CountZero DEF Count
    <2>2. g \in [T -> R]
        BY <1>1, <1>2, <1>3
    <2>3. \A r \in R : \E j \in T : g[j] = r
        BY <1>1, <1>2, <1>5
    <2>4. \A a, b \in T : g[a] = g[b] => a = b
        <3>1. \A a \in T : a \in 1..(Len(q) - 1)
            BY <1>2
        <3>2. ASSUME NEW a \in 1..(Len(q) - 1), NEW b \in 1..(Len(q) - 1), old(a) = old(b)
              PROVE  a = b
            <4>1. old(a) \in Nat /\ ~ (old(a) < old(b)) /\ ~ (old(b) < old(a))
                BY <1>3, <3>2
            <4>2. ~ (a < b) /\ ~ (b < a)
                BY <1>4, <4>1
            <4> QED BY <1>1, <4>2
        <3> QED BY <3>1, <3>2
    <2>5. Cardinality(R) = Cardinality(T)
        <3>1. g \in Surjection(T, R)
            BY <2>2, <2>3 DEF Surjection
        <3>2. g \in Injection(T, R)
            BY <2>2, <2>4 DEF Injection, IsInjective
        <3> HIDE DEF T, R, g
        <3> QED BY <3>1, <3>2, <2>1, FS_Surjection
    <2>6. Cardinality(R) = IF n \in Q THEN Cardinality(Q) - 1 ELSE Cardinality(Q)
        BY <2>1, FS_RemoveElement
    <2>7. (n \in Q) <=> (y = q[n])
        BY <1>1
    <2> HIDE DEF Q, T, R
    <2> QED BY <2>1, <2>5, <2>6, <2>7
<1> QED BY <1>2, <1>6, <1>7, <1>8 DEF p

\* A finite set becomes a queue that holds its members.
LEMMA QueueOfSet ==
    ASSUME NEW S, NEW A, IsFiniteSet(A), A \subseteq S
    PROVE  SetToSeq(A) \in Seq(S) /\ Queued(SetToSeq(A)) = A
<1> DEFINE I == 1..Cardinality(A)
<1>1. Cardinality(A) \in Nat /\ IsFiniteSet(I) /\ Cardinality(I) = Cardinality(A)
    BY FS_CardinalityType, FS_Interval
<1>2. \E f \in [I -> A] : IsInjective(f)
    BY FS_CardinalityType DEF ExistsBijection, Bijection, Injection, IsInjective
<1>3. SetToSeq(A) \in [I -> A] /\ IsInjective(SetToSeq(A))
    BY <1>2 DEF SetToSeq
<1>4. SetToSeq(A) \in Surjection(I, A)
    <2>1. SetToSeq(A) \in Injection(I, A)
        BY <1>3 DEF Injection, IsInjective
    <2> QED BY <2>1, <1>1, FS_Injection
<1>5. \A a \in A : \E j \in I : SetToSeq(A)[j] = a
    BY <1>4 DEF Surjection
<1>6. DOMAIN SetToSeq(A) = I /\ \A j \in I : SetToSeq(A)[j] \in A
    BY <1>3
<1>7. SetToSeq(A) \in Seq(S)
    <2>1. \E n \in Nat : SetToSeq(A) \in [1..n -> S]
        BY <1>1, <1>6, <1>3
    <2> QED BY <2>1
<1> QED BY <1>5, <1>6, <1>7 DEF Queued

-------------------------------------------------------------------------------
\* Frames.

\* The frames that the invariant counts.
Own(c) == {Opening(c), ChunkOf(c), Eof(c)}

LEMMA IsFrame ==
    ASSUME NEW k \in {"call", "answer", "chunk", "eof", "cancel", "stopped"},
           NEW x \in Call \cup Routine, NEW how \in {"", "ok", "error", "cancelled"}
    PROVE  F(k, x, how) \in Frame
BY DEF F, Frame

LEMMA OwnFrames ==
    ASSUME NEW c
    PROVE  /\ Opening(c).k = "call" /\ Opening(c).of = c
           /\ ChunkOf(c).k = "chunk" /\ ChunkOf(c).of = c
           /\ Eof(c).k = "eof" /\ Eof(c).of = c /\ Eof(c).how = "ok"
           /\ \A f \in Own(c) : f.of = c /\ f.k \in {"call", "chunk", "eof"} /\ (f.k = "eof" => f.how = "ok")
           /\ Opening(c) # ChunkOf(c) /\ Opening(c) # Eof(c) /\ ChunkOf(c) # Eof(c)
<1>1. /\ Opening(c).k = "call" /\ Opening(c).of = c
      /\ ChunkOf(c).k = "chunk" /\ ChunkOf(c).of = c
      /\ Eof(c).k = "eof" /\ Eof(c).of = c /\ Eof(c).how = "ok"
    BY DEF Opening, ChunkOf, Eof, F
<1>2. \A f \in Own(c) : f.of = c /\ f.k \in {"call", "chunk", "eof"} /\ (f.k = "eof" => f.how = "ok")
    BY <1>1 DEF Own
<1> QED BY <1>1, <1>2

LEMMA Places ==
    /\ Home \in [Routine -> Hub] /\ From \in [Call -> Routine] /\ To \in [Call -> Routine]
    /\ \A c \in Call : Caller(c) \in Hub /\ Provider(c) \in Hub /\ Kind[c] \in {"req", "stream"}
    /\ MaxChunk \in Nat
BY CallAssumption DEF CallAssumption, Caller, Provider

LEMMA FrameSets ==
    /\ UpFrames \in [Hub -> SUBSET Frame] /\ DownFrames \in [Hub -> SUBSET Frame]
    /\ \A c \in Call : Asking(c) \subseteq Frame /\ Answering(c) \subseteq Frame
    /\ \A r \in Routine : F("stopped", r, "") \in Frame
<1>1. \A c \in Call : Asking(c) \subseteq Frame
    BY IsFrame DEF Asking
<1>2. ASSUME NEW c \in Call PROVE Answering(c) \subseteq Frame
    <2>1. CASE Kind[c] = "req"
        BY <2>1, IsFrame DEF Answering
    <2>2. CASE Kind[c] # "req"
        BY <2>2, IsFrame DEF Answering
    <2> QED BY <2>1, <2>2
<1>3. \A r \in Routine : F("stopped", r, "") \in Frame
    BY IsFrame
<1> QED BY <1>1, <1>2, <1>3 DEF UpFrames, DownFrames

\* What a frame of each kind is about.
About(f, c) ==
    /\ c = f.of /\ c \in Call
    /\ f.k = "call" => f = Opening(c)
    /\ f.k = "cancel" => f = F("cancel", c, "")
    /\ f.k = "chunk" => f = ChunkOf(c) /\ Kind[c] = "stream"
    /\ f.k = "eof" => Kind[c] = "stream" /\ (f.how = "ok" => f = Eof(c))
                      /\ f = F("eof", c, f.how)
    /\ f.k = "answer" => Kind[c] = "req" /\ f = F("answer", c, f.how)

LEMMA AskingIs ==
    ASSUME NEW c \in Call, NEW f \in Asking(c)
    PROVE  About(f, c) /\ f.k \in {"call", "cancel"}
<1>1. f = Opening(c) \/ f = F("cancel", c, "")
    BY DEF Asking, Opening
<1>2. CASE f = Opening(c)
    <2>1. f.k = "call" /\ f.of = c
        BY <1>2, OwnFrames
    <2> QED BY <2>1, <1>2 DEF About
<1>3. CASE f = F("cancel", c, "")
    <2>1. f.k = "cancel" /\ f.of = c
        BY <1>3 DEF F
    <2> QED BY <2>1, <1>3 DEF About
<1> QED BY <1>1, <1>2, <1>3

LEMMA AnsweringIs ==
    ASSUME NEW c \in Call, NEW f \in Answering(c)
    PROVE  About(f, c) /\ f.k \in {"chunk", "eof", "answer"}
<1>1. CASE Kind[c] = "req"
    <2>1. PICK how \in {"ok", "error"} : f = F("answer", c, how)
        BY <1>1 DEF Answering
    <2>2. f.k = "answer" /\ f.of = c /\ f.how = how
        BY <2>1 DEF F
    <2> QED BY <2>1, <2>2, <1>1 DEF About
<1>2. CASE Kind[c] = "stream"
    <2>1. f = ChunkOf(c) \/ \E how \in {"ok", "error", "cancelled"} : f = F("eof", c, how)
        BY <1>2 DEF Answering, ChunkOf
    <2>2. CASE f = ChunkOf(c)
        <3>1. f.k = "chunk" /\ f.of = c
            BY <2>2 DEF ChunkOf, F
        <3> QED BY <2>2, <3>1, <1>2 DEF About
    <2>3. ASSUME NEW how, f = F("eof", c, how) PROVE About(f, c) /\ f.k = "eof"
        <3>1. f.k = "eof" /\ f.of = c /\ f.how = how
            BY <2>3 DEF F
        <3>2. how = "ok" => f = Eof(c)
            BY <2>3 DEF Eof
        <3> QED BY <2>3, <3>1, <3>2, <1>2 DEF About
    <2>4. f = ChunkOf(c) => f.k = "chunk"
        BY OwnFrames
    <2> QED BY <2>1, <2>2, <2>3, <2>4
<1> QED BY <1>1, <1>2, Places

LEMMA UpFrame ==
    ASSUME NEW h \in Hub, NEW f \in UpFrames[h]
    PROVE  \/ /\ f.k \in {"call", "cancel"} /\ About(f, f.of) /\ Caller(f.of) = h
              /\ f \in Asking(f.of)
           \/ /\ f.k \in {"chunk", "eof", "answer"} /\ About(f, f.of) /\ Provider(f.of) = h
              /\ f \in Answering(f.of)
           \/ f.k = "stopped" /\ f.of \in Routine /\ Home[f.of] = h /\ f = F("stopped", f.of, "")
<1>1. \/ \E c \in Call : Caller(c) = h /\ f \in Asking(c)
      \/ \E c \in Call : Provider(c) = h /\ f \in Answering(c)
      \/ \E r \in Routine : Home[r] = h /\ f = F("stopped", r, "")
    BY DEF UpFrames
<1>2. ASSUME NEW c \in Call, Caller(c) = h, f \in Asking(c)
      PROVE  f.k \in {"call", "cancel"} /\ About(f, c) /\ f.of = c
    BY <1>2, AskingIs DEF About
<1>3. ASSUME NEW c \in Call, Provider(c) = h, f \in Answering(c)
      PROVE  f.k \in {"chunk", "eof", "answer"} /\ About(f, c) /\ f.of = c
    BY <1>3, AnsweringIs DEF About
<1>4. ASSUME NEW r \in Routine, f = F("stopped", r, "") PROVE f.k = "stopped" /\ f.of = r
    BY <1>4 DEF F
<1> QED BY <1>1, <1>2, <1>3, <1>4

LEMMA DownFrame ==
    ASSUME NEW h \in Hub, NEW f \in DownFrames[h]
    PROVE  \/ /\ f.k \in {"call", "cancel"} /\ About(f, f.of) /\ Provider(f.of) = h
              /\ f \in Asking(f.of)
           \/ /\ f.k \in {"chunk", "eof", "answer"} /\ About(f, f.of) /\ Caller(f.of) = h
              /\ f \in Answering(f.of)
<1>1. \/ \E c \in Call : Provider(c) = h /\ f \in Asking(c)
      \/ \E c \in Call : Caller(c) = h /\ f \in Answering(c)
    BY DEF DownFrames
<1>2. ASSUME NEW c \in Call, Provider(c) = h, f \in Asking(c)
      PROVE  f.k \in {"call", "cancel"} /\ About(f, c) /\ f.of = c
    BY <1>2, AskingIs DEF About
<1>3. ASSUME NEW c \in Call, Caller(c) = h, f \in Answering(c)
      PROVE  f.k \in {"chunk", "eof", "answer"} /\ About(f, c) /\ f.of = c
    BY <1>3, AnsweringIs DEF About
<1> QED BY <1>1, <1>2, <1>3

LEMMA FramesOf ==
    ASSUME NEW c \in Call
    PROVE  /\ \A f \in Asking(c) : f \in UpFrames[Caller(c)] /\ f \in DownFrames[Provider(c)]
           /\ \A f \in Answering(c) : f \in UpFrames[Provider(c)] /\ f \in DownFrames[Caller(c)]
           /\ Failure(c) \in Answering(c) /\ Failure(c).k \in {"answer", "eof"}
           /\ \A d : Failure(c) \notin Own(d)
<1>1. Caller(c) \in Hub /\ Provider(c) \in Hub /\ Kind[c] \in {"req", "stream"}
    BY Places
<1>2. /\ \A f \in Asking(c) : f \in UpFrames[Caller(c)] /\ f \in DownFrames[Provider(c)]
      /\ \A f \in Answering(c) : f \in UpFrames[Provider(c)] /\ f \in DownFrames[Caller(c)]
    BY <1>1, FrameSets DEF UpFrames, DownFrames
<1>3. \/ Kind[c] = "req" /\ Failure(c) = F("answer", c, "error")
      \/ Kind[c] = "stream" /\ Failure(c) = F("eof", c, "error")
    BY <1>1 DEF Failure
<1>4. Failure(c) \in Answering(c) /\ Failure(c).k \in {"answer", "eof"}
    <2>1. CASE Kind[c] = "req"
        <3>1. Failure(c) = F("answer", c, "error")
            BY <2>1 DEF Failure
        <3>2. Failure(c) \in Answering(c)
            BY <3>1, <2>1 DEF Answering
        <3> QED BY <3>1, <3>2 DEF F
    <2>2. CASE Kind[c] = "stream"
        <3>1. Failure(c) = F("eof", c, "error")
            BY <2>2 DEF Failure
        <3>2. Failure(c) \in Answering(c)
            BY <3>1, <2>2 DEF Answering
        <3> QED BY <3>1, <3>2 DEF F
    <2> QED BY <1>1, <2>1, <2>2
<1>5. Failure(c).k = "answer" \/ (Failure(c).k = "eof" /\ Failure(c).how = "error")
    BY <1>3 DEF F
<1>6. \A d : Failure(c) \notin Own(d)
    BY <1>5, OwnFrames
<1> QED BY <1>2, <1>4, <1>6

-------------------------------------------------------------------------------
\* What a step does to a queue.

\* From q to p nothing has happened to the frames of c that the invariant counts.
Calm(q, p, c) ==
    /\ Count(p, Opening(c)) = Count(q, Opening(c))
    /\ Count(p, ChunkOf(c)) = Count(q, ChunkOf(c))
    /\ Eof(c) \in Queued(p) => Eof(c) \in Queued(q)
    /\ Behind(q, ChunkOf(c), Eof(c)) => Behind(p, ChunkOf(c), Eof(c))

CalmAll(u, w, c) == \A g \in Hub : Calm(u[g], w[g], c)

\* From q to p nothing has happened to the frames of c but what is written down as lost.
Faded(q, p, c) ==
    /\ \A x \in {Opening(c), ChunkOf(c)} :
        Count(p, x) = Count(q, x) \/ (x \in lost' /\ Count(p, x) \in 0..Count(q, x))
    /\ Eof(c) \in Queued(p) => Eof(c) \in Queued(q)
    /\ Behind(q, ChunkOf(c), Eof(c)) => Behind(p, ChunkOf(c), Eof(c))

FadedAll(u, w, c) == \A g \in Hub : Faded(u[g], w[g], c)

LEMMA CalmFades ==
    ASSUME NEW u, NEW w, NEW c, CalmAll(u, w, c)
    PROVE  FadedAll(u, w, c)
BY DEF CalmAll, Calm, FadedAll, Faded

\* h is sent x, if go.
Puts(u, w, go, h, x) ==
    /\ \A g \in Hub : g # h \/ ~ go => w[g] = u[g]
    /\ \A g \in Hub : /\ Queued(u[g]) \subseteq Queued(w[g])
                      /\ Queued(w[g]) \subseteq Queued(u[g]) \cup {x}
    /\ go => x \in Queued(w[h]) /\ Count(w[h], x) = Count(u[h], x) + 1
    /\ \A g \in Hub : \A y : y # x => Count(w[g], y) = Count(u[g], y)
    /\ \A g \in Hub : \A y, z :
        (Behind(u[g], y, z) /\ (x # y \/ (z \notin Queued(u[g]) /\ y # z))) => Behind(w[g], y, z)

LEMMA PutIn ==
    ASSUME NEW frames \in [Hub -> SUBSET Frame], NEW go, NEW u \in Queues(frames),
           NEW h \in Hub, NEW x \in frames[h], NEW w,
           w = IF go THEN [u EXCEPT ![h] = Append(@, x)] ELSE u
    PROVE  /\ w \in Queues(frames) /\ Puts(u, w, go, h, x)
           /\ \A c : x \notin Own(c) => CalmAll(u, w, c)
<1>1. /\ u \in [Hub -> Seq(Frame)] /\ frames[h] \subseteq Frame
      /\ \A g \in Hub : u[g] \in Seq(frames[g])
    BY DEF Queues
<1>2. CASE ~ go
    BY <1>1, <1>2 DEF CalmAll, Calm, Queues, Puts
<1>3. CASE go
    <2>1. /\ w[h] = Append(u[h], x) /\ \A g \in Hub : g # h => w[g] = u[g]
          /\ DOMAIN w = Hub /\ w = [g \in Hub |-> w[g]]
        BY <1>1, <1>3
    <2>2. /\ w[h] \in Seq(frames[h]) /\ w[h] \in Seq(Frame)
          /\ Queued(w[h]) = Queued(u[h]) \cup {x}
        <3>1. x \in Frame /\ u[h] \in Seq(frames[h]) /\ u[h] \in Seq(Frame)
            BY <1>1
        <3> QED BY <2>1, <3>1, Appended
    <2>3. w \in Queues(frames)
        <3>1. \A g \in Hub : w[g] \in Seq(Frame) /\ w[g] \in Seq(frames[g])
            BY <1>1, <2>1, <2>2
        <3>2. w \in [Hub -> Seq(Frame)]
            BY <3>1, <2>1
        <3> QED BY <3>1, <3>2 DEF Queues
    <2>4. \A y : /\ y # x => Count(w[h], y) = Count(u[h], y)
                 /\ Count(w[h], x) = Count(u[h], x) + 1
        BY <1>1, <2>1, CountAppended
    <2>5. ASSUME NEW c, x \notin Own(c) PROVE CalmAll(u, w, c)
        <3>1. x # Opening(c) /\ x # ChunkOf(c) /\ x # Eof(c)
            BY <2>5 DEF Own
        <3>2. Behind(u[h], ChunkOf(c), Eof(c)) => Behind(w[h], ChunkOf(c), Eof(c))
            BY <1>1, <2>1, <3>1, BehindAppended
        <3>3. Calm(u[h], w[h], c)
            BY <2>2, <2>4, <3>1, <3>2 DEF Calm
        <3> QED BY <3>3, <2>1 DEF CalmAll, Calm
    <2>6. ASSUME NEW y, NEW z, Behind(u[h], y, z), x # y \/ (z \notin Queued(u[h]) /\ y # z)
          PROVE  Behind(w[h], y, z)
        BY <1>1, <2>1, <2>6, BehindAppended
    <2>7. Puts(u, w, go, h, x)
        BY <1>3, <2>1, <2>2, <2>4, <2>6 DEF Puts
    <2> QED BY <2>3, <2>5, <2>7
<1> QED BY <1>2, <1>3

\* What is written down when it is lost.
Noted(y) == y.k \in {"call", "chunk", "cancel"} => y \in lost'

\* h puts x in its queue, and one that was there may be gone.
Sends(u, w, h, x) ==
    /\ \A g \in Hub : g # h => w[g] = u[g]
    /\ Queued(w[h]) \subseteq Queued(u[h]) \cup {x}
    /\ x \in Queued(w[h])
    /\ \A y \in Queued(u[h]) : y \in Queued(w[h]) \/ Noted(y)
    /\ \A y : \/ Count(w[h], y) = Count(u[h], y) + (IF y = x THEN 1 ELSE 0)
             \/ /\ Noted(y) /\ Count(u[h], y) \in Nat \ {0}
                /\ Count(w[h], y) = (Count(u[h], y) - 1) + (IF y = x THEN 1 ELSE 0)
    /\ \A y, z :
        (Behind(u[h], y, z) /\ (x # y \/ (z \notin Queued(u[h]) /\ y # z))) => Behind(w[h], y, z)

\* The first frame leaves the queue of h.
Takes(u, w, h) ==
    /\ \A g \in Hub : g # h => w[g] = u[g]
    /\ Head(u[h]) \in Queued(u[h])
    /\ \A g \in Hub : /\ Queued(w[g]) \subseteq Queued(u[g])
                      /\ Queued(u[g]) \subseteq Queued(w[g]) \cup {Head(u[h])}
    /\ Count(u[h], Head(u[h])) = Count(w[h], Head(u[h])) + 1
    /\ \A g \in Hub : \A y : y # Head(u[h]) => Count(w[g], y) = Count(u[g], y)
    /\ \A g \in Hub : \A x, y : Behind(u[g], x, y) => Behind(w[g], x, y)
    /\ \A x : Behind(u[h], x, Head(u[h])) => x \notin Queued(u[h])

LEMMA TakenOut ==
    ASSUME NEW frames \in [Hub -> SUBSET Frame], NEW u \in Queues(frames),
           NEW h \in Hub, u[h] # <<>>, NEW w, w = [u EXCEPT ![h] = Tail(@)]
    PROVE  /\ w \in Queues(frames) /\ Takes(u, w, h) /\ Head(u[h]) \in frames[h]
           /\ \A c : (Head(u[h]) # Opening(c) /\ Head(u[h]) # ChunkOf(c)) => CalmAll(u, w, c)
<1>1. /\ u \in [Hub -> Seq(Frame)]
      /\ \A g \in Hub : u[g] \in Seq(frames[g])
      /\ frames[h] \subseteq Frame
    BY DEF Queues
<1>2. /\ w[h] = Tail(u[h]) /\ \A g \in Hub : g # h => w[g] = u[g]
      /\ DOMAIN w = Hub /\ w = [g \in Hub |-> w[g]]
    BY <1>1
<1>3. /\ w[h] \in Seq(frames[h]) /\ Head(u[h]) \in frames[h]
      /\ Queued(u[h]) = Queued(w[h]) \cup {Head(u[h])}
    <2>1. u[h] \in Seq(frames[h])
        BY <1>1
    <2> QED BY <1>2, <2>1, Left
<1>4. w[h] \in Seq(Frame)
    BY <1>1, <1>2, Left
<1>5. w \in Queues(frames)
    <3>1. \A g \in Hub : w[g] \in Seq(Frame) /\ w[g] \in Seq(frames[g])
        BY <1>1, <1>2, <1>3, <1>4
    <3>2. w \in [Hub -> Seq(Frame)]
        BY <3>1, <1>2
    <3> QED BY <3>1, <3>2 DEF Queues
<1>6. \A y : /\ y # Head(u[h]) => Count(u[h], y) = Count(w[h], y)
             /\ Count(u[h], Head(u[h])) = Count(w[h], Head(u[h])) + 1
    BY <1>1, <1>2, CountLeft
<1>7. ASSUME NEW x, NEW y, Behind(u[h], x, y)
      PROVE  Behind(w[h], x, y) /\ (Head(u[h]) = y => x \notin Queued(u[h]))
    BY <1>1, <1>2, <1>7, BehindLeft
<1>8. ASSUME NEW c, Head(u[h]) # Opening(c) /\ Head(u[h]) # ChunkOf(c) PROVE CalmAll(u, w, c)
    <2>1. Calm(u[h], w[h], c)
        BY <1>3, <1>6, <1>7, <1>8 DEF Calm
    <2> QED BY <2>1, <1>2 DEF CalmAll, Calm
<1>9. Takes(u, w, h)
    BY <1>2, <1>3, <1>6, <1>7 DEF Takes
<1> QED BY <1>3, <1>5, <1>8, <1>9

\* Each hub that can be reached is sent the frames s[h], none of which counts.
PutAll(u, l, s) == [h \in Hub |-> IF l[h] # "up" THEN u[h] ELSE u[h] \o s[h]]

AllPuts(u, w, l, s) ==
    \A h \in Hub : /\ Queued(u[h]) \subseteq Queued(w[h])
                   /\ l[h] = "up" => Queued(s[h]) \subseteq Queued(w[h])

LEMMA AllPutIn ==
    ASSUME NEW frames \in [Hub -> SUBSET Frame], NEW l, NEW u \in Queues(frames),
           NEW s, \A h \in Hub : s[h] \in Seq(frames[h]),
           NEW w, w = PutAll(u, l, s)
    PROVE  /\ w \in Queues(frames) /\ AllPuts(u, w, l, s)
           /\ \A c : (\A h \in Hub : Own(c) \cap Queued(s[h]) = {}) => CalmAll(u, w, c)
<1>0. w = [h \in Hub |-> IF l[h] # "up" THEN u[h] ELSE u[h] \o s[h]]
    BY DEF PutAll
<1>1. /\ u \in [Hub -> Seq(Frame)]
      /\ \A g \in Hub : u[g] \in Seq(frames[g])
      /\ \A g \in Hub : frames[g] \subseteq Frame
    BY DEF Queues
<1>2. ASSUME NEW h \in Hub
      PROVE  /\ w[h] \in Seq(frames[h]) /\ w[h] \in Seq(Frame)
             /\ l[h] = "up" => Queued(w[h]) = Queued(u[h]) \cup Queued(s[h])
             /\ \A c : Own(c) \cap Queued(s[h]) = {} => Calm(u[h], w[h], c)
             /\ l[h] # "up" => w[h] = u[h]
    <2>1. CASE l[h] # "up"
        BY <1>0, <1>1, <2>1 DEF Calm
    <2>2. CASE l[h] = "up"
        <3>1. w[h] = u[h] \o s[h] /\ u[h] \in Seq(frames[h]) /\ s[h] \in Seq(frames[h])
            BY <1>0, <1>1, <2>2
        <3>2. /\ w[h] \in Seq(frames[h]) /\ Queued(w[h]) = Queued(u[h]) \cup Queued(s[h])
            <4>1. PICK q, t, S, M : q = u[h] /\ t = s[h] /\ S = frames[h] /\ M = {}
                OBVIOUS
            <4>2. q \in Seq(S) /\ t \in Seq(S) /\ w[h] = q \o t
                BY <3>1, <4>1
            <4>3. q \o t \in Seq(S) /\ Queued(q \o t) = Queued(q) \cup Queued(t)
                <5>1. Once(q, M) /\ \A y \in Queued(t) : y \notin M
                    BY <4>1 DEF Once
                <5> QED BY <5>1, <4>2, AppendedAll
            <4> QED BY <4>1, <4>2, <4>3
        <3>3. w[h] \in Seq(Frame)
            BY <3>2, <1>1
        <3>4. ASSUME NEW c, Own(c) \cap Queued(s[h]) = {} PROVE Calm(u[h], w[h], c)
            <4>1. Opening(c) \notin Queued(s[h]) /\ ChunkOf(c) \notin Queued(s[h]) /\ Eof(c) \notin Queued(s[h])
                BY <3>4 DEF Own
            <4>2. Count(w[h], Opening(c)) = Count(u[h], Opening(c))
                BY <3>1, <4>1, CountAll
            <4>3. Count(w[h], ChunkOf(c)) = Count(u[h], ChunkOf(c))
                BY <3>1, <4>1, CountAll
            <4>4. Behind(u[h], ChunkOf(c), Eof(c)) => Behind(w[h], ChunkOf(c), Eof(c))
                BY <3>1, <4>1, BehindAll
            <4> QED BY <4>1, <4>2, <4>3, <4>4, <3>2 DEF Calm
        <3> QED BY <2>2, <3>2, <3>3, <3>4
    <2> QED BY <2>1, <2>2
<1>3. w \in Queues(frames)
    BY <1>0, <1>2 DEF Queues
<1>4. \A c : (\A h \in Hub : Own(c) \cap Queued(s[h]) = {}) => CalmAll(u, w, c)
    BY <1>2 DEF CalmAll
<1>5. AllPuts(u, w, l, s)
    BY <1>2 DEF AllPuts
<1> QED BY <1>3, <1>4, <1>5

-------------------------------------------------------------------------------
\* What a step does to a call.

LEMMA Numbers ==
    ASSUME Plain, Linked, NEW c \in Call
    PROVE  /\ Count(up[Caller(c)], Opening(c)) \in Nat /\ Count(down[Provider(c)], Opening(c)) \in Nat
           /\ Count(up[Provider(c)], ChunkOf(c)) \in Nat /\ Count(down[Caller(c)], ChunkOf(c)) \in Nat
           /\ got[c] \in Nat /\ made[c] \in Nat /\ made[c] <= MaxChunk
           /\ Caller(c) \in Hub /\ Provider(c) \in Hub /\ From[c] \in Routine /\ To[c] \in Routine
           /\ \A h \in Hub : \A x : /\ (Count(up[h], x) = 0) <=> (x \notin Queued(up[h]))
                                    /\ (Count(down[h], x) = 0) <=> (x \notin Queued(down[h]))
           /\ \A h \in Hub : \A x : Count(up[h], x) \in Nat /\ Count(down[h], x) \in Nat
<1>1. Caller(c) \in Hub /\ Provider(c) \in Hub /\ MaxChunk \in Nat /\ From[c] \in Routine /\ To[c] \in Routine
    BY Places
<1>2. \A h \in Hub : up[h] \in Seq(Frame) /\ down[h] \in Seq(Frame)
    BY DEF Linked, Queues
<1>3. \A h \in Hub : \A x : /\ Count(up[h], x) \in Nat /\ Count(down[h], x) \in Nat
                            /\ (Count(up[h], x) = 0) <=> (x \notin Queued(up[h]))
                            /\ (Count(down[h], x) = 0) <=> (x \notin Queued(down[h]))
    BY <1>2, CountZero
<1>4. got[c] \in Nat /\ made[c] \in Nat /\ made[c] <= MaxChunk
    BY <1>1 DEF Plain
<1> QED BY <1>1, <1>3, <1>4

\* The call c is nobody's business in this step: its caller may give up, the routines may
\* go, and the queue of a hub may drop what it has not sent.
Steady(c) ==
    /\ FadedAll(up, up', c) /\ CalmAll(down, down', c) /\ lost \subseteq lost'
    /\ got'[c] = got[c] /\ made'[c] = made[c] /\ serve'[c] = serve[c]
    /\ c \in streams' => c \in streams
    /\ c \in readers' => c \in readers
    /\ st'[c] = "idle" => st[c] = "idle"
    /\ Kind[c] = "stream" /\ st'[c] = "ok" /\ ChunkOf(c) \notin lost' =>
            st[c] = "ok" \/ (got[c] = made[c] /\ serve[c] = "over")
    /\ HasNode(From[c])' => HasNode(From[c])
    /\ st'[c] \in {"wait", "open"} => st[c] \in {"wait", "open"}
                                     /\ (link'[Caller(c)] = "up" => link[Caller(c)] = "up")

LEMMA SteadyCall ==
    ASSUME Plain, Linked, NEW c \in Call, CallInv(c), Steady(c)
    PROVE  CallInv(c)'
<1>1. Caller(c) \in Hub /\ Provider(c) \in Hub /\ Caller(c)' = Caller(c) /\ Provider(c)' = Provider(c)
    BY Places DEF Caller, Provider
<1> DEFINE A == Caller(c)  P == Provider(c)
<1>2. Faded(up[A], up'[A], c) /\ Faded(up[P], up'[P], c) /\ Calm(down[A], down'[A], c)
      /\ Calm(down[P], down'[P], c)
    BY <1>1 DEF Steady, CalmAll, FadedAll
<1>3. /\ Count(up[A], Opening(c)) \in Nat /\ Count(down[P], Opening(c)) \in Nat
      /\ Count(up[P], ChunkOf(c)) \in Nat /\ Count(down[A], ChunkOf(c)) \in Nat
      /\ got[c] \in Nat /\ made[c] \in Nat
    BY Numbers
<1>4. Served(c)'
    <2>1. /\ Count(up'[A], Opening(c)) \in 0..Count(up[A], Opening(c))
          /\ Count(up'[P], ChunkOf(c)) \in 0..Count(up[P], ChunkOf(c))
          /\ Count(down'[P], Opening(c)) = Count(down[P], Opening(c))
          /\ Eof(c) \in Queued(up'[P]) => Eof(c) \in Queued(up[P])
          /\ Eof(c) \in Queued(down'[A]) => Eof(c) \in Queued(down[A])
          /\ Behind(up[P], ChunkOf(c), Eof(c)) => Behind(up'[P], ChunkOf(c), Eof(c))
          /\ Behind(down[A], ChunkOf(c), Eof(c)) => Behind(down'[A], ChunkOf(c), Eof(c))
        BY <1>2, <1>3 DEF Calm, Faded
    <2> QED BY <1>1, <1>3, <2>1 DEF Steady, CallInv, Served
<1>5. Counted(c)'
    <2>1. /\ got'[c] = got[c] /\ made'[c] = made[c] /\ serve'[c] = serve[c]
          /\ c \in readers' => c \in readers
          /\ (Kind[c] = "stream" /\ st'[c] = "ok" /\ ChunkOf(c) \notin lost') =>
                    (st[c] = "ok" \/ (got[c] = made[c] /\ serve[c] = "over"))
          /\ HasNode(From[c])' => HasNode(From[c])
          /\ Waiting(c)' => (Waiting(c) /\ (link'[A] = "up" => link[A] = "up"))
          /\ ChunkOf(c) \notin lost' => ChunkOf(c) \notin lost
        BY <1>1 DEF Steady, Waiting
    <2>2. /\ \/ Count(up'[P], ChunkOf(c)) = Count(up[P], ChunkOf(c))
             \/ ChunkOf(c) \in lost' /\ Count(up'[P], ChunkOf(c)) \in 0..Count(up[P], ChunkOf(c))
          /\ Count(down'[A], ChunkOf(c)) = Count(down[A], ChunkOf(c))
          /\ Eof(c) \in Queued(down'[A]) => Eof(c) \in Queued(down[A])
        BY <1>2 DEF Calm, Faded
    <2>3. Counted(c)
        BY DEF CallInv
    <2> QED BY <1>1, <1>3, <2>1, <2>2, <2>3 DEF Counted
<1> QED BY <1>4, <1>5 DEF CallInv

\* A queue that does not change.
LEMMA CalmSame ==
    ASSUME NEW u, NEW c
    PROVE  CalmAll(u, u, c) /\ FadedAll(u, u, c)
BY DEF CalmAll, Calm, FadedAll, Faded

\* What hub h sends, what the kernel sends to hub h, and what each of them takes.
LEMMA HubSends ==
    ASSUME IInv, NEW h \in Hub, NEW x \in UpFrames[h], Up(h, x)
    PROVE  /\ up' \in Queues(UpFrames) /\ Sends(up, up', h, x)
           /\ lost \subseteq lost' /\ lost' \subseteq Frame
           /\ \A c : x \notin Own(c) => FadedAll(up, up', c)
<1>1. /\ up \in Queues(UpFrames) /\ UpFrames \in [Hub -> SUBSET Frame] /\ lost \subseteq Frame
      /\ up \in [Hub -> Seq(Frame)] /\ up[h] \in Seq(UpFrames[h]) /\ UpFrames[h] \subseteq Frame
    BY FrameSets DEF IInv, Linked, Plain, Queues
<1>2. CASE up' = [up EXCEPT ![h] = Append(@, x)] /\ lost' = lost
    <2>1. /\ up' \in Queues(UpFrames) /\ Puts(up, up', TRUE, h, x)
          /\ \A c : x \notin Own(c) => CalmAll(up, up', c)
        <3>1. up' = IF TRUE THEN [up EXCEPT ![h] = Append(@, x)] ELSE up
            BY <1>2
        <3> QED BY <1>1, <3>1, PutIn
    <2>2. \A y : Count(up[h], y) \in Nat
        BY <1>1, CountZero
    <2>3. Sends(up, up', h, x)
        BY <2>1, <2>2 DEF Puts, Sends
    <2> QED BY <1>1, <1>2, <2>1, <2>3, CalmFades
<1>3. ASSUME NEW n \in Nat \ {0}, n <= Len(up[h]), Loses({up[h][n]}),
             up' = [up EXCEPT ![h] = Append(RemoveAt(@, n), x)]
      PROVE  /\ up' \in Queues(UpFrames) /\ Sends(up, up', h, x)
             /\ lost \subseteq lost' /\ lost' \subseteq Frame
             /\ \A c : x \notin Own(c) => FadedAll(up, up', c)
    <2>1. PICK z, v, m : /\ z = up[h][n] /\ v = RemoveAt(up[h], n) /\ m = [up EXCEPT ![h] = v]
        OBVIOUS
    <2>2. n \in 1..Len(up[h]) /\ z \in UpFrames[h] /\ z \in Queued(up[h])
        BY <1>1, <1>3, <2>1 DEF Queued
    <2>3. /\ v \in Seq(UpFrames[h]) /\ v \in Seq(Frame)
          /\ Queued(v) \subseteq Queued(up[h]) /\ Queued(up[h]) \subseteq Queued(v) \cup {z}
          /\ Count(up[h], z) = Count(v, z) + 1
          /\ \A y : y # z => Count(v, y) = Count(up[h], y)
          /\ \A a, b : Behind(up[h], a, b) => Behind(v, a, b)
        BY <1>1, <2>1, <2>2, TakenFrom
    <2>4. /\ m \in Queues(UpFrames) /\ m[h] = v /\ \A g \in Hub : g # h => m[g] = up[g]
        BY <1>1, <2>1, <2>3 DEF Queues
    <2>5. /\ up' \in Queues(UpFrames) /\ Puts(m, up', TRUE, h, x)
          /\ \A c : x \notin Own(c) => CalmAll(m, up', c)
        <3>1. up' = IF TRUE THEN [m EXCEPT ![h] = Append(@, x)] ELSE m
            BY <1>1, <1>3, <2>1
        <3> QED BY <1>1, <2>4, <3>1, PutIn
    <2>6. Noted(z) /\ lost \subseteq lost' /\ lost' \subseteq Frame
        BY <1>1, <1>3, <2>1, <2>2 DEF Loses, Noted
    <2>7. \A y : Count(up[h], y) \in Nat /\ Count(v, y) \in Nat
        BY <1>1, <2>3, CountZero
    <2>8. Sends(up, up', h, x)
        <3>1. \A g \in Hub : g # h => up'[g] = up[g]
            BY <2>4, <2>5 DEF Puts
        <3>2. /\ Queued(up'[h]) \subseteq Queued(up[h]) \cup {x} /\ x \in Queued(up'[h])
              /\ \A y \in Queued(up[h]) : y \in Queued(up'[h]) \/ Noted(y)
            BY <2>3, <2>4, <2>5, <2>6 DEF Puts
        <3>3. ASSUME NEW y
              PROVE  \/ Count(up'[h], y) = Count(up[h], y) + (IF y = x THEN 1 ELSE 0)
                     \/ /\ Noted(y) /\ Count(up[h], y) \in Nat \ {0}
                        /\ Count(up'[h], y) = (Count(up[h], y) - 1) + (IF y = x THEN 1 ELSE 0)
            <4>1. Count(up'[h], y) = Count(v, y) + (IF y = x THEN 1 ELSE 0)
                BY <2>4, <2>5, <2>7 DEF Puts
            <4>2. CASE y = z
                BY <2>3, <2>6, <2>7, <4>1, <4>2
            <4>3. CASE y # z
                BY <2>3, <2>7, <4>1, <4>3
            <4> QED BY <4>2, <4>3
        <3>4. ASSUME NEW y, NEW a, Behind(up[h], y, a), x # y \/ (a \notin Queued(up[h]) /\ y # a)
              PROVE  Behind(up'[h], y, a)
            BY <2>3, <2>4, <2>5, <3>4 DEF Puts
        <3> QED BY <3>1, <3>2, <3>3, <3>4 DEF Sends
    <2>9. ASSUME NEW c, x \notin Own(c) PROVE FadedAll(up, up', c)
        <3>1. x # Opening(c) /\ x # ChunkOf(c) /\ x # Eof(c)
            BY <2>9 DEF Own
        <3>2. \A y \in {Opening(c), ChunkOf(c)} : Noted(y) => y \in lost'
            BY OwnFrames DEF Noted
        <3>3. ASSUME NEW y \in {Opening(c), ChunkOf(c)}
              PROVE  \/ Count(up'[h], y) = Count(up[h], y)
                     \/ y \in lost' /\ Count(up'[h], y) \in 0..Count(up[h], y)
            BY <2>7, <2>8, <3>1, <3>2 DEF Sends
        <3>4. Faded(up[h], up'[h], c)
            BY <2>8, <3>1, <3>3 DEF Sends, Faded
        <3>5. \A g \in Hub : g # h => Faded(up[g], up'[g], c)
            BY <2>8 DEF Sends, Faded
        <3> QED BY <3>4, <3>5 DEF FadedAll
    <2> QED BY <2>5, <2>6, <2>8, <2>9
<1>4. CASE \E n : /\ n = (Len(up[h]) - OutMax) + 1 /\ n > 0 /\ Loses({up[h][n]})
                  /\ up' = [up EXCEPT ![h] = Append(RemoveAt(@, n), x)]
    <2>1. PICK n : /\ n = (Len(up[h]) - OutMax) + 1 /\ n > 0 /\ Loses({up[h][n]})
                   /\ up' = [up EXCEPT ![h] = Append(RemoveAt(@, n), x)]
        BY <1>4
    <2>2. n \in Nat \ {0} /\ n <= Len(up[h])
        BY <1>1, <2>1, CallAssumption DEF CallAssumption
    <2> QED BY <2>1, <2>2, <1>3
<1> QED BY <1>2, <1>4 DEF Up

LEMMA KernelSends ==
    ASSUME IInv, NEW h \in Hub, NEW x \in DownFrames[h], down' = Down(down, h, x)
    PROVE  /\ down' \in Queues(DownFrames) /\ Puts(down, down', link[h] = "up", h, x)
           /\ \A c : x \notin Own(c) => CalmAll(down, down', c)
<1>1. down \in Queues(DownFrames) /\ DownFrames \in [Hub -> SUBSET Frame]
    BY FrameSets DEF IInv, Linked
<1>2. down' = IF link[h] = "up" THEN [down EXCEPT ![h] = Append(@, x)] ELSE down
    BY DEF Down
<1> QED BY <1>1, <1>2, PutIn

LEMMA HubTakes ==
    ASSUME IInv, NEW h \in Hub, down[h] # <<>>, down' = [down EXCEPT ![h] = Tail(@)]
    PROVE  /\ down' \in Queues(DownFrames) /\ Takes(down, down', h)
           /\ Head(down[h]) \in DownFrames[h]
           /\ \A c : (Head(down[h]) # Opening(c) /\ Head(down[h]) # ChunkOf(c)) => CalmAll(down, down', c)
<1>1. down \in Queues(DownFrames) /\ DownFrames \in [Hub -> SUBSET Frame]
    BY FrameSets DEF IInv, Linked
<1> QED BY <1>1, TakenOut

LEMMA KernelTakes ==
    ASSUME IInv, NEW h \in Hub, up[h] # <<>>, up' = [up EXCEPT ![h] = Tail(@)]
    PROVE  /\ up' \in Queues(UpFrames) /\ Takes(up, up', h)
           /\ Head(up[h]) \in UpFrames[h]
           /\ \A c : (Head(up[h]) # Opening(c) /\ Head(up[h]) # ChunkOf(c)) => FadedAll(up, up', c)
<1>1. up \in Queues(UpFrames) /\ UpFrames \in [Hub -> SUBSET Frame]
    BY FrameSets DEF IInv, Linked
<1> QED BY <1>1, TakenOut, CalmFades

-------------------------------------------------------------------------------
\* The caller's steps.

\* What most steps leave alone of the finite sets and of who waits.
LEMMA Lazy ==
    ASSUME IInv, link' = link, inst' = inst,
           pending' \subseteq pending \cup Asked,
           \A c \in Call : /\ (st'[c] # "idle") => (st[c] # "idle")
                           /\ (st[c] # "idle") => (st'[c] # "idle")
                           /\ (st'[c] \in {"wait", "open"}) => (st[c] \in {"wait", "open"})
    PROVE  Lives' /\ Finite'
<1>1. Asked' = Asked
    BY DEF Asked
<1>2. Finite'
    BY <1>1 DEF IInv, Finite
<1>3. Lives'
    BY DEF IInv, Linked, Lives, Waiting
<1> QED BY <1>2, <1>3

LEMMA AskStep ==
    ASSUME IInv, NEW c \in Call, Ask(c)
    PROVE  IInv'
<1> DEFINE A == Caller(c)  P == Provider(c)
<1>1. Plain /\ Linked /\ Finite /\ Lives /\ CallInv(c)
    BY DEF IInv, Linked
<1>2. /\ A \in Hub /\ Opening(c) \in UpFrames[A] /\ From[c] \in Routine
      /\ P \in Hub
    BY Places, FramesOf DEF Asking, Opening
<1>3. /\ up' \in Queues(UpFrames) /\ Sends(up, up', A, Opening(c))
      /\ lost \subseteq lost' /\ lost' \subseteq Frame
      /\ \A d : Opening(c) \notin Own(d) => FadedAll(up, up', d)
    BY <1>2, HubSends DEF Ask, Opening
<1>4. Plain'
    BY <1>1, <1>3 DEF Ask, provider, kernel, Plain
<1>5. Linked'
    <2>1. Lives'
        <3>1. inst[From[c]]
            BY DEF Ask
        <3>2. \A d \in Call : Waiting(d)' => d = c \/ Waiting(d)
            BY <1>1 DEF Ask, provider, kernel, Waiting, Plain
        <3> QED BY <1>1, <3>1, <3>2 DEF Ask, provider, kernel, Lives
    <2> QED BY <1>1, <1>3, <2>1 DEF Linked, Ask, provider, kernel
<1>6. Finite'
    <2>1. Asked' = Asked \cup {c}
        BY <1>1 DEF Ask, provider, kernel, Asked, Plain
    <2> QED BY <1>1, <2>1, FS_AddElement DEF Finite, Ask, provider, kernel
<1>7. ASSUME NEW d \in Call, d # c PROVE CallInv(d)'
    <2>1. Opening(c) \notin Own(d)
        BY <1>7, OwnFrames
    <2>2. FadedAll(up, up', d)
        BY <1>3, <2>1
    <2>3. CalmAll(down, down', d)
        BY CalmSame DEF Ask, provider, kernel
    <2>4. Steady(d)
        BY <1>1, <1>3, <1>7, <2>2, <2>3 DEF Ask, provider, kernel, Steady, HasNode, Plain
    <2> QED BY <1>1, <2>4, SteadyCall DEF IInv
<1>8. CallInv(c)'
    <2>0. Opening(c) # ChunkOf(c) /\ Opening(c) # Eof(c)
        BY OwnFrames
    <2>3. /\ Caller(c)' = A /\ Provider(c)' = P
          /\ st[c] = "idle" /\ st'[c] = "wait"
          /\ got' = got /\ serve' = serve /\ made' = made /\ streams' = streams /\ node' = node
          /\ down' = down /\ link' = link
        BY <1>1 DEF Ask, provider, kernel, Plain, Caller, Provider
    <2>4. /\ Count(up[A], Opening(c)) = 0 /\ Count(down[P], Opening(c)) = 0
          /\ serve[c] = "none" /\ made[c] = 0 /\ got[c] = 0
          /\ Count(up[P], ChunkOf(c)) = 0 /\ Count(down[A], ChunkOf(c)) = 0
          /\ Eof(c) \notin Queued(up[P]) /\ Eof(c) \notin Queued(down[A])
        <3>1. /\ Count(up[A], Opening(c)) \in Nat /\ Count(down[P], Opening(c)) \in Nat
              /\ Count(up[P], ChunkOf(c)) \in Nat /\ Count(down[A], ChunkOf(c)) \in Nat
              /\ got[c] \in Nat
            BY <1>1, Numbers
        <3>2. /\ Count(up[A], Opening(c)) + Count(down[P], Opening(c)) = 0
              /\ serve[c] = "none" /\ made[c] = 0
              /\ Eof(c) \notin Queued(up[P]) /\ Eof(c) \notin Queued(down[A])
            BY <1>1, <2>3 DEF CallInv, Served
        <3>3. got[c] + Count(down[A], ChunkOf(c)) + Count(up[P], ChunkOf(c)) <= made[c]
            BY <1>1 DEF CallInv, Counted
        <3> QED BY <3>1, <3>2, <3>3
    <2>1. /\ Count(up'[A], Opening(c)) = 1
          /\ Count(up'[P], ChunkOf(c)) = 0 /\ Eof(c) \notin Queued(up'[P])
          /\ Behind(up[P], ChunkOf(c), Eof(c)) => Behind(up'[P], ChunkOf(c), Eof(c))
        <3>1. Count(up'[A], Opening(c)) = 1
            BY <1>3, <2>4 DEF Sends
        <3>2. CASE P = A
            BY <1>3, <2>0, <2>4, <3>2 DEF Sends
        <3>3. CASE P # A
            BY <1>2, <1>3, <2>4, <3>3 DEF Sends
        <3> QED BY <3>1, <3>2, <3>3
    <2>5. Served(c)'
        BY <1>1, <2>1, <2>3, <2>4 DEF CallInv, Served
    <2>6. Counted(c)'
        BY <1>1, <2>1, <2>3, <2>4 DEF CallInv, Counted
    <2> QED BY <2>5, <2>6 DEF CallInv
<1> QED BY <1>4, <1>5, <1>6, <1>7, <1>8 DEF IInv

LEMMA TimeoutStep ==
    ASSUME IInv, NEW c \in Call, Timeout(c)
    PROVE  IInv'
<1>1. Plain /\ Linked
    BY DEF IInv
<1>2. Plain'
    BY <1>1 DEF Timeout, provider, kernel, out, Plain
<1>3. Lives' /\ Finite'
    BY <1>1, Lazy DEF Timeout, provider, kernel, out, Plain
<1>4. Linked'
    BY <1>1, <1>3 DEF Timeout, provider, kernel, out, Linked
<1>5. ASSUME NEW d \in Call PROVE CallInv(d)'
    <2>1. FadedAll(up, up', d) /\ CalmAll(down, down', d)
        BY CalmSame DEF Timeout, provider, kernel, out
    <2>2. Steady(d)
        BY <1>1, <2>1 DEF Timeout, provider, kernel, out, Steady, HasNode, Plain
    <2> QED BY <1>1, <2>2, SteadyCall DEF IInv
<1> QED BY <1>2, <1>3, <1>4, <1>5 DEF IInv

LEMMA LeaveStep ==
    ASSUME IInv, NEW c \in Call, Leave(c)
    PROVE  IInv'
<1> DEFINE A == Caller(c)  x == F("cancel", c, "")
<1>1. Plain /\ Linked
    BY DEF IInv
<1>2. A \in Hub /\ x \in UpFrames[A]
    BY Places, FramesOf DEF Asking
<1>3. /\ up' \in Queues(UpFrames) /\ lost \subseteq lost' /\ lost' \subseteq Frame
      /\ \A d : x \notin Own(d) => FadedAll(up, up', d)
    BY <1>2, HubSends DEF Leave
<1>4. Plain'
    BY <1>1, <1>3 DEF Leave, provider, kernel, Plain
<1>5. Lives' /\ Finite'
    BY <1>1, Lazy DEF Leave, provider, kernel, Plain
<1>6. Linked'
    BY <1>1, <1>3, <1>5 DEF Leave, provider, kernel, Linked
<1>7. ASSUME NEW d \in Call PROVE CallInv(d)'
    <2>1. x \notin Own(d)
        <3>1. x.k = "cancel"
            BY DEF F
        <3> QED BY <3>1, OwnFrames
    <2>2. FadedAll(up, up', d) /\ CalmAll(down, down', d)
        BY <1>3, <2>1, CalmSame DEF Leave
    <2>3. Steady(d)
        BY <1>1, <1>3, <2>2 DEF Leave, provider, kernel, Steady, HasNode, Plain
    <2> QED BY <1>1, <2>3, SteadyCall DEF IInv
<1> QED BY <1>4, <1>5, <1>6, <1>7 DEF IInv

LEMMA CallerTakesStep ==
    ASSUME IInv, NEW h \in Hub, CallerTakes(h)
    PROVE  IInv'
<1>0. PICK f, c : f = Head(down[h]) /\ c = f.of
    OBVIOUS
<1> DEFINE A == Caller(c)  P == Provider(c)
           end == [st EXCEPT ![c] = IF Waiting(c) THEN IF f.how = "ok" THEN "ok" ELSE "failed" ELSE @]
<1>1. Plain /\ Linked
    BY DEF IInv
<1>2. /\ down[h] # <<>> /\ f.k \in {"answer", "chunk", "eof"}
      /\ down' = [down EXCEPT ![h] = Tail(@)]
      /\ serve' = serve /\ made' = made /\ streams' = streams /\ pending' = pending /\ node' = node
      /\ inst' = inst /\ link' = link /\ up' = up /\ lost' = lost
      /\ \/ f.k = "answer" /\ st' = end /\ readers' = readers /\ got' = got
         \/ /\ f.k = "chunk" /\ c \in readers /\ got' = [got EXCEPT ![c] = @ + 1]
            /\ st' = [st EXCEPT ![c] = IF @ = "wait" THEN "open" ELSE @]
            /\ readers' = readers
         \/ f.k = "eof" /\ c \in readers /\ readers' = readers \ {c} /\ st' = end /\ got' = got
         \/ f.k # "answer" /\ c \notin readers /\ st' = st /\ readers' = readers /\ got' = got
    BY <1>0 DEF CallerTakes, provider, kernel, caller, out
<1>3. /\ down' \in Queues(DownFrames) /\ Takes(down, down', h)
      /\ f \in DownFrames[h]
      /\ \A d : (f # Opening(d) /\ f # ChunkOf(d)) => CalmAll(down, down', d)
    BY <1>0, <1>2, HubTakes
<1>4. c \in Call /\ About(f, c) /\ A = h /\ A \in Hub /\ P \in Hub
    BY <1>0, <1>2, <1>3, DownFrame, Places DEF About
<1>5. CallInv(c)
    BY <1>4 DEF IInv
<1>6. f # Opening(c)
    BY <1>2, OwnFrames
<1>7. f.k = "chunk" /\ c \in readers => got[c] + 1 <= made[c] /\ f = ChunkOf(c)
    <2>1. CASE f.k = "chunk" /\ c \in readers
        <3>1. f = ChunkOf(c) /\ f \in Queued(down[h])
            BY <1>0, <2>1, <1>3, <1>4 DEF About, Takes
        <3>2. Count(down[A], ChunkOf(c)) # 0
            BY <3>1, <1>1, <1>4, Numbers
        <3>3. got[c] + Count(down[A], ChunkOf(c)) + Count(up[P], ChunkOf(c)) <= made[c]
            BY <1>5 DEF CallInv, Counted
        <3> QED BY <3>1, <3>2, <3>3, <1>1, <1>4, Numbers
    <2> QED BY <2>1
<1>8. Plain'
    <2>1. got' \in [Call -> 0..MaxChunk]
        <3>1. got[c] \in Nat /\ made[c] \in Nat /\ made[c] <= MaxChunk
            BY <1>1, <1>4, Numbers
        <3>2. f.k = "chunk" /\ c \in readers => got[c] + 1 \in 0..MaxChunk
            BY <3>1, <1>7, Places
        <3> QED BY <1>1, <1>2, <3>2 DEF Plain
    <2>2. st' \in [Call -> {"idle", "wait", "open", "ok", "failed", "timeout", "left", "lost"}]
        BY <1>1, <1>2 DEF Plain
    <2>3. readers' \subseteq Call
        BY <1>1, <1>2 DEF Plain
    <2> QED BY <1>1, <1>2, <2>1, <2>2, <2>3 DEF Plain
<1>9. Lives' /\ Finite'
    <2>1. \A d \in Call : /\ (st'[d] # "idle") => (st[d] # "idle")
                          /\ (st[d] # "idle") => (st'[d] # "idle")
                          /\ (st'[d] \in {"wait", "open"}) => (st[d] \in {"wait", "open"})
        BY <1>1, <1>2, <1>4 DEF Plain, Waiting
    <2> QED BY <1>2, <2>1, Lazy
<1>10. Linked'
    BY <1>1, <1>2, <1>3, <1>9 DEF Linked
<1>11. ASSUME NEW d \in Call, d # c PROVE CallInv(d)'
    <2>1. f # Opening(d) /\ f # ChunkOf(d)
        BY <1>0, <1>11, OwnFrames
    <2>2. FadedAll(up, up', d) /\ CalmAll(down, down', d)
        BY <1>2, <1>3, <2>1, CalmSame
    <2>3. st'[d] = st[d] /\ got'[d] = got[d] /\ (d \in readers' => d \in readers)
        BY <1>1, <1>2, <1>11 DEF Plain
    <2>4. Steady(d)
        BY <1>2, <2>2, <2>3 DEF Steady, HasNode
    <2> QED BY <1>1, <2>4, SteadyCall DEF IInv
<1>12. CallInv(c)'
    <2>1. CASE f.k = "chunk" /\ c \in readers
        <3>1. f = ChunkOf(c) /\ ChunkOf(c) # Opening(c)
            BY <2>1, <1>7, OwnFrames
        <3>2. /\ Count(down[A], ChunkOf(c)) = Count(down'[A], ChunkOf(c)) + 1
              /\ Count(down'[P], Opening(c)) = Count(down[P], Opening(c))
              /\ Eof(c) \in Queued(down'[A]) => Eof(c) \in Queued(down[A])
              /\ Behind(down[A], ChunkOf(c), Eof(c)) => Behind(down'[A], ChunkOf(c), Eof(c))
            BY <1>0, <1>3, <1>4, <3>1 DEF Takes
        <3>3. /\ got'[c] = got[c] + 1 /\ serve' = serve /\ made' = made /\ streams' = streams
              /\ up' = up /\ node' = node /\ link' = link /\ lost' = lost /\ c \in readers
              /\ (st[c] = "wait" /\ st'[c] = "open") \/ st'[c] = st[c]
            BY <2>1, <1>1, <1>2, <1>4 DEF Plain
        <3>4. /\ Count(up[P], ChunkOf(c)) \in Nat /\ Count(down'[A], ChunkOf(c)) \in Nat
              /\ got[c] \in Nat /\ made[c] \in Nat
            <4>1. down'[A] \in Seq(Frame)
                BY <1>3, <1>4 DEF Queues
            <4> QED BY <4>1, <1>1, <1>4, Numbers, CountZero
        <3>5. Served(c)'
            BY <1>5, <3>2, <3>3 DEF CallInv, Served, Caller, Provider
        <3>6. Counted(c)'
            BY <1>5, <3>2, <3>3, <3>4 DEF CallInv, Counted, Caller, Provider, HasNode, Waiting
        <3> QED BY <3>5, <3>6 DEF CallInv
    <2>2. CASE f.k # "chunk"
        <3>1. f # Opening(c) /\ f # ChunkOf(c)
            BY <2>2, <1>6, OwnFrames
        <3>2. FadedAll(up, up', c) /\ CalmAll(down, down', c)
            BY <1>2, <1>3, <3>1, CalmSame
        <3>3. Kind[c] = "stream" /\ st'[c] = "ok" /\ ChunkOf(c) \notin lost =>
                    st[c] = "ok" \/ (got[c] = made[c] /\ serve[c] = "over")
            <4>1. ASSUME Kind[c] = "stream", st'[c] = "ok", st[c] # "ok", ChunkOf(c) \notin lost
                  PROVE  got[c] = made[c] /\ serve[c] = "over"
                <5>1. f.k = "eof" /\ c \in readers /\ f.how = "ok" /\ Waiting(c)
                    BY <1>1, <1>2, <1>4, <2>2, <4>1 DEF About, Plain, Waiting
                <5>2. f = Eof(c) /\ f \in Queued(down[A])
                    BY <1>0, <1>3, <1>4, <5>1 DEF About, Takes
                <5>3. ChunkOf(c) \notin Queued(down[A])
                    BY <1>0, <1>3, <1>4, <1>5, <5>2 DEF CallInv, Served, Takes
                <5>4. Count(down[A], ChunkOf(c)) = 0
                    BY <5>3, <1>1, <1>4, Numbers
                <5>5. got[c] + Count(down[A], ChunkOf(c)) = made[c] /\ serve[c] = "over"
                    BY <1>5, <4>1, <5>1, <5>2 DEF CallInv, Served, Counted
                <5> QED BY <5>4, <5>5, <1>1, <1>4, Numbers
            <4> QED BY <4>1
        <3>4. /\ got' = got /\ (c \in readers' => c \in readers) /\ (st'[c] = "idle" => st[c] = "idle")
              /\ st'[c] \in {"wait", "open"} => st[c] \in {"wait", "open"}
            BY <1>1, <1>2, <1>4, <2>2 DEF Plain, Waiting
        <3>5. Steady(c)
            BY <1>2, <3>2, <3>3, <3>4 DEF Steady, HasNode
        <3> QED BY <1>1, <1>4, <1>5, <3>5, SteadyCall
    <2>3. CASE f.k = "chunk" /\ c \notin readers
        <3>1. f = ChunkOf(c) /\ ChunkOf(c) # Opening(c)
            BY <2>3, <1>4, OwnFrames DEF About
        <3>2. /\ Count(down[A], ChunkOf(c)) = Count(down'[A], ChunkOf(c)) + 1
              /\ Count(down'[P], Opening(c)) = Count(down[P], Opening(c))
              /\ Eof(c) \in Queued(down'[A]) => Eof(c) \in Queued(down[A])
              /\ Behind(down[A], ChunkOf(c), Eof(c)) => Behind(down'[A], ChunkOf(c), Eof(c))
            BY <1>0, <1>3, <1>4, <3>1 DEF Takes
        <3>3. /\ got' = got /\ serve' = serve /\ made' = made /\ streams' = streams
              /\ up' = up /\ node' = node /\ link' = link /\ lost' = lost /\ c \notin readers' /\ st' = st
            BY <2>3, <1>2
        <3>4. /\ Count(up[P], ChunkOf(c)) \in Nat /\ Count(down'[A], ChunkOf(c)) \in Nat
              /\ got[c] \in Nat /\ made[c] \in Nat
            <4>1. down'[A] \in Seq(Frame)
                BY <1>3, <1>4 DEF Queues
            <4> QED BY <4>1, <1>1, <1>4, Numbers, CountZero
        <3>5. Served(c)'
            BY <1>5, <3>2, <3>3 DEF CallInv, Served, Caller, Provider
        <3>6. Counted(c)'
            BY <1>5, <3>2, <3>3, <3>4 DEF CallInv, Counted, Caller, Provider, HasNode, Waiting
        <3> QED BY <3>5, <3>6 DEF CallInv
    <2> QED BY <2>1, <2>2, <2>3
<1> QED BY <1>8, <1>9, <1>10, <1>11, <1>12 DEF IInv

-------------------------------------------------------------------------------
\* The provider's steps.

LEMMA ServeStep ==
    ASSUME IInv, NEW h \in Hub, Serve(h)
    PROVE  IInv'
<1>0. PICK f, c : f = Head(down[h]) /\ c = f.of
    OBVIOUS
<1> DEFINE A == Caller(c)  P == Provider(c)
<1>1. Plain /\ Linked
    BY DEF IInv
<1>2. /\ down[h] # <<>> /\ f.k = "call" /\ down' = [down EXCEPT ![h] = Tail(@)]
      /\ st' = st /\ readers' = readers /\ got' = got /\ pending' = pending /\ node' = node
      /\ inst' = inst /\ link' = link /\ made' = made
      /\ \/ serve' = serve /\ streams' = streams /\ up' = up /\ lost' = lost
         \/ /\ serve' = [serve EXCEPT ![c] = "running"] /\ up' = up /\ lost' = lost
            /\ streams' = IF Kind[c] = "req" THEN streams
                          ELSE {d \in streams : ~ SameStream(c, d)} \cup {c}
         \/ serve' = serve /\ streams' = streams /\ Up(h, Failure(c))
    BY <1>0 DEF Serve, provider, kernel, caller, out
<1>3. /\ down' \in Queues(DownFrames) /\ Takes(down, down', h)
      /\ f \in DownFrames[h]
      /\ \A d : (f # Opening(d) /\ f # ChunkOf(d)) => CalmAll(down, down', d)
    BY <1>0, <1>2, HubTakes
<1>4. c \in Call /\ f = Opening(c) /\ P = h /\ A \in Hub /\ P \in Hub /\ Kind[c] \in {"req", "stream"}
    BY <1>0, <1>2, <1>3, DownFrame, Places DEF About
<1>5. /\ up' \in Queues(UpFrames) /\ \A d : FadedAll(up, up', d)
      /\ lost \subseteq lost' /\ lost' \subseteq Frame
    <2>1. CASE up' = up /\ lost' = lost
        BY <1>1, <2>1, CalmSame DEF Linked, Plain
    <2>2. CASE Up(h, Failure(c))
        <3>1. Failure(c) \in UpFrames[h] /\ \A d : Failure(c) \notin Own(d)
            BY <1>4, FramesOf
        <3> QED BY <2>2, <3>1, HubSends
    <2> QED BY <1>2, <2>1, <2>2
<1>6. Plain'
    BY <1>1, <1>2, <1>4, <1>5 DEF Plain
<1>7. Lives' /\ Finite'
    BY <1>2, Lazy
<1>8. Linked'
    BY <1>2, <1>3, <1>5, <1>7 DEF Linked
<1>9. ASSUME NEW d \in Call, d # c PROVE CallInv(d)'
    <2>1. f # Opening(d) /\ f # ChunkOf(d)
        BY <1>0, <1>9, OwnFrames
    <2>2. FadedAll(up, up', d) /\ CalmAll(down, down', d)
        BY <1>3, <1>5, <2>1
    <2>3. serve'[d] = serve[d] /\ (d \in streams' => d \in streams)
        BY <1>1, <1>2, <1>9 DEF Plain
    <2>4. Steady(d)
        BY <1>2, <1>5, <2>2, <2>3 DEF Steady, HasNode
    <2> QED BY <1>1, <2>4, SteadyCall DEF IInv
<1>10. CallInv(c)'
    <2>1. ChunkOf(c) # Opening(c) /\ Eof(c) # Opening(c)
        BY OwnFrames
    <2>2. /\ Count(down[P], Opening(c)) = Count(down'[P], Opening(c)) + 1
          /\ Count(down'[A], ChunkOf(c)) = Count(down[A], ChunkOf(c))
          /\ Eof(c) \in Queued(down'[A]) => Eof(c) \in Queued(down[A])
          /\ Behind(down[A], ChunkOf(c), Eof(c)) => Behind(down'[A], ChunkOf(c), Eof(c))
        BY <1>0, <1>3, <1>4, <2>1 DEF Takes
    <2>3. /\ Count(up'[A], Opening(c)) \in 0..Count(up[A], Opening(c))
          /\ \/ Count(up'[P], ChunkOf(c)) = Count(up[P], ChunkOf(c))
             \/ ChunkOf(c) \in lost' /\ Count(up'[P], ChunkOf(c)) \in 0..Count(up[P], ChunkOf(c))
          /\ Eof(c) \in Queued(up'[P]) => Eof(c) \in Queued(up[P])
          /\ Behind(up[P], ChunkOf(c), Eof(c)) => Behind(up'[P], ChunkOf(c), Eof(c))
        <3>1. Faded(up[A], up'[A], c) /\ Faded(up[P], up'[P], c) /\ Count(up[A], Opening(c)) \in Nat
            BY <1>1, <1>4, <1>5, Numbers DEF FadedAll
        <3> QED BY <3>1 DEF Faded
    <2>4. /\ Count(up[A], Opening(c)) \in Nat /\ Count(down'[P], Opening(c)) \in Nat
          /\ Count(up[P], ChunkOf(c)) \in Nat /\ Count(down[A], ChunkOf(c)) \in Nat
          /\ got[c] \in Nat
        <3>1. down'[P] \in Seq(Frame)
            BY <1>3, <1>4 DEF Queues
        <3> QED BY <3>1, <1>1, <1>4, Numbers, CountZero
    <2>5. CallInv(c)
        BY <1>4 DEF IInv
    <2>6. /\ Count(up[A], Opening(c)) + Count(down[P], Opening(c)) <= 1
          /\ Count(up[A], Opening(c)) + Count(down[P], Opening(c)) # 0
        BY <2>2, <2>4, <2>5 DEF CallInv, Served
    <2>7. /\ serve[c] = "none" /\ st[c] # "idle" /\ made[c] = 0 /\ c \notin streams
          /\ Eof(c) \notin Queued(up[P]) /\ Eof(c) \notin Queued(down[A])
        BY <2>5, <2>6, <1>4 DEF CallInv, Served
    <2>8. Count(up'[A], Opening(c)) + Count(down'[P], Opening(c)) = 0
        BY <2>2, <2>3, <2>4, <2>6
    <2>9. /\ serve'[c] \in {"none", "running"}
          /\ c \in streams' => serve'[c] = "running" /\ Kind[c] = "stream"
        BY <1>1, <1>2, <1>4, <2>7 DEF Plain
    <2>10. Served(c)'
        BY <1>2, <2>2, <2>3, <2>4, <2>5, <2>7, <2>8, <2>9 DEF CallInv, Served, Caller, Provider
    <2>11. Counted(c)'
        BY <1>2, <1>5, <2>2, <2>3, <2>4, <2>5, <2>7 DEF CallInv, Counted, Caller, Provider, HasNode, Waiting
    <2> QED BY <2>10, <2>11 DEF CallInv
<1> QED BY <1>6, <1>7, <1>8, <1>9, <1>10 DEF IInv

LEMMA ChunkStep ==
    ASSUME IInv, NEW c \in Call, Chunk(c)
    PROVE  IInv'
<1> DEFINE A == Caller(c)  P == Provider(c)
<1>1. Plain /\ Linked /\ CallInv(c)
    BY DEF IInv
<1>2. /\ serve[c] = "running" /\ Kind[c] = "stream" /\ made[c] < MaxChunk
      /\ made' = [made EXCEPT ![c] = @ + 1] /\ Up(P, ChunkOf(c))
      /\ st' = st /\ readers' = readers /\ got' = got /\ serve' = serve /\ streams' = streams
      /\ pending' = pending /\ node' = node /\ inst' = inst /\ link' = link /\ down' = down
    BY DEF Chunk, kernel, caller, ChunkOf
<1>3. P \in Hub /\ A \in Hub /\ ChunkOf(c) \in UpFrames[P]
    <2>1. ChunkOf(c) \in Answering(c)
        BY <1>2 DEF Answering, ChunkOf
    <2> QED BY <2>1, FramesOf, Places
<1>4. /\ up' \in Queues(UpFrames) /\ Sends(up, up', P, ChunkOf(c))
      /\ lost \subseteq lost' /\ lost' \subseteq Frame
      /\ \A d : ChunkOf(c) \notin Own(d) => FadedAll(up, up', d)
    BY <1>2, <1>3, HubSends
<1>5. got[c] \in Nat /\ made[c] \in Nat /\ made'[c] = made[c] + 1 /\ MaxChunk \in Nat
    BY <1>1, <1>2, Numbers, Places DEF Plain
<1>6. Plain'
    <2>1. made' \in [Call -> 0..MaxChunk]
        BY <1>1, <1>2, <1>5 DEF Plain
    <2> QED BY <1>1, <1>2, <1>4, <2>1 DEF Plain
<1>7. Lives' /\ Finite'
    BY <1>2, Lazy
<1>8. Linked'
    BY <1>1, <1>2, <1>4, <1>7 DEF Linked
<1>9. ASSUME NEW d \in Call, d # c PROVE CallInv(d)'
    <2>1. ChunkOf(c) \notin Own(d)
        BY <1>9, OwnFrames
    <2>2. FadedAll(up, up', d) /\ CalmAll(down, down', d)
        BY <1>2, <1>4, <2>1, CalmSame
    <2>3. made'[d] = made[d]
        BY <1>1, <1>2, <1>9 DEF Plain
    <2>4. Steady(d)
        BY <1>2, <1>4, <2>2, <2>3 DEF Steady, HasNode
    <2> QED BY <1>1, <2>4, SteadyCall DEF IInv
<1>10. CallInv(c)'
    <2>1. /\ Count(up[A], Opening(c)) + Count(down[P], Opening(c)) = 0
          /\ Eof(c) \notin Queued(up[P]) /\ Eof(c) \notin Queued(down[A])
          /\ Behind(up[P], ChunkOf(c), Eof(c)) /\ Behind(down[A], ChunkOf(c), Eof(c))
          /\ st[c] # "idle"
        BY <1>1, <1>2 DEF CallInv, Served
    <2>2. ChunkOf(c) # Opening(c) /\ ChunkOf(c) # Eof(c)
        BY OwnFrames
    <2>3. Count(up[P], ChunkOf(c)) \in Nat /\ Count(down[A], ChunkOf(c)) \in Nat
          /\ Count(up[A], Opening(c)) \in Nat /\ Count(down[P], Opening(c)) \in Nat
        BY <1>1, Numbers
    <2>4. Noted(ChunkOf(c)) => ChunkOf(c) \in lost'
        BY OwnFrames DEF Noted
    <2>5. /\ Count(up'[A], Opening(c)) = Count(up[A], Opening(c))
          /\ Eof(c) \notin Queued(up'[P])
          /\ Behind(up'[P], ChunkOf(c), Eof(c))
          /\ \/ Count(up'[P], ChunkOf(c)) = Count(up[P], ChunkOf(c)) + 1
             \/ ChunkOf(c) \in lost' /\ Count(up'[P], ChunkOf(c)) = Count(up[P], ChunkOf(c))
        <3>1. /\ Eof(c) \notin Queued(up'[P]) /\ Behind(up'[P], ChunkOf(c), Eof(c))
              /\ \/ Count(up'[P], ChunkOf(c)) = Count(up[P], ChunkOf(c)) + 1
                 \/ ChunkOf(c) \in lost' /\ Count(up'[P], ChunkOf(c)) = Count(up[P], ChunkOf(c))
            BY <1>4, <2>1, <2>2, <2>3, <2>4 DEF Sends
        <3>2. CASE A = P
            BY <1>4, <2>1, <2>2, <2>3, <3>1, <3>2 DEF Sends
        <3>3. CASE A # P
            BY <1>3, <1>4, <3>1, <3>3 DEF Sends
        <3> QED BY <3>2, <3>3
    <2>6. Served(c)'
        BY <1>1, <1>2, <2>1, <2>5 DEF CallInv, Served, Caller, Provider
    <2>7. Counted(c)'
        BY <1>1, <1>2, <1>4, <1>5, <2>1, <2>3, <2>5 DEF CallInv, Counted, Caller, Provider, HasNode, Waiting
    <2> QED BY <2>6, <2>7 DEF CallInv
<1> QED BY <1>6, <1>7, <1>8, <1>9, <1>10 DEF IInv

\* The last word of a handler; what else its hub takes is nobody's opening or chunk.
LEMMA EndedStep ==
    ASSUME IInv, NEW c \in Call, serve[c] = "running",
           NEW how \in {"ok", "error", "cancelled"}, Kind[c] = "req" => how # "cancelled",
           Ended(c, how), down' \in Queues(DownFrames), \A d : CalmAll(down, down', d)
    PROVE  IInv'
<1> DEFINE A == Caller(c)  P == Provider(c)
           x == F(IF Kind[c] = "req" THEN "answer" ELSE "eof", c, how)
<1>1. Plain /\ Linked /\ CallInv(c)
    BY DEF IInv
<1>2. /\ serve' = [serve EXCEPT ![c] = "over"] /\ Up(P, x)
      /\ streams' = IF Kind[c] = "req" THEN streams ELSE {d \in streams : ~ SameStream(c, d)}
      /\ st' = st /\ readers' = readers /\ got' = got /\ made' = made
      /\ pending' = pending /\ node' = node /\ inst' = inst /\ link' = link
    BY DEF Ended, kernel, caller
<1>3. /\ P \in Hub /\ A \in Hub /\ x \in UpFrames[P] /\ x # Opening(c) /\ x # ChunkOf(c)
      /\ x.of = c
    <2>1. CASE Kind[c] = "req"
        <3>1. x = F("answer", c, how) /\ how \in {"ok", "error"}
            BY <2>1
        <3>2. x \in Answering(c)
            BY <2>1, <3>1 DEF Answering
        <3>3. x.k = "answer" /\ x.of = c
            BY <3>1 DEF F
        <3> QED BY <3>2, <3>3, FramesOf, Places, OwnFrames
    <2>2. CASE Kind[c] # "req"
        <3>1. x = F("eof", c, how)
            BY <2>2
        <3>2. x \in Answering(c)
            BY <2>2, <3>1 DEF Answering
        <3>3. x.k = "eof" /\ x.of = c
            BY <3>1 DEF F
        <3> QED BY <3>2, <3>3, FramesOf, Places, OwnFrames
    <2> QED BY <2>1, <2>2
<1> HIDE DEF x
<1>4. /\ up' \in Queues(UpFrames) /\ Sends(up, up', P, x)
      /\ lost \subseteq lost' /\ lost' \subseteq Frame
      /\ \A d : x \notin Own(d) => FadedAll(up, up', d)
    BY <1>2, <1>3, HubSends
<1>5. Plain'
    BY <1>1, <1>2, <1>4 DEF Plain
<1>6. Lives' /\ Finite'
    BY <1>2, Lazy
<1>7. Linked'
    BY <1>2, <1>4, <1>6 DEF Linked
<1>8. ASSUME NEW d \in Call, d # c PROVE CallInv(d)'
    <2>1. x \notin Own(d)
        BY <1>3, <1>8, OwnFrames
    <2>2. FadedAll(up, up', d) /\ CalmAll(down, down', d)
        BY <1>4, <2>1
    <2>3. serve'[d] = serve[d] /\ (d \in streams' => d \in streams)
        BY <1>1, <1>2, <1>8 DEF Plain
    <2>4. Steady(d)
        BY <1>2, <1>4, <2>2, <2>3 DEF Steady, HasNode
    <2> QED BY <1>1, <2>4, SteadyCall DEF IInv
<1>9. CallInv(c)'
    <2>1. /\ Count(up[A], Opening(c)) + Count(down[P], Opening(c)) = 0
          /\ Eof(c) \notin Queued(up[P]) /\ Eof(c) \notin Queued(down[A])
          /\ Behind(up[P], ChunkOf(c), Eof(c)) /\ Behind(down[A], ChunkOf(c), Eof(c))
          /\ st[c] # "idle" /\ (c \in streams => Kind[c] = "stream")
        BY <1>1 DEF CallInv, Served
    <2>0. /\ Count(up[P], ChunkOf(c)) \in Nat /\ Count(down[A], ChunkOf(c)) \in Nat
          /\ Count(up[A], Opening(c)) \in Nat /\ Count(down[P], Opening(c)) \in Nat
          /\ got[c] \in Nat /\ made[c] \in Nat
          /\ Noted(ChunkOf(c)) => ChunkOf(c) \in lost'
        BY <1>1, Numbers, OwnFrames DEF Noted
    <2>2. /\ Count(up'[A], Opening(c)) = Count(up[A], Opening(c))
          /\ \/ Count(up'[P], ChunkOf(c)) = Count(up[P], ChunkOf(c))
             \/ ChunkOf(c) \in lost' /\ Count(up'[P], ChunkOf(c)) \in 0..Count(up[P], ChunkOf(c))
          /\ Behind(up'[P], ChunkOf(c), Eof(c))
        <3>1. /\ \/ Count(up'[P], ChunkOf(c)) = Count(up[P], ChunkOf(c))
                 \/ ChunkOf(c) \in lost' /\ Count(up'[P], ChunkOf(c)) \in 0..Count(up[P], ChunkOf(c))
              /\ Behind(up'[P], ChunkOf(c), Eof(c))
            BY <1>3, <1>4, <2>0, <2>1 DEF Sends
        <3>2. CASE A = P
            BY <1>3, <1>4, <2>0, <2>1, <3>1, <3>2 DEF Sends
        <3>3. CASE A # P
            BY <1>3, <1>4, <3>1, <3>3 DEF Sends
        <3> QED BY <3>2, <3>3
    <2>3. /\ Count(down'[P], Opening(c)) = Count(down[P], Opening(c))
          /\ Count(down'[A], ChunkOf(c)) = Count(down[A], ChunkOf(c))
          /\ Eof(c) \notin Queued(down'[A])
          /\ Behind(down'[A], ChunkOf(c), Eof(c))
        BY <1>3, <2>1 DEF CalmAll, Calm
    <2>4. serve'[c] = "over" /\ c \notin streams'
        BY <1>1, <1>2, <2>1 DEF Plain, SameStream
    <2>5. Served(c)'
        BY <1>2, <2>1, <2>2, <2>3, <2>4 DEF Served, Caller, Provider
    <2>6. Counted(c)'
        BY <1>1, <1>2, <1>4, <2>0, <2>2, <2>3, <2>4 DEF CallInv, Counted, Caller, Provider, HasNode, Waiting
    <2> QED BY <2>5, <2>6 DEF CallInv
<1> QED BY <1>5, <1>6, <1>7, <1>8, <1>9 DEF IInv

LEMMA AnswerStep ==
    ASSUME IInv, NEW c \in Call, Answer(c)
    PROVE  IInv'
<1>1. PICK how \in {"ok", "error"} : Ended(c, how)
    BY DEF Answer
<1>2. serve[c] = "running" /\ down' = down
    BY DEF Answer
<1>3. down' \in Queues(DownFrames) /\ \A d : CalmAll(down, down', d)
    BY <1>2, CalmSame DEF IInv, Linked
<1> QED BY <1>1, <1>2, <1>3, EndedStep

LEMMA CancelledStep ==
    ASSUME IInv, NEW h \in Hub, Cancelled(h)
    PROVE  IInv'
<1>0. PICK f : f = Head(down[h])
    OBVIOUS
<1>1. Plain /\ Linked
    BY DEF IInv
<1>2. down[h] # <<>> /\ f.k = "cancel" /\ down' = [down EXCEPT ![h] = Tail(@)]
    BY <1>0 DEF Cancelled
<1>3. /\ down' \in Queues(DownFrames)
      /\ \A d : (f # Opening(d) /\ f # ChunkOf(d)) => CalmAll(down, down', d)
    BY <1>0, <1>2, HubTakes
<1>4. \A d : CalmAll(down, down', d)
    <2>1. \A d : f # Opening(d) /\ f # ChunkOf(d)
        BY <1>2, OwnFrames
    <2> QED BY <1>3, <2>1
<1>5. CASE \E d \in streams : SameStream(d, f.of) /\ Ended(d, "cancelled")
    <2>1. PICK d \in streams : Ended(d, "cancelled")
        BY <1>5
    <2>2. d \in Call /\ serve[d] = "running" /\ Kind[d] = "stream"
        BY <1>1 DEF Plain, IInv, CallInv, Served
    <2> QED BY <1>3, <1>4, <2>1, <2>2, EndedStep
<1>6. CASE UNCHANGED <<caller, provider, kernel, inst, link, out>>
    <2>1. /\ st' = st /\ readers' = readers /\ got' = got /\ serve' = serve /\ made' = made
          /\ streams' = streams /\ pending' = pending /\ node' = node /\ inst' = inst
          /\ link' = link /\ up' = up /\ lost' = lost
        BY <1>6 DEF caller, provider, kernel, out
    <2>2. Plain'
        BY <1>1, <2>1 DEF Plain
    <2>3. Lives' /\ Finite'
        BY <2>1, Lazy
    <2>4. Linked'
        BY <1>1, <1>3, <2>1, <2>3 DEF Linked
    <2>5. ASSUME NEW d \in Call PROVE CallInv(d)'
        <3>1. Steady(d)
            BY <1>4, <2>1, CalmSame DEF Steady, HasNode
        <3> QED BY <1>1, <3>1, SteadyCall DEF IInv
    <2> QED BY <2>2, <2>3, <2>4, <2>5 DEF IInv
<1> QED BY <1>0, <1>5, <1>6 DEF Cancelled

-------------------------------------------------------------------------------
\* The kernel's steps.

LEMMA ForwardStep ==
    ASSUME IInv, NEW h \in Hub, Forward(h)
    PROVE  IInv'
<1>0. PICK f, c : f = Head(up[h]) /\ c = f.of
    OBVIOUS
<1> DEFINE A == Caller(c)  P == Provider(c)
<1>1. Plain /\ Linked
    BY DEF IInv
<1>2. /\ up[h] # <<>> /\ f.k = "call" /\ up' = [up EXCEPT ![h] = Tail(@)]
      /\ st' = st /\ readers' = readers /\ got' = got /\ serve' = serve /\ made' = made
      /\ streams' = streams /\ node' = node /\ inst' = inst /\ link' = link /\ lost' = lost
      /\ pending' \subseteq pending \cup {c}
      /\ down' \in {down, Down(down, A, Failure(c)), Down(down, P, f)}
    BY <1>0 DEF Forward, provider, caller
<1>3. /\ up' \in Queues(UpFrames) /\ Takes(up, up', h)
      /\ f \in UpFrames[h]
      /\ \A d : (f # Opening(d) /\ f # ChunkOf(d)) => FadedAll(up, up', d)
    BY <1>0, <1>2, KernelTakes
<1>4. /\ c \in Call /\ f = Opening(c) /\ A = h /\ A \in Hub /\ P \in Hub
      /\ ChunkOf(c) # Opening(c) /\ Eof(c) # Opening(c)
    BY <1>0, <1>2, <1>3, UpFrame, Places, OwnFrames DEF About
<1>5. /\ down' \in Queues(DownFrames)
      /\ \A d \in Call : d # c => CalmAll(down, down', d)
      /\ Count(down'[P], Opening(c)) \in {Count(down[P], Opening(c)), Count(down[P], Opening(c)) + 1}
      /\ Count(down'[A], ChunkOf(c)) = Count(down[A], ChunkOf(c))
      /\ Eof(c) \in Queued(down'[A]) => Eof(c) \in Queued(down[A])
      /\ Behind(down[A], ChunkOf(c), Eof(c)) => Behind(down'[A], ChunkOf(c), Eof(c))
    <2>1. CASE down' = down
        BY <1>1, <2>1, CalmSame DEF Linked
    <2>2. CASE down' = Down(down, A, Failure(c))
        <3>1. Failure(c) \in DownFrames[A] /\ \A d : Failure(c) \notin Own(d)
            BY <1>4, FramesOf
        <3>2. down' \in Queues(DownFrames) /\ \A d : CalmAll(down, down', d)
            BY <1>4, <2>2, <3>1, KernelSends
        <3>3. Calm(down[P], down'[P], c) /\ Calm(down[A], down'[A], c)
            BY <1>4, <3>2 DEF CalmAll
        <3>4. /\ Count(down'[P], Opening(c)) = Count(down[P], Opening(c))
              /\ Count(down'[A], ChunkOf(c)) = Count(down[A], ChunkOf(c))
              /\ Eof(c) \in Queued(down'[A]) => Eof(c) \in Queued(down[A])
              /\ Behind(down[A], ChunkOf(c), Eof(c)) => Behind(down'[A], ChunkOf(c), Eof(c))
            BY <3>3 DEF Calm
        <3> QED BY <3>2, <3>4
    <2>3. CASE down' = Down(down, P, f)
        <3>1. f \in DownFrames[P] /\ \A d \in Call : d # c => f \notin Own(d)
            <4>1. f \in Asking(c)
                BY <1>4 DEF Asking, Opening
            <4>2. f \in DownFrames[P]
                BY <1>4, <4>1, FramesOf
            <4>3. \A d : f \in Own(d) => f.of = d
                BY OwnFrames
            <4> QED BY <1>0, <4>2, <4>3
        <3>2. /\ down' \in Queues(DownFrames) /\ Puts(down, down', link[P] = "up", P, f)
              /\ \A d : f \notin Own(d) => CalmAll(down, down', d)
            BY <1>4, <2>3, <3>1, KernelSends
        <3>3. Count(down'[P], Opening(c)) \in {Count(down[P], Opening(c)), Count(down[P], Opening(c)) + 1}
            BY <1>4, <3>2 DEF Puts
        <3>4. /\ Count(down'[A], ChunkOf(c)) = Count(down[A], ChunkOf(c))
              /\ Eof(c) \in Queued(down'[A]) => Eof(c) \in Queued(down[A])
              /\ Behind(down[A], ChunkOf(c), Eof(c)) => Behind(down'[A], ChunkOf(c), Eof(c))
            BY <1>4, <3>2 DEF Puts
        <3> QED BY <3>1, <3>2, <3>3, <3>4
    <2> QED BY <1>2, <2>1, <2>2, <2>3
<1>6. CallInv(c)
    BY <1>4 DEF IInv
<1>7. /\ Count(up[A], Opening(c)) = Count(up'[A], Opening(c)) + 1
      /\ Count(up'[P], ChunkOf(c)) = Count(up[P], ChunkOf(c))
      /\ Eof(c) \in Queued(up'[P]) => Eof(c) \in Queued(up[P])
      /\ Behind(up[P], ChunkOf(c), Eof(c)) => Behind(up'[P], ChunkOf(c), Eof(c))
    BY <1>0, <1>3, <1>4 DEF Takes
<1>8. Count(up'[A], Opening(c)) \in Nat /\ Count(down[P], Opening(c)) \in Nat
    <2>1. up'[A] \in Seq(Frame)
        BY <1>3, <1>4 DEF Queues
    <2> QED BY <2>1, <1>1, <1>4, Numbers, CountZero
<1>9. /\ st[c] # "idle" /\ serve[c] = "none"
      /\ Count(up'[A], Opening(c)) + Count(down'[P], Opening(c)) <= 1
    <2>1. Count(up[A], Opening(c)) + Count(down[P], Opening(c)) # 0
        BY <1>7, <1>8
    <2>2. st[c] # "idle" /\ serve[c] = "none"
        BY <1>6, <2>1 DEF CallInv, Served
    <2>3. Count(up[A], Opening(c)) + Count(down[P], Opening(c)) <= 1
        BY <1>6 DEF CallInv, Served
    <2>4. Count(up'[A], Opening(c)) + Count(down'[P], Opening(c)) <= 1
        BY <2>3, <1>5, <1>7, <1>8
    <2> QED BY <2>2, <2>4
<1>10. c \in Asked
    BY <1>4, <1>9 DEF Asked
<1>11. Plain'
    BY <1>1, <1>2, <1>4 DEF Plain
<1>12. Lives' /\ Finite'
    BY <1>2, <1>10, Lazy
<1>13. Linked'
    BY <1>2, <1>3, <1>5, <1>12 DEF Linked
<1>14. ASSUME NEW d \in Call, d # c PROVE CallInv(d)'
    <2>1. f # Opening(d) /\ f # ChunkOf(d)
        BY <1>0, <1>14, OwnFrames
    <2>2. FadedAll(up, up', d) /\ CalmAll(down, down', d)
        BY <1>3, <1>5, <1>14, <2>1
    <2>3. Steady(d)
        BY <1>2, <2>2 DEF Steady, HasNode
    <2> QED BY <1>1, <2>3, SteadyCall DEF IInv
<1>15. CallInv(c)'
    <2>1. Served(c)'
        BY <1>2, <1>5, <1>6, <1>7, <1>9 DEF CallInv, Served, Caller, Provider
    <2>2. Counted(c)'
        BY <1>2, <1>5, <1>6, <1>7 DEF CallInv, Counted, Caller, Provider, HasNode, Waiting
    <2> QED BY <2>1, <2>2 DEF CallInv
<1> QED BY <1>11, <1>12, <1>13, <1>14, <1>15 DEF IInv

LEMMA ReturnStep ==
    ASSUME IInv, NEW h \in Hub, Return(h)
    PROVE  IInv'
<1>0. PICK f, c : f = Head(up[h]) /\ c = f.of
    OBVIOUS
<1> DEFINE A == Caller(c)  P == Provider(c)
           r == IF f.k = "cancel" THEN To[c] ELSE From[c]
<1>1. Plain /\ Linked
    BY DEF IInv
<1>2. /\ up[h] # <<>> /\ f.k \in {"answer", "chunk", "eof", "cancel"}
      /\ up' = [up EXCEPT ![h] = Tail(@)]
      /\ st' = st /\ readers' = readers /\ got' = got /\ serve' = serve /\ made' = made
      /\ streams' = streams /\ node' = node /\ inst' = inst /\ link' = link /\ lost' = lost
      /\ pending' \subseteq pending
      /\ down' = IF HasNode(r) THEN Down(down, Home[r], f) ELSE down
    BY <1>0 DEF Return, provider, caller
<1>3. /\ up' \in Queues(UpFrames) /\ Takes(up, up', h)
      /\ f \in UpFrames[h]
      /\ \A d : (f # Opening(d) /\ f # ChunkOf(d)) => FadedAll(up, up', d)
    BY <1>0, <1>2, KernelTakes
<1>4. /\ c \in Call /\ About(f, c) /\ A \in Hub /\ P \in Hub
      /\ \/ f.k = "cancel" /\ f \in Asking(c)
         \/ f.k # "cancel" /\ f \in Answering(c) /\ P = h
    BY <1>0, <1>2, <1>3, UpFrame, Places DEF About
<1>5. CallInv(c)
    BY <1>4 DEF IInv
<1>6. f \in DownFrames[Home[r]] /\ Home[r] \in Hub /\ (f.k # "cancel" => Home[r] = A)
    BY <1>4, FramesOf, Places DEF Caller, Provider
<1>7. /\ down' \in Queues(DownFrames)
      /\ \A d : f \notin Own(d) => CalmAll(down, down', d)
      /\ HasNode(r) => Puts(down, down', link[Home[r]] = "up", Home[r], f)
      /\ ~ HasNode(r) => down' = down
    <2>1. CASE HasNode(r)
        BY <1>2, <1>6, <2>1, KernelSends
    <2>2. CASE ~ HasNode(r)
        BY <1>1, <1>2, <2>2, CalmSame DEF Linked
    <2> QED BY <2>1, <2>2
<1>8. Plain'
    BY <1>1, <1>2, <1>4 DEF Plain
<1>9. Lives' /\ Finite'
    BY <1>2, Lazy
<1>10. Linked'
    BY <1>2, <1>3, <1>7, <1>9 DEF Linked
<1>11. ASSUME NEW d \in Call, f \notin Own(d) PROVE CallInv(d)'
    <2>1. f # Opening(d) /\ f # ChunkOf(d)
        BY <1>11 DEF Own
    <2>2. FadedAll(up, up', d) /\ CalmAll(down, down', d)
        BY <1>3, <1>7, <1>11, <2>1
    <2>3. Steady(d)
        BY <1>2, <2>2 DEF Steady, HasNode
    <2> QED BY <1>1, <2>3, SteadyCall DEF IInv
<1>12. ASSUME f = ChunkOf(c) PROVE CallInv(c)'
    <2>1. f.k = "chunk" /\ P = h /\ r = From[c] /\ Home[r] = A
        BY <1>4, <1>6, <1>12, OwnFrames
    <2>2. /\ ChunkOf(c) # Opening(c) /\ ChunkOf(c) # Eof(c)
          /\ f \in Queued(up[P])
        BY <1>0, <1>3, <2>1, OwnFrames DEF Takes
    <2>3. Eof(c) \notin Queued(down[A])
        <3>1. Count(up[P], ChunkOf(c)) # 0
            BY <1>1, <1>4, <1>12, <2>2, Numbers
        <3> QED BY <1>5, <3>1 DEF CallInv, Served
    <2>4. /\ Count(up[P], ChunkOf(c)) = Count(up'[P], ChunkOf(c)) + 1
          /\ Count(up'[A], Opening(c)) = Count(up[A], Opening(c))
          /\ Eof(c) \in Queued(up'[P]) => Eof(c) \in Queued(up[P])
          /\ Behind(up[P], ChunkOf(c), Eof(c)) => Behind(up'[P], ChunkOf(c), Eof(c))
        BY <1>0, <1>3, <1>4, <1>12, <2>1, <2>2 DEF Takes
    <2>5. /\ Count(down'[P], Opening(c)) = Count(down[P], Opening(c))
          /\ Eof(c) \notin Queued(down'[A])
          /\ Behind(down[A], ChunkOf(c), Eof(c)) => Behind(down'[A], ChunkOf(c), Eof(c))
        <3>1. CASE HasNode(r)
            BY <1>4, <1>7, <1>12, <2>1, <2>2, <2>3, <3>1 DEF Puts
        <3>2. CASE ~ HasNode(r)
            BY <1>7, <2>3, <3>2
        <3> QED BY <3>1, <3>2
    <2>6. /\ HasNode(From[c]) /\ link[A] = "up" => Count(down'[A], ChunkOf(c)) = Count(down[A], ChunkOf(c)) + 1
          /\ Count(down'[A], ChunkOf(c)) \in {Count(down[A], ChunkOf(c)), Count(down[A], ChunkOf(c)) + 1}
        <3>1. CASE HasNode(r)
            BY <1>4, <1>7, <1>12, <2>1, <3>1 DEF Puts
        <3>2. CASE ~ HasNode(r)
            BY <1>7, <2>1, <3>2
        <3> QED BY <3>1, <3>2
    <2>7. Served(c)'
        BY <1>2, <1>5, <2>4, <2>5 DEF CallInv, Served, Caller, Provider
    <2>8. /\ Count(up'[P], ChunkOf(c)) \in Nat /\ Count(down[A], ChunkOf(c)) \in Nat
          /\ got[c] \in Nat /\ made[c] \in Nat
        <3>1. up'[P] \in Seq(Frame)
            BY <1>3, <1>4 DEF Queues
        <3> QED BY <3>1, <1>1, <1>4, Numbers, CountZero
    <2>9. Counted(c)'
        <3> DEFINE near == Count(down[A], ChunkOf(c))  late == Count(up'[P], ChunkOf(c))
                   nearer == Count(down'[A], ChunkOf(c))
        <3>1. /\ got[c] + near + (late + 1) <= made[c]
              /\ (c \in readers /\ Waiting(c) /\ HasNode(From[c]) /\ link[A] = "up" /\ ChunkOf(c) \notin lost) =>
                    got[c] + near + (late + 1) = made[c]
              /\ (Kind[c] = "stream" /\ st[c] = "ok" /\ ChunkOf(c) \notin lost) => (got[c] = made[c] /\ serve[c] = "over")
            BY <1>5, <2>4 DEF CallInv, Counted
        <3>2. near \in Nat /\ late \in Nat /\ nearer \in {near, near + 1}
              /\ ((HasNode(From[c]) /\ link[A] = "up") => nearer = near + 1)
            BY <2>6, <2>8
        <3> HIDE DEF near, late, nearer
        <3>3. got[c] + nearer + late <= made[c]
            BY <3>1, <3>2, <2>8
        <3>4. (c \in readers /\ Waiting(c) /\ HasNode(From[c]) /\ link[A] = "up" /\ ChunkOf(c) \notin lost) =>
                    got[c] + nearer + late = made[c]
            BY <3>1, <3>2, <2>8
        <3> QED BY <1>2, <2>5, <3>1, <3>3, <3>4 DEF Counted, Caller, Provider, HasNode, Waiting, nearer, late
    <2> QED BY <2>7, <2>9 DEF CallInv
<1>13. ASSUME f = Eof(c) PROVE CallInv(c)'
    <2>1. f.k = "eof" /\ P = h /\ r = From[c] /\ Home[r] = A
        BY <1>4, <1>6, <1>13, OwnFrames
    <2>2. /\ Eof(c) # Opening(c) /\ ChunkOf(c) # Eof(c)
          /\ f \in Queued(up[P])
        BY <1>0, <1>3, <2>1, OwnFrames DEF Takes
    <2>3. serve[c] = "over" /\ Behind(up[P], ChunkOf(c), Eof(c))
        BY <1>5, <1>13, <2>2 DEF CallInv, Served
    <2>4. Count(up[P], ChunkOf(c)) = 0
        <3>1. ChunkOf(c) \notin Queued(up[P])
            BY <1>0, <1>3, <1>13, <2>1, <2>3 DEF Takes
        <3> QED BY <3>1, <1>1, <1>4, Numbers
    <2>5. /\ Count(up'[P], ChunkOf(c)) = Count(up[P], ChunkOf(c))
          /\ Count(up'[A], Opening(c)) = Count(up[A], Opening(c))
          /\ Behind(up'[P], ChunkOf(c), Eof(c))
        BY <1>0, <1>3, <1>4, <1>13, <2>2, <2>3 DEF Takes
    <2>6. /\ Count(down'[P], Opening(c)) = Count(down[P], Opening(c))
          /\ Count(down'[A], ChunkOf(c)) = Count(down[A], ChunkOf(c))
          /\ Behind(down[A], ChunkOf(c), Eof(c)) => Behind(down'[A], ChunkOf(c), Eof(c))
          /\ Eof(c) \in Queued(down'[A]) => Eof(c) \in Queued(down[A]) \/ (HasNode(From[c]) /\ link[A] = "up")
        <3>1. CASE HasNode(r)
            BY <1>4, <1>7, <1>13, <2>1, <2>2, <3>1 DEF Puts
        <3>2. CASE ~ HasNode(r)
            BY <1>7, <3>2
        <3> QED BY <3>1, <3>2
    <2>7. Served(c)'
        BY <1>2, <1>5, <2>3, <2>4, <2>5, <2>6 DEF CallInv, Served, Caller, Provider
    <2>8. Count(down[A], ChunkOf(c)) \in Nat /\ got[c] \in Nat /\ made[c] \in Nat
        BY <1>1, <1>4, Numbers
    <2>9. Counted(c)'
        BY <1>2, <1>5, <2>4, <2>5, <2>6, <2>8 DEF CallInv, Counted, Caller, Provider, HasNode, Waiting
    <2> QED BY <2>7, <2>9 DEF CallInv
<1>14. ASSUME NEW d \in Call PROVE CallInv(d)'
    <2>1. CASE f \notin Own(d)
        BY <1>11, <2>1
    <2>2. CASE f \in Own(d)
        <3>1. d = c /\ f # Opening(c)
            BY <1>0, <1>2, <2>2, OwnFrames
        <3> QED BY <1>12, <1>13, <2>2, <3>1 DEF Own
    <2> QED BY <2>1, <2>2
<1> QED BY <1>8, <1>9, <1>10, <1>14 DEF IInv

\* Every call to r that is in flight fails: its caller, if there is still a connection to
\* it, is told.
LEMMA FailPendingDoes ==
    ASSUME IInv, NEW r \in Routine, FailPending(r)
    PROVE  /\ down' \in Queues(DownFrames) /\ \A d : CalmAll(down, down', d)
           /\ pending' = {c \in pending : To[c] # r}
           /\ \A h \in Hub : Queued(down[h]) \subseteq Queued(down'[h])
           /\ \A c \in pending : (To[c] = r /\ link[Caller(c)] = "up") => Failure(c) \in Queued(down'[Caller(c)])
<1> DEFINE dead == {c \in pending : To[c] = r}
           D(h) == {d \in dead : Caller(d) = h}
           B(h) == {Failure(c) : c \in D(h)}
           s == [h \in Hub |-> SetToSeq(B(h))]
<1>1. /\ down \in Queues(DownFrames) /\ DownFrames \in [Hub -> SUBSET Frame]
      /\ pending \subseteq Call /\ pending \subseteq Asked /\ IsFiniteSet(Asked)
    BY FrameSets DEF IInv, Linked, Plain, Finite
<1>2. ASSUME NEW h \in Hub
      PROVE  /\ s[h] \in Seq(DownFrames[h]) /\ Queued(s[h]) = B(h)
             /\ \A d : Own(d) \cap Queued(s[h]) = {}
    <2>1. IsFiniteSet(D(h))
        BY <1>1, FS_Subset
    <2>2. IsFiniteSet(B(h))
        <3> DEFINE g == [c \in D(h) |-> Failure(c)]
        <3>1. g \in Surjection(D(h), B(h))
            BY DEF Surjection
        <3> HIDE DEF g, D, B
        <3> QED BY <2>1, <3>1, FS_Surjection
    <2>3. B(h) \subseteq DownFrames[h]
        BY <1>1, FramesOf
    <2>4. s[h] = SetToSeq(B(h))
        OBVIOUS
    <2>5. \A d : Own(d) \cap B(h) = {}
        BY <1>1, FramesOf
    <2> HIDE DEF B, s
    <2> QED BY <2>2, <2>3, <2>4, <2>5, QueueOfSet
<1>3. /\ pending' = pending \ dead
      /\ down' = [h \in Hub |-> IF link[h] # "up" THEN down[h] ELSE down[h] \o s[h]]
    BY DEF FailPending
<1>4. \A c \in pending : To[c] = r => Caller(c) \in Hub /\ Failure(c) \in B(Caller(c))
    BY <1>1, Places
<1>5. pending' = {c \in pending : To[c] # r}
    BY <1>3
<1> HIDE DEF s, B
<1>6. /\ down' \in Queues(DownFrames) /\ AllPuts(down, down', link, s)
      /\ \A d : CalmAll(down, down', d)
    <2>1. PICK l, w : l = link /\ w = down'
        OBVIOUS
    <2>2. /\ \A h \in Hub : s[h] \in Seq(DownFrames[h])
          /\ \A d : \A h \in Hub : Own(d) \cap Queued(s[h]) = {}
        BY <1>2
    <2>3. w = [h \in Hub |-> IF l[h] # "up" THEN down[h] ELSE down[h] \o s[h]]
        BY <1>3, <2>1
    <2>4. PICK q, e : q = down /\ e = s
        OBVIOUS
    <2>5. /\ w \in Queues(DownFrames) /\ AllPuts(q, w, l, e)
          /\ \A d : (\A h \in Hub : Own(d) \cap Queued(e[h]) = {}) => CalmAll(q, w, d)
        <3>1. \A h \in Hub : e[h] \in Seq(DownFrames[h])
            BY <2>2, <2>4
        <3>2. w = PutAll(q, l, e)
            BY <2>3, <2>4 DEF PutAll
        <3>3. DownFrames \in [Hub -> SUBSET Frame] /\ q \in Queues(DownFrames)
            BY <1>1, <2>4
        <3> QED BY <3>1, <3>2, <3>3, AllPutIn
    <2> QED BY <2>1, <2>2, <2>4, <2>5
<1>7. /\ \A h \in Hub : Queued(down[h]) \subseteq Queued(down'[h])
      /\ \A c \in pending : (To[c] = r /\ link[Caller(c)] = "up") => Failure(c) \in Queued(down'[Caller(c)])
    BY <1>2, <1>4, <1>6 DEF AllPuts
<1> QED BY <1>5, <1>6, <1>7

\* The steps that touch the kernel's tables only, but for what they send and take of what
\* is no call's opening or chunk.
LEMMA TableStep ==
    ASSUME IInv, up' \in Queues(UpFrames), down' \in Queues(DownFrames),
           \A d : FadedAll(up, up', d) /\ CalmAll(down, down', d),
           pending' \subseteq pending, node' \in [Routine -> {"up", "ending", "givenup", "gone"}],
           \A r \in Routine : HasNode(r)' => HasNode(r),
           UNCHANGED <<caller, provider, inst, link, lost>>
    PROVE  IInv'
<1>1. Plain /\ Linked
    BY DEF IInv
<1>2. /\ st' = st /\ readers' = readers /\ got' = got /\ serve' = serve /\ made' = made
      /\ streams' = streams /\ inst' = inst /\ link' = link /\ lost' = lost
    BY DEF caller, provider
<1>3. Plain'
    BY <1>1, <1>2 DEF Plain
<1>4. Lives' /\ Finite'
    BY <1>2, Lazy
<1>5. Linked'
    BY <1>2, <1>4 DEF Linked
<1>6. ASSUME NEW d \in Call PROVE CallInv(d)'
    <2>1. Steady(d)
        BY <1>2, Places DEF Steady
    <2> QED BY <1>1, <2>1, SteadyCall DEF IInv
<1> QED BY <1>3, <1>4, <1>5, <1>6 DEF IInv

LEMMA StoppedStep ==
    ASSUME IInv, NEW h \in Hub, Stopped(h)
    PROVE  IInv'
<1>0. PICK f, r : f = Head(up[h]) /\ r = f.of
    OBVIOUS
<1>1. /\ up[h] # <<>> /\ f.k = "stopped" /\ up' = [up EXCEPT ![h] = Tail(@)]
      /\ FailPending(r) /\ node' = [node EXCEPT ![r] = IF @ = "up" THEN "ending" ELSE "gone"]
      /\ UNCHANGED <<caller, provider, inst, link, lost>>
    BY <1>0 DEF Stopped
<1>2. /\ up' \in Queues(UpFrames) /\ f \in UpFrames[h]
      /\ \A d : (f # Opening(d) /\ f # ChunkOf(d)) => FadedAll(up, up', d)
    BY <1>0, <1>1, KernelTakes
<1>3. r \in Routine
    BY <1>0, <1>1, <1>2, UpFrame
<1>4. \A d : FadedAll(up, up', d)
    <2>1. \A d : f # Opening(d) /\ f # ChunkOf(d)
        BY <1>1, OwnFrames
    <2> QED BY <1>2, <2>1
<1>5. /\ down' \in Queues(DownFrames) /\ \A d : CalmAll(down, down', d)
      /\ pending' \subseteq pending
    BY <1>1, <1>3, FailPendingDoes
<1>6. /\ node' \in [Routine -> {"up", "ending", "givenup", "gone"}]
      /\ \A q \in Routine : HasNode(q)' => HasNode(q)
    BY <1>1, <1>3 DEF HasNode, IInv, Plain
<1> QED BY <1>1, <1>2, <1>4, <1>5, <1>6, TableStep

LEMMA NodeSteps ==
    ASSUME IInv, NEW r \in Routine, Removed(r) \/ GiveUp(r)
    PROVE  IInv'
<1>1. /\ node' \in [Routine -> {"up", "ending", "givenup", "gone"}]
      /\ \A q \in Routine : HasNode(q)' => HasNode(q)
    BY DEF Removed, GiveUp, HasNode, IInv, Plain
<1>2. /\ up' = up /\ down' = down /\ pending' = pending
      /\ UNCHANGED <<caller, provider, inst, link, lost>>
    BY DEF Removed, GiveUp, out
<1>3. /\ up' \in Queues(UpFrames) /\ down' \in Queues(DownFrames)
      /\ \A d : FadedAll(up, up', d) /\ CalmAll(down, down', d)
    BY <1>2, CalmSame DEF IInv, Linked
<1> QED BY <1>1, <1>2, <1>3, TableStep

LEMMA SettleStep ==
    ASSUME IInv, NEW r \in Routine, Settle(r)
    PROVE  IInv'
<1>1. /\ FailPending(r) /\ node' = [node EXCEPT ![r] = "gone"] /\ up' = up
      /\ UNCHANGED <<caller, provider, inst, link, lost>>
    BY DEF Settle, out
<1>2. /\ node' \in [Routine -> {"up", "ending", "givenup", "gone"}]
      /\ \A q \in Routine : HasNode(q)' => HasNode(q)
    BY <1>1 DEF HasNode, IInv, Plain
<1>3. up' \in Queues(UpFrames) /\ \A d : FadedAll(up, up', d)
    BY <1>1, CalmSame DEF IInv, Linked
<1>4. /\ down' \in Queues(DownFrames) /\ \A d : CalmAll(down, down', d)
      /\ pending' \subseteq pending
    BY <1>1, FailPendingDoes
<1> QED BY <1>1, <1>2, <1>3, <1>4, TableStep

-------------------------------------------------------------------------------
\* Ends.

\* The calls of r that waited do so no more.
LEMMA OverDoes ==
    ASSUME Plain, NEW r \in Routine, Over(r)
    PROVE  /\ st' \in [Call -> {"idle", "wait", "open", "ok", "failed", "timeout", "left", "lost"}]
           /\ inst' = [inst EXCEPT ![r] = FALSE] /\ readers' = readers /\ got' = got
           /\ serve' = serve /\ made' = made /\ streams' = streams
           /\ pending' = pending /\ node' = node /\ link' = link /\ down' = down
           /\ \A c \in Call : /\ (st'[c] # "idle") => (st[c] # "idle")
                              /\ (st[c] # "idle") => (st'[c] # "idle")
                              /\ (st'[c] = "ok") => (st[c] = "ok")
                              /\ (st'[c] \in {"wait", "open"}) =>
                                    (st[c] \in {"wait", "open"} /\ From[c] # r)
<1>1. ASSUME NEW c \in Call
      PROVE  \/ From[c] = r /\ st[c] = "wait" /\ st'[c] = "lost"
             \/ st'[c] = st[c] /\ (From[c] = r => st[c] \notin {"wait", "open"})
    BY DEF Over
<1>2. st' = [c \in Call |-> st'[c]]
    BY DEF Over
<1>3. \A c \in Call : st'[c] \in {"idle", "wait", "open", "ok", "failed", "timeout", "left", "lost"}
    BY <1>1 DEF Plain
<1>4. st' \in [Call -> {"idle", "wait", "open", "ok", "failed", "timeout", "left", "lost"}]
    BY <1>2, <1>3
<1>5. /\ inst' = [inst EXCEPT ![r] = FALSE] /\ readers' = readers /\ got' = got
      /\ serve' = serve /\ made' = made /\ streams' = streams
      /\ pending' = pending /\ node' = node /\ link' = link /\ down' = down
    BY DEF Over, provider, kernel
<1> QED BY <1>1, <1>4, <1>5

\* The end of an instance, reported or not: nothing that counts is sent.
LEMMA OverStep ==
    ASSUME IInv, NEW r \in Routine, Over(r), up' \in Queues(UpFrames),
           \A d : FadedAll(up, up', d), lost \subseteq lost', lost' \subseteq Frame
    PROVE  IInv'
<1>1. Plain /\ Linked /\ Finite
    BY DEF IInv
<1>2. /\ st' \in [Call -> {"idle", "wait", "open", "ok", "failed", "timeout", "left", "lost"}]
      /\ inst' = [inst EXCEPT ![r] = FALSE] /\ readers' = readers /\ got' = got
      /\ serve' = serve /\ made' = made /\ streams' = streams
      /\ pending' = pending /\ node' = node /\ link' = link /\ down' = down
      /\ \A c \in Call : /\ (st'[c] # "idle") => (st[c] # "idle")
                         /\ (st[c] # "idle") => (st'[c] # "idle")
                         /\ (st'[c] = "ok") => (st[c] = "ok")
                         /\ (st'[c] \in {"wait", "open"}) =>
                               (st[c] \in {"wait", "open"} /\ From[c] # r)
    BY <1>1, OverDoes
<1>3. Plain'
    BY <1>1, <1>2 DEF Plain
<1>4. Finite'
    <2>1. Asked' = Asked
        BY <1>2 DEF Asked
    <2> QED BY <1>1, <1>2, <2>1 DEF Finite
<1>5. Lives'
    <2>1. \A q \in Routine : (inst'[q] => inst[q]) /\ (q # r => inst'[q] = inst[q])
        BY <1>1, <1>2 DEF Plain
    <2> QED BY <1>1, <1>2, <2>1, Places DEF Linked, Lives, Waiting
<1>6. Linked'
    BY <1>1, <1>2, <1>5 DEF Linked
<1>7. ASSUME NEW d \in Call PROVE CallInv(d)'
    <2>1. CalmAll(down, down', d)
        BY <1>2, CalmSame
    <2>2. Steady(d)
        BY <1>2, <2>1 DEF Steady, HasNode
    <2> QED BY <1>1, <2>2, SteadyCall DEF IInv
<1> QED BY <1>3, <1>4, <1>6, <1>7 DEF IInv

LEMMA EndSays ==
    ASSUME IInv, NEW r \in Routine, End(r)
    PROVE  /\ up' \in Queues(UpFrames) /\ \A d : FadedAll(up, up', d)
           /\ lost \subseteq lost' /\ lost' \subseteq Frame
           /\ Sends(up, up', Home[r], F("stopped", r, ""))
<1>1. PICK x : x = F("stopped", r, "")
    OBVIOUS
<1>2. Home[r] \in Hub /\ x \in UpFrames[Home[r]] /\ Up(Home[r], x)
    BY <1>1, Places, FrameSets DEF UpFrames, End
<1>3. \A d : x \notin Own(d)
    <2>1. x.k = "stopped"
        BY <1>1 DEF F
    <2> QED BY <2>1, OwnFrames
<1> QED BY <1>1, <1>2, <1>3, HubSends

LEMMA EndSteps ==
    ASSUME IInv, NEW r \in Routine, End(r) \/ EndLocally(r)
    PROVE  IInv'
<1>1. CASE End(r)
    BY <1>1, EndSays, OverStep DEF End
<1>2. CASE EndLocally(r)
    <2>1. Over(r) /\ up' = up /\ lost' = lost
        BY <1>2 DEF EndLocally, out
    <2>2. up' \in Queues(UpFrames) /\ (\A d : FadedAll(up, up', d)) /\ lost' \subseteq Frame
        BY <2>1, CalmSame DEF IInv, Linked, Plain
    <2> QED BY <2>1, <2>2, OverStep
<1> QED BY <1>1, <1>2

\* The queue of h is gone.
Clears(u, w, h) ==
    /\ \A g \in Hub : g # h => w[g] = u[g]
    /\ Queued(w[h]) = {} /\ (\A y : Count(w[h], y) = 0) /\ \A x, y : Behind(w[h], x, y)

LEMMA Emptied ==
    ASSUME NEW frames \in [Hub -> SUBSET Frame], NEW u \in Queues(frames),
           NEW h \in Hub, NEW w, w = [u EXCEPT ![h] = <<>>]
    PROVE  w \in Queues(frames) /\ Clears(u, w, h)
<1>1. /\ u \in [Hub -> Seq(Frame)]
      /\ \A g \in Hub : u[g] \in Seq(frames[g])
    BY DEF Queues
<1>2. /\ w[h] = <<>> /\ (\A g \in Hub : g # h => w[g] = u[g])
      /\ DOMAIN w = Hub /\ w = [g \in Hub |-> w[g]]
    BY <1>1
<1>3. <<>> \in Seq(frames[h]) /\ <<>> \in Seq(Frame) /\ DOMAIN <<>> = {}
    OBVIOUS
<1>4. w \in Queues(frames)
    <2>1. \A g \in Hub : w[g] \in Seq(Frame) /\ w[g] \in Seq(frames[g])
        BY <1>1, <1>2, <1>3
    <2>2. w \in [Hub -> Seq(Frame)]
        BY <1>2, <2>1
    <2> QED BY <2>1, <2>2 DEF Queues
<1>5. Queued(w[h]) = {} /\ \A x, y : Behind(w[h], x, y)
    BY <1>2, <1>3 DEF Queued, Behind
<1>6. \A y : Count(w[h], y) = 0
    <2>1. w[h] \in Seq(Frame)
        BY <1>2, <1>3
    <2> QED BY <1>5, <2>1, CountZero
<1> QED BY <1>2, <1>4, <1>5, <1>6 DEF Clears

\* The calls of the hub's routines are not counted any more; what its queue held is gone.
LEMMA DropStep ==
    ASSUME IInv, NEW h \in Hub, Drop(h)
    PROVE  IInv'
<1>1. Plain /\ Linked /\ Finite
    BY DEF IInv
<1>2. /\ link' = [link EXCEPT ![h] = "down"] /\ pending' \subseteq pending
      /\ up' = [up EXCEPT ![h] = <<>>] /\ down' = [down EXCEPT ![h] = <<>>]
      /\ st' = st /\ readers' = readers /\ got' = got /\ serve' = serve /\ made' = made
      /\ streams' = streams /\ node' = node /\ inst' = inst
    BY DEF Drop, caller, provider
<1>3. up' \in Queues(UpFrames) /\ Clears(up, up', h)
    <2>1. up \in Queues(UpFrames) /\ UpFrames \in [Hub -> SUBSET Frame] /\ up' = [up EXCEPT ![h] = <<>>]
        BY <1>1, <1>2, FrameSets DEF Linked
    <2> QED BY <2>1, Emptied
<1>4. down' \in Queues(DownFrames) /\ Clears(down, down', h)
    <2>1. /\ down \in Queues(DownFrames) /\ DownFrames \in [Hub -> SUBSET Frame]
          /\ down' = [down EXCEPT ![h] = <<>>]
        BY <1>1, <1>2, FrameSets DEF Linked
    <2> QED BY <2>1, Emptied
<1>5. /\ lost \subseteq lost' /\ lost' \subseteq Frame
      /\ \A y \in Queued(up[h]) : y.k \in {"call", "chunk", "cancel"} => y \in lost'
    <2>1. Loses(ToSet(up[h])) /\ ToSet(up[h]) = Queued(up[h])
        BY DEF Drop, ToSet, Queued
    <2>2. Queued(up[h]) \subseteq Frame
        <3>1. up[h] \in Seq(Frame)
            BY <1>1 DEF Linked, Queues
        <3> QED BY <3>1 DEF Queued
    <2> QED BY <1>1, <2>1, <2>2 DEF Loses, Plain
<1>6. Plain'
    BY <1>1, <1>2, <1>5 DEF Plain
<1>7. Finite'
    <2>1. Asked' = Asked
        BY <1>2 DEF Asked
    <2> QED BY <1>1, <1>2, <2>1 DEF Finite
<1>8. /\ link'[h] = "down" /\ \A g \in Hub : g # h => link'[g] = link[g]
    BY <1>1, <1>2 DEF Plain
<1>9. Linked'
    <2>1. Lives'
        BY <1>1, <1>2, <1>8, Places DEF Linked, Lives, Waiting
    <2> QED BY <1>3, <1>4, <2>1 DEF Linked
<1>10. ASSUME NEW c \in Call PROVE CallInv(c)'
    <2> DEFINE A == Caller(c)  P == Provider(c)
    <2>1. A \in Hub /\ P \in Hub /\ CallInv(c)
        BY Places DEF IInv
    <2>2. ASSUME NEW g \in Hub, NEW y
          PROVE  /\ Count(up[g], y) \in Nat /\ Count(down[g], y) \in Nat
                 /\ Count(up'[g], y) \in {0, Count(up[g], y)} /\ Count(down'[g], y) \in {0, Count(down[g], y)}
                 /\ y \in Queued(up'[g]) => y \in Queued(up[g])
                 /\ y \in Queued(down'[g]) => y \in Queued(down[g]) /\ g # h
                 /\ \A x : Behind(up[g], x, y) => Behind(up'[g], x, y)
                 /\ \A x : Behind(down[g], x, y) => Behind(down'[g], x, y)
        <3>1. Count(up[g], y) \in Nat /\ Count(down[g], y) \in Nat
            BY <1>1, Numbers
        <3>2. CASE g = h
            BY <1>3, <1>4, <3>1, <3>2 DEF Clears
        <3>3. CASE g # h
            BY <1>3, <1>4, <3>1, <3>3 DEF Clears
        <3> QED BY <3>2, <3>3
    <2>3. Served(c)'
        <3>1. /\ Count(up'[A], Opening(c)) \in {0, Count(up[A], Opening(c))}
              /\ Count(down'[P], Opening(c)) \in {0, Count(down[P], Opening(c))}
              /\ Count(up[A], Opening(c)) \in Nat /\ Count(down[P], Opening(c)) \in Nat
              /\ Count(up'[P], ChunkOf(c)) \in {0, Count(up[P], ChunkOf(c))}
              /\ Eof(c) \in Queued(up'[P]) => Eof(c) \in Queued(up[P])
              /\ Eof(c) \in Queued(down'[A]) => Eof(c) \in Queued(down[A])
              /\ Behind(up[P], ChunkOf(c), Eof(c)) => Behind(up'[P], ChunkOf(c), Eof(c))
              /\ Behind(down[A], ChunkOf(c), Eof(c)) => Behind(down'[A], ChunkOf(c), Eof(c))
            BY <2>1, <2>2
        <3> QED BY <1>2, <2>1, <3>1 DEF CallInv, Served, Caller, Provider
    <2>4. Counted(c)'
        <3>1. /\ Count(up'[P], ChunkOf(c)) \in {0, Count(up[P], ChunkOf(c))}
              /\ Count(down'[A], ChunkOf(c)) \in {0, Count(down[A], ChunkOf(c))}
              /\ Count(up[P], ChunkOf(c)) \in Nat /\ Count(down[A], ChunkOf(c)) \in Nat
              /\ got[c] \in Nat /\ made[c] \in Nat
            BY <1>1, <2>1, <2>2, Numbers
        <3>2. /\ A # h => Count(down'[A], ChunkOf(c)) = Count(down[A], ChunkOf(c))
              /\ Eof(c) \in Queued(down'[A]) => Eof(c) \in Queued(down[A]) /\ A # h
              /\ link'[A] = "up" => A # h /\ link[A] = "up"
            BY <1>3, <1>4, <1>8, <2>1 DEF Clears
        <3>3. ChunkOf(c) \notin lost' => Count(up'[P], ChunkOf(c)) = Count(up[P], ChunkOf(c))
            <4>1. CASE P # h
                BY <1>3, <2>1, <4>1 DEF Clears
            <4>2. CASE P = h
                <5>1. ChunkOf(c) \notin lost' => ChunkOf(c) \notin Queued(up[P])
                    BY <1>5, <4>2, OwnFrames
                <5>2. ChunkOf(c) \notin lost' => Count(up[P], ChunkOf(c)) = 0
                    BY <1>1, <2>1, <5>1, Numbers
                <5> QED BY <3>1, <5>2
            <4> QED BY <4>1, <4>2
        <3> QED BY <1>2, <1>5, <2>1, <3>1, <3>2, <3>3 DEF CallInv, Counted, Caller, Provider, HasNode, Waiting
    <2> QED BY <2>3, <2>4 DEF CallInv
<1> QED BY <1>6, <1>7, <1>9, <1>10 DEF IInv

\* A hub connects again, in two steps.  Nobody on it waits.
LEMMA LinkSteps ==
    ASSUME IInv, NEW h \in Hub, Dial(h) \/ CatalogPush(h)
    PROVE  IInv'
<1>1. Plain /\ Linked /\ Finite
    BY DEF IInv
<1>2. /\ st' = st /\ readers' = readers /\ got' = got /\ serve' = serve /\ made' = made
      /\ streams' = streams /\ pending' = pending /\ node' = node /\ inst' = inst
      /\ up' = up /\ down' = down /\ lost' = lost
    BY DEF Dial, CatalogPush, caller, provider, kernel, out
<1>3. /\ \/ link' = [link EXCEPT ![h] = "dialled"] /\ \A r \in Routine : inst[r] => Home[r] # h
         \/ link[h] = "dialled" /\ link' = [link EXCEPT ![h] = "up"]
    BY DEF Dial, CatalogPush
<1>4. /\ link' \in [Hub -> {"up", "dialled", "down"}] /\ \A g \in Hub : g # h => link'[g] = link[g]
      /\ link'[h] # link[h] => (\A r \in Routine : inst[r] => Home[r] # h) \/ link'[h] = "up"
      /\ (\A r \in Routine : inst[r] => Home[r] # h) \/ (link[h] = "dialled" /\ link'[h] = "up")
    BY <1>1, <1>3 DEF Plain
<1>5. \A r \in Routine : inst[r] => Home[r] # h
    BY <1>1, <1>4 DEF Linked, Lives
<1>6. Plain'
    BY <1>1, <1>2, <1>4 DEF Plain
<1>7. Finite'
    <2>1. Asked' = Asked
        BY <1>2 DEF Asked
    <2> QED BY <1>1, <1>2, <2>1 DEF Finite
<1>8. Linked'
    <2>1. Lives'
        BY <1>1, <1>2, <1>4, <1>5, Places DEF Linked, Lives, Waiting
    <2> QED BY <1>1, <1>2, <2>1 DEF Linked
<1>9. ASSUME NEW d \in Call PROVE CallInv(d)'
    <2>1. FadedAll(up, up', d) /\ CalmAll(down, down', d)
        BY <1>2, CalmSame
    <2>2. st[d] \in {"wait", "open"} => link'[Caller(d)] = link[Caller(d)]
        BY <1>1, <1>4, <1>5, Places DEF Linked, Lives, Waiting, Caller
    <2>3. Steady(d)
        BY <1>2, <2>1, <2>2 DEF Steady, HasNode
    <2> QED BY <1>1, <2>3, SteadyCall DEF IInv
<1> QED BY <1>6, <1>7, <1>8, <1>9 DEF IInv

-------------------------------------------------------------------------------
\* The invariant.

LEMMA IInvInit == Init => IInv
<1> SUFFICES ASSUME Init PROVE IInv
    OBVIOUS
<1>1. Plain
    BY CallAssumption DEF Init, Plain, CallAssumption
<1>2. \A h \in Hub : up[h] = <<>> /\ down[h] = <<>>
    BY DEF Init
<1>3. up \in Queues(UpFrames) /\ down \in Queues(DownFrames)
    <2>1. /\ up \in [Hub -> Seq(Frame)] /\ down \in [Hub -> Seq(Frame)]
          /\ \A h \in Hub : up[h] \in Seq(UpFrames[h]) /\ down[h] \in Seq(DownFrames[h])
        BY <1>2 DEF Init
    <2> QED BY <2>1 DEF Queues
<1>4. Linked
    BY <1>3, Places DEF Linked, Lives, Init, Waiting
<1>5. Finite
    <2>1. Asked = {}
        BY DEF Asked, Init
    <2> QED BY <2>1, FS_EmptySet DEF Finite, Init
<1>6. ASSUME NEW c \in Call PROVE CallInv(c)
    <2>1. Caller(c) \in Hub /\ Provider(c) \in Hub
        BY Places
    <2>2. /\ DOMAIN up[Caller(c)] = {} /\ DOMAIN up[Provider(c)] = {}
          /\ DOMAIN down[Caller(c)] = {} /\ DOMAIN down[Provider(c)] = {}
        BY <1>2, <2>1
    <2>3. /\ Queued(up[Caller(c)]) = {} /\ Queued(up[Provider(c)]) = {}
          /\ Queued(down[Caller(c)]) = {} /\ Queued(down[Provider(c)]) = {}
          /\ Behind(up[Provider(c)], ChunkOf(c), Eof(c)) /\ Behind(down[Caller(c)], ChunkOf(c), Eof(c))
        BY <2>2 DEF Queued, Behind
    <2>4. /\ Count(up[Caller(c)], Opening(c)) = 0 /\ Count(down[Provider(c)], Opening(c)) = 0
          /\ Count(up[Provider(c)], ChunkOf(c)) = 0 /\ Count(down[Caller(c)], ChunkOf(c)) = 0
        BY <1>1, <1>4, <2>1, <2>3, Numbers
    <2>5. /\ st[c] = "idle" /\ serve[c] = "none" /\ made[c] = 0 /\ got[c] = 0
          /\ c \notin streams /\ c \notin readers
        BY DEF Init
    <2> QED BY <2>3, <2>4, <2>5 DEF CallInv, Served, Counted
<1> QED BY <1>1, <1>4, <1>5, <1>6 DEF IInv

LEMMA IInvNext == IInv /\ [Next]_vars => IInv'
<1> SUFFICES ASSUME IInv, [Next]_vars PROVE IInv'
    OBVIOUS
<1>1. CASE UNCHANGED vars
    <2>1. /\ up' = up /\ down' = down /\ pending' = pending /\ node' = node
          /\ UNCHANGED <<caller, provider, inst, link, lost>>
        BY <1>1 DEF vars, caller, provider
    <2>2. /\ up' \in Queues(UpFrames) /\ down' \in Queues(DownFrames)
          /\ \A d : FadedAll(up, up', d) /\ CalmAll(down, down', d)
        BY <2>1, CalmSame DEF IInv, Linked
    <2>3. /\ node' \in [Routine -> {"up", "ending", "givenup", "gone"}]
          /\ \A q \in Routine : HasNode(q)' => HasNode(q)
        BY <2>1 DEF HasNode, IInv, Plain
    <2> QED BY <2>1, <2>2, <2>3, TableStep
<1>2. ASSUME NEW c \in Call, Ask(c) \/ Timeout(c) \/ Leave(c) \/ Chunk(c) \/ Answer(c) PROVE IInv'
    BY <1>2, AskStep, TimeoutStep, LeaveStep, ChunkStep, AnswerStep
<1>3. ASSUME NEW h \in Hub,
             \/ CallerTakes(h) \/ Serve(h) \/ Cancelled(h)
             \/ Forward(h) \/ Return(h) \/ Stopped(h) \/ Drop(h) \/ Dial(h) \/ CatalogPush(h)
      PROVE  IInv'
    BY <1>3, CallerTakesStep, ServeStep, CancelledStep, ForwardStep, ReturnStep, StoppedStep,
       DropStep, LinkSteps
<1>4. ASSUME NEW r \in Routine, Removed(r) \/ GiveUp(r) \/ Settle(r) \/ End(r) \/ EndLocally(r)
      PROVE  IInv'
    BY <1>4, NodeSteps, SettleStep, EndSteps
<1> QED BY <1>1, <1>2, <1>3, <1>4 DEF Next

\* The invariant from which the rest follows: where the frames of each call can be, and how
\* many (Kernel._on_message, the hubs' dispatch).
THEOREM CallsInvariant == Spec => []IInv
BY IInvInit, IInvNext, PTL DEF Spec

\* A stream that ended normally was received whole, whatever stopped, dropped, came back or
\* was given up meanwhile, unless the queue that its provider's hub sends from has dropped a
\* chunk of it (GrpcClientTransport.send_event, _cleanup_call): what the provider sent before
\* its own end of the stream is what the reader was fed, though the handler goes on across
\* connections, and the kernel's made-up ends are failures.
THEOREM StreamsAreWhole == Spec => []DoneIsWhole
<1>1. IInv => DoneIsWhole
    <2> SUFFICES ASSUME IInv PROVE DoneIsWhole
        OBVIOUS
    <2>1. TypeOK
        <3>1. up \in [Hub -> Seq(Frame)] /\ down \in [Hub -> Seq(Frame)]
            BY DEF IInv, Linked, Queues
        <3> QED BY <3>1 DEF IInv, Plain, TypeOK
    <2>2. \A c \in Call : (Kind[c] = "stream" /\ st[c] = "ok" /\ F("chunk", c, "") \notin lost)
                            => (got[c] = made[c] /\ serve[c] = "over")
        BY DEF IInv, CallInv, Counted, ChunkOf
    <2> QED BY <2>1, <2>2 DEF DoneIsWhole
<1> QED BY <1>1, CallsInvariant, PTL

-------------------------------------------------------------------------------
\* Nobody waits alone.

LEMMA EndFrames ==
    ASSUME NEW c \in Call
    PROVE  /\ \A x \in Ends(c) : x.of = c /\ x.k \in {"answer", "eof"}
           /\ \A x \in Answering(c) : x.k # "chunk" => x \in Ends(c)
           /\ Failure(c) \in Ends(c)
<1>1. /\ \A x \in Answering(c) : x.of = c /\ x.k \in {"chunk", "eof", "answer"}
      /\ \A x \in Answering(c) : x.k = "chunk" => x = ChunkOf(c)
    BY AnsweringIs DEF About
<1>2. ChunkOf(c).k = "chunk"
    BY OwnFrames
<1>3. Failure(c) \in Answering(c) /\ Failure(c).k \in {"answer", "eof"}
    BY FramesOf
<1> QED BY <1>1, <1>2, <1>3 DEF Ends

\* What the call of c is waiting for is where it was.
LEMMA StillReached ==
    ASSUME NEW c \in Call, Reached(c),
           Opening(c) \in Queued(up[Caller(c)]) => Opening(c) \in Queued(up'[Caller(c)]),
           c \in pending => c \in pending',
           \A x \in Ends(c) : x \in Queued(down[Caller(c)]) => x \in Queued(down'[Caller(c)])
    PROVE  Reached(c)'
BY DEF Reached, Caller, Ends, Answering, Opening, ChunkOf

\* The call is answered as before, unless its caller waits no more or its request is lost.
Attended(c) ==
    /\ Waiting(c)' => Waiting(c)
    /\ Waiting(c)' /\ c \in readers => c \in readers'
    /\ HasNode(From[c])' => HasNode(From[c])
    /\ lost \subseteq lost'
    /\ Waiting(c) /\ link'[Caller(c)] = "up" => link[Caller(c)] = "up"
    /\ Waiting(c)' /\ HasNode(From[c]) /\ link[Caller(c)] = "up" /\ Opening(c) \notin lost' /\ Reached(c)
            => Reached(c)'

LEMMA StillAnswerable ==
    ASSUME NEW c \in Call, Answerable(c), Attended(c)
    PROVE  Answerable(c)'
<1>1. Caller(c)' = Caller(c) /\ Opening(c)' = Opening(c)
    BY DEF Caller, Opening, F
<1>2. (Waiting(c)' /\ Kind[c] = "stream") => c \in readers'
    BY DEF Answerable, Attended
<1>3. ASSUME Waiting(c)', HasNode(From[c])', link'[Caller(c)] = "up", Opening(c) \notin lost'
      PROVE  Reached(c)'
    BY <1>3 DEF Answerable, Attended
<1> QED BY <1>1, <1>2, <1>3 DEF Answerable

\* A hub's frame is on its way; what was on its way still is, unless it is written down as
\* lost.
Keeps == \A g \in Hub : \A y \in Queued(up[g]) : y \in Queued(up'[g]) \/ Noted(y)

LEMMA Says ==
    ASSUME IInv, NEW h \in Hub, NEW x \in UpFrames[h], Up(h, x)
    PROVE  Keeps /\ x \in Queued(up'[h]) /\ lost \subseteq lost'
BY HubSends DEF Sends, Keeps

LEMMA AskAttends ==
    ASSUME IInv, NEW c \in Call, Ask(c), NEW d \in Call, Answerable(d)
    PROVE  Answerable(d)'
<1>1. /\ inst[From[c]] /\ st[c] = "idle" /\ st' = [st EXCEPT ![c] = "wait"]
      /\ readers' = IF Kind[c] = "stream" THEN readers \cup {c} ELSE readers
      /\ Up(Caller(c), Opening(c))
      /\ pending' = pending /\ node' = node /\ down' = down /\ link' = link
    BY DEF Ask, kernel, Opening
<1>2. Caller(c) \in Hub
    BY Places
<1>3. Opening(c) \in UpFrames[Caller(c)]
    <2>1. Opening(c) \in Asking(c)
        BY DEF Opening, Asking
    <2> QED BY <2>1, FramesOf
<1>4. Keeps /\ Opening(c) \in Queued(up'[Caller(c)]) /\ lost \subseteq lost'
    BY <1>1, <1>2, <1>3, Says
<1>5. CASE d = c
    BY <1>1, <1>4, <1>5 DEF Answerable, Reached, Caller, Opening
<1>6. CASE d # c
    <2>1. Caller(d) \in Hub
        BY Places
    <2>2. Reached(d) /\ Opening(d) \notin lost' => Reached(d)'
        <3>1. Opening(d) \in Queued(up[Caller(d)]) /\ Opening(d) \notin lost'
                    => Opening(d) \in Queued(up'[Caller(d)])
            BY <1>4, <2>1, OwnFrames DEF Keeps, Noted
        <3> QED BY <1>1, <3>1, StillReached
    <2> QED BY <1>1, <1>4, <1>6, <2>2, StillAnswerable DEF Attended, Waiting, HasNode, IInv, Plain
<1> QED BY <1>5, <1>6

\* The steps of a caller and of a handler that leave the kernel's table and the frames
\* to the caller alone.
LEMMA SideAttends ==
    ASSUME IInv, NEW d \in Call, Answerable(d),
           Waiting(d)' => Waiting(d), Waiting(d)' /\ d \in readers => d \in readers',
           Keeps, lost \subseteq lost', link' = link,
           \A x \in Ends(d) : x \in Queued(down[Caller(d)]) => x \in Queued(down'[Caller(d)]),
           pending' = pending, \A r \in Routine : HasNode(r)' => HasNode(r)
    PROVE  Answerable(d)'
<1>1. Caller(d) \in Hub /\ From[d] \in Routine
    BY Places
<1>2. Opening(d) \in Queued(up[Caller(d)]) /\ Opening(d) \notin lost'
            => Opening(d) \in Queued(up'[Caller(d)])
    BY <1>1, OwnFrames DEF Keeps, Noted
<1>3. Reached(d) /\ Opening(d) \notin lost' => Reached(d)'
    BY <1>2, StillReached
<1> QED BY <1>1, <1>3, StillAnswerable DEF Attended

LEMMA CallerAttends ==
    ASSUME IInv, NEW c \in Call, Timeout(c) \/ Leave(c), NEW d \in Call, Answerable(d)
    PROVE  Answerable(d)'
<1>1. /\ st' = [st EXCEPT ![c] = "timeout"] \/ st' = [st EXCEPT ![c] = "left"]
      /\ readers' = readers /\ pending' = pending /\ node' = node /\ down' = down /\ link' = link
    BY DEF Timeout, Leave, kernel
<1>2. Waiting(d)' => Waiting(d)
    BY <1>1 DEF Waiting, IInv, Plain
<1>3. Keeps /\ lost \subseteq lost'
    <2>1. CASE Timeout(c)
        BY <2>1 DEF Timeout, out, Keeps
    <2>2. CASE Leave(c)
        <3>1. PICK x : x = F("cancel", c, "")
            OBVIOUS
        <3>2. x \in Asking(c) /\ Up(Caller(c), x)
            BY <2>2, <3>1 DEF Leave, Asking
        <3> QED BY <3>2, FramesOf, Places, Says
    <2> QED BY <2>1, <2>2
<1> QED BY <1>1, <1>2, <1>3, SideAttends DEF HasNode

LEMMA CallerTakesAttends ==
    ASSUME IInv, NEW h \in Hub, CallerTakes(h), NEW d \in Call, Answerable(d)
    PROVE  Answerable(d)'
<1>0. PICK f, c : f = Head(down[h]) /\ c = f.of
    OBVIOUS
<1>1. /\ down[h] # <<>> /\ f.k \in {"answer", "chunk", "eof"}
      /\ down' = [down EXCEPT ![h] = Tail(@)]
      /\ pending' = pending /\ node' = node /\ up' = up /\ lost' = lost /\ link' = link
    BY <1>0 DEF CallerTakes, kernel, out
<1>2. LET end == [st EXCEPT ![c] = IF Waiting(c) THEN IF f.how = "ok" THEN "ok" ELSE "failed" ELSE @] IN
        \/ f.k = "answer" /\ st' = end /\ readers' = readers
        \/ f.k = "chunk" /\ st' = [st EXCEPT ![c] = IF @ = "wait" THEN "open" ELSE @] /\ readers' = readers
        \/ f.k = "eof" /\ c \in readers /\ readers' = readers \ {c} /\ st' = end
        \/ f.k # "answer" /\ c \notin readers /\ st' = st /\ readers' = readers
    BY <1>0 DEF CallerTakes, caller
<1>3. /\ Takes(down, down', h) /\ f \in DownFrames[h]
    BY <1>0, <1>1, HubTakes
<1>4. About(f, c) /\ c \in Call
    BY <1>0, <1>1, <1>3, DownFrame DEF About
<1>5. Waiting(d)' => Waiting(d)
    BY <1>2, <1>4 DEF Waiting, IInv, Plain
<1>6. CASE f \notin Ends(d)
    <2>1. ASSUME NEW x \in Ends(d), x \in Queued(down[Caller(d)]) PROVE x \in Queued(down'[Caller(d)])
        BY <1>0, <1>3, <1>6, <2>1, Places DEF Takes
    <2>2. Waiting(d)' /\ d \in readers => d \in readers'
        BY <1>2, <1>4 DEF Waiting, IInv, Plain
    <2> QED BY <1>1, <1>5, <2>1, <2>2, SideAttends DEF HasNode, Keeps
<1>7. CASE f \in Ends(d)
    <2>1. c = d /\ f.k \in {"answer", "eof"}
        BY <1>0, <1>7, EndFrames
    <2>2. f.k = "eof" => (Waiting(d) => d \in readers)
        BY <1>4, <2>1 DEF About, Answerable
    <2>3. ~ Waiting(d)'
        BY <1>2, <1>4, <1>5, <2>1, <2>2 DEF Waiting, IInv, Plain
    <2> QED BY <2>3 DEF Answerable
<1> QED BY <1>6, <1>7

LEMMA ServeAttends ==
    ASSUME IInv, NEW h \in Hub, Serve(h), NEW d \in Call, Answerable(d)
    PROVE  Answerable(d)'
<1>0. PICK f, c : f = Head(down[h]) /\ c = f.of
    OBVIOUS
<1>1. /\ down[h] # <<>> /\ f.k = "call" /\ down' = [down EXCEPT ![h] = Tail(@)]
      /\ st' = st /\ readers' = readers /\ pending' = pending /\ node' = node
      /\ link' = link /\ ((up' = up /\ lost' = lost) \/ Up(h, Failure(c)))
    BY <1>0 DEF Serve, caller, kernel, out
<1>2. Takes(down, down', h) /\ f \in DownFrames[h]
    BY <1>0, <1>1, HubTakes
<1>3. c \in Call /\ Provider(c) = h
    BY <1>0, <1>1, <1>2, DownFrame DEF About
<1>4. Keeps /\ lost \subseteq lost'
    <2>1. Failure(c) \in UpFrames[h]
        BY <1>3, FramesOf
    <2> QED BY <1>1, <2>1, Says DEF Keeps
<1>5. ASSUME NEW x \in Ends(d), x \in Queued(down[Caller(d)]) PROVE x \in Queued(down'[Caller(d)])
    <2>1. x # f
        BY <1>1, EndFrames
    <2> QED BY <1>0, <1>2, <1>5, <2>1, Places DEF Takes
<1> QED BY <1>1, <1>4, <1>5, SideAttends DEF HasNode, Waiting

LEMMA ChunkAttends ==
    ASSUME IInv, NEW c \in Call, Chunk(c), NEW d \in Call, Answerable(d)
    PROVE  Answerable(d)'
<1>1. /\ Kind[c] = "stream" /\ Up(Provider(c), ChunkOf(c))
      /\ st' = st /\ readers' = readers /\ pending' = pending /\ node' = node /\ down' = down /\ link' = link
    BY DEF Chunk, caller, kernel, ChunkOf
<1>2. ChunkOf(c) \in Answering(c)
    BY <1>1 DEF Answering, ChunkOf
<1>3. Keeps /\ lost \subseteq lost'
    BY <1>1, <1>2, FramesOf, Places, Says
<1> QED BY <1>1, <1>3, SideAttends DEF HasNode, Waiting

LEMMA EndedAttends ==
    ASSUME IInv, NEW c \in Call, NEW how \in {"ok", "error", "cancelled"}, Ended(c, how),
           Kind[c] = "req" => how # "cancelled", NEW d \in Call, Answerable(d),
           \A x \in Ends(d) : x \in Queued(down[Caller(d)]) => x \in Queued(down'[Caller(d)])
    PROVE  Answerable(d)'
<1>1. PICK x : x = F(IF Kind[c] = "req" THEN "answer" ELSE "eof", c, how)
    OBVIOUS
<1>2. /\ Up(Provider(c), x)
      /\ st' = st /\ readers' = readers /\ pending' = pending /\ node' = node /\ link' = link
    BY <1>1 DEF Ended, caller, kernel
<1>3. x \in Answering(c)
    BY <1>1 DEF Answering
<1>4. Keeps /\ lost \subseteq lost'
    BY <1>2, <1>3, FramesOf, Places, Says
<1> QED BY <1>2, <1>4, SideAttends DEF HasNode, Waiting

LEMMA AnswerAttends ==
    ASSUME IInv, NEW c \in Call, Answer(c), NEW d \in Call, Answerable(d)
    PROVE  Answerable(d)'
<1>1. PICK how \in {"ok", "error"} : Ended(c, how)
    BY DEF Answer
<1>2. down' = down
    BY DEF Answer
<1> QED BY <1>1, <1>2, EndedAttends

LEMMA CancelledAttends ==
    ASSUME IInv, NEW h \in Hub, Cancelled(h), NEW d \in Call, Answerable(d)
    PROVE  Answerable(d)'
<1>0. PICK f : f = Head(down[h])
    OBVIOUS
<1>1. down[h] # <<>> /\ f.k = "cancel" /\ down' = [down EXCEPT ![h] = Tail(@)]
    BY <1>0 DEF Cancelled
<1>2. ASSUME NEW x \in Ends(d), x \in Queued(down[Caller(d)]) PROVE x \in Queued(down'[Caller(d)])
    <2>1. Takes(down, down', h)
        BY <1>1, HubTakes
    <2>2. x # f
        BY <1>1, EndFrames
    <2> QED BY <1>0, <1>2, <2>1, <2>2, Places DEF Takes
<1>3. CASE \E e \in streams : SameStream(e, f.of) /\ Ended(e, "cancelled")
    <2>1. PICK e \in streams : Ended(e, "cancelled")
        BY <1>3
    <2>2. e \in Call /\ Kind[e] = "stream"
        BY DEF IInv, Plain, CallInv, Served
    <2> QED BY <1>2, <2>1, <2>2, EndedAttends
<1>4. CASE UNCHANGED <<caller, provider, kernel, inst, link, out>>
    <2>1. st' = st /\ readers' = readers /\ pending' = pending /\ node' = node /\ up' = up /\ lost' = lost /\ link' = link
        BY <1>4 DEF caller, kernel, out
    <2> QED BY <1>2, <2>1, SideAttends DEF HasNode, Waiting, Keeps
<1> QED BY <1>0, <1>3, <1>4 DEF Cancelled

LEMMA ForwardAttends ==
    ASSUME IInv, NEW h \in Hub, Forward(h), NEW d \in Call, Unshared(d), Answerable(d)
    PROVE  Answerable(d)'
<1>0. PICK f, c : f = Head(up[h]) /\ c = f.of
    OBVIOUS
<1>1. /\ up[h] # <<>> /\ f.k = "call" /\ up' = [up EXCEPT ![h] = Tail(@)]
      /\ st' = st /\ readers' = readers /\ node' = node /\ link' = link /\ lost' = lost
      /\ \/ /\ ~ HasNode(To[c]) /\ pending' = pending
            /\ down' = IF HasNode(From[c]) THEN Down(down, Caller(c), Failure(c)) ELSE down
         \/ /\ HasNode(To[c]) /\ down' = Down(down, Provider(c), f)
            /\ pending' = IF ~ HasNode(From[c]) THEN pending
                          ELSE {e \in pending : ~ (SameCall(c, e) /\ To[c] = To[e])} \cup {c}
    BY <1>0 DEF Forward, caller
<1>2. Takes(up, up', h) /\ f \in UpFrames[h]
    BY <1>0, <1>1, KernelTakes
<1>3. c \in Call /\ f = Opening(c) /\ Caller(c) = h /\ f \in Asking(c) /\ Provider(c) \in Hub
    BY <1>0, <1>1, <1>2, UpFrame, Places DEF About
<1>4. /\ \A g \in Hub : Queued(down[g]) \subseteq Queued(down'[g])
      /\ HasNode(From[c]) /\ ~ HasNode(To[c]) /\ link[h] = "up" => Failure(c) \in Queued(down'[h])
    <2>1. Failure(c) \in DownFrames[h] /\ f \in DownFrames[Provider(c)]
        BY <1>3, FramesOf
    <2>2. CASE down' = Down(down, h, Failure(c))
        BY <1>2, <2>1, <2>2, KernelSends DEF Puts
    <2>3. CASE down' = Down(down, Provider(c), f) /\ HasNode(To[c])
        BY <1>3, <2>1, <2>3, KernelSends DEF Puts
    <2>4. CASE down' = down /\ ~ HasNode(From[c])
        BY <2>4
    <2> QED BY <1>1, <1>3, <2>2, <2>3, <2>4
<1>5. CASE d = c
    <2>1. HasNode(From[c]) /\ link[h] = "up" => c \in pending' \/ Failure(c) \in Queued(down'[h])
        BY <1>1, <1>4
    <2>2. HasNode(From[c]) /\ link[h] = "up" => Reached(c)'
        BY <1>3, <2>1, EndFrames DEF Reached, Caller, Ends, Answering, ChunkOf
    <2> QED BY <1>1, <1>3, <1>5, <2>2, StillAnswerable DEF Attended, HasNode, Waiting
<1>6. CASE d # c
    <2>1. Opening(d) # f
        BY <1>0, <1>6, OwnFrames
    <2>2. Opening(d) \in Queued(up[Caller(d)]) => Opening(d) \in Queued(up'[Caller(d)])
        BY <1>0, <1>2, <2>1, Places DEF Takes
    <2>3. d \in pending => d \in pending'
        BY <1>1, <1>3, <1>6 DEF Unshared
    <2>4. Reached(d) => Reached(d)'
        BY <1>4, <2>2, <2>3, Places, StillReached
    <2> QED BY <1>1, <2>4, StillAnswerable DEF Attended, HasNode, Waiting
<1> QED BY <1>5, <1>6

LEMMA ReturnAttends ==
    ASSUME IInv, NEW h \in Hub, Return(h), NEW d \in Call, Unshared(d), Answerable(d)
    PROVE  Answerable(d)'
<1>0. PICK f, c, r : f = Head(up[h]) /\ c = f.of /\ r = IF f.k = "cancel" THEN To[c] ELSE From[c]
    OBVIOUS
<1>1. /\ up[h] # <<>> /\ f.k \in {"answer", "chunk", "eof", "cancel"}
      /\ up' = [up EXCEPT ![h] = Tail(@)]
      /\ st' = st /\ readers' = readers /\ node' = node /\ link' = link /\ lost' = lost
      /\ pending' = IF f.k \in {"answer", "eof"} THEN {e \in pending : ~ SameCall(c, e)} ELSE pending
      /\ down' = IF HasNode(r) THEN Down(down, Home[r], f) ELSE down
    BY <1>0 DEF Return, caller
<1>2. Takes(up, up', h) /\ f \in UpFrames[h]
    BY <1>0, <1>1, KernelTakes
<1>3. /\ c \in Call
      /\ \/ f.k = "cancel" /\ f \in Asking(c)
         \/ f.k # "cancel" /\ f \in Answering(c)
    BY <1>0, <1>1, <1>2, UpFrame DEF About
<1>4. f \in DownFrames[Home[r]] /\ Home[r] \in Hub
    BY <1>0, <1>3, FramesOf, Places DEF Caller, Provider
<1>5. /\ \A g \in Hub : Queued(down[g]) \subseteq Queued(down'[g])
      /\ HasNode(r) /\ link[Home[r]] = "up" => f \in Queued(down'[Home[r]])
    <2>1. CASE HasNode(r)
        BY <1>1, <1>4, <2>1, KernelSends DEF Puts
    <2>2. CASE ~ HasNode(r)
        BY <1>1, <2>2
    <2> QED BY <2>1, <2>2
<1>6. Opening(d) \in Queued(up[Caller(d)]) => Opening(d) \in Queued(up'[Caller(d)])
    <2>1. Opening(d) # f
        BY <1>1, OwnFrames
    <2> QED BY <1>0, <1>2, <2>1, Places DEF Takes
<1>7. CASE d \in pending => d \in pending'
    <2>1. Reached(d) => Reached(d)'
        BY <1>5, <1>6, <1>7, Places, StillReached
    <2> QED BY <1>1, <2>1, StillAnswerable DEF Attended, HasNode, Waiting
<1>8. CASE d \in pending /\ d \notin pending'
    <2>1. c = d /\ f.k \in {"answer", "eof"}
        BY <1>1, <1>3, <1>8 DEF Unshared
    <2>2. f \in Ends(d) /\ r = From[d] /\ Home[r] = Caller(d)
        BY <1>0, <1>3, <2>1, EndFrames DEF Caller
    <2>3. HasNode(From[d]) /\ link[Caller(d)] = "up" => Reached(d)'
        BY <1>5, <2>2 DEF Reached, Caller, Ends, Answering, ChunkOf
    <2> QED BY <1>1, <2>3, StillAnswerable DEF Attended, HasNode, Waiting
<1> QED BY <1>7, <1>8

\* The calls to a routine fail for those who made them.
LEMMA FailingAttends ==
    ASSUME IInv, NEW r \in Routine, FailPending(r), NEW d \in Call, Answerable(d),
           Opening(d) \in Queued(up[Caller(d)]) => Opening(d) \in Queued(up'[Caller(d)]),
           UNCHANGED <<caller, link, lost>>, \A q \in Routine : HasNode(q)' => HasNode(q)
    PROVE  Answerable(d)'
<1>1. /\ pending' = {e \in pending : To[e] # r}
      /\ \A g \in Hub : Queued(down[g]) \subseteq Queued(down'[g])
      /\ \A e \in pending : (To[e] = r /\ link[Caller(e)] = "up") => Failure(e) \in Queued(down'[Caller(e)])
    BY FailPendingDoes
<1>2. st' = st /\ readers' = readers /\ link' = link /\ lost' = lost
    BY DEF caller
<1>3. Caller(d) \in Hub /\ From[d] \in Routine
    BY Places
<1>4. CASE d \in pending => d \in pending'
    <2>1. Reached(d) => Reached(d)'
        BY <1>1, <1>3, <1>4, StillReached
    <2> QED BY <1>2, <1>3, <2>1, StillAnswerable DEF Attended, Waiting
<1>5. CASE d \in pending /\ d \notin pending'
    <2>2. link[Caller(d)] = "up" => Failure(d) \in Queued(down'[Caller(d)])
        BY <1>1, <1>5
    <2>3. link[Caller(d)] = "up" => Reached(d)'
        BY <2>2, EndFrames DEF Reached, Caller, Ends, Answering, ChunkOf
    <2> QED BY <1>2, <1>3, <2>3, StillAnswerable DEF Attended, Waiting
<1> QED BY <1>4, <1>5

LEMMA StoppedAttends ==
    ASSUME IInv, NEW h \in Hub, Stopped(h), NEW d \in Call, Answerable(d)
    PROVE  Answerable(d)'
<1>0. PICK f, r : f = Head(up[h]) /\ r = f.of
    OBVIOUS
<1>1. /\ up[h] # <<>> /\ f.k = "stopped" /\ up' = [up EXCEPT ![h] = Tail(@)]
      /\ FailPending(r) /\ node' = [node EXCEPT ![r] = IF @ = "up" THEN "ending" ELSE "gone"]
      /\ UNCHANGED <<caller, link, lost>>
    BY <1>0 DEF Stopped
<1>2. Takes(up, up', h) /\ f \in UpFrames[h]
    BY <1>0, <1>1, KernelTakes
<1>3. r \in Routine
    BY <1>0, <1>1, <1>2, UpFrame
<1>4. Opening(d) \in Queued(up[Caller(d)]) => Opening(d) \in Queued(up'[Caller(d)])
    <2>1. Opening(d) # f
        BY <1>1, OwnFrames
    <2> QED BY <1>0, <1>2, <2>1, Places DEF Takes
<1>5. \A q \in Routine : HasNode(q)' => HasNode(q)
    BY <1>1, <1>3 DEF HasNode, IInv, Plain
<1> QED BY <1>1, <1>3, <1>4, <1>5, FailingAttends

LEMMA NodeAttends ==
    ASSUME IInv, NEW r \in Routine, Removed(r) \/ GiveUp(r) \/ Settle(r),
           NEW d \in Call, Answerable(d)
    PROVE  Answerable(d)'
<1>1. /\ \A q \in Routine : HasNode(q)' => HasNode(q)
      /\ up' = up /\ UNCHANGED <<caller, link, lost>>
    BY DEF Removed, GiveUp, Settle, HasNode, IInv, Plain, out
<1>2. CASE Settle(r)
    BY <1>1, <1>2, FailingAttends DEF Settle
<1>3. CASE Removed(r) \/ GiveUp(r)
    <2>1. pending' = pending /\ down' = down /\ st' = st /\ readers' = readers
        BY <1>3 DEF Removed, GiveUp, caller
    <2> QED BY <1>1, <2>1, SideAttends DEF Waiting, Keeps
<1> QED BY <1>2, <1>3

LEMMA EndAttends ==
    ASSUME IInv, NEW r \in Routine, End(r) \/ EndLocally(r), NEW d \in Call, Answerable(d)
    PROVE  Answerable(d)'
<1>1. Over(r) /\ Plain
    BY DEF End, EndLocally, IInv
<1>2. /\ readers' = readers /\ pending' = pending /\ node' = node /\ down' = down /\ link' = link
      /\ Waiting(d)' => Waiting(d)
    BY <1>1, OverDoes DEF Waiting
<1>3. Keeps /\ lost \subseteq lost'
    <2>1. CASE End(r)
        BY <2>1, EndSays DEF Sends, Keeps
    <2>2. CASE EndLocally(r)
        BY <2>2 DEF EndLocally, out, Keeps
    <2> QED BY <2>1, <2>2
<1> QED BY <1>2, <1>3, SideAttends DEF HasNode

\* A caller whose hub has lost its connection is not reached.  The kernel looks up the
\* entries of the hub by the name of its connection, which is no hub's, and forgets none.
LEMMA DropAttends ==
    ASSUME IInv, NEW h \in Hub, Drop(h), NEW d \in Call, Answerable(d)
    PROVE  Answerable(d)'
<1>1. /\ st' = st /\ readers' = readers /\ node' = node
      /\ link' = [link EXCEPT ![h] = "down"]
      /\ pending' = {c \in pending : Caller(c) # ConnId[h]}
      /\ up' = [up EXCEPT ![h] = <<>>] /\ down' = [down EXCEPT ![h] = <<>>]
      /\ lost \subseteq lost'
    BY DEF Drop, caller, Loses
<1>2. /\ up \in [Hub -> Seq(Frame)] /\ down \in [Hub -> Seq(Frame)]
      /\ link \in [Hub -> {"up", "dialled", "down"}]
    BY DEF IInv, Plain, Linked, Queues
<1>3. Caller(d) \in Hub /\ Caller(d) # ConnId[h] /\ From[d] \in Routine
    BY Places, CallAssumption DEF CallAssumption
<1>4. CASE Caller(d) # h
    <2>1. /\ up'[Caller(d)] = up[Caller(d)] /\ down'[Caller(d)] = down[Caller(d)]
          /\ link'[Caller(d)] = link[Caller(d)]
        BY <1>1, <1>2, <1>3, <1>4
    <2>2. Reached(d) => Reached(d)'
        BY <1>1, <1>3, <2>1, StillReached
    <2> QED BY <1>1, <2>1, <2>2, StillAnswerable DEF Attended, HasNode, Waiting
<1>5. CASE Caller(d) = h
    <2>1. link'[Caller(d)] # "up" /\ Caller(d)' = Caller(d)
        BY <1>1, <1>2, <1>3, <1>5 DEF Caller
    <2> QED BY <1>1, <2>1 DEF Answerable, Waiting
<1> QED BY <1>4, <1>5

LEMMA LinkAttends ==
    ASSUME IInv, NEW h \in Hub, Dial(h) \/ CatalogPush(h), NEW d \in Call, Answerable(d)
    PROVE  Answerable(d)'
<1>1. /\ st' = st /\ readers' = readers /\ node' = node /\ pending' = pending
      /\ up' = up /\ down' = down /\ lost' = lost
      /\ \/ link' = [link EXCEPT ![h] = "dialled"]
         \/ link[h] = "dialled" /\ link' = [link EXCEPT ![h] = "up"]
    BY DEF Dial, CatalogPush, caller, kernel, out
<1>2. link \in [Hub -> {"up", "dialled", "down"}] /\ Caller(d) \in Hub
    BY Places DEF IInv, Plain
<1>3. Waiting(d) => link[Caller(d)] # "dialled"
    BY Places DEF IInv, Linked, Lives, Caller
<1>4. Waiting(d) /\ link'[Caller(d)] = "up" => link[Caller(d)] = "up"
    BY <1>1, <1>2, <1>3
<1>5. Reached(d) => Reached(d)'
    BY <1>1, StillReached
<1> QED BY <1>1, <1>4, <1>5, StillAnswerable DEF Attended, HasNode, Waiting

-------------------------------------------------------------------------------

\* No caller with a call of its own waits in vain.
NoneAlone == \A c \in Call : Unshared(c) => Answerable(c)

\* What keeps an unshared call of a caller that the kernel can reach from being forgotten.
Heard ==
    \A c \in Call :
        Unshared(c) /\ Waiting(c) /\ HasNode(From[c]) /\ link[Caller(c)] = "up" /\ Opening(c) \notin lost =>
            InFlight(c) \/ c \in pending

LEMMA NoneAloneNext ==
    ASSUME IInv, NoneAlone, [Next]_vars
    PROVE  NoneAlone'
<1> SUFFICES ASSUME NEW d \in Call, Unshared(d) PROVE Answerable(d)'
    BY DEF NoneAlone, Unshared
<1>0. Answerable(d)
    BY DEF NoneAlone
<1>1. CASE UNCHANGED vars
    BY <1>0, <1>1, SideAttends DEF vars, HasNode, Waiting, Keeps
<1>2. ASSUME NEW c \in Call, Ask(c) \/ Timeout(c) \/ Leave(c) \/ Chunk(c) \/ Answer(c)
      PROVE  Answerable(d)'
    BY <1>0, <1>2, AskAttends, CallerAttends, ChunkAttends, AnswerAttends
<1>3. ASSUME NEW h \in Hub,
             \/ CallerTakes(h) \/ Serve(h) \/ Cancelled(h)
             \/ Forward(h) \/ Return(h) \/ Stopped(h) \/ Drop(h) \/ Dial(h) \/ CatalogPush(h)
      PROVE  Answerable(d)'
    BY <1>0, <1>3, CallerTakesAttends, ServeAttends, CancelledAttends, ForwardAttends,
       ReturnAttends, StoppedAttends, DropAttends, LinkAttends
<1>4. ASSUME NEW r \in Routine, Removed(r) \/ GiveUp(r) \/ Settle(r) \/ End(r) \/ EndLocally(r)
      PROVE  Answerable(d)'
    BY <1>0, <1>4, NodeAttends, EndAttends
<1> QED BY <1>1, <1>2, <1>3, <1>4 DEF Next

\* A caller that the kernel knows and can reach, and whose call shares kind and id with no
\* other, never waits alone, whatever stops, drops, times out or is given up: its request or
\* the end of its call is on its way, or the kernel has an entry for it and will make up the
\* end - unless the queue that its hub sends from has dropped the request.  What becomes of
\* the answer is no exception: the entry stays until an end has passed the kernel.  It is
\* false of a call that shares kind and id: ids are counted per process, and the answer to
\* the other call takes the entry (Kernel._on_message, ctx._new_req_id, send_event).
THEOREM NobodyWaitsAlone == Spec => []Heard
<1>1. Init => NoneAlone
    BY DEF Init, NoneAlone, Answerable, Waiting
<1>2. IInv /\ NoneAlone /\ [Next]_vars => NoneAlone'
    BY NoneAloneNext
<1>3. IInv /\ NoneAlone => Heard
    <2> SUFFICES ASSUME IInv, NoneAlone, NEW c \in Call,
                        Unshared(c), Waiting(c), HasNode(From[c]), link[Caller(c)] = "up",
                        Opening(c) \notin lost, c \notin pending
                 PROVE  InFlight(c)
        BY DEF Heard
    <2>1. Reached(c) /\ Caller(c) \in Hub
        BY Places DEF NoneAlone, Answerable
    <2>2. CASE Opening(c) \in Queued(up[Caller(c)])
        <3>1. PICK i \in DOMAIN up[Caller(c)] : up[Caller(c)][i] = Opening(c)
            BY <2>2 DEF Queued
        <3> QED BY <2>1, <3>1, OwnFrames DEF InFlight
    <2>3. CASE Ends(c) \cap Queued(down[Caller(c)]) # {}
        <3>1. PICK i \in DOMAIN down[Caller(c)] : down[Caller(c)][i] \in Ends(c)
            BY <2>3 DEF Queued
        <3>2. down[Caller(c)][i].of = c /\ down[Caller(c)][i].k # "chunk"
            BY <3>1, EndFrames
        <3> QED BY <2>1, <3>2 DEF InFlight
    <2> QED BY <2>1, <2>2, <2>3 DEF Reached
<1> QED BY <1>1, <1>2, <1>3, CallsInvariant, PTL DEF Spec

\* NoLostCall, when every call has a kind and id of its own (Kernel._on_message pairs
\* answers with entries by those alone).
THEOREM NoCallIsLost ==
    ASSUME \A c \in Call : Unshared(c)
    PROVE  Spec => []NoLostCall
<1>1. Heard => NoLostCall
    BY DEF Heard, NoLostCall, Opening
<1> QED BY <1>1, NobodyWaitsAlone, PTL

\* NoLostCall, when all calls are made by one process, which counts their ids: the
\* hypothesis that kinds and ids are not shared is then the code's own (ctx._new_req_id).
THEOREM OneHubLosesNoCall ==
    ASSUME \A g, h \in Hub : g = h
    PROVE  Spec => []NoLostCall
<1>1. \A c \in Call : Unshared(c)
    BY CallAssumption, Places DEF CallAssumption, Unshared, SameCall, Caller
<1> QED BY <1>1, NoCallIsLost

===============================================================================
