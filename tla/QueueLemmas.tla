------------------------------ MODULE QueueLemmas ------------------------------
(***************************************************************************)
(* What a queue holds, and what becomes of it when somebody gets in line   *)
(* and when the first leaves: the facts that the proofs about the locks    *)
(* and the inboxes of the agents share.                                    *)
(***************************************************************************)
EXTENDS Naturals, Sequences, SequenceTheorems, TLAPS

Queued(q) == {q[j] : j \in DOMAIN q}

\* None of M is in the queue twice.
Once(q, M) == \A i, j \in DOMAIN q : q[i] = q[j] /\ q[i] \in M => i = j

\* Someone gets in line.
LEMMA Appended ==
    ASSUME NEW S, NEW q \in Seq(S), NEW x \in S
    PROVE  /\ Append(q, x) \in Seq(S) /\ Append(q, x) # <<>>
           /\ Queued(Append(q, x)) = Queued(q) \cup {x}
           /\ q # <<>> => Head(Append(q, x)) = Head(q)
<1>1. /\ Append(q, x) \in Seq(S) /\ Append(q, x) # <<>>
      /\ Len(Append(q, x)) = Len(q) + 1 /\ Append(q, x)[Len(q) + 1] = x
      /\ \A j \in 1..Len(q) : Append(q, x)[j] = q[j]
      /\ DOMAIN q = 1..Len(q) /\ DOMAIN Append(q, x) = 1..(Len(q) + 1) /\ Len(q) \in Nat
      /\ q # <<>> => Head(Append(q, x)) = Head(q)
    BY AppendProperties
<1>2. Queued(Append(q, x)) = Queued(q) \cup {x}
    <2>1. ASSUME NEW y \in Queued(Append(q, x)) PROVE y \in Queued(q) \cup {x}
        <3>1. PICK j \in 1..(Len(q) + 1) : y = Append(q, x)[j]
            BY <1>1, <2>1 DEF Queued
        <3>2. CASE j = Len(q) + 1
            BY <3>1, <3>2, <1>1
        <3>3. CASE j \in 1..Len(q)
            BY <3>1, <3>3, <1>1 DEF Queued
        <3> QED BY <3>1, <3>2, <3>3, <1>1
    <2>2. ASSUME NEW y \in Queued(q) \cup {x} PROVE y \in Queued(Append(q, x))
        <3>1. CASE y = x
            BY <3>1, <1>1 DEF Queued
        <3>2. ASSUME NEW j \in 1..Len(q), y = q[j] PROVE y \in Queued(Append(q, x))
            <4>1. j \in 1..(Len(q) + 1) /\ y = Append(q, x)[j]
                BY <3>2, <1>1
            <4> QED BY <4>1, <1>1 DEF Queued
        <3> QED BY <2>2, <3>1, <3>2, <1>1 DEF Queued
    <2> QED BY <2>1, <2>2
<1> QED BY <1>1, <1>2

\* Who was not there yet is there once.
LEMMA AppendedOnce ==
    ASSUME NEW S, NEW M, NEW q \in Seq(S), NEW x \in S,
           Once(q, M), x \in M => x \notin Queued(q)
    PROVE  Once(Append(q, x), M)
<1>1. /\ Append(q, x) \in Seq(S) /\ Append(q, x) # <<>>
      /\ Len(Append(q, x)) = Len(q) + 1 /\ Append(q, x)[Len(q) + 1] = x
      /\ \A j \in 1..Len(q) : Append(q, x)[j] = q[j]
      /\ DOMAIN q = 1..Len(q) /\ DOMAIN Append(q, x) = 1..(Len(q) + 1) /\ Len(q) \in Nat
      /\ q # <<>> => Head(Append(q, x)) = Head(q)
    BY AppendProperties
<1>2. ASSUME NEW i \in 1..(Len(q) + 1), NEW j \in 1..(Len(q) + 1),
             Append(q, x)[i] = Append(q, x)[j], Append(q, x)[i] \in M
      PROVE  i = j
    <2>1. \A k \in 1..Len(q) : q[k] \in Queued(q)
        BY <1>1 DEF Queued
    <2>2. CASE i \in 1..Len(q) /\ j \in 1..Len(q)
        <3>1. q[i] = q[j] /\ q[i] \in M
            BY <1>1, <1>2, <2>2
        <3> QED BY <3>1, <1>1, <2>2, <1>2 DEF Once
    <2>3. CASE i \in 1..Len(q) /\ j = Len(q) + 1
        <3>1. q[i] = x /\ x \in M
            BY <1>1, <1>2, <2>3
        <3> QED BY <3>1, <2>1, <2>3, <1>2
    <2>4. CASE i = Len(q) + 1 /\ j \in 1..Len(q)
        <3>1. q[j] = x /\ x \in M
            BY <1>1, <1>2, <2>4
        <3> QED BY <3>1, <2>1, <2>4, <1>2
    <2> QED BY <1>1, <2>2, <2>3, <2>4
<1> QED BY <1>1, <1>2 DEF Once

\* The first in line leaves.
LEMMA Left ==
    ASSUME NEW S, NEW q \in Seq(S), q # <<>>
    PROVE  /\ Tail(q) \in Seq(S) /\ Head(q) \in S
           /\ Queued(q) = Queued(Tail(q)) \cup {Head(q)}
<1>1. /\ Tail(q) \in Seq(S) /\ Head(q) \in S /\ Head(q) = q[1]
      /\ Len(q) \in Nat \ {0} /\ Len(Tail(q)) = Len(q) - 1
      /\ DOMAIN q = 1..Len(q) /\ DOMAIN Tail(q) = 1..(Len(q) - 1)
      /\ \A j \in 1..(Len(q) - 1) : Tail(q)[j] = q[j + 1]
    OBVIOUS
<1>2. \A j \in 1..(Len(q) - 1) : j + 1 \in 1..Len(q) /\ j + 1 # 1
    BY <1>1
<1>3. Queued(q) = Queued(Tail(q)) \cup {Head(q)}
    <2>1. ASSUME NEW y \in Queued(q) PROVE y \in Queued(Tail(q)) \cup {Head(q)}
        <3>1. PICK j \in 1..Len(q) : y = q[j]
            BY <1>1, <2>1 DEF Queued
        <3>2. CASE j = 1
            BY <3>1, <3>2, <1>1
        <3>3. CASE j # 1
            <4>1. j - 1 \in 1..(Len(q) - 1) /\ (j - 1) + 1 = j
                BY <3>3, <1>1
            <4>2. Tail(q)[j - 1] = q[j]
                BY <4>1, <1>1
            <4> QED BY <3>1, <4>1, <4>2, <1>1 DEF Queued
        <3> QED BY <3>2, <3>3
    <2>2. ASSUME NEW y \in Queued(Tail(q)) \cup {Head(q)} PROVE y \in Queued(q)
        <3>1. CASE y = q[1]
            BY <3>1, <1>1 DEF Queued
        <3>2. ASSUME NEW j \in 1..(Len(q) - 1), y = Tail(q)[j] PROVE y \in Queued(q)
            <4>1. j + 1 \in 1..Len(q) /\ y = q[j + 1]
                BY <3>2, <1>1, <1>2
            <4> QED BY <4>1, <1>1 DEF Queued
        <3> QED BY <2>2, <3>1, <3>2, <1>1 DEF Queued
    <2> QED BY <2>1, <2>2
<1> QED BY <1>1, <1>3

\* Who was there once is there no more.
LEMMA LeftOnce ==
    ASSUME NEW S, NEW M, NEW q \in Seq(S), q # <<>>, Once(q, M)
    PROVE  Once(Tail(q), M) /\ (Head(q) \in M => Head(q) \notin Queued(Tail(q)))
<1>1. /\ Tail(q) \in Seq(S) /\ Head(q) \in S /\ Head(q) = q[1]
      /\ Len(q) \in Nat \ {0} /\ Len(Tail(q)) = Len(q) - 1
      /\ DOMAIN q = 1..Len(q) /\ DOMAIN Tail(q) = 1..(Len(q) - 1)
      /\ \A j \in 1..(Len(q) - 1) : Tail(q)[j] = q[j + 1]
    OBVIOUS
<1>2. \A j \in 1..(Len(q) - 1) : j + 1 \in 1..Len(q) /\ j + 1 # 1
    BY <1>1
<1>3. ASSUME NEW i \in 1..(Len(q) - 1), NEW j \in 1..(Len(q) - 1),
             Tail(q)[i] = Tail(q)[j], Tail(q)[i] \in M
      PROVE  i = j
    <2>1. q[i + 1] = q[j + 1] /\ q[i + 1] \in M /\ i + 1 \in 1..Len(q) /\ j + 1 \in 1..Len(q)
        BY <1>1, <1>2, <1>3
    <2>2. i + 1 = j + 1
        BY <2>1, <1>1 DEF Once
    <2> QED BY <2>2, <1>1
<1>4. ASSUME Head(q) \in M, NEW j \in 1..(Len(q) - 1), Tail(q)[j] = Head(q) PROVE FALSE
    <2>1. q[j + 1] = q[1] /\ q[1] \in M /\ j + 1 \in 1..Len(q) /\ 1 \in 1..Len(q) /\ j + 1 # 1
        BY <1>1, <1>2, <1>4
    <2> QED BY <2>1, <1>1 DEF Once
<1> QED BY <1>1, <1>3, <1>4 DEF Once, Queued

\* Others get in line, all at once.
LEMMA AppendedAll ==
    ASSUME NEW S, NEW M, NEW q \in Seq(S), NEW s \in Seq(S), Once(q, M),
           \A y \in Queued(s) : y \notin M
    PROVE  /\ q \o s \in Seq(S)
           /\ Queued(q \o s) = Queued(q) \cup Queued(s)
           /\ Once(q \o s, M)
<1>1. /\ q \o s \in Seq(S) /\ Len(q) \in Nat /\ Len(s) \in Nat
      /\ Len(q \o s) = Len(q) + Len(s)
      /\ DOMAIN q = 1..Len(q) /\ DOMAIN s = 1..Len(s)
      /\ DOMAIN (q \o s) = 1..(Len(q) + Len(s))
      /\ \A j \in 1..Len(q) : (q \o s)[j] = q[j]
      /\ \A j \in 1..Len(s) : (q \o s)[Len(q) + j] = s[j]
    BY ConcatProperties
<1>2. ASSUME NEW j \in 1..(Len(q) + Len(s))
      PROVE  \/ j \in 1..Len(q) /\ (q \o s)[j] = q[j]
             \/ j - Len(q) \in 1..Len(s) /\ (q \o s)[j] = s[j - Len(q)]
    <2>1. CASE j <= Len(q)
        <3>1. j \in 1..Len(q)
            BY <1>1, <2>1
        <3> QED BY <3>1, <1>1
    <2>2. CASE ~ (j <= Len(q))
        <3>1. j - Len(q) \in 1..Len(s) /\ Len(q) + (j - Len(q)) = j
            BY <1>1, <2>2
        <3>2. (q \o s)[Len(q) + (j - Len(q))] = s[j - Len(q)]
            BY <3>1, <1>1
        <3> QED BY <3>1, <3>2
    <2> QED BY <2>1, <2>2
<1>3. Queued(q \o s) = Queued(q) \cup Queued(s)
    <2>1. ASSUME NEW y \in Queued(q \o s) PROVE y \in Queued(q) \cup Queued(s)
        <3>1. PICK j \in 1..(Len(q) + Len(s)) : y = (q \o s)[j]
            BY <1>1, <2>1 DEF Queued
        <3>2. CASE j \in 1..Len(q) /\ (q \o s)[j] = q[j]
            BY <3>1, <3>2, <1>1 DEF Queued
        <3>3. CASE j - Len(q) \in 1..Len(s) /\ (q \o s)[j] = s[j - Len(q)]
            BY <3>1, <3>3, <1>1 DEF Queued
        <3> QED BY <1>2, <3>2, <3>3
    <2>2. ASSUME NEW j \in 1..Len(q) PROVE q[j] \in Queued(q \o s)
        <3>1. j \in 1..(Len(q) + Len(s)) /\ (q \o s)[j] = q[j]
            BY <1>1
        <3> QED BY <3>1, <1>1 DEF Queued
    <2>3. ASSUME NEW j \in 1..Len(s) PROVE s[j] \in Queued(q \o s)
        <3>1. Len(q) + j \in 1..(Len(q) + Len(s)) /\ (q \o s)[Len(q) + j] = s[j]
            BY <1>1
        <3> QED BY <3>1, <1>1 DEF Queued
    <2> QED BY <2>1, <2>2, <2>3, <1>1 DEF Queued
<1>4. ASSUME NEW i \in 1..(Len(q) + Len(s)), NEW j \in 1..(Len(q) + Len(s)),
             (q \o s)[i] = (q \o s)[j], (q \o s)[i] \in M
      PROVE  i = j
    <2>1. \A k \in 1..Len(s) : s[k] \notin M
        BY <1>1 DEF Queued
    <2>2. i \in 1..Len(q) /\ (q \o s)[i] = q[i]
        BY <1>2, <1>4, <2>1
    <2>3. j \in 1..Len(q) /\ (q \o s)[j] = q[j]
        BY <1>2, <1>4, <2>1
    <2>4. q[i] = q[j] /\ q[i] \in M
        BY <2>2, <2>3, <1>4
    <2> QED BY <2>2, <2>3, <2>4, <1>1 DEF Once
<1> QED BY <1>1, <1>3, <1>4 DEF Once

\* Queues of one.
LEMMA Short ==
    ASSUME NEW x
    PROVE  /\ Append(<<>>, x) = <<x>> /\ <<x>> # <<>>
           /\ Head(<<x>>) = x /\ Tail(<<x>>) = <<>>
           /\ Queued(<<>>) = {} /\ Queued(<<x>>) = {x}
<1>1. /\ Append(<<>>, x) = <<x>> /\ <<x>> # <<>>
      /\ Head(<<x>>) = x /\ Tail(<<x>>) = <<>>
    OBVIOUS
<1>2. DOMAIN <<>> = {} /\ DOMAIN <<x>> = {1} /\ <<x>>[1] = x
    OBVIOUS
<1> QED BY <1>1, <1>2 DEF Queued

===============================================================================
