--------------------------- MODULE LctQueueProofs ---------------------------
(***************************************************************************)
(* Proofs about LctQueue, for any numbers of producers and consumers, any  *)
(* maxSize and any waiting times.                                          *)
(***************************************************************************)
EXTENDS LctQueue, TLAPS

USE DEF params, vars

-----------------------------------------------------------------------------
(* Sequences: what the two operations on std::queue do, position by         *)
(* position.                                                                *)

LEMMA AppendAt ==
  ASSUME NEW S, NEW s \in Seq(S), NEW x \in S
  PROVE  /\ Append(s, x) \in Seq(S)
         /\ Len(Append(s, x)) = Len(s) + 1
         /\ \A i \in 1 .. Len(s) : Append(s, x)[i] = s[i]
         /\ Append(s, x)[Len(s) + 1] = x
OBVIOUS

LEMMA ElementOfSeq ==
  ASSUME NEW S, NEW s \in Seq(S), NEW i \in 1 .. Len(s)
  PROVE  s[i] \in S
OBVIOUS

LEMMA LastOrBefore ==
  ASSUME NEW n \in Nat, NEW k \in 1 .. n + 1
  PROVE  k \in 1 .. n \/ k = n + 1
OBVIOUS

LEMMA TailAt ==
  ASSUME NEW S, NEW s \in Seq(S), s # <<>>
  PROVE  /\ Len(s) >= 1
         /\ Head(s) = s[1]
         /\ Head(s) \in S
         /\ Tail(s) \in Seq(S)
         /\ Len(Tail(s)) = Len(s) - 1
         /\ \A i \in 1 .. Len(s) - 1 : Tail(s)[i] = s[i + 1]
OBVIOUS

-----------------------------------------------------------------------------
(* Type correctness and the bound on the size.                              *)

LEMMA InitTyped == Init => TypeOK
<1> SUFFICES ASSUME Init PROVE TypeOK
  OBVIOUS
<1>1. maxSize \in Nat \ {0}
  BY SizeAssumption DEF Init
<1>2. queue \in Seq(Objects) /\ Len(queue) <= maxSize
  BY <1>1 DEF Init
<1>3. enqueueWait \in Waits /\ dequeueWait \in Waits /\ quit \in BOOLEAN
  BY WaitAssumption DEF Init
<1> QED
  BY <1>1, <1>2, <1>3 DEF Init, TypeOK, Codes

LEMMA PushTyped ==
  ASSUME TypeOK, NEW p \in Producers, Push(p)
  PROVE  /\ queue' \in Seq(Objects) /\ Len(queue') <= maxSize
         /\ sent' \in [Producers -> Nat]
         /\ state' \in [Users -> {"out", "waiting", "woken"}]
         /\ result' \in [Users -> Codes]
<1> USE DEF TypeOK
<1>1. Mine(p) \in Objects
  BY DEF Mine, Objects
<1>2. queue' \in Seq(Objects) /\ Len(queue') = Len(queue) + 1
  BY <1>1, AppendAt DEF Push
<1>3. Len(queue) < maxSize /\ Len(queue) \in Nat
  BY DEF Push, Full
<1> QED
  BY <1>2, <1>3 DEF Push, Notified, Users, Codes

LEMMA PopTyped ==
  ASSUME TypeOK, NEW c \in Consumers, Pop(c)
  PROVE  /\ queue' \in Seq(Objects) /\ Len(queue') <= maxSize
         /\ got' \in [Consumers -> Objects \cup {NoObject}]
         /\ taken' \in [Producers -> Nat]
         /\ state' \in [Users -> {"out", "waiting", "woken"}]
         /\ result' \in [Users -> Codes]
<1> USE DEF TypeOK
<1>1. /\ Head(queue) \in Objects /\ queue' \in Seq(Objects)
      /\ Len(queue') = Len(queue) - 1 /\ Len(queue) \in Nat
  BY TailAt DEF Pop
<1>2. Head(queue).from \in Producers /\ c \in Users
  BY <1>1 DEF Objects, Users
<1>3. taken' \in [Producers -> Nat]
  BY <1>2 DEF Pop
<1>4. got' \in [Consumers -> Objects \cup {NoObject}]
  BY <1>1 DEF Pop
<1>5. /\ state' \in [Users -> {"out", "waiting", "woken"}]
      /\ result' \in [Users -> Codes]
  BY <1>2 DEF Pop, Leave, Codes
<1>6. Len(queue') <= maxSize
  BY <1>1
<1> QED
  BY <1>1, <1>3, <1>4, <1>5, <1>6

LEMMA StepTyped == TypeOK /\ [Next]_vars => TypeOK'
<1> SUFFICES ASSUME TypeOK, [Next]_vars PROVE TypeOK'
  OBVIOUS
<1>1. ASSUME NEW p \in Producers, Enqueue(p) PROVE TypeOK'
  <2>1. CASE Push(p)
    BY <1>1, <2>1, PushTyped DEF Enqueue, TypeOK
  <2>2. CASE ~Push(p)
    BY <1>1, <2>2 DEF Enqueue, TypeOK, Leave, Wait, Users, Codes
  <2> QED
    BY <2>1, <2>2
<1>2. ASSUME NEW c \in Consumers, Dequeue(c) PROVE TypeOK'
  <2>1. CASE Pop(c)
    BY <1>2, <2>1, PopTyped DEF Dequeue, TypeOK
  <2>2. CASE ~Pop(c)
    BY <1>2, <2>2 DEF Dequeue, TypeOK, Leave, Wait, Users, Codes
  <2> QED
    BY <2>1, <2>2
<1>3. ASSUME NEW p \in Producers, EnqueueTimeout(p) PROVE TypeOK'
  BY <1>3 DEF EnqueueTimeout, TypeOK, Leave, Users, Codes
<1>4. ASSUME NEW c \in Consumers, DequeueTimeout(c) PROVE TypeOK'
  BY <1>4 DEF DequeueTimeout, TypeOK, Leave, Users, Codes
<1>5. ASSUME NEW u \in Users, SpuriousWakeup(u) PROVE TypeOK'
  BY <1>5 DEF SpuriousWakeup, TypeOK
<1>6. CASE NotifyAll
  BY <1>6 DEF NotifyAll, TypeOK, Notified
<1>7. CASE UNCHANGED vars
  BY <1>7 DEF TypeOK
<1> QED
  BY <1>1, <1>2, <1>3, <1>4, <1>5, <1>6, <1>7 DEF Next, Produce, Consume

\* Every variable keeps its type and the queue never exceeds maxSize.
THEOREM QueueTypeCorrect == Spec => []TypeOK
BY InitTyped, StepTyped, PTL DEF Spec

-----------------------------------------------------------------------------
(* No wakeup is lost on the consumers' side.                                *)

WaitInv == ConsumersWaitOnlyOnEmpty /\ NobodyWaitsAfterQuit

LEMMA StepWaitInv == TypeOK /\ WaitInv /\ [Next]_vars => WaitInv'
<1> SUFFICES ASSUME TypeOK, WaitInv, [Next]_vars PROVE WaitInv'
  OBVIOUS
<1> USE DEF WaitInv, ConsumersWaitOnlyOnEmpty, NobodyWaitsAfterQuit, TypeOK,
            Users
<1>1. ASSUME NEW p \in Producers, Enqueue(p) PROVE WaitInv'
  <2>1. CASE Push(p)
    BY <1>1, <2>1 DEF Enqueue, Push, Notified
  <2>2. CASE ~Push(p)
    BY <1>1, <2>2, ProducersAssumption DEF Enqueue, Leave, Wait
  <2> QED
    BY <2>1, <2>2
<1>2. ASSUME NEW c \in Consumers, Dequeue(c) PROVE WaitInv'
  BY <1>2 DEF Dequeue, Pop, Leave, Wait
<1>3. ASSUME NEW u \in Users,
             EnqueueTimeout(u) \/ DequeueTimeout(u) \/ SpuriousWakeup(u)
      PROVE  WaitInv'
  BY <1>3 DEF EnqueueTimeout, DequeueTimeout, SpuriousWakeup, Leave
<1>4. CASE NotifyAll
  BY <1>4 DEF NotifyAll, Notified
<1>5. CASE UNCHANGED vars
  BY <1>5
<1> QED
  BY <1>1, <1>2, <1>3, <1>4, <1>5 DEF Next, Produce, Consume

LEMMA WaitInvariant == Spec => []WaitInv
<1>1. Init => WaitInv
  BY DEF Init, WaitInv, ConsumersWaitOnlyOnEmpty, NobodyWaitsAfterQuit, Users
<1> QED
  BY <1>1, StepWaitInv, QueueTypeCorrect, PTL DEF Spec

\* A consumer only waits while the queue is empty, although a dequeue never
\* notifies and producers and consumers share one condition variable.
THEOREM NoConsumerWakeupLost == Spec => []ConsumersWaitOnlyOnEmpty
<1>1. WaitInv => ConsumersWaitOnlyOnEmpty
  BY DEF WaitInv
<1> QED
  BY <1>1, WaitInvariant, PTL

\* After notifyAll nobody waits and nobody starts to.
THEOREM NoWaitAfterQuit == Spec => []NobodyWaitsAfterQuit
<1>1. WaitInv => NobodyWaitsAfterQuit
  BY DEF WaitInv
<1> QED
  BY <1>1, WaitInvariant, PTL

-----------------------------------------------------------------------------
(* Nothing is lost, repeated or reordered.                                   *)

LEMMA NosAppend ==
  ASSUME NEW q \in Seq(Objects), NEW x \in Objects, NEW p
  PROVE  Nos(Append(q, x), p) = IF x.from = p THEN Nos(q, p) \cup {x.no}
                                              ELSE Nos(q, p)
<1> DEFINE a == Append(q, x)
<1>1. /\ Len(q) \in Nat /\ Len(a) = Len(q) + 1
      /\ \A i \in 1 .. Len(q) : a[i] = q[i]
      /\ a[Len(q) + 1] = x
  BY AppendAt
<1> HIDE DEF a
<1>2. \A n : n \in Nos(a, p) <=> \E i \in 1 .. Len(a) : a[i].from = p /\ a[i].no = n
  BY DEF Nos
<1>3. \A n : n \in Nos(q, p) <=> \E i \in 1 .. Len(q) : q[i].from = p /\ q[i].no = n
  BY DEF Nos
<1>4. \A n : (\E i \in 1 .. Len(a) : a[i].from = p /\ a[i].no = n)
               <=> \/ \E i \in 1 .. Len(q) : q[i].from = p /\ q[i].no = n
                   \/ x.from = p /\ x.no = n
  BY <1>1
<1>5. \A n : n \in Nos(a, p) <=> n \in Nos(q, p) \/ (x.from = p /\ n = x.no)
  BY <1>2, <1>3, <1>4
<1> QED
  BY <1>5 DEF a

LEMMA NosTail ==
  ASSUME NEW q \in Seq(Objects), q # <<>>, InOrder(q), NEW p
  PROVE  Nos(Tail(q), p) = IF Head(q).from = p THEN Nos(q, p) \ {Head(q).no}
                                               ELSE Nos(q, p)
<1> DEFINE t == Tail(q)
           h == Head(q)
<1>1. /\ Len(q) \in Nat /\ Len(q) >= 1 /\ Len(t) = Len(q) - 1 /\ h = q[1]
      /\ \A i \in 1 .. Len(q) - 1 : t[i] = q[i + 1]
  BY TailAt
<1>2. \A i \in 1 .. Len(q) : q[i].no \in Nat
  <2> SUFFICES ASSUME NEW i \in 1 .. Len(q) PROVE q[i].no \in Nat
    OBVIOUS
  <2>1. q[i] \in Objects
    BY ElementOfSeq
  <2> QED
    BY <2>1 DEF Objects
<1> HIDE DEF t, h
<1>3. \A n : n \in Nos(t, p) <=> \E i \in 1 .. Len(t) : t[i].from = p /\ t[i].no = n
  BY DEF Nos
<1>4. \A n : n \in Nos(q, p) <=> \E i \in 1 .. Len(q) : q[i].from = p /\ q[i].no = n
  BY DEF Nos
<1>5. \A n : (\E i \in 1 .. Len(t) : t[i].from = p /\ t[i].no = n)
               <=> \E i \in 2 .. Len(q) : q[i].from = p /\ q[i].no = n
  <2>1. ASSUME NEW n, NEW i \in 2 .. Len(q), q[i].from = p, q[i].no = n
        PROVE  \E j \in 1 .. Len(t) : t[j].from = p /\ t[j].no = n
    <3>1. i - 1 \in 1 .. Len(t) /\ t[i - 1] = q[i]
      BY <1>1
    <3> QED
      BY <2>1, <3>1
  <2>2. ASSUME NEW n, NEW i \in 1 .. Len(t), t[i].from = p, t[i].no = n
        PROVE  \E j \in 2 .. Len(q) : q[j].from = p /\ q[j].no = n
    <3>1. i + 1 \in 2 .. Len(q) /\ t[i] = q[i + 1]
      BY <1>1
    <3> QED
      BY <2>2, <3>1
  <2> QED
    BY <2>1, <2>2
<1>6. \A i \in 2 .. Len(q) : q[i].from = h.from => q[i].no # h.no
  <2>1. \A i \in 2 .. Len(q) : i \in 1 .. Len(q) /\ 1 \in 1 .. Len(q) /\ 1 < i
    BY <1>1
  <2> QED
    BY <1>1, <1>2, <2>1 DEF InOrder
<1>7. \A i \in 1 .. Len(q) : i = 1 \/ i \in 2 .. Len(q)
  BY <1>1
<1>8. \A n : n \in Nos(t, p) <=> n \in Nos(q, p) /\ ~(h.from = p /\ n = h.no)
  <2>1. ASSUME NEW n, n \in Nos(t, p)
        PROVE  n \in Nos(q, p) /\ ~(h.from = p /\ n = h.no)
    <3>1. PICK i \in 2 .. Len(q) : q[i].from = p /\ q[i].no = n
      BY <1>3, <1>5, <2>1
    <3>2. i \in 1 .. Len(q)
      BY <1>1
    <3> QED
      BY <1>4, <1>6, <3>1, <3>2
  <2>2. ASSUME NEW n, n \in Nos(q, p), ~(h.from = p /\ n = h.no)
        PROVE  n \in Nos(t, p)
    <3>1. PICK i \in 1 .. Len(q) : q[i].from = p /\ q[i].no = n
      BY <1>4, <2>2
    <3>2. i \in 2 .. Len(q)
      BY <1>1, <1>7, <2>2, <3>1
    <3> QED
      BY <1>3, <1>5, <3>1, <3>2
  <2> QED
    BY <2>1, <2>2
<1> QED
  BY <1>8 DEF t, h

\* Nobody has taken more of a producer's objects than it enqueued.
FifoInv == NothingLostOrReordered /\ \A p \in Producers : taken[p] <= sent[p]

\* Appending the next object of p keeps the order.
LEMMA PushKeepsFifo ==
  ASSUME TypeOK, FifoInv, NEW p \in Producers, Push(p), taken' = taken
  PROVE  FifoInv'
<1> USE DEF TypeOK
<1> DEFINE x == Mine(p)
<1>1. x \in Objects /\ x.from = p /\ x.no = sent[p] + 1
  BY DEF Mine, Objects
<1>2. queue' = Append(queue, x) /\ sent' = [sent EXCEPT ![p] = @ + 1]
  BY DEF Push
<1> HIDE DEF x
<1>3. /\ Len(queue) \in Nat /\ Len(queue') = Len(queue) + 1
      /\ \A i \in 1 .. Len(queue) : queue'[i] = queue[i]
      /\ queue'[Len(queue) + 1] = x
  BY <1>1, <1>2, AppendAt
<1>4. ASSUME NEW i \in 1 .. Len(queue), queue[i].from = p
      PROVE  queue[i].no < x.no
  <2>1. queue[i].no \in Nos(queue, p)
    BY <1>4 DEF Nos
  <2>2. queue[i].no \in taken[p] + 1 .. sent[p]
    BY <2>1 DEF FifoInv, NothingLostOrReordered
  <2> QED
    BY <1>1, <2>2
<1>5. InOrder(queue')
  <2> SUFFICES ASSUME NEW i \in 1 .. Len(queue'), NEW j \in 1 .. Len(queue'),
                      i < j, queue'[i].from = queue'[j].from
               PROVE  queue'[i].no < queue'[j].no
    BY DEF InOrder
  <2>1. i \in 1 .. Len(queue) /\ queue'[i] = queue[i]
    BY <1>3
  <2>2. CASE j \in 1 .. Len(queue)
    BY <1>3, <2>1, <2>2 DEF FifoInv, NothingLostOrReordered, InOrder
  <2>3. CASE j = Len(queue) + 1
    BY <1>1, <1>3, <1>4, <2>1, <2>3
  <2>4. Len(queue) \in Nat /\ j \in 1 .. Len(queue) + 1
    BY <1>3
  <2>5. j \in 1 .. Len(queue) \/ j = Len(queue) + 1
    BY <2>4, LastOrBefore
  <2> QED
    BY <2>2, <2>3, <2>5
<1>6. ASSUME NEW r \in Producers
      PROVE  Nos(queue', r) = taken[r] + 1 .. sent'[r] /\ taken[r] <= sent'[r]
  <2>1. Nos(queue', r) = IF x.from = r THEN Nos(queue, r) \cup {x.no}
                                       ELSE Nos(queue, r)
    BY <1>1, <1>2, NosAppend
  <2>2. /\ Nos(queue, r) = taken[r] + 1 .. sent[r] /\ taken[r] <= sent[r]
        /\ taken[r] \in Nat /\ sent[r] \in Nat
    BY DEF FifoInv, NothingLostOrReordered
  <2>3. CASE r = p
    <3>1. sent'[r] = sent[r] + 1 /\ x.no = sent[r] + 1
      BY <1>1, <1>2, <2>3
    <3>2. Nos(queue', r) = Nos(queue, r) \cup {sent[r] + 1}
      BY <1>1, <2>1, <2>3, <3>1
    <3> QED
      BY <2>2, <3>1, <3>2
  <2>4. CASE r # p
    BY <1>1, <1>2, <2>1, <2>2, <2>4
  <2> QED
    BY <2>3, <2>4
<1> QED
  BY <1>5, <1>6 DEF FifoInv, NothingLostOrReordered

\* The head is its producer's oldest object.
LEMMA HeadIsOldest ==
  ASSUME TypeOK, FifoInv, queue # <<>>
  PROVE  /\ Head(queue) \in Objects
         /\ Head(queue).no = taken[Head(queue).from] + 1
         /\ Head(queue).no <= sent[Head(queue).from]
<1> USE DEF TypeOK
<1> DEFINE h == Head(queue)
<1>1. Len(queue) \in Nat /\ Len(queue) >= 1 /\ h = queue[1] /\ h \in Objects
  BY TailAt
<1>2. h.from \in Producers /\ h.no \in Nat
  BY <1>1 DEF Objects
<1>3. InOrder(queue) /\ 1 \in 1 .. Len(queue)
  BY <1>1 DEF FifoInv, NothingLostOrReordered
<1> HIDE DEF h
<1>4. h.no \in Nos(queue, h.from)
  BY <1>1, <1>3 DEF Nos
<1>5. ASSUME NEW n \in Nos(queue, h.from) PROVE n >= h.no
  <2>1. PICK i \in 1 .. Len(queue) : queue[i].from = h.from /\ queue[i].no = n
    BY <1>5 DEF Nos
  <2>2. queue[i] \in Objects
    BY ElementOfSeq
  <2>3. n \in Nat
    BY <2>1, <2>2 DEF Objects
  <2>4. i = 1 \/ 1 < i
    BY <1>1
  <2> QED
    BY <1>1, <1>2, <1>3, <2>1, <2>3, <2>4 DEF InOrder
<1>6. /\ Nos(queue, h.from) = taken[h.from] + 1 .. sent[h.from]
      /\ taken[h.from] \in Nat /\ sent[h.from] \in Nat
  BY <1>2 DEF FifoInv, NothingLostOrReordered
<1>7. h.no \in taken[h.from] + 1 .. sent[h.from]
  BY <1>4, <1>6
<1>8. taken[h.from] + 1 \in Nos(queue, h.from)
  BY <1>6, <1>7
<1>9. taken[h.from] + 1 >= h.no
  BY <1>5, <1>8
<1>10. h.no = taken[h.from] + 1
  BY <1>2, <1>6, <1>7, <1>9
<1> QED
  BY <1>1, <1>6, <1>7, <1>10 DEF h

\* Taking the head keeps the order.
LEMMA PopKeepsFifo ==
  ASSUME TypeOK, FifoInv, NEW c \in Consumers, Pop(c), sent' = sent
  PROVE  FifoInv'
<1> USE DEF TypeOK
<1> DEFINE h == Head(queue)
<1>1. queue # <<>> /\ queue' = Tail(queue) /\ taken' = [taken EXCEPT ![h.from] = @ + 1]
  BY DEF Pop
<1>2. /\ Len(queue) \in Nat /\ Len(queue) >= 1 /\ h = queue[1] /\ h \in Objects
      /\ Len(queue') = Len(queue) - 1
      /\ \A i \in 1 .. Len(queue) - 1 : queue'[i] = queue[i + 1]
  BY <1>1, TailAt
<1>3. h.from \in Producers /\ h.no \in Nat
  BY <1>2 DEF Objects
<1>4. InOrder(queue)
  BY DEF FifoInv, NothingLostOrReordered
<1>5. \A r \in Producers : Nos(queue', r) = IF h.from = r THEN Nos(queue, r) \ {h.no}
                                                        ELSE Nos(queue, r)
  BY <1>1, <1>4, NosTail
<1> HIDE DEF h
<1>6. h.no = taken[h.from] + 1 /\ h.no <= sent[h.from]
  BY <1>1, HeadIsOldest DEF h
<1>7. InOrder(queue')
  <2> SUFFICES ASSUME NEW i \in 1 .. Len(queue'), NEW j \in 1 .. Len(queue'),
                      i < j, queue'[i].from = queue'[j].from
               PROVE  queue'[i].no < queue'[j].no
    BY DEF InOrder
  <2>1. /\ i + 1 \in 1 .. Len(queue) /\ j + 1 \in 1 .. Len(queue) /\ i + 1 < j + 1
        /\ queue'[i] = queue[i + 1] /\ queue'[j] = queue[j + 1]
    BY <1>2
  <2> QED
    BY <1>4, <2>1 DEF InOrder
<1>8. ASSUME NEW r \in Producers
      PROVE  Nos(queue', r) = taken'[r] + 1 .. sent[r] /\ taken'[r] <= sent[r]
  <2>1. /\ Nos(queue, r) = taken[r] + 1 .. sent[r] /\ taken[r] <= sent[r]
        /\ taken[r] \in Nat /\ sent[r] \in Nat
    BY DEF FifoInv, NothingLostOrReordered
  <2>2. CASE r = h.from
    <3>1. taken'[r] = taken[r] + 1
      BY <1>1, <2>2
    <3>3. h.no = taken[r] + 1 /\ h.no <= sent[r]
      BY <1>6, <2>2
    <3>4. Nos(queue', r) = (taken[r] + 1 .. sent[r]) \ {taken[r] + 1}
      BY <1>5, <2>1, <2>2, <3>3
    <3> QED
      BY <2>1, <3>1, <3>3, <3>4
  <2>3. CASE r # h.from
    BY <1>1, <1>5, <2>1, <2>3
  <2> QED
    BY <2>2, <2>3
<1> QED
  BY <1>7, <1>8 DEF FifoInv, NothingLostOrReordered

LEMMA StepFifo == TypeOK /\ FifoInv /\ [Next]_vars => FifoInv'
<1> SUFFICES ASSUME TypeOK, FifoInv, [Next]_vars PROVE FifoInv'
  OBVIOUS
<1>1. CASE UNCHANGED <<queue, sent, taken>>
  BY <1>1 DEF FifoInv, NothingLostOrReordered, InOrder, Nos
<1>2. ASSUME NEW p \in Producers, Enqueue(p) PROVE FifoInv'
  <2>1. taken' = taken
    BY <1>2 DEF Enqueue
  <2>2. CASE Push(p)
    BY <2>1, <2>2, PushKeepsFifo
  <2>3. CASE ~Push(p)
    BY <1>1, <1>2, <2>3 DEF Enqueue
  <2> QED
    BY <2>2, <2>3
<1>3. ASSUME NEW c \in Consumers, Dequeue(c) PROVE FifoInv'
  <2>1. sent' = sent
    BY <1>3 DEF Dequeue
  <2>2. CASE Pop(c)
    BY <2>1, <2>2, PopKeepsFifo
  <2>3. CASE ~Pop(c)
    BY <1>1, <1>3, <2>3 DEF Dequeue
  <2> QED
    BY <2>2, <2>3
<1>4. ASSUME NEW u, EnqueueTimeout(u) \/ DequeueTimeout(u) \/ SpuriousWakeup(u)
      PROVE  FifoInv'
  BY <1>1, <1>4 DEF EnqueueTimeout, DequeueTimeout, SpuriousWakeup
<1>5. CASE NotifyAll \/ UNCHANGED vars
  BY <1>1, <1>5 DEF NotifyAll
<1> QED
  BY <1>2, <1>3, <1>4, <1>5 DEF Next, Produce, Consume

\* The queue always holds exactly what was enqueued and not yet dequeued, each
\* producer's objects in the order it enqueued them.
THEOREM QueueIsFifo == Spec => []NothingLostOrReordered
<1>1. Init => FifoInv
  <2> SUFFICES ASSUME Init PROVE FifoInv
    OBVIOUS
  <2>1. queue = <<>> /\ \A p \in Producers : taken[p] = 0 /\ sent[p] = 0
    BY DEF Init
  <2>2. ASSUME NEW p PROVE Nos(queue, p) = {}
    <3>1. 1 .. Len(queue) = {}
      BY <2>1
    <3> QED
      BY <3>1 DEF Nos
  <2>3. InOrder(queue)
    BY <2>1 DEF InOrder
  <2> QED
    BY <2>1, <2>2, <2>3 DEF FifoInv, NothingLostOrReordered
<1>2. FifoInv => NothingLostOrReordered
  BY DEF FifoInv
<1> QED
  BY <1>1, <1>2, StepFifo, QueueTypeCorrect, PTL DEF Spec

=============================================================================
