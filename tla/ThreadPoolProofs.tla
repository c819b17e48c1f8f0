-------------------------- MODULE ThreadPoolProofs --------------------------
(***************************************************************************)
(* Proofs about ThreadPool, for any callers, workers, thread counts and    *)
(* bounds.  What the queue keeps is not proved again: LctQueueProofs is    *)
(* instantiated with the pool's queue, and a step of the pool is a step of *)
(* the queue, a step that leaves it alone, or makes it anew.               *)
(***************************************************************************)
EXTENDS ThreadPool, TLAPS

QueueFacts == INSTANCE LctQueueProofs WITH
                Producers    <- Callers,
                Consumers    <- Workers,
                SizeArgs     <- {SIZE_INFINITE},
                EnqueueWaits <- {"forever"},
                DequeueWaits <- {"forever"},
                MaxSent      <- MaxTasks

-----------------------------------------------------------------------------
(* The queue of the pool.                                                   *)

\* What LctQueue assumes of its constants.
LEMMA QueueAssumed ==
  /\ Callers \cap Workers = {}
  /\ {SIZE_INFINITE} \subseteq Int
  /\ {"forever"} \subseteq QueueFacts!Waits
  /\ Spurious \in BOOLEAN
  /\ MaxTasks \in Nat
BY PoolThreadsAssumption, PoolSwitchAssumption, PoolBoundAssumption
   DEF SIZE_INFINITE, QueueFacts!Waits

\* The invariant of the queue.
QueueInv == Queue!TypeOK /\ QueueFacts!FifoInv

LEMMA SameQueueType == Queue!TypeOK <=> QueueFacts!TypeOK
BY DEF Queue!TypeOK, QueueFacts!TypeOK, Queue!Waits, QueueFacts!Waits,
       Queue!Objects, QueueFacts!Objects, Queue!Users, QueueFacts!Users,
       Queue!Codes, QueueFacts!Codes, Queue!NoObject, QueueFacts!NoObject

LEMMA SameQueueTypeNext == Queue!TypeOK' <=> QueueFacts!TypeOK'
BY DEF Queue!TypeOK, QueueFacts!TypeOK, Queue!Waits, QueueFacts!Waits,
       Queue!Objects, QueueFacts!Objects, Queue!Users, QueueFacts!Users,
       Queue!Codes, QueueFacts!Codes, Queue!NoObject, QueueFacts!NoObject

\* A step of the pool's queue is a step of LctQueue.
QueueStep ==
  \/ \E c \in Callers : Queue!Enqueue(c)
  \/ \E w \in Workers : Queue!Dequeue(w)
  \/ \E w \in Workers : Queue!SpuriousWakeup(w)
  \/ Queue!NotifyAll

LEMMA QueueStepIsNext == QueueStep => QueueFacts!Next
<1> USE DEF Queue!params, QueueFacts!params, Queue!Looks, QueueFacts!Looks,
            Queue!Leave, QueueFacts!Leave, Queue!Wait, QueueFacts!Wait,
            Queue!Notified, QueueFacts!Notified, Queue!Users, QueueFacts!Users
<1>1. ASSUME NEW c \in Callers, Queue!Enqueue(c) PROVE QueueFacts!Enqueue(c)
  BY <1>1 DEF Queue!Enqueue, QueueFacts!Enqueue, Queue!Push, QueueFacts!Push,
              Queue!Full, QueueFacts!Full, Queue!Mine, QueueFacts!Mine
<1>2. ASSUME NEW w \in Workers, Queue!Dequeue(w) PROVE QueueFacts!Dequeue(w)
  BY <1>2 DEF Queue!Dequeue, QueueFacts!Dequeue, Queue!Pop, QueueFacts!Pop
<1>3. ASSUME NEW w \in Workers, Queue!SpuriousWakeup(w)
      PROVE  QueueFacts!SpuriousWakeup(w)
  BY <1>3 DEF Queue!SpuriousWakeup, QueueFacts!SpuriousWakeup
<1>4. Queue!NotifyAll => QueueFacts!NotifyAll
  BY DEF Queue!NotifyAll, QueueFacts!NotifyAll
<1> QED
  BY <1>1, <1>2, <1>3, <1>4
     DEF QueueStep, QueueFacts!Next, QueueFacts!Produce, QueueFacts!Consume

\* Making the queue anew restores what its constructor establishes.
LEMMA FreshQueueInv == QueueInv /\ FreshQueue => QueueInv'
<1> SUFFICES ASSUME QueueInv, FreshQueue PROVE QueueInv'
  OBVIOUS
<1>1. queue' = <<>> /\ \A c \in Callers : taken'[c] = 0 /\ sent'[c] = 0
  BY DEF FreshQueue
<1>2. Queue!TypeOK'
  <2>1. queue' \in Seq(Queue!Objects) /\ Len(queue') = 0
    BY <1>1
  <2>2. maxSize' \in Nat \ {0} /\ Len(queue') <= maxSize'
    BY <2>1 DEF QueueInv, FreshQueue, Queue!TypeOK
  <2>3. enqueueWait' \in Queue!Waits /\ dequeueWait' \in Queue!Waits
    BY DEF QueueInv, FreshQueue, Queue!TypeOK
  <2>4. /\ quit' \in BOOLEAN
        /\ state' \in [Queue!Users -> {"out", "waiting", "woken"}]
        /\ result' \in [Queue!Users -> Queue!Codes]
        /\ got' \in [Workers -> Queue!Objects \cup {Queue!NoObject}]
        /\ sent' \in [Callers -> Nat] /\ taken' \in [Callers -> Nat]
    BY DEF FreshQueue, Queue!Users, Queue!Codes
  <2> QED
    BY <2>1, <2>2, <2>3, <2>4 DEF Queue!TypeOK
<1>3. ASSUME NEW c PROVE QueueFacts!Nos(queue', c) = {}
  <2>1. 1 .. Len(queue') = {}
    BY <1>1
  <2> QED
    BY <2>1 DEF QueueFacts!Nos
<1>4. QueueFacts!InOrder(queue')
  BY <1>1 DEF QueueFacts!InOrder
<1>5. \A c \in Callers : taken'[c] + 1 .. sent'[c] = {} /\ taken'[c] <= sent'[c]
  BY <1>1
<1>6. QueueFacts!FifoInv'
  BY <1>3, <1>4, <1>5 DEF QueueFacts!FifoInv, QueueFacts!NothingLostOrReordered
<1> QED
  BY <1>2, <1>6 DEF QueueInv

LEMMA QueueKeepsInv ==
  QueueInv /\ (QueueStep \/ UNCHANGED queueVars \/ FreshQueue) => QueueInv'
<1> SUFFICES ASSUME QueueInv, QueueStep \/ UNCHANGED queueVars \/ FreshQueue
             PROVE  QueueInv'
  OBVIOUS
<1>1. CASE QueueStep \/ UNCHANGED queueVars
  <2>1. [QueueFacts!Next]_(QueueFacts!vars)
    BY <1>1, QueueStepIsNext DEF queueVars, QueueFacts!vars, QueueFacts!params
  <2>2. QueueFacts!TypeOK /\ QueueFacts!FifoInv
    BY SameQueueType DEF QueueInv
  <2>3. QueueFacts!TypeOK'
    BY <2>1, <2>2, QueueFacts!StepTyped, QueueAssumed
  <2>4. QueueFacts!FifoInv'
    BY <2>1, <2>2, QueueFacts!StepFifo, QueueAssumed
  <2> QED
    BY <2>3, <2>4, SameQueueTypeNext DEF QueueInv
<1>2. CASE FreshQueue
  BY <1>2, FreshQueueInv
<1> QED
  BY <1>1, <1>2

-----------------------------------------------------------------------------
(* The control of the pool.                                                 *)

ControlTyped ==
  /\ isRunning \in BOOLEAN
  /\ impl \in {"null", "made", "deleted"}
  /\ threadCount \in Nat \ {0}
  /\ runningFlag \in BOOLEAN
  /\ worker \in [Workers -> {"none", "flag", "dequeue", "task", "done"}]
  /\ owner \in {"idle", "notify", "join", "delete", "clear"}
  /\ caller \in [Callers -> {"idle", "enqueue"}]
  /\ undefined \in BOOLEAN
  /\ lives \in Nat

\* A worker only exists while the implementation does.
CrewInv ==
  /\ \A w \in Workers : worker[w] # "none" => impl = "made"
  /\ owner = "delete" => impl = "deleted"

ControlInv == ControlTyped /\ CrewInv

LEMMA InitControlInv == PoolInit => ControlInv
<1> SUFFICES ASSUME PoolInit PROVE ControlInv
  OBVIOUS
<1>1. ControlTyped
  <2>1. isRunning \in BOOLEAN /\ runningFlag \in BOOLEAN /\ undefined \in BOOLEAN
    BY DEF PoolInit
  <2>2. /\ impl = "null" /\ owner = "idle" /\ threadCount = 1 /\ lives = 0
        /\ worker = [w \in Workers |-> "none"] /\ caller = [c \in Callers |-> "idle"]
    BY DEF PoolInit
  <2> QED
    BY <2>1, <2>2 DEF ControlTyped
<1>2. CrewInv
  BY DEF PoolInit, CrewInv
<1> QED
  BY <1>1, <1>2 DEF ControlInv

LEMMA StepControlInv == ControlInv /\ [PoolNext]_vars => ControlInv'
<1> SUFFICES ASSUME ControlInv, [PoolNext]_vars PROVE ControlInv'
  OBVIOUS
<1> USE DEF ControlInv, ControlTyped, CrewInv
<1>1. CASE Create
  <2>1. threadCount' \in Nat \ {0}
    BY <1>1, ThreadCountAssumption DEF Create
  <2>2. isRunning' = isRunning /\ undefined' = undefined /\ runningFlag' = FALSE
    BY <1>1 DEF Create
  <2>3. worker' = worker /\ caller' = caller /\ owner' = "idle"
    BY <1>1 DEF Create
  <2>4. impl' = "made" /\ lives' \in Nat
    BY <1>1 DEF Create
  <2> QED
    BY <2>1, <2>2, <2>3, <2>4
<1>2. CASE Start
  <2>1. ASSUME NEW n \in Int, Spawn(n)
        PROVE  worker' \in [Workers -> {"none", "flag", "dequeue", "task", "done"}]
    BY <2>1 DEF Spawn
  <2>2. worker' \in [Workers -> {"none", "flag", "dequeue", "task", "done"}]
    BY <1>2, <2>1 DEF Start
  <2>3. isRunning' \in BOOLEAN
    BY <1>2 DEF Start
  <2> QED
    BY <1>2, <2>2, <2>3 DEF Start
<1>3. CASE LowerFlag \/ WakeWorkers \/ ClearPointer \/ StopRunning
  BY <1>3 DEF LowerFlag, WakeWorkers, ClearPointer, StopRunning
<1>4. CASE JoinAndDelete
  BY <1>4 DEF JoinAndDelete
<1>5. ASSUME NEW c \in Callers, CheckRunning(c) \/ Emplace(c) PROVE ControlInv'
  BY <1>5 DEF CheckRunning, Emplace
<1>6. ASSUME NEW w \in Workers, Loop(w) PROVE ControlInv'
  BY <1>6 DEF Loop, CheckFlag, Take, RunTask
<1>7. CASE UNCHANGED poolVars
  BY <1>7 DEF poolVars
<1> QED
  BY <1>1, <1>2, <1>3, <1>4, <1>5, <1>6, <1>7
     DEF PoolNext, Shutdown, Wakeup, vars

\* Every step of the pool is one of the queue, leaves it alone or makes it anew.
LEMMA PoolStepOnQueue ==
  [PoolNext]_vars => QueueStep \/ UNCHANGED queueVars \/ FreshQueue
<1> SUFFICES ASSUME [PoolNext]_vars
             PROVE  QueueStep \/ UNCHANGED queueVars \/ FreshQueue
  OBVIOUS
<1> USE DEF QueueStep
<1>1. Create \/ Start \/ Shutdown => UNCHANGED queueVars \/ FreshQueue \/ Queue!NotifyAll
  BY DEF Create, Start, Shutdown, LowerFlag, WakeWorkers, JoinAndDelete,
         ClearPointer, StopRunning
<1>2. ASSUME NEW c \in Callers, CheckRunning(c) \/ Emplace(c)
      PROVE  UNCHANGED queueVars \/ Queue!Enqueue(c)
  BY <1>2 DEF CheckRunning, Emplace
<1>3. ASSUME NEW w \in Workers, Loop(w) \/ Wakeup(w)
      PROVE  UNCHANGED queueVars \/ Queue!Dequeue(w) \/ Queue!SpuriousWakeup(w)
  BY <1>3 DEF Loop, CheckFlag, Take, RunTask, Wakeup
<1>4. UNCHANGED vars => UNCHANGED queueVars
  BY DEF vars
<1> QED
  BY <1>1, <1>2, <1>3, <1>4 DEF PoolNext

LEMMA InitQueueInv == PoolInit => QueueInv
<1> SUFFICES ASSUME PoolInit PROVE QueueInv
  OBVIOUS
<1>1. /\ queue = <<>> /\ \A c \in Callers : taken[c] = 0 /\ sent[c] = 0
      /\ maxSize = SIZE_INFINITE /\ enqueueWait = "forever" /\ dequeueWait = "forever"
  BY DEF PoolInit, Queue!Init, SIZE_INFINITE
<1>2. Queue!TypeOK
  <2>1. queue \in Seq(Queue!Objects) /\ Len(queue) = 0
    BY <1>1
  <2>2. maxSize \in Nat \ {0} /\ Len(queue) <= maxSize
    BY <1>1, <2>1 DEF SIZE_INFINITE
  <2> QED
    BY <1>1, <2>1, <2>2
       DEF PoolInit, Queue!Init, Queue!TypeOK, Queue!Waits, Queue!Users, Queue!Codes
<1>3. ASSUME NEW c PROVE QueueFacts!Nos(queue, c) = {}
  <2>1. 1 .. Len(queue) = {}
    BY <1>1
  <2> QED
    BY <2>1 DEF QueueFacts!Nos
<1>4. QueueFacts!InOrder(queue)
  BY <1>1 DEF QueueFacts!InOrder
<1>5. \A c \in Callers : taken[c] + 1 .. sent[c] = {} /\ taken[c] <= sent[c]
  BY <1>1
<1> QED
  BY <1>2, <1>3, <1>4, <1>5
     DEF QueueInv, QueueFacts!FifoInv, QueueFacts!NothingLostOrReordered

-----------------------------------------------------------------------------
(* Tasks and the hands they are in.                                         *)

\* Task t has left the queue.
Begun(t) == t \in Tasks /\ 1 <= t.no /\ t.no <= taken[t.from]

HandsInv ==
  /\ \A v, w \in InHand : v # w => got[v] # got[w]
  /\ \A w \in InHand : got[w] \notin ran
  /\ \A t : (t \in ran \/ \E w \in InHand : got[w] = t) <=> Begun(t)

\* The tasks that left the queue, as EveryTaskInOneHand writes them.
LEMMA BegunTasks ==
  ASSUME QueueInv
  PROVE  \A t : Begun(t) <=> t \in UNION {[from : {c}, no : 1 .. taken[c]] : c \in Callers}
<1>1. taken \in [Callers -> Nat]
  BY DEF QueueInv, Queue!TypeOK
<1>2. ASSUME NEW t, Begun(t)
      PROVE  \E c \in Callers : t \in [from : {c}, no : 1 .. taken[c]]
  <2>1. t.from \in Callers /\ t = [from |-> t.from, no |-> t.no] /\ t.no \in Nat
    BY <1>2 DEF Begun, Tasks
  <2>2. t.no \in 1 .. taken[t.from]
    BY <1>1, <1>2, <2>1 DEF Begun
  <2> QED
    BY <2>1, <2>2
<1>3. ASSUME NEW c \in Callers, NEW t \in [from : {c}, no : 1 .. taken[c]]
      PROVE  Begun(t)
  BY <1>1 DEF Begun, Tasks
<1> QED
  BY <1>2, <1>3

LEMMA HandsInvMeans == QueueInv /\ HandsInv => EveryTaskInOneHand /\ ran \subseteq Tasks
<1> SUFFICES ASSUME QueueInv, HandsInv
             PROVE  EveryTaskInOneHand /\ ran \subseteq Tasks
  OBVIOUS
<1> DEFINE begun == UNION {[from : {c}, no : 1 .. taken[c]] : c \in Callers}
<1>1. \A t : Begun(t) <=> t \in begun
  BY BegunTasks
<1> HIDE DEF begun
<1>2. ran \cup {got[w] : w \in InHand} = begun
  BY <1>1 DEF HandsInv
<1>3. ran \subseteq Tasks
  BY DEF HandsInv, Begun
<1> QED
  BY <1>2, <1>3 DEF HandsInv, EveryTaskInOneHand, begun

\* A step that hands out no task, runs none and takes none keeps HandsInv.
LEMMA HandsUntouched ==
  ASSUME HandsInv, InHand' = InHand, UNCHANGED <<got, ran, taken>>
  PROVE  HandsInv'
BY DEF HandsInv, Begun, Tasks

\* A worker takes the head: nobody held or ran it.
LEMMA TakeKeepsHands ==
  ASSUME QueueInv, HandsInv, NEW w \in Workers, w \notin InHand,
         queue # <<>>, InHand' = InHand \cup {w}, ran' = ran,
         got' = [got EXCEPT ![w] = Head(queue)],
         taken' = [taken EXCEPT ![Head(queue).from] = @ + 1]
  PROVE  HandsInv'
<1> DEFINE h == Head(queue)
<1>1. /\ h \in Tasks /\ h.no = taken[h.from] + 1
      /\ taken \in [Callers -> Nat] /\ got \in [Workers -> Queue!Objects \cup {Queue!NoObject}]
  <2>1. QueueFacts!TypeOK /\ QueueFacts!FifoInv
    BY SameQueueType DEF QueueInv
  <2>2. h \in QueueFacts!Objects /\ h.no = taken[h.from] + 1
    BY <2>1, QueueFacts!HeadIsOldest, QueueAssumed
  <2> QED
    BY <2>2 DEF QueueFacts!Objects, Tasks, QueueInv, Queue!TypeOK
<1> HIDE DEF h
<1>2. got'[w] = h /\ \A v \in InHand : v \in Workers /\ got'[v] = got[v] /\ v # w
  BY <1>1 DEF InHand, h
<1>3. taken' = [taken EXCEPT ![h.from] = @ + 1]
  BY DEF h
<1>4. ~Begun(h)
  BY <1>1 DEF Begun, Tasks
<1>5. \A t : Begun(t)' <=> Begun(t) \/ t = h
  <2>1. ASSUME NEW t \in Tasks PROVE Begun(t)' <=> Begun(t) \/ t = h
    <3>1. /\ t.from \in Callers /\ h.from \in Callers /\ t.no \in Nat /\ h.no \in Nat
          /\ t = [from |-> t.from, no |-> t.no] /\ h = [from |-> h.from, no |-> h.no]
      BY <1>1, <2>1 DEF Tasks
    <3>2. CASE t.from = h.from
      <4>1. taken'[t.from] = taken[t.from] + 1 /\ taken[t.from] \in Nat
        BY <1>1, <1>3, <3>1, <3>2
      <4>2. t = h <=> t.no = taken[t.from] + 1
        BY <1>1, <3>1, <3>2
      <4>3. Begun(t) <=> 1 <= t.no /\ t.no <= taken[t.from]
        BY <2>1 DEF Begun
      <4>4. Begun(t)' <=> 1 <= t.no /\ t.no <= taken'[t.from]
        BY <2>1 DEF Begun, Tasks
      <4> QED
        BY <3>1, <4>1, <4>2, <4>3, <4>4
    <3>3. CASE t.from # h.from
      <4>1. taken'[t.from] = taken[t.from] /\ t # h
        BY <1>1, <1>3, <3>1, <3>3
      <4> QED
        BY <2>1, <4>1 DEF Begun, Tasks
    <3> QED
      BY <3>2, <3>3
  <2> QED
    BY <1>1, <2>1 DEF Begun, Tasks
<1>6. h \notin ran /\ \A v \in InHand : got[v] # h
  BY <1>4 DEF HandsInv
<1>7. \A u, v \in InHand' : u # v => got'[u] # got'[v]
  BY <1>2, <1>6 DEF HandsInv
<1>8. \A v \in InHand' : got'[v] \notin ran'
  BY <1>2, <1>6 DEF HandsInv
<1>9. \A t : (t \in ran' \/ \E v \in InHand' : got'[v] = t) <=> Begun(t)'
  <2>1. \A t : (\E v \in InHand' : got'[v] = t) <=> (\E v \in InHand : got[v] = t) \/ t = h
    BY <1>2
  <2> QED
    BY <1>5, <2>1 DEF HandsInv
<1> QED
  BY <1>7, <1>8, <1>9 DEF HandsInv

\* A worker that ran its task holds it no more.
LEMMA RunKeepsHands ==
  ASSUME HandsInv, NEW w \in InHand, InHand' = InHand \ {w},
         ran' = ran \cup {got[w]}, UNCHANGED <<got, taken>>
  PROVE  HandsInv'
<1>1. \A t : Begun(t)' <=> Begun(t)
  BY DEF Begun, Tasks
<1> QED
  BY <1>1 DEF HandsInv

LEMMA StepHandsInv ==
  ControlInv /\ QueueInv /\ HandsInv /\ [PoolNext]_vars => HandsInv'
<1> SUFFICES ASSUME ControlInv, QueueInv, HandsInv, [PoolNext]_vars
             PROVE  HandsInv'
  OBVIOUS
<1>0. worker \in [Workers -> {"none", "flag", "dequeue", "task", "done"}]
  BY DEF ControlInv, ControlTyped
<1>1. CASE Create
  <2>1. InHand = {} /\ InHand' = {}
    BY <1>1 DEF Create, ControlInv, CrewInv, InHand
  <2>2. ran' = {} /\ \A c \in Callers : taken'[c] = 0
    BY <1>1 DEF Create, FreshQueue
  <2>3. ASSUME NEW t PROVE ~Begun(t)'
    BY <2>2 DEF Begun, Tasks
  <2> QED
    BY <2>1, <2>2, <2>3 DEF HandsInv
<1>2. CASE Start
  <2>1. ASSUME NEW n, Spawn(n) PROVE InHand' = InHand
    BY <1>0, <2>1 DEF Spawn, InHand, Crew
  <2>2. InHand' = InHand /\ UNCHANGED <<got, ran, taken>>
    BY <1>2, <2>1 DEF Start, queueVars
  <2> QED
    BY <2>2, HandsUntouched
<1>3. CASE LowerFlag \/ WakeWorkers \/ ClearPointer \/ StopRunning
  <2>1. InHand' = InHand /\ UNCHANGED <<got, ran, taken>>
    BY <1>3 DEF LowerFlag, WakeWorkers, ClearPointer, StopRunning, InHand,
                Queue!NotifyAll, queueVars
  <2> QED
    BY <2>1, HandsUntouched
<1>4. CASE JoinAndDelete
  <2>1. InHand = {} /\ InHand' = {}
    BY <1>4 DEF JoinAndDelete, InHand, Crew
  <2>2. UNCHANGED <<got, ran, taken>>
    BY <1>4 DEF JoinAndDelete, queueVars
  <2> QED
    BY <2>1, <2>2, HandsUntouched
<1>5. ASSUME NEW c \in Callers, CheckRunning(c) \/ Emplace(c) PROVE HandsInv'
  <2>1. InHand' = InHand /\ UNCHANGED <<got, ran, taken>>
    BY <1>5 DEF CheckRunning, Emplace, Queue!Enqueue, InHand, queueVars
  <2> QED
    BY <2>1, HandsUntouched
<1>6. ASSUME NEW w \in Workers, CheckFlag(w) PROVE HandsInv'
  <2>1. InHand' = InHand /\ UNCHANGED <<got, ran, taken>>
    BY <1>0, <1>6 DEF CheckFlag, InHand, queueVars
  <2> QED
    BY <2>1, HandsUntouched
<1>7. ASSUME NEW w \in Workers, Take(w) PROVE HandsInv'
  <2>1. worker[w] = "dequeue" /\ w \notin InHand /\ ran' = ran
    BY <1>7 DEF Take, InHand
  <2>2. /\ state \in [Callers \cup Workers -> {"out", "waiting", "woken"}]
        /\ result \in [Callers \cup Workers -> Queue!Codes]
    BY DEF QueueInv, Queue!TypeOK, Queue!Users
  <2>3. CASE Queue!Pop(w)
    <3>1. state'[w] = "out" /\ result'[w] = "LCT_SUCCESS"
      BY <2>2, <2>3 DEF Queue!Pop, Queue!Leave
    <3>2. InHand' = InHand \cup {w}
      BY <1>0, <1>7, <3>1 DEF Take, InHand
    <3> QED
      BY <2>1, <2>3, <3>2, TakeKeepsHands DEF Queue!Pop
  <2>4. CASE ~Queue!Pop(w)
    <3>1. /\ state'[w] = "waiting" \/ result'[w] # "LCT_SUCCESS"
          /\ UNCHANGED <<got, taken>>
      BY <1>7, <2>2, <2>4 DEF Take, Queue!Dequeue, Queue!Leave, Queue!Wait
    <3>2. InHand' = InHand
      BY <1>0, <1>7, <3>1 DEF Take, InHand
    <3> QED
      BY <2>1, <3>1, <3>2, HandsUntouched
  <2> QED
    BY <2>3, <2>4
<1>8. ASSUME NEW w \in Workers, RunTask(w) PROVE HandsInv'
  <2>1. w \in InHand /\ InHand' = InHand \ {w}
    BY <1>0, <1>8 DEF RunTask, InHand
  <2>2. ran' = ran \cup {got[w]} /\ UNCHANGED <<got, taken>>
    BY <1>8 DEF RunTask, queueVars
  <2> QED
    BY <2>1, <2>2, RunKeepsHands
<1>9. ASSUME UNCHANGED poolVars, UNCHANGED <<got, taken>> PROVE HandsInv'
  BY <1>9, HandsUntouched DEF poolVars, InHand
<1>10. ASSUME NEW w \in Workers, Wakeup(w) PROVE HandsInv'
  BY <1>9, <1>10 DEF Wakeup, Queue!SpuriousWakeup
<1>11. CASE UNCHANGED vars
  BY <1>9, <1>11 DEF vars, queueVars
<1> QED
  BY <1>1, <1>2, <1>3, <1>4, <1>5, <1>6, <1>7, <1>8, <1>10, <1>11
     DEF PoolNext, Shutdown, Loop

-----------------------------------------------------------------------------
(* Workers that wait for a task.                                            *)

\* The queue lets nobody wait once it has quit, and the owner that joins the
\* workers has told it to.
SleepInv ==
  /\ QueueFacts!WaitInv
  /\ owner = "join" => quit

LEMMA InitSleepInv == PoolInit => SleepInv
BY DEF PoolInit, Queue!Init, Queue!Users, SleepInv, QueueFacts!WaitInv,
       QueueFacts!ConsumersWaitOnlyOnEmpty, QueueFacts!NobodyWaitsAfterQuit,
       QueueFacts!Users

LEMMA StepSleepInv == QueueInv /\ SleepInv /\ [PoolNext]_vars => SleepInv'
<1> SUFFICES ASSUME QueueInv, SleepInv, [PoolNext]_vars PROVE SleepInv'
  OBVIOUS
<1>1. QueueFacts!WaitInv'
  <2>1. CASE QueueStep \/ UNCHANGED queueVars
    <3>1. [QueueFacts!Next]_(QueueFacts!vars)
      BY <2>1, QueueStepIsNext DEF queueVars, QueueFacts!vars, QueueFacts!params
    <3>2. QueueFacts!TypeOK /\ QueueFacts!WaitInv
      BY SameQueueType DEF QueueInv, SleepInv
    <3> QED
      BY <3>1, <3>2, QueueFacts!StepWaitInv, QueueAssumed
  <2>2. CASE FreshQueue
    BY <2>2 DEF FreshQueue, QueueFacts!WaitInv, QueueFacts!Users,
                QueueFacts!ConsumersWaitOnlyOnEmpty,
                QueueFacts!NobodyWaitsAfterQuit
  <2> QED
    BY <2>1, <2>2, PoolStepOnQueue
<1>2. owner' = "join" => quit'
  <2> USE DEF SleepInv
  <2>1. CASE Create \/ LowerFlag \/ JoinAndDelete \/ ClearPointer \/ StopRunning
    BY <2>1 DEF Create, LowerFlag, JoinAndDelete, ClearPointer, StopRunning
  <2>2. CASE WakeWorkers
    BY <2>2 DEF WakeWorkers, Queue!NotifyAll
  <2>3. CASE Start
    BY <2>3 DEF Start
  <2>4. ASSUME NEW c \in Callers, CheckRunning(c) \/ Emplace(c)
        PROVE  owner' = owner /\ quit' = quit
    BY <2>4 DEF CheckRunning, Emplace, Queue!Enqueue, queueVars
  <2>5. ASSUME NEW w \in Workers, Loop(w) \/ Wakeup(w)
        PROVE  owner' = owner /\ quit' = quit
    BY <2>5 DEF Loop, CheckFlag, Take, RunTask, Wakeup, Queue!Dequeue,
                Queue!SpuriousWakeup, queueVars, poolVars
  <2>6. CASE UNCHANGED vars
    BY <2>6 DEF vars, poolVars, queueVars
  <2> QED
    BY <2>1, <2>2, <2>3, <2>4, <2>5, <2>6 DEF PoolNext, Shutdown
<1> QED
  BY <1>1, <1>2 DEF SleepInv

-----------------------------------------------------------------------------
(* The theorems.                                                            *)

PoolInv == ControlInv /\ QueueInv /\ HandsInv

LEMMA PoolInvariant == PoolSpec => []PoolInv
<1>1. PoolInit => HandsInv
  <2> SUFFICES ASSUME PoolInit PROVE HandsInv
    OBVIOUS
  <2>1. InHand = {} /\ ran = {} /\ \A c \in Callers : taken[c] = 0
    BY DEF PoolInit, Queue!Init, InHand
  <2>2. ASSUME NEW t PROVE ~Begun(t)
    BY <2>1 DEF Begun, Tasks
  <2> QED
    BY <2>1, <2>2 DEF HandsInv
<1>2. PoolInit => PoolInv
  BY <1>1, InitControlInv, InitQueueInv DEF PoolInv
<1>3. PoolInv /\ [PoolNext]_vars => PoolInv'
  BY StepControlInv, StepHandsInv, PoolStepOnQueue, QueueKeepsInv DEF PoolInv
<1> QED
  BY <1>2, <1>3, PTL DEF PoolSpec

\* Every variable of the pool and of its queue keeps its type.
THEOREM PoolTypeCorrect == PoolSpec => []PoolTypeOK
<1>1. PoolInv => PoolTypeOK
  BY HandsInvMeans DEF PoolInv, ControlInv, ControlTyped, QueueInv, PoolTypeOK
<1> QED
  BY <1>1, PoolInvariant, PTL

\* A task that left the queue is in the hands of exactly one worker or was run,
\* over any number of lives of the pool, failed starts and shutdowns.
THEOREM TasksNeverLostOrRunTwice == PoolSpec => []EveryTaskInOneHand
<1>1. PoolInv => EveryTaskInOneHand
  BY HandsInvMeans DEF PoolInv
<1> QED
  BY <1>1, PoolInvariant, PTL

\* A worker never waits while there is a task in the queue, nor while the owner
\* joins it: what is left to the fairness of the run is only that it is
\* scheduled.
THEOREM WorkersAreWoken == PoolSpec => []NoWorkerSleepsInVain
<1>1. SleepInv => NoWorkerSleepsInVain
  <2> SUFFICES ASSUME SleepInv, NEW w \in Workers, state[w] = "waiting"
               PROVE  queue = <<>> /\ owner # "join"
    BY DEF NoWorkerSleepsInVain
  <2> QED
    BY DEF SleepInv, QueueFacts!WaitInv, QueueFacts!ConsumersWaitOnlyOnEmpty,
           QueueFacts!NobodyWaitsAfterQuit, QueueFacts!Users
<1>2. PoolInv /\ SleepInv /\ [PoolNext]_vars => SleepInv'
  BY StepSleepInv DEF PoolInv
<1> QED
  BY <1>1, <1>2, InitSleepInv, PoolInvariant, PTL DEF PoolSpec

-----------------------------------------------------------------------------
(* The pool implements TaskPool.                                            *)

Elems(q) == {q[i] : i \in 1 .. Len(q)}

Pending == IF impl = "made" THEN Elems(queue) ELSE {}
Running == {got[w] : w \in InHand}

LEMMA ElemsAppend ==
  ASSUME NEW S, NEW q \in Seq(S), NEW x \in S
  PROVE  Elems(Append(q, x)) = Elems(q) \cup {x}
<1> DEFINE a == Append(q, x)
<1>1. /\ Len(q) \in Nat /\ Len(a) = Len(q) + 1
      /\ \A i \in 1 .. Len(q) : a[i] = q[i]
      /\ a[Len(q) + 1] = x
  OBVIOUS
<1> HIDE DEF a
<1>2. 1 .. Len(a) = 1 .. Len(q) \cup {Len(q) + 1}
  BY <1>1
<1>3. Elems(a) = Elems(q) \cup {x}
  BY <1>1, <1>2 DEF Elems
<1> QED
  BY <1>3 DEF a

\* The head is the oldest of its caller's tasks, and the tail holds the others.
LEMMA ElemsTail ==
  ASSUME QueueInv, queue # <<>>
  PROVE  /\ Head(queue) \in Elems(queue)
         /\ Elems(Tail(queue)) = Elems(queue) \ {Head(queue)}
         /\ \A u \in Elems(queue) :
              u.from = Head(queue).from => Head(queue).no <= u.no
<1> DEFINE h == Head(queue)
           t == Tail(queue)
<1>1. /\ Len(queue) \in Nat /\ Len(queue) >= 1 /\ h = queue[1] /\ Len(t) = Len(queue) - 1
      /\ \A i \in 1 .. Len(queue) - 1 : t[i] = queue[i + 1]
  BY DEF QueueInv, Queue!TypeOK
<1>2. \A i \in 1 .. Len(queue) : queue[i] \in Queue!Objects
  BY DEF QueueInv, Queue!TypeOK
<1> HIDE DEF h, t
<1>3. \A i \in 1 .. Len(queue) : queue[i].no \in Nat
  BY <1>2 DEF Queue!Objects
<1>4. \A i \in 2 .. Len(queue) :
        i \in 1 .. Len(queue) /\ 1 \in 1 .. Len(queue) /\ 1 < i
  BY <1>1
<1>5. \A i \in 2 .. Len(queue) : queue[i].from = h.from => h.no < queue[i].no
  BY <1>1, <1>4
     DEF QueueInv, QueueFacts!FifoInv, QueueFacts!NothingLostOrReordered,
         QueueFacts!InOrder
<1>6. \A i \in 1 .. Len(queue) : i = 1 \/ i \in 2 .. Len(queue)
  BY <1>1
<1>7. 1 \in 1 .. Len(queue)
  BY <1>1
<1>8. \A i \in 2 .. Len(queue) : queue[i] # h
  BY <1>1, <1>3, <1>5, <1>7
<1>9. \A x : x \in Elems(t) <=> \E i \in 2 .. Len(queue) : queue[i] = x
  <2>1. ASSUME NEW x, NEW i \in 1 .. Len(t), t[i] = x
        PROVE  \E j \in 2 .. Len(queue) : queue[j] = x
    <3>1. i + 1 \in 2 .. Len(queue) /\ t[i] = queue[i + 1]
      BY <1>1
    <3> QED
      BY <2>1, <3>1
  <2>2. ASSUME NEW x, NEW i \in 2 .. Len(queue), queue[i] = x
        PROVE  \E j \in 1 .. Len(t) : t[j] = x
    <3>1. i - 1 \in 1 .. Len(t) /\ t[i - 1] = queue[i]
      BY <1>1
    <3> QED
      BY <2>2, <3>1
  <2>3. \A x : x \in Elems(t) <=> \E i \in 1 .. Len(t) : t[i] = x
    BY DEF Elems
  <2> QED
    BY <2>1, <2>2, <2>3
<1>10. Elems(t) = Elems(queue) \ {h}
  <2>1. \A x : x \in Elems(queue) <=> \E i \in 1 .. Len(queue) : queue[i] = x
    BY DEF Elems
  <2>2. \A x : x \in Elems(t) <=> x \in Elems(queue) /\ x # h
    BY <1>1, <1>4, <1>6, <1>8, <1>9, <2>1
  <2> QED
    BY <2>2
<1>11. \A u \in Elems(queue) : u.from = h.from => h.no <= u.no
  BY <1>1, <1>3, <1>5, <1>6, <1>7 DEF Elems
<1> QED
  BY <1>1, <1>7, <1>10, <1>11 DEF Elems, h, t

\* A task just submitted is neither in the queue nor ever left it.
LEMMA SubmittedIsNew ==
  ASSUME QueueInv, HandsInv, NEW c \in Callers
  PROVE  /\ Queue!Mine(c) \in Queue!Objects
         /\ Queue!Mine(c) \notin Elems(queue) \cup Running \cup ran
<1> DEFINE m == Queue!Mine(c)
<1>1. m.from = c /\ m.no = sent[c] + 1
  BY DEF Queue!Mine
<1>2. /\ sent[c] \in Nat /\ taken[c] \in Nat /\ taken[c] <= sent[c]
      /\ QueueFacts!Nos(queue, c) = taken[c] + 1 .. sent[c]
  BY DEF QueueInv, Queue!TypeOK, QueueFacts!FifoInv,
         QueueFacts!NothingLostOrReordered
<1>3. m \in Queue!Objects
  BY <1>2 DEF Queue!Objects, Queue!Mine
<1> HIDE DEF m
<1>4. ~Begun(m)
  BY <1>1, <1>2 DEF Begun
<1>5. m \notin Elems(queue)
  <2> SUFFICES ASSUME NEW i \in 1 .. Len(queue), queue[i] = m PROVE FALSE
    BY DEF Elems
  <2>1. sent[c] + 1 \in QueueFacts!Nos(queue, c)
    BY <1>1 DEF QueueFacts!Nos
  <2> QED
    BY <1>2, <2>1
<1>6. m \notin Running \cup ran
  BY <1>4 DEF HandsInv, Running
<1> QED
  BY <1>3, <1>5, <1>6 DEF m

\* The actions of TaskPool on the pool's state.
LEMMA AbstractActions ==
  /\ (impl = "made" <=> impl' = "made") /\ Pending' = Pending /\ Running' = Running
       /\ ran' = ran => UNCHANGED Abstract!taskPoolVars
  /\ impl # "made" /\ impl' = "made" /\ ran' = {} /\ Pending' = Pending
       /\ Running' = Running => Abstract!TaskPoolNext
  /\ impl = "made" /\ impl' # "made" /\ Running = {} /\ Running' = {} /\ Pending' = {}
       /\ ran' = ran => Abstract!TaskPoolNext
  /\ \A t : impl = "made" /\ impl' = "made" /\ Pending' = Pending \cup {t}
       /\ t \notin Pending \cup Running \cup ran /\ Running' = Running
       /\ ran' = ran => Abstract!TaskPoolNext
  /\ \A t \in Pending : impl = "made" /\ impl' = "made" /\ Pending' = Pending \ {t}
       /\ (\A u \in Pending : u.from = t.from => t.no <= u.no)
       /\ Running' = Running \cup {t} /\ ran' = ran => Abstract!TaskPoolNext
  /\ \A t \in Running : impl' = impl /\ Pending' = Pending
       /\ Running' = Running \ {t} /\ ran' = ran \cup {t} => Abstract!TaskPoolNext
<1> USE DEF Pending, Running, Elems, Abstract!TaskPoolNext
<1>1. (impl = "made" <=> impl' = "made") /\ Pending' = Pending /\ Running' = Running
       /\ ran' = ran => UNCHANGED Abstract!taskPoolVars
  BY DEF Abstract!taskPoolVars
<1>2. impl # "made" /\ impl' = "made" /\ ran' = {} /\ Pending' = Pending
       /\ Running' = Running => Abstract!Open
  BY DEF Abstract!Open
<1>3. impl = "made" /\ impl' # "made" /\ Running = {} /\ Running' = {} /\ Pending' = {}
       /\ ran' = ran => Abstract!Close
  BY DEF Abstract!Close
<1>4. ASSUME NEW t, impl = "made", impl' = "made", Pending' = Pending \cup {t},
             t \notin Pending \cup Running \cup ran, Running' = Running, ran' = ran
      PROVE  Abstract!Submit
  <2>1. t \in Pending' \ Pending
    BY <1>4
  <2> QED
    BY <1>4, <2>1 DEF Abstract!Submit
<1>5. ASSUME NEW t \in Pending, impl = "made", impl' = "made",
             Pending' = Pending \ {t},
             \A u \in Pending : u.from = t.from => t.no <= u.no,
             Running' = Running \cup {t}, ran' = ran
      PROVE  Abstract!Begin(t)
  BY <1>5 DEF Abstract!Begin
<1>6. ASSUME NEW t \in Running, impl' = impl, Pending' = Pending,
             Running' = Running \ {t}, ran' = ran \cup {t}
      PROVE  Abstract!Finish(t)
  BY <1>6 DEF Abstract!Finish
<1> QED
  BY <1>1, <1>2, <1>3, <1>4, <1>5, <1>6

LEMMA StepRefines ==
  PoolInv /\ [PoolNext]_vars => [Abstract!TaskPoolNext]_(Abstract!taskPoolVars)
<1> SUFFICES ASSUME PoolInv, [PoolNext]_vars
             PROVE  [Abstract!TaskPoolNext]_(Abstract!taskPoolVars)
  OBVIOUS
<1>0. /\ ControlInv /\ QueueInv /\ HandsInv
      /\ worker \in [Workers -> {"none", "flag", "dequeue", "task", "done"}]
  BY DEF PoolInv, ControlInv, ControlTyped
<1>1. ASSUME impl' = impl, queue' = queue, InHand' = InHand, got' = got, ran' = ran
      PROVE  UNCHANGED Abstract!taskPoolVars
  BY <1>1, AbstractActions DEF Pending, Running
<1>2. CASE Create
  <2>1. impl # "made" /\ impl' = "made" /\ ran' = {}
    BY <1>2 DEF Create
  <2>2. InHand = {} /\ InHand' = {}
    BY <1>0, <1>2 DEF Create, ControlInv, CrewInv, InHand
  <2>3. queue' = <<>>
    BY <1>2 DEF Create, FreshQueue
  <2>4. Pending = {} /\ Pending' = {} /\ Running = {} /\ Running' = {}
    BY <2>1, <2>2, <2>3 DEF Pending, Running, Elems
  <2> QED
    BY <2>1, <2>4, AbstractActions
<1>3. CASE Start
  <2>1. ASSUME NEW n, Spawn(n) PROVE InHand' = InHand
    BY <1>0, <2>1 DEF Spawn, InHand, Crew
  <2>2. InHand' = InHand
    BY <1>3, <2>1 DEF Start
  <2> QED
    BY <1>1, <1>3, <2>2 DEF Start, queueVars
<1>4. CASE LowerFlag \/ WakeWorkers \/ StopRunning
  BY <1>1, <1>4 DEF LowerFlag, WakeWorkers, StopRunning, InHand,
                    Queue!NotifyAll, queueVars
<1>5. CASE JoinAndDelete
  <2>1. InHand = {} /\ InHand' = {} /\ impl' = "deleted" /\ ran' = ran
    BY <1>5 DEF JoinAndDelete, InHand, Crew
  <2>2. Running = {} /\ Running' = {} /\ Pending' = {}
    BY <2>1 DEF Running, Pending
  <2>3. CASE impl = "made"
    BY <2>1, <2>2, <2>3, AbstractActions
  <2>4. CASE impl # "made"
    <3>1. Pending = {}
      BY <2>4 DEF Pending
    <3> QED
      BY <2>1, <2>2, <2>4, <3>1, AbstractActions
  <2> QED
    BY <2>3, <2>4
<1>6. CASE ClearPointer
  <2>1. impl = "deleted" /\ impl' = "null"
    BY <1>0, <1>6 DEF ClearPointer, ControlInv, CrewInv
  <2>2. Pending' = Pending /\ Running' = Running /\ ran' = ran
    BY <1>6, <2>1 DEF ClearPointer, Pending, Running, InHand, queueVars
  <2> QED
    BY <2>1, <2>2, AbstractActions
<1>7. ASSUME NEW c \in Callers, CheckRunning(c)
      PROVE  UNCHANGED Abstract!taskPoolVars
  BY <1>1, <1>7 DEF CheckRunning, InHand, queueVars
<1>8. ASSUME NEW c \in Callers, Emplace(c)
      PROVE  [Abstract!TaskPoolNext]_(Abstract!taskPoolVars)
  <2>1. impl' = impl /\ InHand' = InHand /\ got' = got /\ ran' = ran
    BY <1>8 DEF Emplace, InHand, Queue!Enqueue, queueVars
  <2>2. CASE impl = "made" /\ Queue!Push(c)
    <3>1. queue' = Append(queue, Queue!Mine(c))
      BY <2>2 DEF Queue!Push
    <3>2. /\ Queue!Mine(c) \in Queue!Objects
          /\ Queue!Mine(c) \notin Elems(queue) \cup Running \cup ran
      BY <1>0, SubmittedIsNew
    <3>3. queue \in Seq(Queue!Objects)
      BY <1>0 DEF QueueInv, Queue!TypeOK
    <3>4. Elems(queue') = Elems(queue) \cup {Queue!Mine(c)}
      BY <3>1, <3>2, <3>3, ElemsAppend
    <3>5. /\ Pending = Elems(queue) /\ Pending' = Pending \cup {Queue!Mine(c)}
          /\ Running' = Running
      BY <2>1, <2>2, <3>4 DEF Pending, Running
    <3> QED
      BY <2>1, <2>2, <3>2, <3>5, AbstractActions
  <2>3. CASE ~(impl = "made" /\ Queue!Push(c))
    <3>1. queue' = queue
      BY <1>8, <2>3 DEF Emplace, Queue!Enqueue, queueVars
    <3> QED
      BY <1>1, <2>1, <3>1
  <2> QED
    BY <2>2, <2>3
<1>9. ASSUME NEW w \in Workers, CheckFlag(w)
      PROVE  UNCHANGED Abstract!taskPoolVars
  <2>1. InHand' = InHand
    BY <1>0, <1>9 DEF CheckFlag, InHand
  <2> QED
    BY <1>1, <1>9, <2>1 DEF CheckFlag, queueVars
<1>10. ASSUME NEW w \in Workers, Take(w)
       PROVE  [Abstract!TaskPoolNext]_(Abstract!taskPoolVars)
  <2>1. /\ worker[w] = "dequeue" /\ w \notin InHand /\ ran' = ran
        /\ impl' = impl /\ impl = "made"
    BY <1>0, <1>10 DEF Take, InHand, ControlInv, CrewInv
  <2>2. /\ state \in [Callers \cup Workers -> {"out", "waiting", "woken"}]
        /\ result \in [Callers \cup Workers -> Queue!Codes]
        /\ got \in [Workers -> Queue!Objects \cup {Queue!NoObject}]
    BY <1>0 DEF QueueInv, Queue!TypeOK, Queue!Users
  <2>3. CASE Queue!Pop(w)
    <3> DEFINE h == Head(queue)
    <3>1. queue # <<>> /\ queue' = Tail(queue) /\ got' = [got EXCEPT ![w] = h]
      BY <2>3 DEF Queue!Pop
    <3>2. state'[w] = "out" /\ result'[w] = "LCT_SUCCESS"
      BY <2>2, <2>3 DEF Queue!Pop, Queue!Leave
    <3>3. InHand' = InHand \cup {w}
      BY <1>0, <1>10, <3>2 DEF Take, InHand
    <3>4. /\ h \in Elems(queue) /\ Elems(queue') = Elems(queue) \ {h}
          /\ \A u \in Elems(queue) : u.from = h.from => h.no <= u.no
      BY <1>0, <3>1, ElemsTail
    <3> HIDE DEF h
    <3>5. got'[w] = h /\ \A v \in InHand : got'[v] = got[v]
      BY <2>1, <2>2, <3>1 DEF InHand
    <3>6. Running' = Running \cup {h}
      BY <3>3, <3>5 DEF Running
    <3>7. Pending = Elems(queue) /\ Pending' = Elems(queue')
      BY <2>1 DEF Pending
    <3> QED
      BY <2>1, <3>4, <3>6, <3>7, AbstractActions
  <2>4. CASE ~Queue!Pop(w)
    <3>1. /\ state'[w] = "waiting" \/ result'[w] # "LCT_SUCCESS"
          /\ queue' = queue /\ got' = got
      BY <1>10, <2>2, <2>4 DEF Take, Queue!Dequeue, Queue!Leave, Queue!Wait
    <3>2. InHand' = InHand
      BY <1>0, <1>10, <3>1 DEF Take, InHand
    <3> QED
      BY <1>1, <2>1, <3>1, <3>2
  <2> QED
    BY <2>3, <2>4
<1>11. ASSUME NEW w \in Workers, RunTask(w)
       PROVE  [Abstract!TaskPoolNext]_(Abstract!taskPoolVars)
  <2>1. w \in InHand /\ InHand' = InHand \ {w}
    BY <1>0, <1>11 DEF RunTask, InHand
  <2>2. /\ impl' = impl /\ queue' = queue /\ got' = got
        /\ ran' = ran \cup {got[w]}
    BY <1>11 DEF RunTask, queueVars
  <2>3. \A v \in InHand : v # w => got[v] # got[w]
    BY <1>0, <2>1 DEF HandsInv
  <2>4. got[w] \in Running /\ Running' = Running \ {got[w]} /\ Pending' = Pending
    BY <2>1, <2>2, <2>3 DEF Running, Pending
  <2> QED
    BY <2>2, <2>4, AbstractActions
<1>12. ASSUME NEW w \in Workers, Wakeup(w) PROVE UNCHANGED Abstract!taskPoolVars
  BY <1>1, <1>12 DEF Wakeup, Queue!SpuriousWakeup, poolVars, InHand
<1>13. CASE UNCHANGED vars
  BY <1>1, <1>13 DEF vars, poolVars, queueVars, InHand
<1> QED
  BY <1>2, <1>3, <1>4, <1>5, <1>6, <1>7, <1>8, <1>9, <1>10, <1>11, <1>12, <1>13
     DEF PoolNext, Shutdown, Loop

\* Every step of the pool is a step of TaskPool or leaves it alone: a task is
\* begun at most once, its caller's in order, and nothing runs once the
\* implementation is deleted.
THEOREM PoolImplementsTaskPool == PoolSpec => ImplementsTaskPool
<1>1. PoolInit => Abstract!TaskPoolInit
  BY DEF PoolInit, Abstract!TaskPoolInit, InHand
<1> QED
  BY <1>1, StepRefines, PoolInvariant, PTL
     DEF PoolSpec, ImplementsTaskPool, Abstract!TaskPoolSpec

=============================================================================
