--------------------------- MODULE AsyncLogProofs ---------------------------
(***************************************************************************)
(* Proofs about AsyncLog, for any loggers, bounds and spurious wakeups,    *)
(* with what LctQueueProofs proves of the queue.                           *)
(***************************************************************************)
EXTENDS AsyncLog, TLAPS

QueueFacts == INSTANCE LctQueueProofs WITH
                Producers    <- Loggers,
                Consumers    <- {Worker},
                SizeArgs     <- {SIZE_INFINITE},
                EnqueueWaits <- {"forever"},
                DequeueWaits <- {"forever"},
                MaxSent      <- MaxMessages

-----------------------------------------------------------------------------
(* The queue of the log.                                                    *)

\* What LctQueue assumes of its constants.
LEMMA QueueAssumed ==
  /\ Loggers \cap {Worker} = {}
  /\ {SIZE_INFINITE} \subseteq Int
  /\ {"forever"} \subseteq QueueFacts!Waits
  /\ Spurious \in BOOLEAN
  /\ MaxMessages \in Nat
BY LogThreadsAssumption, LogSwitchAssumption, LogBoundAssumption
   DEF SIZE_INFINITE, QueueFacts!Waits

LEMMA SameQueueType == Queue!TypeOK <=> QueueFacts!TypeOK
BY DEF Queue!TypeOK, QueueFacts!TypeOK, Queue!Waits, QueueFacts!Waits,
       Queue!Objects, QueueFacts!Objects, Queue!Users, QueueFacts!Users,
       Queue!Codes, QueueFacts!Codes, Queue!NoObject, QueueFacts!NoObject

LEMMA SameQueueTypeNext == Queue!TypeOK' <=> QueueFacts!TypeOK'
BY DEF Queue!TypeOK, QueueFacts!TypeOK, Queue!Waits, QueueFacts!Waits,
       Queue!Objects, QueueFacts!Objects, Queue!Users, QueueFacts!Users,
       Queue!Codes, QueueFacts!Codes, Queue!NoObject, QueueFacts!NoObject

\* Every step of the log is one of the queue or leaves it alone.
LEMMA LogStepOnQueue == [LogNext]_vars => [QueueFacts!Next]_(QueueFacts!vars)
<1> SUFFICES ASSUME [LogNext]_vars PROVE [QueueFacts!Next]_(QueueFacts!vars)
  OBVIOUS
<1> USE DEF Queue!params, QueueFacts!params, Queue!Looks, QueueFacts!Looks,
            Queue!Leave, QueueFacts!Leave, Queue!Wait, QueueFacts!Wait,
            Queue!Notified, QueueFacts!Notified, Queue!Users, QueueFacts!Users
<1>1. ASSUME NEW t \in Loggers, Queue!Enqueue(t) PROVE QueueFacts!Enqueue(t)
  BY <1>1 DEF Queue!Enqueue, QueueFacts!Enqueue, Queue!Push, QueueFacts!Push,
              Queue!Full, QueueFacts!Full, Queue!Mine, QueueFacts!Mine
<1>2. Queue!Dequeue(Worker) => QueueFacts!Dequeue(Worker)
  BY DEF Queue!Dequeue, QueueFacts!Dequeue, Queue!Pop, QueueFacts!Pop
<1>3. Queue!SpuriousWakeup(Worker) => QueueFacts!SpuriousWakeup(Worker)
  BY DEF Queue!SpuriousWakeup, QueueFacts!SpuriousWakeup
<1>4. Queue!NotifyAll => QueueFacts!NotifyAll
  BY DEF Queue!NotifyAll, QueueFacts!NotifyAll
<1>5. UNCHANGED queueVars => UNCHANGED QueueFacts!vars
  BY DEF queueVars, QueueFacts!vars
<1>6. \/ \E t \in Loggers : Queue!Enqueue(t)
      \/ Queue!Dequeue(Worker) \/ Queue!SpuriousWakeup(Worker)
      \/ Queue!NotifyAll \/ UNCHANGED queueVars
  BY DEF LogNext, Setup, StopRunning, Proceed, StartPool, SetInitiated,
         WakeWorker, JoinWorker, ClearInitiated, IsLogged, Log, AsyncSink,
         Run, CheckRunning, Take, Sink, Wakeup, vars
<1> QED
  BY <1>1, <1>2, <1>3, <1>4, <1>5, <1>6
     DEF QueueFacts!Next, QueueFacts!Produce, QueueFacts!Consume

LEMMA StepQueueTyped == Queue!TypeOK /\ [LogNext]_vars => Queue!TypeOK'
BY LogStepOnQueue, SameQueueType, SameQueueTypeNext, QueueFacts!StepTyped,
   QueueAssumed

LEMMA InitQueueTyped == LogInit => Queue!TypeOK
<1> SUFFICES ASSUME LogInit PROVE Queue!TypeOK
  OBVIOUS
<1>1. /\ queue = <<>> /\ maxSize = SIZE_INFINITE
      /\ enqueueWait = "forever" /\ dequeueWait = "forever"
  BY DEF LogInit, Queue!Init, SIZE_INFINITE
<1>2. queue \in Seq(Queue!Objects) /\ Len(queue) = 0
  BY <1>1
<1>3. maxSize \in Nat \ {0} /\ Len(queue) <= maxSize
  BY <1>1, <1>2 DEF SIZE_INFINITE
<1> QED
  BY <1>1, <1>2, <1>3
     DEF LogInit, Queue!Init, Queue!TypeOK, Queue!Waits, Queue!Users, Queue!Codes

-----------------------------------------------------------------------------
(* The owner and the worker.                                                *)

Loop == {"check", "dequeue", "sink"}

\* Where the owner is says whether the pool runs and has a worker.
OwnerInv ==
  /\ running => worker \in Loop
  /\ owner \in {"idle", "setup"} /\ ~running => worker \in {"none", "joined"}
  /\ owner = "started" => running
  /\ owner \in {"notify", "join"} => ~running
  /\ owner = "clear" => ~running /\ worker \in {"none", "joined"}

ControlTyped ==
  /\ initiated \in BOOLEAN
  /\ running \in BOOLEAN
  /\ worker \in Loop \cup {"none", "done", "joined"}
  /\ owner \in {"idle", "setup", "started", "notify", "join", "clear"}
  /\ logger \in [Loggers -> {"idle", "log", "enqueue"}]
  /\ undefined \in BOOLEAN
  /\ lives \in Nat

ControlInv == ControlTyped /\ (Defined => OwnerInv)

LEMMA InitControlInv == LogInit => ControlInv
<1> SUFFICES ASSUME LogInit PROVE ControlInv
  OBVIOUS
<1>1. ~initiated /\ ~running /\ ~undefined
  BY DEF LogInit
<1>2. initiated \in BOOLEAN /\ running \in BOOLEAN /\ undefined \in BOOLEAN
  BY DEF LogInit
<1>3. /\ worker = "none" /\ owner = "idle" /\ lives = 0
      /\ logger = [t \in Loggers |-> "idle"]
  BY DEF LogInit
<1>4. ControlTyped
  BY <1>2, <1>3 DEF ControlTyped
<1>5. OwnerInv
  BY <1>1, <1>3 DEF OwnerInv
<1> QED
  BY <1>4, <1>5 DEF ControlInv

LEMMA StepControlInv == ControlInv /\ [LogNext]_vars => ControlInv'
<1> SUFFICES ASSUME ControlInv, [LogNext]_vars PROVE ControlInv'
  OBVIOUS
<1> USE DEF ControlInv, ControlTyped, OwnerInv, Loop, Defined
<1>1. CASE Defined /\ Setup
  BY <1>1 DEF Setup
<1>2. CASE Defined /\ StopRunning
  BY <1>2 DEF StopRunning
<1>3. CASE Defined /\ StartPool
  BY <1>3 DEF StartPool
<1>4. CASE Defined /\ SetInitiated
  BY <1>4 DEF SetInitiated
<1>5. CASE Defined /\ WakeWorker
  BY <1>5 DEF WakeWorker
<1>6. CASE Defined /\ JoinWorker
  BY <1>6 DEF JoinWorker
<1>7. CASE Defined /\ ClearInitiated
  BY <1>7 DEF ClearInitiated
<1>8. ASSUME NEW t \in Loggers, Defined, IsLogged(t) \/ Log(t) PROVE ControlInv'
  <2>1. undefined' \in BOOLEAN
    BY <1>8 DEF IsLogged, Log
  <2>2. logger' \in [Loggers -> {"idle", "log", "enqueue"}]
    BY <1>8 DEF IsLogged, Log
  <2>3. UNCHANGED <<initiated, running, worker, owner, lives>>
    BY <1>8 DEF IsLogged, Log
  <2> QED
    BY <1>8, <2>1, <2>2, <2>3
<1>9. ASSUME NEW t \in Loggers, Defined, AsyncSink(t) PROVE ControlInv'
  <2>1. logger' \in [Loggers -> {"idle", "log", "enqueue"}]
    BY <1>9 DEF AsyncSink
  <2>2. UNCHANGED <<initiated, running, worker, owner, undefined, lives>>
    BY <1>9 DEF AsyncSink
  <2> QED
    BY <1>9, <2>1, <2>2
<1>10. CASE Defined /\ CheckRunning
  BY <1>10 DEF CheckRunning
<1>11. CASE Defined /\ Take
  <2>1. UNCHANGED <<initiated, running, owner, logger, undefined, lives>>
    BY <1>11 DEF Take
  <2>2. worker = "dequeue" /\ worker' \in Loop
    BY <1>11 DEF Take
  <2> QED
    BY <1>11, <2>1, <2>2
<1>12. CASE Defined /\ Sink
  BY <1>12 DEF Sink
<1>13. CASE UNCHANGED logVars
  BY <1>13 DEF logVars
<1> QED
  BY <1>1, <1>2, <1>3, <1>4, <1>5, <1>6, <1>7, <1>8, <1>9, <1>10, <1>11, <1>12,
     <1>13 DEF LogNext, Proceed, Run, Wakeup, vars

-----------------------------------------------------------------------------
(* The messages.                                                            *)

LEMMA AppendAtEnd ==
  ASSUME NEW S, NEW f \in Seq(S), NEW h \in Seq(S), NEW q \in Seq(S), NEW x \in S
  PROVE  f \o h \o Append(q, x) = Append(f \o h \o q, x)
OBVIOUS

LEMMA HeadToHand ==
  ASSUME NEW S, NEW f \in Seq(S), NEW q \in Seq(S), q # <<>>
  PROVE  f \o <<>> \o q = f \o <<Head(q)>> \o Tail(q)
OBVIOUS

LEMMA HandToFile ==
  ASSUME NEW S, NEW f \in Seq(S), NEW q \in Seq(S), NEW x \in S
  PROVE  f \o <<x>> \o q = Append(f, x) \o <<>> \o q
OBVIOUS

MessagesInv ==
  /\ accepted \in Seq(Messages)
  /\ file \in Seq(Messages)
  /\ worker = "sink" => got[Worker] \in Messages
  /\ NoMessageLostOrReordered

\* Only the steps of a message from hand to hand matter.
LEMMA MessagesUntouched ==
  ASSUME MessagesInv, UNCHANGED <<accepted, file, queue, got>>,
         worker' = "sink" <=> worker = "sink"
  PROVE  MessagesInv'
BY DEF MessagesInv, NoMessageLostOrReordered, InHand

LEMMA StepMessagesInv ==
  ControlInv /\ Queue!TypeOK /\ MessagesInv /\ [LogNext]_vars => MessagesInv'
<1> SUFFICES ASSUME ControlInv, Queue!TypeOK, MessagesInv, [LogNext]_vars
             PROVE  MessagesInv'
  OBVIOUS
<1>0. /\ queue \in Seq(Messages)
      /\ state \in [Loggers \cup {Worker} -> {"out", "waiting", "woken"}]
      /\ result \in [Loggers \cup {Worker} -> Queue!Codes]
      /\ got \in [{Worker} -> Messages \cup {Queue!NoObject}]
      /\ sent \in [Loggers -> Nat]
  BY DEF Queue!TypeOK, Queue!Users, Queue!Objects, Messages
<1>1. CASE Setup \/ SetInitiated \/ StopRunning \/ WakeWorker \/ ClearInitiated
  BY <1>1, MessagesUntouched
     DEF Setup, SetInitiated, StopRunning, WakeWorker, ClearInitiated,
         Queue!NotifyAll, queueVars
<1>2. CASE StartPool \/ JoinWorker
  BY <1>2, MessagesUntouched DEF StartPool, JoinWorker, queueVars
<1>3. ASSUME NEW t \in Loggers, IsLogged(t) \/ Log(t) PROVE MessagesInv'
  BY <1>3, MessagesUntouched DEF IsLogged, Log, queueVars
<1>4. ASSUME NEW t \in Loggers, AsyncSink(t) PROVE MessagesInv'
  <2>1. UNCHANGED <<worker, file, got>>
    BY <1>4 DEF AsyncSink, Queue!Enqueue
  <2>2. CASE Queue!Push(t)
    <3> DEFINE m == Queue!Mine(t)
    <3>1. m \in Messages
      BY <1>0 DEF Queue!Mine, Messages
    <3>2. state'[t] = "out" /\ result'[t] = "LCT_SUCCESS" /\ queue' = Append(queue, m)
      BY <1>0, <2>2 DEF Queue!Push, Queue!Notified, Queue!Users
    <3>3. accepted' = Append(accepted, m)
      BY <1>4, <3>2 DEF AsyncSink
    <3> HIDE DEF m
    <3>4. InHand \in Seq(Messages) /\ InHand' = InHand
      BY <2>1 DEF InHand, MessagesInv
    <3>5. file \in Seq(Messages) /\ accepted = file \o InHand \o queue
      BY DEF MessagesInv, NoMessageLostOrReordered
    <3>6. file \o InHand \o Append(queue, m) = Append(file \o InHand \o queue, m)
      BY <1>0, <3>1, <3>4, <3>5, AppendAtEnd
    <3>7. accepted' = file \o InHand \o queue'
      BY <3>2, <3>3, <3>5, <3>6
    <3>8. accepted' \in Seq(Messages)
      BY <3>1, <3>3 DEF MessagesInv
    <3> QED
      BY <2>1, <3>4, <3>7, <3>8 DEF MessagesInv, NoMessageLostOrReordered
  <2>3. CASE ~Queue!Push(t)
    <3>1. queue' = queue
      BY <1>4, <2>3 DEF AsyncSink, Queue!Enqueue
    <3>2. ~(result'[t] = "LCT_SUCCESS" /\ state'[t] = "out")
      BY <1>0, <1>4, <2>3 DEF AsyncSink, Queue!Enqueue, Queue!Leave, Queue!Wait
    <3>3. accepted' = accepted
      BY <1>4, <3>2 DEF AsyncSink
    <3> QED
      BY <2>1, <3>1, <3>3, MessagesUntouched
  <2> QED
    BY <2>2, <2>3
<1>5. CASE CheckRunning
  BY <1>5, MessagesUntouched DEF CheckRunning, queueVars
<1>6. CASE Take
  <2>1. worker = "dequeue" /\ UNCHANGED <<accepted, file>> /\ InHand = <<>>
    BY <1>6 DEF Take, InHand
  <2>2. CASE Queue!Pop(Worker)
    <3>1. /\ queue # <<>> /\ queue' = Tail(queue) /\ got'[Worker] = Head(queue)
          /\ state'[Worker] = "out" /\ result'[Worker] = "LCT_SUCCESS"
      BY <1>0, <2>2 DEF Queue!Pop, Queue!Leave
    <3>2. worker' = "sink"
      BY <1>6, <3>1 DEF Take
    <3>3. InHand' = <<Head(queue)>> /\ Head(queue) \in Messages
      BY <1>0, <3>1, <3>2 DEF InHand
    <3>4. accepted' = file' \o InHand' \o queue'
      BY <1>0, <2>1, <3>1, <3>3, HeadToHand
         DEF MessagesInv, NoMessageLostOrReordered
    <3> QED
      BY <2>1, <3>1, <3>3, <3>4 DEF MessagesInv, NoMessageLostOrReordered
  <2>3. CASE ~Queue!Pop(Worker)
    <3>1. /\ state'[Worker] = "waiting" \/ result'[Worker] # "LCT_SUCCESS"
          /\ UNCHANGED <<queue, got>>
      BY <1>0, <1>6, <2>3 DEF Take, Queue!Dequeue, Queue!Leave, Queue!Wait
    <3>2. worker' # "sink"
      BY <1>6, <3>1 DEF Take
    <3> QED
      BY <2>1, <3>1, <3>2, MessagesUntouched
  <2> QED
    BY <2>2, <2>3
<1>7. CASE Sink
  <2>1. /\ worker = "sink" /\ worker' = "check" /\ file' = Append(file, got[Worker])
        /\ UNCHANGED <<accepted, queue>>
    BY <1>7 DEF Sink, queueVars
  <2>2. got[Worker] \in Messages /\ InHand = <<got[Worker]>> /\ InHand' = <<>>
    BY <2>1 DEF MessagesInv, InHand
  <2>3. accepted' = file' \o InHand' \o queue'
    BY <1>0, <2>1, <2>2, HandToFile DEF MessagesInv, NoMessageLostOrReordered
  <2>4. file' \in Seq(Messages)
    BY <2>1, <2>2 DEF MessagesInv
  <2> QED
    BY <2>1, <2>3, <2>4 DEF MessagesInv, NoMessageLostOrReordered
<1>8. CASE Wakeup
  BY <1>8, MessagesUntouched DEF Wakeup, Queue!SpuriousWakeup, logVars
<1>9. CASE UNCHANGED vars
  BY <1>9, MessagesUntouched DEF vars, logVars, queueVars
<1> QED
  BY <1>1, <1>2, <1>3, <1>4, <1>5, <1>6, <1>7, <1>8, <1>9
     DEF LogNext, Proceed, Run

-----------------------------------------------------------------------------
(* The worker that waits for a message.                                     *)

\* The queue lets nobody wait once it has quit, and the owner that joins the
\* worker has told it to.
SleepInv ==
  /\ QueueFacts!WaitInv
  /\ owner = "join" => quit

LEMMA InitSleepInv == LogInit => SleepInv
BY DEF LogInit, Queue!Init, Queue!Users, SleepInv, QueueFacts!WaitInv,
       QueueFacts!ConsumersWaitOnlyOnEmpty, QueueFacts!NobodyWaitsAfterQuit,
       QueueFacts!Users

LEMMA StepSleepInv == Queue!TypeOK /\ SleepInv /\ [LogNext]_vars => SleepInv'
<1> SUFFICES ASSUME Queue!TypeOK, SleepInv, [LogNext]_vars PROVE SleepInv'
  OBVIOUS
<1>1. QueueFacts!WaitInv'
  BY LogStepOnQueue, SameQueueType, QueueFacts!StepWaitInv, QueueAssumed
     DEF SleepInv
<1>2. owner' = "join" => quit'
  <2> USE DEF SleepInv
  <2>1. CASE Setup \/ StartPool \/ SetInitiated \/ StopRunning
    BY <2>1 DEF Setup, StartPool, SetInitiated, StopRunning
  <2>2. CASE JoinWorker \/ ClearInitiated
    BY <2>2 DEF JoinWorker, ClearInitiated
  <2>3. CASE WakeWorker
    BY <2>3 DEF WakeWorker, Queue!NotifyAll
  <2>4. ASSUME NEW t \in Loggers, IsLogged(t) \/ Log(t) \/ AsyncSink(t)
        PROVE  owner' = owner /\ quit' = quit
    BY <2>4 DEF IsLogged, Log, AsyncSink, Queue!Enqueue, queueVars
  <2>5. CASE Run \/ Wakeup
    BY <2>5 DEF Run, CheckRunning, Take, Sink, Wakeup, Queue!Dequeue,
                Queue!SpuriousWakeup, queueVars, logVars
  <2>6. CASE UNCHANGED vars
    BY <2>6 DEF vars, logVars, queueVars
  <2> QED
    BY <2>1, <2>2, <2>3, <2>4, <2>5, <2>6 DEF LogNext, Proceed
<1> QED
  BY <1>1, <1>2 DEF SleepInv

-----------------------------------------------------------------------------
(* The theorems.                                                            *)

LogInv == ControlInv /\ Queue!TypeOK /\ MessagesInv

LEMMA LogInvariant == LogSpec => []LogInv
<1>1. LogInit => MessagesInv
  <2> SUFFICES ASSUME LogInit PROVE MessagesInv
    OBVIOUS
  <2>1. accepted = <<>> /\ file = <<>> /\ queue = <<>> /\ worker = "none"
    BY DEF LogInit, Queue!Init
  <2> QED
    BY <2>1 DEF MessagesInv, NoMessageLostOrReordered, InHand
<1>2. LogInit => LogInv
  BY <1>1, InitControlInv, InitQueueTyped DEF LogInv
<1>3. LogInv /\ [LogNext]_vars => LogInv'
  BY StepControlInv, StepQueueTyped, StepMessagesInv DEF LogInv
<1> QED
  BY <1>2, <1>3, PTL DEF LogSpec

\* Every variable of the log keeps its type, and a running pool has a worker in
\* its loop.
THEOREM LogTypeCorrect == LogSpec => []LogTypeOK
<1>1. LogInv => LogTypeOK
  BY DEF LogInv, ControlInv, ControlTyped, OwnerInv, Loop, MessagesInv, LogTypeOK
<1> QED
  BY <1>1, LogInvariant, PTL

\* The file holds the accepted messages in order, each once, and what is not in
\* the file is in the worker's hand or in the queue, over any inits and closes.
THEOREM LogKeepsEveryMessage == LogSpec => []NoMessageLostOrReordered
<1>1. LogInv => NoMessageLostOrReordered
  BY DEF LogInv, MessagesInv
<1> QED
  BY <1>1, LogInvariant, PTL

\* The worker never waits while there is a message in the queue, nor while
\* close joins it, over any inits and closes.
THEOREM LogWorkerIsWoken == LogSpec => []WorkerNeverSleepsInVain
<1>1. SleepInv => WorkerNeverSleepsInVain
  BY DEF SleepInv, WorkerNeverSleepsInVain, QueueFacts!WaitInv,
         QueueFacts!ConsumersWaitOnlyOnEmpty,
         QueueFacts!NobodyWaitsAfterQuit, QueueFacts!Users
<1>2. LogInv /\ SleepInv /\ [LogNext]_vars => SleepInv'
  BY StepSleepInv DEF LogInv
<1> QED
  BY <1>1, <1>2, InitSleepInv, LogInvariant, PTL DEF LogSpec

\* Nothing is written once close has returned.
THEOREM ClosedLogIsQuiet == LogSpec => NothingWrittenWhenClosed
<1>1. LogInv /\ [LogNext]_vars
        => [(owner \in {"idle", "setup"} /\ ~running) => (file' = file)]_vars
  <2> SUFFICES ASSUME LogInv, [LogNext]_vars, owner \in {"idle", "setup"}, ~running
               PROVE  file' = file
    OBVIOUS
  <2>1. ~(Defined /\ Sink)
    BY DEF LogInv, ControlInv, OwnerInv, Sink
  <2>2. Defined /\ Run => file' = file
    BY <2>1 DEF Run, CheckRunning, Take
  <2>3. ASSUME NEW t \in Loggers, IsLogged(t) \/ Log(t) \/ AsyncSink(t)
        PROVE  file' = file
    BY <2>3 DEF IsLogged, Log, AsyncSink
  <2>4. Setup \/ StopRunning \/ Proceed \/ Wakeup \/ UNCHANGED vars => file' = file
    BY DEF Setup, StopRunning, Proceed, StartPool, SetInitiated, WakeWorker,
           JoinWorker, ClearInitiated, Wakeup, logVars, vars
  <2> QED
    BY <2>2, <2>3, <2>4 DEF LogNext
<1> QED
  BY <1>1, LogInvariant, PTL DEF LogSpec, NothingWrittenWhenClosed

=============================================================================
