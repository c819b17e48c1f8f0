----------------------------- MODULE ThreadPool -----------------------------
(***************************************************************************)
(* CLctThreadpool: an owner creates, starts and shuts down the pool, any   *)
(* number of callers give it tasks, and its workers take the tasks from a  *)
(* CLctQueue (module LctQueue) and run them.                               *)
(*                                                                         *)
(* m_isRunning, m_runningFlag and the pointer to the implementation are    *)
(* plain members read by all these threads without a lock, so their reads  *)
(* and writes are steps of their own.  Only start is a single step: before *)
(* it raises m_isRunning its workers find nothing but an empty queue.      *)
(***************************************************************************)
EXTENDS Integers, Sequences, FiniteSets

CONSTANTS
  Callers,        \* the threads that call emplaceTask
  Workers,        \* the threads the pool may create
  ThreadCounts,   \* init's threadCount; -1 is resolved to the cores before
  SpawnMayFail,   \* may the creation of a thread throw in start?
  Spurious,       \* may a condition variable wake a thread for no reason?
  MaxTasks,       \* bound: tasks of one caller in one life of the pool
  MaxLives        \* bound: how often the owner calls init

ASSUME PoolThreadsAssumption ==
  Callers \cap Workers = {} /\ IsFiniteSet(Workers)
ASSUME ThreadCountAssumption == ThreadCounts \subseteq Int
ASSUME PoolSwitchAssumption == SpawnMayFail \in BOOLEAN /\ Spurious \in BOOLEAN
ASSUME PoolBoundAssumption == MaxTasks \in Nat /\ MaxLives \in Nat

VARIABLES
  isRunning,    \* CLctThreadpool::m_isRunning
  impl,         \* m_threadpoolImplPtr: "null", "made" or "deleted" (dangling)
  threadCount,  \* CLctThreadpoolImpl::m_threadCount
  runningFlag,  \* CLctThreadpoolImpl::m_runningFlag
  worker,       \* each worker: where it is in its loop, "none" if not created
  owner,        \* where the owner is in shutdown
  caller,       \* where each caller is in emplaceTask
  undefined,    \* a deleted implementation was used: anything may follow
  ran,          \* history: the tasks that were run to their end
  lives         \* how often init created an implementation

\* The implementation's queue, m_tasksQueue.
VARIABLES maxSize, enqueueWait, dequeueWait, queue, quit, state, result, got,
          sent, taken

SIZE_INFINITE == 2147483647

Queue == INSTANCE LctQueue WITH
           Producers    <- Callers,
           Consumers    <- Workers,
           SizeArgs     <- {SIZE_INFINITE},
           EnqueueWaits <- {"forever"},
           DequeueWaits <- {"forever"},
           MaxSent      <- MaxTasks

queueVars == <<maxSize, enqueueWait, dequeueWait, queue, quit, state, result,
               got, sent, taken>>
poolVars  == <<isRunning, impl, threadCount, runningFlag, worker, owner,
               caller, undefined, ran, lives>>
vars == <<poolVars, queueVars>>

Crew == {w \in Workers : worker[w] # "none"}

PoolInit ==
  /\ Queue!Init
  /\ isRunning = FALSE
  /\ impl = "null"
  /\ threadCount = 1
  /\ runningFlag = FALSE
  /\ worker = [w \in Workers |-> "none"]
  /\ owner = "idle"
  /\ caller = [c \in Callers |-> "idle"]
  /\ undefined = FALSE
  /\ ran = {}
  /\ lives = 0

-----------------------------------------------------------------------------
(* The owner.  init, start and shutdown of a pool that is not in the right  *)
(* state return LCT_FAIL and change nothing.                                *)

\* The new implementation comes with an empty queue.
FreshQueue ==
  /\ queue' = <<>>
  /\ quit' = FALSE
  /\ state' = [u \in Callers \cup Workers |-> "out"]
  /\ result' = [u \in Callers \cup Workers |-> "none"]
  /\ got' = [w \in Workers |-> Queue!NoObject]
  /\ sent' = [c \in Callers |-> 0]
  /\ taken' = [c \in Callers |-> 0]
  /\ UNCHANGED <<maxSize, enqueueWait, dequeueWait>>

\* init
Create ==
  /\ owner = "idle"
  /\ ~isRunning
  /\ impl = "null"
  /\ lives < MaxLives
  /\ lives' = lives + 1
  /\ impl' = "made"
  /\ threadCount' \in {IF n > 1 THEN n ELSE 1 : n \in ThreadCounts}
  /\ runningFlag' = FALSE
  /\ ran' = {}
  /\ FreshQueue
  /\ UNCHANGED <<isRunning, worker, owner, caller, undefined>>

\* n more workers enter their loop.
Spawn(n) ==
  \E new \in SUBSET (Workers \ Crew) :
    /\ Cardinality(new) = n
    /\ worker' = [w \in Workers |-> IF w \in new THEN "flag" ELSE worker[w]]

\* start.  If a thread cannot be created the exception leaves the flag raised
\* and the threads before it running; the owner may call start again.
Start ==
  /\ owner = "idle"
  /\ ~isRunning
  /\ impl = "made"
  /\ runningFlag' = TRUE
  /\ \/ Spawn(threadCount) /\ isRunning' = TRUE
     \/ /\ SpawnMayFail
        /\ \E n \in 0 .. threadCount - 1 : Spawn(n)
        /\ UNCHANGED isRunning
  /\ UNCHANGED <<impl, threadCount, owner, caller, undefined, ran, lives,
                 queueVars>>

\* shutdown: the workers' flag is lowered,
LowerFlag ==
  /\ owner = "idle"
  /\ isRunning
  /\ impl = "made"
  /\ runningFlag' = FALSE
  /\ owner' = "notify"
  /\ UNCHANGED <<isRunning, impl, threadCount, worker, caller, undefined, ran,
                 lives, queueVars>>

\* Mutant: the workers waiting for a task are not woken.
WakeNobody ==
  /\ owner = "notify"
  /\ owner' = "join"
  /\ UNCHANGED <<isRunning, impl, threadCount, runningFlag, worker, caller,
                 undefined, ran, lives, queueVars>>

\* those that wait for a task are woken,
WakeWorkers ==
  /\ owner = "notify"
  /\ Queue!NotifyAll
  /\ owner' = "join"
  /\ UNCHANGED <<isRunning, impl, threadCount, runningFlag, worker, caller,
                 undefined, ran, lives>>

\* Mutant: the implementation is deleted without waiting for the workers.
DeleteUnjoined ==
  /\ owner = "join"
  /\ impl' = "deleted"
  /\ owner' = "delete"
  /\ UNCHANGED <<isRunning, threadCount, runningFlag, worker, caller,
                 undefined, ran, lives, queueVars>>

\* joined, and the implementation is deleted with the tasks still in it,
JoinAndDelete ==
  /\ owner = "join"
  /\ \A w \in Crew : worker[w] = "done"
  /\ impl' = "deleted"
  /\ worker' = [w \in Workers |-> "none"]
  /\ owner' = "delete"
  /\ UNCHANGED <<isRunning, threadCount, runningFlag, caller, undefined, ran,
                 lives, queueVars>>

\* the pointer is cleared,
ClearPointer ==
  /\ owner = "delete"
  /\ impl' = "null"
  /\ owner' = "clear"
  /\ UNCHANGED <<isRunning, threadCount, runningFlag, worker, caller,
                 undefined, ran, lives, queueVars>>

\* and the pool is no longer running.
StopRunning ==
  /\ owner = "clear"
  /\ isRunning' = FALSE
  /\ owner' = "idle"
  /\ UNCHANGED <<impl, threadCount, runningFlag, worker, caller, undefined,
                 ran, lives, queueVars>>

Shutdown == LowerFlag \/ WakeWorkers \/ JoinAndDelete \/ ClearPointer \/ StopRunning

-----------------------------------------------------------------------------
(* emplaceTask.  A pool that is not running answers LCT_FAIL.               *)

CheckRunning(c) ==
  /\ caller[c] = "idle"
  /\ sent[c] < MaxTasks
  /\ isRunning
  /\ impl # "null"
  /\ caller' = [caller EXCEPT ![c] = "enqueue"]
  /\ UNCHANGED <<isRunning, impl, threadCount, runningFlag, worker, owner,
                 undefined, ran, lives, queueVars>>

\* The implementation may be gone since the check.
Emplace(c) ==
  /\ caller[c] = "enqueue"
  /\ \/ /\ impl = "made"
        /\ Queue!Enqueue(c)
        /\ caller' = [caller EXCEPT ![c] =
                        IF state'[c] = "waiting" THEN "enqueue" ELSE "idle"]
        /\ UNCHANGED undefined
     \/ /\ impl # "made"
        /\ caller' = [caller EXCEPT ![c] = "idle"]
        /\ undefined' = TRUE
        /\ UNCHANGED queueVars
  /\ UNCHANGED <<isRunning, impl, threadCount, runningFlag, worker, owner, ran,
                 lives>>

-----------------------------------------------------------------------------
(* The loop of a worker.                                                    *)

CheckFlag(w) ==
  /\ worker[w] = "flag"
  /\ worker' = [worker EXCEPT ![w] = IF runningFlag THEN "dequeue" ELSE "done"]
  /\ UNCHANGED <<isRunning, impl, threadCount, runningFlag, owner, caller,
                 undefined, ran, lives, queueVars>>

\* Mutant: whatever dequeue returns, the task is run.
TakeAnyway(w) ==
  /\ worker[w] = "dequeue"
  /\ Queue!Dequeue(w)
  /\ worker' = [worker EXCEPT ![w] =
                  IF state'[w] = "waiting" THEN "dequeue" ELSE "task"]
  /\ UNCHANGED <<isRunning, impl, threadCount, runningFlag, owner, caller,
                 undefined, ran, lives>>

\* One look at the queue: it waits, it gets a task, or the queue has quit.
Take(w) ==
  /\ worker[w] = "dequeue"
  /\ Queue!Dequeue(w)
  /\ worker' = [worker EXCEPT ![w] =
                  IF state'[w] = "waiting" THEN "dequeue"
                  ELSE IF result'[w] = "LCT_SUCCESS" THEN "task" ELSE "flag"]
  /\ UNCHANGED <<isRunning, impl, threadCount, runningFlag, owner, caller,
                 undefined, ran, lives>>

Wakeup(w) ==
  /\ Queue!SpuriousWakeup(w)
  /\ UNCHANGED poolVars

\* Mutant: a worker runs one task and leaves.
RunOneTask(w) ==
  /\ worker[w] = "task"
  /\ ran' = ran \cup {got[w]}
  /\ worker' = [worker EXCEPT ![w] = "done"]
  /\ UNCHANGED <<isRunning, impl, threadCount, runningFlag, owner, caller,
                 undefined, lives, queueVars>>

RunTask(w) ==
  /\ worker[w] = "task"
  /\ ran' = ran \cup {got[w]}
  /\ worker' = [worker EXCEPT ![w] = "flag"]
  /\ UNCHANGED <<isRunning, impl, threadCount, runningFlag, owner, caller,
                 undefined, lives, queueVars>>

Loop(w) == CheckFlag(w) \/ Take(w) \/ RunTask(w)

Defined == ~undefined

PoolNext ==
  \/ Defined /\ Create
  \/ Defined /\ Start
  \/ Defined /\ Shutdown
  \/ \E c \in Callers : Defined /\ CheckRunning(c)
  \/ \E c \in Callers : Defined /\ Emplace(c)
  \/ \E w \in Workers : Defined /\ Loop(w)
  \/ \E w \in Workers : Defined /\ Wakeup(w)

PoolSpec == PoolInit /\ [][PoolNext]_vars

\* The workers run, tasks end, and a shutdown that has begun goes on; nobody
\* has to start or stop a pool or give it a task.
PoolFairness ==
  /\ WF_vars(Defined /\ owner # "idle" /\ Shutdown)
  /\ \A w \in Workers : WF_vars(Defined /\ Loop(w))

FairPoolSpec == PoolSpec /\ PoolFairness

-----------------------------------------------------------------------------
(* Properties.                                                              *)

Tasks == [from : Callers, no : Nat]

\* Every variable has its type, a started pool has workers, and only a pool
\* that still has its implementation has any.
PoolTypeOK ==
  /\ isRunning \in BOOLEAN
  /\ impl \in {"null", "made", "deleted"}
  /\ threadCount \in Nat \ {0}
  /\ runningFlag \in BOOLEAN
  /\ worker \in [Workers -> {"none", "flag", "dequeue", "task", "done"}]
  /\ owner \in {"idle", "notify", "join", "delete", "clear"}
  /\ caller \in [Callers -> {"idle", "enqueue"}]
  /\ undefined \in BOOLEAN
  /\ ran \subseteq Tasks
  /\ lives \in Nat
  /\ Queue!TypeOK

InHand == {w \in Workers : worker[w] = "task"}

\* Every task that left the queue is in the hands of exactly one worker or was
\* run, never both: no task is run twice or lost on the way to a worker.
EveryTaskInOneHand ==
  /\ \A v, w \in InHand : v # w => got[v] # got[w]
  /\ \A w \in InHand : got[w] \notin ran
  /\ ran \cup {got[w] : w \in InHand}
       = UNION {[from : {c}, no : 1 .. taken[c]] : c \in Callers}

\* No worker sleeps in vain: one that waits finds no task to take, and none
\* waits any more when shutdown joins the workers, however the wakeup of
\* shutdown fell between a worker's looks at the flag and at the queue.
NoWorkerSleepsInVain ==
  \A w \in Workers : state[w] = "waiting" => queue = <<>> /\ owner # "join"

\* The pool implements TaskPool: it accepts tasks as long as it has an
\* implementation, and nothing runs once that is deleted.
Abstract == INSTANCE TaskPool WITH
              open     <- impl = "made",
              pending  <- IF impl = "made"
                          THEN {queue[i] : i \in 1 .. Len(queue)}
                          ELSE {},
              running  <- {got[w] : w \in InHand},
              finished <- ran

ImplementsTaskPool == Abstract!TaskPoolSpec

\* A task accepted by a running pool is run, unless the owner shuts it down.
AcceptedTasksRun ==
  \A c \in Callers : \A n \in 1 .. MaxTasks :
    isRunning /\ owner = "idle" /\ n <= sent[c]
      ~> [from |-> c, no |-> n] \in ran \/ owner # "idle" \/ undefined

\* shutdown returns: every worker is woken, leaves its loop and is joined.
ShutdownReturns == owner # "idle" ~> owner = "idle" \/ undefined

=============================================================================
