------------------------------ MODULE AsyncLog ------------------------------
(***************************************************************************)
(* The asynchronous log: CLctLogger and its CLctLogSinkPool.  Any threads  *)
(* log, through a CLctQueue (module LctQueue) to one worker that writes    *)
(* the file; an owner inits and closes the log, which is a singleton and   *)
(* is never destroyed.                                                     *)
(*                                                                         *)
(* m_isInitiated, m_isRunning and m_loglevels are plain members that the   *)
(* loggers and the worker read without a lock while the owner writes them. *)
(* What the file sink does with a message is the module RotateSink.        *)
(***************************************************************************)
EXTENDS Integers, Sequences

CONSTANTS
  Loggers,       \* the threads that log
  Worker,        \* the thread of the sink pool
  Spurious,      \* may a condition variable wake a thread for no reason?
  MaxMessages,   \* bound: messages of one logger through the queue
  MaxLives       \* bound: how often the owner calls init

ASSUME LogThreadsAssumption == Worker \notin Loggers
ASSUME LogSwitchAssumption == Spurious \in BOOLEAN
ASSUME LogBoundAssumption == MaxMessages \in Nat /\ MaxLives \in Nat

VARIABLES
  initiated,  \* CLctLogger::m_isInitiated
  running,    \* CLctLogSinkPool::m_isRunning
  worker,     \* where m_worker is; "none": never made, "joined": joined
  owner,      \* where the owner is in init or close
  logger,     \* where each logger is in LOG_x << ...
  undefined,  \* std::terminate was called, or a map was read while written
  accepted,   \* history: the messages enqueued, in order
  file,       \* the messages written to the sink, in order
  lives       \* how often init was called

\* m_logQueue.
VARIABLES maxSize, enqueueWait, dequeueWait, queue, quit, state, result, got,
          sent, taken

SIZE_INFINITE == 2147483647

Queue == INSTANCE LctQueue WITH
           Producers    <- Loggers,
           Consumers    <- {Worker},
           SizeArgs     <- {SIZE_INFINITE},
           EnqueueWaits <- {"forever"},
           DequeueWaits <- {"forever"},
           MaxSent      <- MaxMessages

queueVars == <<maxSize, enqueueWait, dequeueWait, queue, quit, state, result,
               got, sent, taken>>
logVars   == <<initiated, running, worker, owner, logger, undefined, accepted,
               file, lives>>
vars == <<logVars, queueVars>>

LogInit ==
  /\ Queue!Init
  /\ initiated = FALSE
  /\ running = FALSE
  /\ worker = "none"
  /\ owner = "idle"
  /\ logger = [t \in Loggers |-> "idle"]
  /\ undefined = FALSE
  /\ accepted = <<>>
  /\ file = <<>>
  /\ lives = 0

-----------------------------------------------------------------------------
(* init                                                                     *)

\* The levels are erased and filled in again, formatter and sink replaced.
Setup ==
  /\ owner = "idle"
  /\ lives < MaxLives
  /\ lives' = lives + 1
  /\ owner' = "setup"
  /\ UNCHANGED <<initiated, running, worker, logger, undefined, accepted, file,
                 queueVars>>

\* The sink pool is started.  The new thread takes the place of the old one,
\* whose destructor terminates the program unless it was joined.
StartPool ==
  /\ owner = "setup"
  /\ running' = TRUE
  /\ \/ /\ worker \in {"none", "joined"}
        /\ worker' = "check"
        /\ UNCHANGED undefined
     \/ /\ worker \notin {"none", "joined"}
        /\ undefined' = TRUE
        /\ UNCHANGED worker
  /\ owner' = "started"
  /\ UNCHANGED <<initiated, logger, accepted, file, lives, queueVars>>

SetInitiated ==
  /\ owner = "started"
  /\ initiated' = TRUE
  /\ owner' = "idle"
  /\ UNCHANGED <<running, worker, logger, undefined, accepted, file, lives,
                 queueVars>>

-----------------------------------------------------------------------------
(* close                                                                    *)

StopRunning ==
  /\ owner = "idle"
  /\ running' = FALSE
  /\ owner' = "notify"
  /\ UNCHANGED <<initiated, worker, logger, undefined, accepted, file, lives,
                 queueVars>>

\* Mutant: a worker that waits for a message is not woken.
WakeNobody ==
  /\ owner = "notify"
  /\ owner' = "join"
  /\ UNCHANGED <<initiated, running, worker, logger, undefined, accepted, file,
                 lives, queueVars>>

WakeWorker ==
  /\ owner = "notify"
  /\ Queue!NotifyAll
  /\ owner' = "join"
  /\ UNCHANGED <<initiated, running, worker, logger, undefined, accepted, file,
                 lives>>

\* Mutant: the worker is left to itself.
StopUnjoined ==
  /\ owner = "join"
  /\ owner' = "clear"
  /\ UNCHANGED <<initiated, running, worker, logger, undefined, accepted, file,
                 lives, queueVars>>

\* A worker joined before is not joinable: join throws, nobody catches.
JoinWorker ==
  /\ owner = "join"
  /\ \/ /\ worker = "none"
        /\ UNCHANGED <<worker, undefined>>
     \/ /\ worker = "done"
        /\ worker' = "joined"
        /\ UNCHANGED undefined
     \/ /\ worker = "joined"
        /\ undefined' = TRUE
        /\ UNCHANGED worker
  /\ owner' = "clear"
  /\ UNCHANGED <<initiated, running, logger, accepted, file, lives, queueVars>>

ClearInitiated ==
  /\ owner = "clear"
  /\ initiated' = FALSE
  /\ owner' = "idle"
  /\ UNCHANGED <<running, worker, logger, undefined, accepted, file, lives,
                 queueVars>>

\* What the owner goes on with once it has called init or close.
Proceed == StartPool \/ SetInitiated \/ WakeWorker \/ JoinWorker \/ ClearInitiated

-----------------------------------------------------------------------------
(* LOG_x << ...                                                             *)

\* isLogged looks the level up.  A level that is switched off ends the call.
IsLogged(t) ==
  /\ logger[t] = "idle"
  /\ logger' = [logger EXCEPT ![t] = "log"]
  /\ undefined' = (owner = "setup")
  /\ UNCHANGED <<initiated, running, worker, owner, accepted, file, lives,
                 queueVars>>

\* log formats the message, which looks the level up again, and gives it to
\* the pool or, if the log is not initiated, to the standard output.
Log(t) ==
  /\ logger[t] = "log"
  /\ logger' = [logger EXCEPT ![t] = IF initiated THEN "enqueue" ELSE "idle"]
  /\ undefined' = (owner = "setup")
  /\ UNCHANGED <<initiated, running, worker, owner, accepted, file, lives,
                 queueVars>>

AsyncSink(t) ==
  /\ logger[t] = "enqueue"
  /\ Queue!Enqueue(t)
  /\ accepted' = IF result'[t] = "LCT_SUCCESS" /\ state'[t] = "out"
                 THEN Append(accepted, Queue!Mine(t)) ELSE accepted
  /\ logger' = [logger EXCEPT ![t] =
                  IF state'[t] = "waiting" THEN "enqueue" ELSE "idle"]
  /\ UNCHANGED <<initiated, running, worker, owner, undefined, file, lives>>

-----------------------------------------------------------------------------
(* Run, the loop of the worker.                                             *)

CheckRunning ==
  /\ worker = "check"
  /\ worker' = IF running THEN "dequeue" ELSE "done"
  /\ UNCHANGED <<initiated, running, owner, logger, undefined, accepted, file,
                 lives, queueVars>>

\* Mutant: the flag is looked at between taking a message and writing it.
TakeUnlessStopped ==
  /\ worker = "dequeue"
  /\ Queue!Dequeue(Worker)
  /\ worker' = IF state'[Worker] = "waiting" THEN "dequeue"
               ELSE IF running /\ result'[Worker] = "LCT_SUCCESS" THEN "sink"
               ELSE "check"
  /\ UNCHANGED <<initiated, running, owner, logger, undefined, accepted, file,
                 lives>>

\* Mutant: the worker leaves when dequeue fails.
TakeOrLeave ==
  /\ worker = "dequeue"
  /\ Queue!Dequeue(Worker)
  /\ worker' = IF state'[Worker] = "waiting" THEN "dequeue"
               ELSE IF result'[Worker] = "LCT_SUCCESS" THEN "sink" ELSE "done"
  /\ UNCHANGED <<initiated, running, owner, logger, undefined, accepted, file,
                 lives>>

\* One look at the queue: it waits, it gets a message, or the queue has quit.
\* The queue never forgets that it has: after a close and another init the
\* worker no longer waits for messages but keeps looking.
Take ==
  /\ worker = "dequeue"
  /\ Queue!Dequeue(Worker)
  /\ worker' = IF state'[Worker] = "waiting" THEN "dequeue"
               ELSE IF result'[Worker] = "LCT_SUCCESS" THEN "sink" ELSE "check"
  /\ UNCHANGED <<initiated, running, owner, logger, undefined, accepted, file,
                 lives>>

Sink ==
  /\ worker = "sink"
  /\ file' = Append(file, got[Worker])
  /\ worker' = "check"
  /\ UNCHANGED <<initiated, running, owner, logger, undefined, accepted, lives,
                 queueVars>>

Run == CheckRunning \/ Take \/ Sink

Wakeup ==
  /\ Queue!SpuriousWakeup(Worker)
  /\ UNCHANGED logVars

-----------------------------------------------------------------------------

Defined == ~undefined

LogNext ==
  \/ Defined /\ Setup
  \/ Defined /\ StopRunning
  \/ Defined /\ Proceed
  \/ \E t \in Loggers : Defined /\ IsLogged(t)
  \/ \E t \in Loggers : Defined /\ Log(t)
  \/ \E t \in Loggers : Defined /\ AsyncSink(t)
  \/ Defined /\ Run
  \/ Defined /\ Wakeup

LogSpec == LogInit /\ [][LogNext]_vars

\* The worker runs, and an init or a close that has begun goes on.  Nobody has
\* to log, to init or to close.
LogFairness ==
  /\ WF_vars(Defined /\ Proceed)
  /\ WF_vars(Defined /\ Run)

FairLogSpec == LogSpec /\ LogFairness

-----------------------------------------------------------------------------
(* Properties.                                                              *)

Messages == [from : Loggers, no : Nat]

\* Every variable has its type, and a running pool has a worker in its loop.
LogTypeOK ==
  /\ initiated \in BOOLEAN
  /\ running \in BOOLEAN
  /\ worker \in {"none", "check", "dequeue", "sink", "done", "joined"}
  /\ owner \in {"idle", "setup", "started", "notify", "join", "clear"}
  /\ logger \in [Loggers -> {"idle", "log", "enqueue"}]
  /\ undefined \in BOOLEAN
  /\ accepted \in Seq(Messages)
  /\ file \in Seq(Messages)
  /\ lives \in Nat
  /\ Queue!TypeOK
  /\ running /\ Defined => worker \in {"check", "dequeue", "sink"}

\* The message the worker has taken and not yet written.
InHand == IF worker = "sink" THEN <<got[Worker]>> ELSE <<>>

\* The file holds the messages in the order they were accepted, each once, and
\* those it does not hold are still to come: none is lost on the way, whatever
\* init and close do, and those left behind by a close come first when the log
\* is initiated again.
NoMessageLostOrReordered == accepted = file \o InHand \o queue

\* Once close has returned nothing is written any more: the sink may be
\* replaced.
NothingWrittenWhenClosed ==
  [][(owner \in {"idle", "setup"} /\ ~running) => (file' = file)]_vars

\* The worker never sleeps in vain: it only waits without a message to write,
\* and no longer when close joins it, however the wakeup of close fell between
\* its looks at m_isRunning and at the queue.
WorkerNeverSleepsInVain ==
  state[Worker] = "waiting" => queue = <<>> /\ owner # "join"

\* A message that was accepted is written unless the log is closed.
MessagesAreWritten ==
  \A n \in 1 .. MaxMessages :
    Len(accepted) >= n /\ running ~> Len(file) >= n \/ ~running \/ undefined

\* init and close return: the worker is woken, leaves its loop and is joined.
InitAndCloseReturn == owner # "idle" ~> owner = "idle" \/ undefined

=============================================================================
