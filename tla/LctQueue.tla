------------------------------ MODULE LctQueue ------------------------------
(***************************************************************************)
(* CLctQueue: the blocking queue between threads that the thread pool and  *)
(* the asynchronous log are built on.  One mutex guards everything and one *)
(* condition variable serves enqueuers and dequeuers alike, so that a call *)
(* is a chain of critical sections: it enters, and each time it is woken   *)
(* it looks again.  Enqueuing notifies all; dequeuing notifies nobody.     *)
(***************************************************************************)
EXTENDS Integers, Sequences

CONSTANTS
  Producers,    \* the threads that call enqueue
  Consumers,    \* the threads that call dequeue
  SizeArgs,     \* values of the constructor's maxSize
  EnqueueWaits, \* kinds of enWaitTime: "none" (0), "timed" or "forever"
  DequeueWaits, \* kinds of deWaitTime
  Spurious,     \* may a condition variable wake a thread for no reason?
  MaxSent       \* bound: how many objects one producer enqueues

Waits == {"none", "timed", "forever"}

ASSUME ProducersAssumption == Producers \cap Consumers = {}
ASSUME SizeAssumption == SizeArgs \subseteq Int
ASSUME WaitAssumption == EnqueueWaits \subseteq Waits /\ DequeueWaits \subseteq Waits
ASSUME SpuriousAssumption == Spurious \in BOOLEAN
ASSUME MaxSentAssumption == MaxSent \in Nat

VARIABLES
  maxSize,      \* m_maxSize
  enqueueWait,  \* m_enqueueWaitTime
  dequeueWait,  \* m_dequeueWaitTime
  queue,        \* m_dataQueue: objects [from, no], the no-th of its producer
  quit,         \* m_quit
  state,        \* each thread: not in a call, waiting, or to look again
  result,       \* how each thread's last call ended
  got,          \* the object a consumer's last successful dequeue returned
  sent,         \* history: how many objects each producer has enqueued
  taken         \* history: how many of each producer's have been dequeued

params == <<maxSize, enqueueWait, dequeueWait>>
vars == <<params, queue, quit, state, result, got, sent, taken>>

Users == Producers \cup Consumers

Objects == [from : Producers, no : Nat]

NoObject == [from |-> "nobody", no |-> 0]

Codes == {"none", "LCT_SUCCESS", "LCT_SERVICE_DOWN", "LCT_OVERFLOW",
          "LCT_EMPTY_RECORD", "LCT_TIMEOUT"}

\* The constructors raise maxSize to 1.
Init ==
  /\ maxSize \in {IF s > 1 THEN s ELSE 1 : s \in SizeArgs}
  /\ enqueueWait \in EnqueueWaits
  /\ dequeueWait \in DequeueWaits
  /\ queue = <<>>
  /\ quit = FALSE
  /\ state = [u \in Users |-> "out"]
  /\ result = [u \in Users |-> "none"]
  /\ got = [c \in Consumers |-> NoObject]
  /\ sent = [p \in Producers |-> 0]
  /\ taken = [p \in Producers |-> 0]

\* notify_all: every waiting thread will look again.
Notified(s) == [u \in Users |-> IF s[u] = "waiting" THEN "woken" ELSE s[u]]

\* A thread about to hold the mutex at the head of its loop.
Looks(u) == state[u] \in {"out", "woken"}

Leave(u, code) == /\ state' = [state EXCEPT ![u] = "out"]
                  /\ result' = [result EXCEPT ![u] = code]

Wait(u) == /\ state' = [state EXCEPT ![u] = "waiting"]
           /\ UNCHANGED result

Full == Len(queue) >= maxSize

-----------------------------------------------------------------------------
(* enqueue                                                                  *)

Mine(p) == [from |-> p, no |-> sent[p] + 1]

\* Mutant: enqueue notifies nobody.
PushSilently(p) ==
  /\ ~Full
  /\ queue' = Append(queue, Mine(p))
  /\ sent' = [sent EXCEPT ![p] = @ + 1]
  /\ state' = [state EXCEPT ![p] = "out"]
  /\ result' = [result EXCEPT ![p] = "LCT_SUCCESS"]

\* Mutant: the object goes to the front.
PushInFront(p) ==
  /\ ~Full
  /\ queue' = <<Mine(p)>> \o queue
  /\ sent' = [sent EXCEPT ![p] = @ + 1]
  /\ state' = [Notified(state) EXCEPT ![p] = "out"]
  /\ result' = [result EXCEPT ![p] = "LCT_SUCCESS"]

Push(p) ==
  /\ ~Full
  /\ queue' = Append(queue, Mine(p))
  /\ sent' = [sent EXCEPT ![p] = @ + 1]
  /\ state' = [Notified(state) EXCEPT ![p] = "out"]
  /\ result' = [result EXCEPT ![p] = "LCT_SUCCESS"]

\* Mutant: the size is not checked again after a wait.
EnqueueNoRecheck(p) ==
  /\ Looks(p)
  /\ sent[p] < MaxSent
  /\ \/ /\ state[p] = "woken" \/ ~Full
        /\ queue' = Append(queue, Mine(p))
        /\ sent' = [sent EXCEPT ![p] = @ + 1]
        /\ state' = [Notified(state) EXCEPT ![p] = "out"]
        /\ result' = [result EXCEPT ![p] = "LCT_SUCCESS"]
     \/ /\ Full /\ state[p] = "out"
        /\ \/ quit /\ Leave(p, "LCT_SERVICE_DOWN")
           \/ ~quit /\ enqueueWait = "none" /\ Leave(p, "LCT_OVERFLOW")
           \/ ~quit /\ enqueueWait # "none" /\ Wait(p)
        /\ UNCHANGED <<queue, sent>>
  /\ UNCHANGED <<params, quit, got, taken>>

Enqueue(p) ==
  /\ Looks(p)
  /\ sent[p] < MaxSent
  /\ \/ Push(p)
     \/ /\ Full
        /\ \/ quit /\ Leave(p, "LCT_SERVICE_DOWN")
           \/ ~quit /\ enqueueWait = "none" /\ Leave(p, "LCT_OVERFLOW")
           \/ ~quit /\ enqueueWait # "none" /\ Wait(p)
        /\ UNCHANGED <<queue, sent>>
  /\ UNCHANGED <<params, quit, got, taken>>

\* wait_for ran out.  The queue is not looked at again, and a thread that was
\* notified too late to get the mutex in time reports a timeout as well.
EnqueueTimeout(p) ==
  /\ enqueueWait = "timed"
  /\ state[p] \in {"waiting", "woken"}
  /\ Leave(p, "LCT_TIMEOUT")
  /\ UNCHANGED <<params, queue, quit, got, sent, taken>>

-----------------------------------------------------------------------------
(* dequeue                                                                  *)

\* The object at the front is handed over; nobody is notified.
Pop(c) ==
  /\ queue # <<>>
  /\ got' = [got EXCEPT ![c] = Head(queue)]
  /\ queue' = Tail(queue)
  /\ taken' = [taken EXCEPT ![Head(queue).from] = @ + 1]
  /\ Leave(c, "LCT_SUCCESS")

\* Mutant: the quit flag is not looked at before waiting.
DequeueIgnoresQuit(c) ==
  /\ Looks(c)
  /\ \/ Pop(c)
     \/ /\ queue = <<>>
        /\ \/ dequeueWait = "none" /\ Leave(c, "LCT_EMPTY_RECORD")
           \/ dequeueWait # "none" /\ Wait(c)
        /\ UNCHANGED <<queue, got, taken>>
  /\ UNCHANGED <<params, quit, sent>>

Dequeue(c) ==
  /\ Looks(c)
  /\ \/ Pop(c)
     \/ /\ queue = <<>>
        /\ \/ quit /\ Leave(c, "LCT_SERVICE_DOWN")
           \/ ~quit /\ dequeueWait = "none" /\ Leave(c, "LCT_EMPTY_RECORD")
           \/ ~quit /\ dequeueWait # "none" /\ Wait(c)
        /\ UNCHANGED <<queue, got, taken>>
  /\ UNCHANGED <<params, quit, sent>>

DequeueTimeout(c) ==
  /\ dequeueWait = "timed"
  /\ state[c] \in {"waiting", "woken"}
  /\ Leave(c, "LCT_TIMEOUT")
  /\ UNCHANGED <<params, queue, quit, got, sent, taken>>

-----------------------------------------------------------------------------

\* Mutant: the flag is raised but nobody is told.
QuitSilently ==
  /\ quit' = TRUE
  /\ UNCHANGED <<params, queue, state, result, got, sent, taken>>

\* notifyAll: the queue's users are told to quit.
NotifyAll ==
  /\ quit' = TRUE
  /\ state' = Notified(state)
  /\ UNCHANGED <<params, queue, result, got, sent, taken>>

SpuriousWakeup(u) ==
  /\ Spurious
  /\ state[u] = "waiting"
  /\ state' = [state EXCEPT ![u] = "woken"]
  /\ UNCHANGED <<params, queue, quit, result, got, sent, taken>>

Produce(p) == Enqueue(p) \/ EnqueueTimeout(p)

Consume(c) == Dequeue(c) \/ DequeueTimeout(c)

Next ==
  \/ \E p \in Producers : Produce(p)
  \/ \E c \in Consumers : Consume(c)
  \/ \E u \in Users : SpuriousWakeup(u)
  \/ NotifyAll

Spec == Init /\ [][Next]_vars

\* A thread that was woken gets the mutex and looks again, and a timed wait
\* runs out.  Nobody has to call the queue in the first place.
Fairness ==
  /\ \A p \in Producers : WF_vars(state[p] # "out" /\ Produce(p))
  /\ \A c \in Consumers : WF_vars(state[c] # "out" /\ Consume(c))

FairSpec == Spec /\ Fairness

-----------------------------------------------------------------------------
(* Properties.                                                              *)

\* Every variable has its type, and the queue holds at most maxSize objects.
TypeOK ==
  /\ maxSize \in Nat \ {0}
  /\ enqueueWait \in Waits
  /\ dequeueWait \in Waits
  /\ queue \in Seq(Objects)
  /\ quit \in BOOLEAN
  /\ state \in [Users -> {"out", "waiting", "woken"}]
  /\ result \in [Users -> Codes]
  /\ got \in [Consumers -> Objects \cup {NoObject}]
  /\ sent \in [Producers -> Nat]
  /\ taken \in [Producers -> Nat]
  /\ Len(queue) <= maxSize

\* Objects of one producer stand in q in the order it enqueued them.
InOrder(q) ==
  \A i, j \in 1 .. Len(q) : i < j /\ q[i].from = q[j].from => q[i].no < q[j].no

\* The numbers of the objects of producer p in q.
Nos(q, p) == {q[i].no : i \in {k \in 1 .. Len(q) : q[k].from = p}}

\* The queue holds exactly the objects enqueued and not yet dequeued, each
\* producer's in order: enqueue and dequeue lose, repeat and reorder nothing.
NothingLostOrReordered ==
  /\ InOrder(queue)
  /\ \A p \in Producers : Nos(queue, p) = taken[p] + 1 .. sent[p]

\* No wakeup is lost on the consumers' side: a consumer only waits while there
\* is nothing to take, although it shares its condition with the producers.
ConsumersWaitOnlyOnEmpty ==
  \A c \in Consumers : state[c] = "waiting" => queue = <<>>

\* After notifyAll nobody waits, and nobody starts to.
NobodyWaitsAfterQuit ==
  quit => \A u \in Users : state[u] # "waiting"

\* A consumer inside dequeue returns once there is something to take or the
\* queue is told to quit, unless the others keep emptying the queue.
ConsumersReturn ==
  \A c \in Consumers :
    state[c] # "out" /\ (quit \/ queue # <<>>)
      ~> state[c] = "out" \/ (~quit /\ queue = <<>>)

\* Not all threads wait for each other: what an infinite wait waits for, room
\* or an object, comes as long as there are both producers and consumers.
NoStandstill == \E u \in Users : state[u] # "waiting"

=============================================================================
