------------------------------ MODULE Service ------------------------------
(***************************************************************************)
(* The process of the id service: main and CSidServiceMgr bring up the     *)
(* configuration, the log, the database, the engines and the gRPC server   *)
(* and wait; the server's threads answer FetchId, whose database access is *)
(* CassHelper's execute; a signal handler shuts the server down and closes *)
(* the database.                                                           *)
(*                                                                         *)
(* The handler runs on top of the thread its signal is delivered to, which *)
(* goes on when it has returned.  signal() blocks only the kind that is    *)
(* being handled, and only on that thread, so another kind starts a second *)
(* handler on top of the first and the same kind one on another thread.    *)
(* Shutdown of the gRPC server keeps the server's mutex until all its      *)
(* threads have ended; Wait holds it except while it sleeps.               *)
(***************************************************************************)
EXTENDS CassHelper

CONSTANTS
  Main,       \* the main thread; the other Threads are those of the server
  Outsider,   \* a thread of the process that is neither: of the log, of the
              \* Cassandra driver
  Engines,    \* engines that init reads and saves
  Kinds,      \* kinds of signals that have the handler
  Pipe,       \* SIGPIPE, which goes to the thread that wrote
  MaxSignals  \* bound on the signals handled

Requests == Threads \ {Main}
Query == [op |-> "execute", sizes |-> <<1>>]

ASSUME ServiceAssumption ==
  /\ Main \in Threads /\ Query \in Calls
  /\ Outsider \notin Threads \cup {Owner}
  /\ Engines \in Nat \ {0} /\ Pipe \in Kinds

VARIABLES
  stage,      \* where main is
  engines,    \* accesses to the engines' rows so far, two for each engine
  serviceShp, \* m_serviceShp is set
  server,     \* the gRPC server: "none", "up" or "down"
  isServing,  \* m_isServing
  handlers,   \* the handlers started, in order: thread, kind, place in it
  early       \* ghost: a handler found nothing to stop before the server was down

lifeVars == <<stage, engines, serviceShp, server>>
stopVars == <<isServing, handlers, early>>
serviceVars == <<cassVars, lifeVars, stopVars>>

ServiceInit ==
  /\ CassInit
  /\ stage = "config"
  /\ engines = 0
  /\ serviceShp = FALSE
  /\ server = "none"
  /\ isServing = FALSE
  /\ handlers = <<>>
  /\ early = FALSE

Running == stage # "exited" /\ ~Undefined

\* The handlers a thread is in.  Only the last one runs, and the thread not.
HandlersOn(t) ==
  {i \in DOMAIN handlers : handlers[i].on = t /\ handlers[i].at # "done"}
Interrupted(t) == HandlersOn(t) # {}
Draining == \E i \in DOMAIN handlers : handlers[i].at = "drain"
MutexFree == stage # "locked" /\ ~Draining

MainRuns == Running /\ ~Interrupted(Main)

\* A step of main: on to the next stage, or out with the error it met.
Proceed(from, to) ==
  /\ MainRuns
  /\ stage = from
  /\ stage' \in {to, "exited"}
  /\ UNCHANGED <<engines, cassVars, stopVars>>

Configure ==
  \/ Proceed("config", "log") /\ UNCHANGED <<serviceShp, server>>
  \/ Proceed("log", "database") /\ UNCHANGED <<serviceShp, server>>

InitDatabase ==
  /\ MainRuns
  /\ stage = "database"
  /\ stage' = "engines"
  /\ Open
  /\ UNCHANGED <<engines, serviceShp, server, stopVars>>

\* An engine reads its row, and saves it whether or not it could be read.
RowSaved == engines > 0 /\ pc[Main] = "idle" /\ result[Main] = "ok"

AccessRow ==
  /\ MainRuns
  /\ stage = "engines"
  /\ engines < 2 * Engines
  /\ engines % 2 = 0 /\ engines > 0 => RowSaved
  /\ engines' = engines + 1
  /\ Start(Main, Query)
  /\ UNCHANGED <<stage, serviceShp, server, stopVars>>

\* The row cannot be saved: the engine's init fails, and main with it.
EngineFails ==
  /\ MainRuns
  /\ stage = "engines"
  /\ engines % 2 = 0 /\ engines > 0
  /\ pc[Main] = "idle" /\ ~RowSaved
  /\ stage' = "exited"
  /\ UNCHANGED <<engines, serviceShp, server, cassVars, stopVars>>

MainWorks == MainRuns /\ Work(Main) /\ UNCHANGED <<lifeVars, stopVars>>

\* The service object is made before its init, which may fail.
MakeService ==
  /\ engines = 2 * Engines
  /\ RowSaved
  /\ Proceed("engines", "build")
  /\ serviceShp' = TRUE
  /\ UNCHANGED server

\* serve: the server answers from here on; the flag follows.
Build ==
  /\ Proceed("build", "flag")
  /\ server' = IF stage' = "flag" THEN "up" ELSE server
  /\ UNCHANGED serviceShp

RaiseFlag ==
  /\ MainRuns
  /\ stage = "flag"
  /\ stage' = "serving"
  /\ isServing' = TRUE
  /\ UNCHANGED <<engines, serviceShp, server, cassVars, handlers, early>>

\* Wait: it takes the mutex, first and when it has been woken ...
LockWait ==
  /\ MainRuns
  /\ stage = "serving" \/ (stage = "waiting" /\ server = "down")
  /\ MutexFree
  /\ stage' = "locked"
  /\ UNCHANGED <<engines, serviceShp, server, cassVars, stopVars>>

\* ... and sleeps, or returns if the server is down, and main ends.
Waited ==
  /\ MainRuns
  /\ stage = "locked"
  /\ stage' = IF server = "down" THEN "exited" ELSE "waiting"
  /\ UNCHANGED <<engines, serviceShp, server, cassVars, stopVars>>

-----------------------------------------------------------------------------
\* A FetchId that saves the engine's row; the others do not reach the database.
Request(r) ==
  /\ Running
  /\ ~Interrupted(r)
  /\ server = "up"
  /\ Start(r, Query)
  /\ UNCHANGED <<lifeVars, stopVars>>

RequestWorks(r) ==
  Running /\ ~Interrupted(r) /\ Work(r) /\ UNCHANGED <<lifeVars, stopVars>>

\* The threads there are, beside main, and those that do not block the kind.
Alive(t) ==
  \/ t = Main
  \/ t \in Requests /\ (server = "up" \/ Draining)
  \/ t = Outsider /\ stage \notin {"config", "log"}

Blocks(t, kind) == \E i \in HandlersOn(t) : handlers[i].sig = kind

\* The kernel prefers main, and takes any other thread when main blocks the kind.
Signal ==
  /\ Running
  /\ Len(handlers) < MaxSignals
  /\ \E t \in Threads \cup {Outsider}, kind \in Kinds :
       /\ Alive(t) /\ ~Blocks(t, kind)
       /\ t = Main \/ kind = Pipe \/ Blocks(Main, kind)
       /\ handlers' = Append(handlers, [on |-> t, sig |-> kind, at |-> "shutdown"])
  /\ UNCHANGED <<lifeVars, isServing, early, cassVars>>

\* The handler i goes on, if no other has been started on top of it.
HandlerRuns(i, from, to) ==
  /\ Running
  /\ i \in DOMAIN handlers
  /\ handlers[i].at = from
  /\ \A j \in HandlersOn(handlers[i].on) : j <= i
  /\ handlers' = [handlers EXCEPT ![i].at = to]

\* Mutant: only the database is closed.
LeaveServer(i) ==
  /\ HandlerRuns(i, "shutdown", "close")
  /\ UNCHANGED <<lifeVars, isServing, early, cassVars>>

\* CSidServiceMgr::shutdown: the server, if it is known to serve ...
BeginShutdown(i) ==
  /\ \/ /\ serviceShp /\ isServing
        /\ HandlerRuns(i, "shutdown", "lock")
        /\ UNCHANGED early
     \/ /\ ~(serviceShp /\ isServing)
        /\ HandlerRuns(i, "shutdown", "close")
        /\ early' = (early \/ server # "down")
  /\ UNCHANGED <<lifeVars, isServing, cassVars>>

\* ... whose Shutdown takes the mutex and lets no request in any more, or finds
\* that another has done so ...
LockServer(i) ==
  /\ MutexFree
  /\ \/ /\ server = "up"
        /\ HandlerRuns(i, "lock", "drain")
        /\ server' = "down"
        /\ UNCHANGED isServing
     \/ /\ server = "down"
        /\ HandlerRuns(i, "lock", "close")
        /\ isServing' = FALSE
        /\ UNCHANGED server
  /\ UNCHANGED <<stage, engines, serviceShp, early, cassVars>>

\* Mutant: Shutdown does not wait for the requests.
DrainedAtOnce(i) ==
  /\ HandlerRuns(i, "drain", "close")
  /\ isServing' = FALSE
  /\ UNCHANGED <<lifeVars, early, cassVars>>

\* ... and returns when the last thread of the server has ended; the flag then
\* falls.
Drained(i) ==
  /\ \A r \in Requests : pc[r] = "idle" /\ ~Interrupted(r)
  /\ HandlerRuns(i, "drain", "close")
  /\ isServing' = FALSE
  /\ UNCHANGED <<lifeVars, early, cassVars>>

\* Mutant: the database is left open.
LeaveDatabase(i) ==
  /\ HandlerRuns(i, "close", "done")
  /\ UNCHANGED <<lifeVars, isServing, early, cassVars>>

\* Then the database, which only one can close.
CloseDatabase(i) ==
  /\ \/ Close /\ HandlerRuns(i, "close", "clear")
     \/ ~ready /\ HandlerRuns(i, "close", "done") /\ UNCHANGED cassVars
  /\ UNCHANGED <<lifeVars, isServing, early>>

ClearMap(i) ==
  /\ \/ Clear /\ HandlerRuns(i, "clear", "clear")
     \/ Cleared /\ HandlerRuns(i, "clear", "done")
  /\ UNCHANGED <<lifeVars, isServing, early>>

\* process.sh and the watchdog: SIGKILL, at any moment.
Kill ==
  /\ Running
  /\ stage' = "exited"
  /\ server' = "none"
  /\ UNCHANGED <<engines, serviceShp, cassVars, stopVars>>

MainStep ==
  \/ Configure \/ InitDatabase \/ AccessRow \/ EngineFails \/ MainWorks
  \/ MakeService \/ Build \/ RaiseFlag \/ LockWait \/ Waited
HandlerStep(i) ==
  \/ BeginShutdown(i) \/ LockServer(i) \/ Drained(i) \/ CloseDatabase(i)
  \/ ClearMap(i)

ServiceNext ==
  \/ MainStep \/ Signal \/ Kill
  \/ \E i \in 1 .. MaxSignals : HandlerStep(i)
  \/ \E r \in Requests : Request(r) \/ RequestWorks(r)

\* Threads that can run do; signals, requests and kills come or do not.  A
\* request waits for the driver, whose thread the outsider may be.
ServiceFairness ==
  /\ WF_serviceVars(MainStep)
  /\ \A i \in 1 .. MaxSignals : WF_serviceVars(HandlerStep(i))
  /\ \A r \in Requests :
       WF_serviceVars(~Interrupted(Outsider) /\ RequestWorks(r))

ServiceSpec == ServiceInit /\ [][ServiceNext]_serviceVars /\ ServiceFairness

-----------------------------------------------------------------------------
\* Requests find the database open, unless a handler looked at m_isServing
\* before it was true: it then closes the database and leaves the server alone.
ServedWithDatabase ==
  \A r \in Requests : result[r] = "notready" => early

\* The pool's lock lets two threads change the map at once.  They do not, but
\* for such a handler: the engines' saves have filled the pool before the
\* server is up, one thread after the other, and one handler empties it.
NoMapRace == Undefined => early

\* When main has waited and ended, and no handler was left in the middle of its
\* work on another thread, the database is closed and nobody uses it.
StoppedClean ==
  /\ stage = "exited" /\ server = "down" /\ ~early
  /\ \A i \in DOMAIN handlers : handlers[i].at = "done"
  => /\ ~ready /\ mapped = NoSession /\ concurrent = 0
     /\ \A r \in Requests : pc[r] = "idle" /\ held[r] = NoSession

\* A signal that finds the service serving and main outside the mutex ends it.
\* Only another signal can prevent that: its handler waits for the mutex of the
\* one that is inside Shutdown, and that one for the thread of the other.
Stuck ==
  \E i, j \in DOMAIN handlers :
    handlers[i].at = "drain" /\ handlers[j].at = "lock"

StopEnds ==
  /\ isServing /\ stage # "locked"
  /\ \E i \in HandlersOn(Main) : handlers[i].at = "shutdown"
  ~> (stage = "exited" \/ Undefined \/ []Stuck)
=============================================================================
