------------------------------ MODULE IdEngine ------------------------------
(***************************************************************************)
(* One id engine of the id service: CSidDaySwitchEngine, its row in        *)
(* Cassandra (CSidDataSource) and the process that hosts it.               *)
(*                                                                         *)
(* An engine hands out pairs (DayStamp, uniqueid).  Ids are taken from an  *)
(* atomic counter, CurrentId, that may only run up to PreallocValve; the   *)
(* valve is raised in steps of PreallocSize and saved, so that a restarted *)
(* service can go on above every id it may have handed out.  On a new day  *)
(* the counter starts again from 0.                                        *)
(*                                                                         *)
(* spawnId runs on several gRPC threads.  daySwitch and reallocValve take  *)
(* the engine's mutex, spawnId itself reads DayStamp and PreallocValve     *)
(* without it, so one call is cut into steps with one shared access each.  *)
(***************************************************************************)
EXTENDS Integers

CONSTANTS
  Threads,         \* the threads gRPC runs FetchId on
  NoThread,        \* the mutex is free
  SeedStep,        \* seed_step of the row written by the table tool
  SeedSize,        \* prealloc_size of that row
  DefaultStep,     \* CEngineInfo::Step before a row is read
  DefaultSize,     \* CEngineInfo::PreallocSize before a row is read
  Prepared,        \* has the table tool inserted the row?
  Midnight,        \* when the day may change: "down", "idle" or "any"
  KillMayHappen,   \* may the process die in the middle of calls (kill -9)?
  PersistMayFail,  \* may the UPDATE of the row fail?
  QueryMayFail,    \* may the SELECT of the row fail at start?
  MaxDay,          \* bound: the last day of the clock
  MaxRuns,         \* bound: how often the process is started
  IdBound          \* bound: no new call once CurrentId is here

ASSUME ThreadsAssumption == NoThread \notin Threads
ASSUME SeedAssumption    == SeedStep \in Nat \ {0} /\ SeedSize \in Nat
ASSUME DefaultAssumption == DefaultStep \in Nat \ {0} /\ DefaultSize \in Nat
ASSUME MidnightAssumption == Midnight \in {"down", "idle", "any"}
ASSUME SwitchAssumption ==
  /\ Prepared \in BOOLEAN
  /\ KillMayHappen \in BOOLEAN
  /\ PersistMayFail \in BOOLEAN
  /\ QueryMayFail \in BOOLEAN
ASSUME BoundAssumption == MaxDay \in Nat \ {0} /\ MaxRuns \in Nat /\ IdBound \in Nat

VARIABLES
  today,          \* LctCurrentDay(), days counted from 1
  row,            \* the engine's row of the id table
  svc,            \* the process: "down", "starting" or "up"
  run,            \* how often it was started
  step,           \* CEngineInfo::Step
  preallocSize,   \* CEngineInfo::PreallocSize
  preallocValve,  \* CEngineInfo::PreallocValve
  currentId,      \* CEngineInfo::CurrentId
  dayStamp,       \* CEngineInfo::DayStamp
  newDay,         \* the day daySwitch is storing into DayStamp
  mutex,          \* who holds m_mutex
  pc,             \* where each thread is in spawnId
  nextId,         \* the local nextId of each thread
  result,         \* how the last call of each thread ended
  issued,         \* history: every id handed out
  clashes         \* history: ids handed out again

info == <<step, preallocSize, preallocValve, currentId, dayStamp, newDay>>
log  == <<issued, clashes>>
vars == <<today, row, svc, run, info, mutex, pc, nextId, result, log>>

NoDay == 0                    \* the empty DayStamp
Torn  == -1                   \* a DayStamp half old and half new
Days  == 1 .. MaxDay

\* The value of the row before anything was stored; a null column reads as 0.
NoRow == [present |-> FALSE, valve |-> 0, step |-> 0, size |-> 0]
SeedRow == [present |-> TRUE, valve |-> 0, step |-> SeedStep, size |-> SeedSize]

Quiet == \A t \in Threads : pc[t] = "idle"

Goto(t, label) == pc' = [pc EXCEPT ![t] = label]

\* spawnId returns: the call of t is over.
Return(t, code) == /\ Goto(t, "idle")
                   /\ result' = [result EXCEPT ![t] = code]

-----------------------------------------------------------------------------
(* The database.  The UPDATE is an upsert: it creates a missing row with    *)
(* null seed_step and prealloc_size.  An UPDATE that fails may have been    *)
(* applied all the same.                                                    *)

StoredRow == [row EXCEPT !.present = TRUE, !.valve = preallocValve]

\* Mutant: the counter is saved where the valve should be.
PersistCounter == row' = [row EXCEPT !.present = TRUE, !.valve = currentId]

PersistSucceeds == row' = StoredRow

PersistFails == PersistMayFail /\ row' \in {row, StoredRow}

-----------------------------------------------------------------------------
(* The process.  Its memory starts as CEngineInfo's member initialisers.    *)

FreshMemory ==
  /\ step' = DefaultStep
  /\ preallocSize' = DefaultSize
  /\ preallocValve' = 0
  /\ currentId' = 0
  /\ dayStamp' = NoDay
  /\ newDay' = NoDay

\* The process is gone, and every call in it.
GoDown ==
  /\ svc' = "down"
  /\ FreshMemory
  /\ mutex' = NoThread
  /\ pc' = [t \in Threads |-> "idle"]
  /\ nextId' = [t \in Threads |-> 0]
  /\ result' = [t \in Threads |-> "none"]

Init ==
  /\ today = 1
  /\ row = IF Prepared THEN SeedRow ELSE NoRow
  /\ svc = "down"
  /\ run = 0
  /\ step = DefaultStep
  /\ preallocSize = DefaultSize
  /\ preallocValve = 0
  /\ currentId = 0
  /\ dayStamp = NoDay
  /\ newDay = NoDay
  /\ mutex = NoThread
  /\ pc = [t \in Threads |-> "idle"]
  /\ nextId = [t \in Threads |-> 0]
  /\ result = [t \in Threads |-> "none"]
  /\ issued = {}
  /\ clashes = {}

\* Mutant: init does not move the counter up to the stored valve.
StartFromZero ==
  /\ svc = "down"
  /\ run < MaxRuns
  /\ svc' = "starting"
  /\ run' = run + 1
  /\ step' = IF row.present THEN row.step ELSE step
  /\ preallocSize' = IF row.present THEN row.size ELSE preallocSize
  /\ currentId' = 0
  /\ dayStamp' = today
  /\ preallocValve' = row.valve + preallocSize'
  /\ UNCHANGED <<today, row, newDay, mutex, pc, nextId, result, log>>

\* The engine reads its row and goes on above the stored valve.  A query that
\* finds no row succeeds and leaves the defaults; the stored day is not used.
StartFromRow ==
  /\ svc = "down"
  /\ run < MaxRuns
  /\ svc' = "starting"
  /\ run' = run + 1
  /\ step' = IF row.present THEN row.step ELSE step
  /\ preallocSize' = IF row.present THEN row.size ELSE preallocSize
  /\ currentId' = row.valve
  /\ dayStamp' = today
  /\ preallocValve' = row.valve + preallocSize'
  /\ UNCHANGED <<today, row, newDay, mutex, pc, nextId, result, log>>

\* The query fails: init falls back to daySwitch, from the defaults.
StartWithoutRow ==
  /\ svc = "down"
  /\ run < MaxRuns
  /\ QueryMayFail
  /\ svc' = "starting"
  /\ run' = run + 1
  /\ currentId' = 0
  /\ dayStamp' = today
  /\ preallocValve' = preallocSize
  /\ UNCHANGED <<today, row, step, preallocSize, newDay, mutex, pc, nextId,
                 result, log>>

\* The valve of the new run is saved, and the service starts to serve.
StartServing ==
  /\ svc = "starting"
  /\ PersistSucceeds
  /\ svc' = "up"
  /\ UNCHANGED <<today, run, info, mutex, pc, nextId, result, log>>

\* It cannot be saved: init fails and the process exits.
StartFails ==
  /\ svc = "starting"
  /\ PersistFails
  /\ GoDown
  /\ UNCHANGED <<today, run, log>>

\* SIGINT or SIGTERM: the server stops after the calls in flight.
Shutdown ==
  /\ svc = "up"
  /\ Quiet
  /\ GoDown
  /\ UNCHANGED <<today, row, run, log>>

\* The process dies wherever its threads are.
Kill ==
  /\ KillMayHappen
  /\ svc # "down"
  /\ GoDown
  /\ UNCHANGED <<today, row, run, log>>

\* Midnight passes.
Tick ==
  /\ today < MaxDay
  /\ \/ svc = "down"
     \/ Midnight # "down" /\ (Midnight = "idle" => Quiet)
  /\ today' = today + 1
  /\ UNCHANGED <<row, svc, run, info, mutex, pc, nextId, result, log>>

-----------------------------------------------------------------------------
(* spawnId, one action per shared access.                                   *)

Call(t) ==
  /\ svc = "up"
  /\ pc[t] = "idle"
  /\ currentId < IdBound
  /\ Goto(t, "day")
  /\ result' = [result EXCEPT ![t] = "none"]
  /\ UNCHANGED <<today, row, svc, run, info, mutex, nextId, log>>

\* DayStamp is compared with the clock, without the mutex.
CheckDay(t) ==
  /\ pc[t] = "day"
  /\ Goto(t, IF today # dayStamp THEN "lockDay" ELSE "fetch")
  /\ UNCHANGED <<today, row, svc, run, info, mutex, nextId, result, log>>

\* Mutant: a thread that finds the mutex taken does not wait for the switch.
LockDayNoWait(t) ==
  /\ pc[t] = "lockDay"
  /\ IF mutex = NoThread /\ today # dayStamp
     THEN mutex' = t /\ Goto(t, "reset")
     ELSE mutex' = mutex /\ Goto(t, "fetch")
  /\ UNCHANGED <<today, row, svc, run, info, nextId, result, log>>

\* daySwitch: compare again under the mutex.
LockDay(t) ==
  /\ pc[t] = "lockDay"
  /\ mutex = NoThread
  /\ \/ /\ today # dayStamp
        /\ mutex' = t
        /\ Goto(t, "reset")
     \/ /\ today = dayStamp
        /\ mutex' = mutex
        /\ Goto(t, "fetch")
  /\ UNCHANGED <<today, row, svc, run, info, nextId, result, log>>

ResetId(t) ==
  /\ pc[t] = "reset"
  /\ currentId' = 0
  /\ Goto(t, "tear")
  /\ UNCHANGED <<today, row, svc, run, step, preallocSize, preallocValve,
                 dayStamp, newDay, mutex, nextId, result, log>>

\* The string assignment to DayStamp races with the unlocked readers, who may
\* see a mixture of both days until it is complete.
TearDayStamp(t) ==
  /\ pc[t] = "tear"
  /\ newDay' = today
  /\ dayStamp' = Torn
  /\ Goto(t, "writeDay")
  /\ UNCHANGED <<today, row, svc, run, step, preallocSize, preallocValve,
                 currentId, mutex, nextId, result, log>>

WriteDayStamp(t) ==
  /\ pc[t] = "writeDay"
  /\ dayStamp' = newDay
  /\ newDay' = NoDay
  /\ Goto(t, "writeValve")
  /\ UNCHANGED <<today, row, svc, run, step, preallocSize, preallocValve,
                 currentId, mutex, nextId, result, log>>

\* Mutant: the counter is reset after the new day is published, not before.
ResetIdLate(t) ==
  /\ pc[t] = "writeValve"
  /\ preallocValve' = preallocSize
  /\ currentId' = 0
  /\ Goto(t, "persistDay")
  /\ UNCHANGED <<today, row, svc, run, step, preallocSize, dayStamp, newDay,
                 mutex, nextId, result, log>>

ResetValve(t) ==
  /\ pc[t] = "writeValve"
  /\ preallocValve' = preallocSize
  /\ Goto(t, "persistDay")
  /\ UNCHANGED <<today, row, svc, run, step, preallocSize, currentId,
                 dayStamp, newDay, mutex, nextId, result, log>>

\* The switch is saved.  If that fails the call fails, the memory keeps it.
PersistDay(t) ==
  /\ pc[t] = "persistDay"
  /\ \/ PersistSucceeds /\ Goto(t, "fetch") /\ UNCHANGED result
     \/ PersistFails /\ Return(t, "DB_ERROR")
  /\ mutex' = NoThread
  /\ UNCHANGED <<today, svc, run, info, nextId, log>>

FetchAdd(t) ==
  /\ pc[t] = "fetch"
  /\ nextId' = [nextId EXCEPT ![t] = currentId]
  /\ currentId' = currentId + step
  /\ Goto(t, "valve")
  /\ UNCHANGED <<today, row, svc, run, step, preallocSize, preallocValve,
                 dayStamp, newDay, mutex, result, log>>

\* The valve is read without the mutex: it may be raised and not yet saved.
CheckValve(t) ==
  /\ pc[t] = "valve"
  /\ Goto(t, IF nextId[t] < preallocValve THEN "stamp" ELSE "lockValve")
  /\ UNCHANGED <<today, row, svc, run, info, mutex, nextId, result, log>>

\* Mutant: the valve is raised by one step, not by the preallocation size.
LockValveOneStep(t) ==
  /\ pc[t] = "lockValve"
  /\ mutex = NoThread
  /\ \/ /\ currentId >= preallocValve
        /\ mutex' = t
        /\ preallocValve' = preallocValve + step
        /\ Goto(t, "persistValve")
     \/ /\ currentId < preallocValve
        /\ UNCHANGED <<mutex, preallocValve>>
        /\ Goto(t, "recheck")
  /\ UNCHANGED <<today, row, svc, run, step, preallocSize, currentId,
                 dayStamp, newDay, nextId, result, log>>

\* Mutant: the raised valve is not saved.
LockValveNoPersist(t) ==
  /\ pc[t] = "lockValve"
  /\ mutex = NoThread
  /\ preallocValve' = IF currentId >= preallocValve
                      THEN preallocValve + preallocSize
                      ELSE preallocValve
  /\ Goto(t, "recheck")
  /\ UNCHANGED <<today, row, svc, run, step, preallocSize, currentId,
                 dayStamp, newDay, mutex, nextId, result, log>>

\* reallocValve: whoever comes first raises the valve.
LockValve(t) ==
  /\ pc[t] = "lockValve"
  /\ mutex = NoThread
  /\ \/ /\ currentId >= preallocValve
        /\ mutex' = t
        /\ preallocValve' = preallocValve + preallocSize
        /\ Goto(t, "persistValve")
     \/ /\ currentId < preallocValve
        /\ UNCHANGED <<mutex, preallocValve>>
        /\ Goto(t, "recheck")
  /\ UNCHANGED <<today, row, svc, run, step, preallocSize, currentId,
                 dayStamp, newDay, nextId, result, log>>

\* Mutant: the error path of reallocValve keeps the mutex.
PersistValveKeepsMutex(t) ==
  /\ pc[t] = "persistValve"
  /\ \/ PersistSucceeds /\ Goto(t, "recheck") /\ mutex' = NoThread
        /\ UNCHANGED result
     \/ PersistFails /\ Return(t, "DB_ERROR") /\ UNCHANGED mutex
  /\ UNCHANGED <<today, svc, run, info, nextId, log>>

\* The raised valve is saved.  If that fails the call fails, and the memory
\* keeps a valve the database does not know.
PersistValve(t) ==
  /\ pc[t] = "persistValve"
  /\ \/ PersistSucceeds /\ Goto(t, "recheck") /\ UNCHANGED result
     \/ PersistFails /\ Return(t, "DB_ERROR")
  /\ mutex' = NoThread
  /\ UNCHANGED <<today, svc, run, info, nextId, log>>

RecheckValve(t) ==
  /\ pc[t] = "recheck"
  /\ \/ /\ nextId[t] < preallocValve
        /\ Goto(t, "stamp")
        /\ UNCHANGED result
     \/ /\ nextId[t] >= preallocValve
        /\ Return(t, "LCT_FAIL")
  /\ UNCHANGED <<today, row, svc, run, info, mutex, nextId, log>>

\* The id is filled in with the DayStamp of this moment and returned.
Stamp(t) ==
  /\ pc[t] = "stamp"
  /\ LET id == [run |-> run, day |-> dayStamp, id |-> nextId[t]]
     IN  /\ issued' = issued \cup {id}
         /\ clashes' = clashes \cup
              {[first |-> i.run, again |-> run] :
                  i \in {j \in issued : j.day = id.day /\ j.id = id.id}}
  /\ Return(t, "LCT_SUCCESS")
  /\ UNCHANGED <<today, row, svc, run, info, mutex, nextId>>

\* No client calls.
Rest == Quiet /\ UNCHANGED vars

SpawnId(t) ==
  \/ CheckDay(t)      \/ LockDay(t)       \/ ResetId(t)
  \/ TearDayStamp(t)  \/ WriteDayStamp(t) \/ ResetValve(t)
  \/ PersistDay(t)    \/ FetchAdd(t)      \/ CheckValve(t)
  \/ LockValve(t)     \/ PersistValve(t)  \/ RecheckValve(t)
  \/ Stamp(t)

Process == \/ StartFromRow \/ StartWithoutRow \/ StartServing \/ StartFails
           \/ Shutdown \/ Kill

Next ==
  \/ Process
  \/ Tick
  \/ \E t \in Threads : Call(t) \/ SpawnId(t)
  \/ Rest

\* A thread in the middle of a call keeps running; nothing forces a client to
\* call, the clock to reach midnight or the process to stop or start.
Fairness == \A t \in Threads : WF_vars(SpawnId(t))

Spec == Init /\ [][Next]_vars

FairSpec == Spec /\ Fairness

-----------------------------------------------------------------------------
(* Properties.                                                              *)

Labels == {"idle", "day", "lockDay", "reset", "tear", "writeDay",
           "writeValve", "persistDay", "fetch", "valve", "lockValve",
           "persistValve", "recheck", "stamp"}

Results == {"none", "LCT_SUCCESS", "LCT_FAIL", "DB_ERROR"}

Stamps == Nat \cup {Torn}

Ids == [run : Nat, day : Stamps, id : Nat]

\* Every variable has its type (CEngineInfo, the row, the locals of spawnId).
TypeOK ==
  /\ today \in Days
  /\ row \in [present : BOOLEAN, valve : Nat, step : Nat, size : Nat]
  /\ svc \in {"down", "starting", "up"}
  /\ run \in Nat
  /\ step \in Nat
  /\ preallocSize \in Nat
  /\ preallocValve \in Nat
  /\ currentId \in Nat
  /\ dayStamp \in Stamps
  /\ newDay \in Nat
  /\ mutex \in Threads \cup {NoThread}
  /\ pc \in [Threads -> Labels]
  /\ nextId \in [Threads -> Nat]
  /\ result \in [Threads -> Results]
  /\ issued \subseteq Ids
  /\ clashes \subseteq [first : Nat, again : Nat]

\* The service never hands out the same (date, uniqueId) twice, whether or not
\* it was restarted in between.
Unique == clashes = {}

\* One run of the service never hands out the same (date, uniqueId) twice.
UniqueWithinRun == \A c \in clashes : c.first # c.again

\* The valve in the database is above every id handed out today, so that a
\* start from the row (init) goes on with fresh ids: when no call is in flight
\* everything spawnId has promised is saved.
SavedValveCoversIssuedIds ==
  Quiet => \A i \in issued : i.day = today => i.id < row.valve

\* Every id carries a day that the clock has shown, never a torn DayStamp.
DateIsARealDay == \A i \in issued : i.day \in Days

\* A working service refuses no call because of its valve: spawnId ends with
\* LCT_FAIL only if more ids are in flight than one PreallocSize.
NeverOutOfIds == \A t \in Threads : result[t] # "LCT_FAIL"

\* The engine implements the dispenser: a call is in flight from Call to its
\* return, an id is granted when spawnId returns it.
Dispenser == INSTANCE IdDispenser WITH
               Clients <- Threads,
               Dates   <- Days,
               busy    <- {t \in Threads : pc[t] # "idle"},
               granted <- {<<i.day, i.id>> : i \in issued},
               outcome <- result

\* Every id is fresh and of a day not before the earlier ones, across the
\* restarts of the service.
ImplementsDispenser == Dispenser!DispenserSpec

\* The parts of the argument for UniqueWithinRun.  Once a thread has taken an
\* id it holds it alone, below the counter, on the day it will stamp.
Claiming == {"valve", "lockValve", "persistValve", "recheck", "stamp"}

Critical == {"reset", "tear", "writeDay", "writeValve", "persistDay",
             "persistValve"}

\* m_mutex is held in daySwitch and reallocValve, and only there.
MutexHeld == \A t \in Threads : pc[t] \in Critical => mutex = t

\* Only a serving process has calls, and the row was inserted with a step.
CallsOnlyWhileUp ==
  /\ svc # "up" => Quiet
  /\ step >= 1
  /\ row.present
  /\ row.step >= 1

\* Where each thread stands with respect to the day switch.
DayPhase ==
  /\ dayStamp <= today
  /\ \A t \in Threads :
        /\ pc[t] \in Claiming \cup {"fetch", "writeValve", "persistDay"}
              => dayStamp = today
        /\ pc[t] \in {"reset", "tear", "writeDay"} => dayStamp # today
        /\ pc[t] = "writeDay" => newDay = today

\* An id taken from the counter is below it, and no other thread's.
ClaimsApart ==
  \A t \in Threads : pc[t] \in Claiming =>
    /\ nextId[t] < currentId
    /\ \A u \in Threads :
          u # t /\ pc[u] \in Claiming => nextId[u] # nextId[t]

\* What this run handed out today is below the counter, and no thread's claim.
IssuedApart ==
  \A i \in issued :
    /\ i.run <= run
    /\ i.day <= today
    /\ svc # "down" /\ i.run = run /\ i.day = today =>
          /\ dayStamp = today
          /\ i.id < currentId
          /\ \A t \in Threads : pc[t] \in Claiming => nextId[t] # i.id

\* The inductive invariant behind UniqueWithinRun.
RunInv == /\ MutexHeld
          /\ CallsOnlyWhileUp
          /\ DayPhase
          /\ ClaimsApart
          /\ IssuedApart
          /\ UniqueWithinRun

\* An id about to be stamped is fresh, and of a day not before the others.
FreshStamp ==
  \A t \in Threads : pc[t] = "stamp" =>
    /\ dayStamp \in Days
    /\ \A i \in issued :
          /\ i.day <= dayStamp
          /\ i.day = dayStamp => i.id # nextId[t]

\* No day switch while the service is up.
NoSwitch ==
  /\ svc # "down" => dayStamp = today
  /\ \A t \in Threads : pc[t] \notin {"lockDay", "reset", "tear", "writeDay",
                                      "writeValve", "persistDay"}

\* The saved valve lags behind only while a thread saves it, and a process
\* that starts goes on from it.
ValveSaved ==
  /\ svc = "starting" => currentId = row.valve
  /\ mutex # NoThread => mutex \in Threads /\ pc[mutex] = "persistValve"
  /\ svc = "up" /\ mutex = NoThread => row.valve = preallocValve
  /\ \A t \in Threads : pc[t] = "stamp" => nextId[t] < preallocValve

\* Today's ids are below the counter and the valve, and below the saved valve
\* once the service is down; none of them is a thread's claim.
IssuedCovered ==
  \A i \in issued :
    /\ i.day <= today
    /\ i.day = today =>
         /\ svc = "down" => i.id < row.valve
         /\ svc # "down" => i.id < currentId /\ i.id < preallocValve
         /\ \A t \in Threads : pc[t] \in Claiming => nextId[t] # i.id

\* The inductive invariant behind Unique when the service is only stopped by
\* a signal and midnight finds it down.
GracefulInv == /\ MutexHeld
               /\ CallsOnlyWhileUp
               /\ NoSwitch
               /\ ValveSaved
               /\ ClaimsApart
               /\ IssuedCovered
               /\ Unique

\* Where the only thread stands with respect to the day switch.
SingleDayPhase ==
  \A t \in Threads :
    /\ pc[t] \in {"reset", "tear"} => dayStamp < today
    /\ pc[t] = "writeDay" =>
         newDay \in Days /\ newDay <= today /\ \A i \in issued : i.day < newDay
    /\ pc[t] \in {"writeValve", "persistDay"} =>
         \A i \in issued : i.day < dayStamp
    /\ svc # "down" /\ pc[t] # "writeDay" =>
         /\ dayStamp \in Days
         /\ dayStamp <= today
         /\ \A i \in issued : i.day <= dayStamp

\* The id of the only thread is fresh, and so is every id still in the counter.
SingleClaim ==
  \A t \in Threads :
    /\ svc # "down" /\ pc[t] \notin {"tear", "writeDay"} =>
         \A i \in issued : i.day = dayStamp => i.id < currentId
    /\ pc[t] \in Claiming =>
         /\ nextId[t] < currentId
         /\ \A i \in issued : i.day = dayStamp => i.id # nextId[t]

\* The saved valve is the valve, but for the step that saves it.
SingleSaved ==
  \A t \in Threads :
    /\ svc = "up" /\ pc[t] \notin {"persistDay", "persistValve"} =>
         row.valve = preallocValve
    /\ svc = "starting" \/ pc[t] = "persistValve" => row.valve <= preallocValve
    /\ pc[t] = "stamp" => nextId[t] < row.valve

\* The saved valve covers every id of today, whatever the state.
AlwaysCovered ==
  \A i \in issued : i.day <= today /\ (i.day = today => i.id < row.valve)

\* The inductive invariant behind Unique when only one thread serves.
SingleInv == /\ CallsOnlyWhileUp
             /\ SingleDayPhase
             /\ SingleClaim
             /\ SingleSaved
             /\ AlwaysCovered
             /\ Unique

\* No thread stays in spawnId for ever: the mutex is always given back.
EveryCallReturns == \A t \in Threads : (pc[t] # "idle") ~> (pc[t] = "idle")

=============================================================================
