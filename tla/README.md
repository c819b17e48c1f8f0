# A TLA+ verification of lct_frame

`lct_frame` is a C++ framework of a small service company's back end: a common
library (queues, threads, buffers, locks), an asynchronous log, wrappers of the
Cassandra, MongoDB and gRPC clients, and one service built on all of these, the
*Unique Id Service*.  This directory holds TLA+ modules of its logic, TLC runs
that check them on small instances and TLAPS proofs that hold for all sizes.

Source paths below are relative to `src/src/` of the repository.

## 1. Inventory

| Component | State it keeps | Operations | Talks to | What makes it correct | Modelled |
|---|---|---|---|---|---|
| Id engine `service/lct_id_service/id_day_switch_engine.*` | `CEngineInfo`: Step, PreallocSize, PreallocValve, CurrentId (atomic), DayStamp; a mutex | init, spawnId, daySwitch, reallocValve, persist | its row through CSidDataSource; called by several gRPC threads | a (date, id) is granted once, over threads, midnight and restarts; every call is answered | `IdEngine`, `IdDispenser` |
| Id table access `id_data_source.cpp` | a row per engine in Cassandra | query, persist (an upsert) | Cassandra wrapper | the saved valve covers every id granted | in `IdEngine` |
| Table tool `tool/lct_id_table_prep` | the same row | create table, insert rows | Cassandra wrapper | never resets a table in use | its row, in `IdEngine` |
| Service process `service_main.cpp`, `id_service_mgr.cpp`, `id_manager.hpp`, `id_service.cpp` | three engines, the gRPC service | init, run, shutdown from a signal handler, FetchId | everything above | stop serving before the database is closed; stop at all | `Service`; one engine's view in `IdEngine` |
| gRPC helper `wrapper/grpc` | m_isServing, the server | init, serve, shutdown | gRPC | shutdown ends serve | in `Service` |
| Blocking queue `common/lct_queue.h` | bounded `std::queue`, quit flag, one mutex, one condition | enqueue, dequeue, notifyAll | thread pool, log | FIFO, bounded, no wakeup lost, quits | `LctQueue` |
| Thread pool `common/lct_thread_pool.h` | m_isRunning, pointer to the implementation, m_runningFlag, workers | init, start, emplaceTask, shutdown | the queue | a task runs once; shutdown leaves no worker | `ThreadPool`, `TaskPool` |
| Log sink pool, logger `log/detail` | m_isRunning, a worker, a queue | start, log, stop | the queue, the sinks | messages in order, none lost between logger and file, close returns | `AsyncLog` |
| Rotating file sink `log/detail/lct_log_sink.*`, `lct_log_rotate.sh` | open file, its size, next rotation time; the files of a directory | log, rotate by day and by size; pack yesterday's files | the file system, shared by sink and script | a day's messages in its files, in order, the oldest file goes first, a failure costs a bounded number of messages | `RotateSink` |
| Circular buffers `common/detail/lct_circular_buffer.*` | storage, head, tail, count, overlap flag | push, pushN, pop, popN, peek, iterate, reallocate | - | a bounded queue | `CircularBuffer` |
| Local id generator `common/detail/lct_id_generator.cpp` | a counter per kind of id | getId | nobody | ids differ | no (section 6) |
| Calendar, hex `common/detail/lct_common_util.cpp` | none | pure functions | - | agree with the calendar; hex and back | `Calendar` |
| RW lock, singleton | pthread lock, once flag | lock, unlock, instance | the wrappers | mutual exclusion, one instance | as sections of its users |
| Cassandra wrapper `wrapper/cassandra` | maps of sessions, clusters and page states, count of requests | init, query, batch, paging, close | the driver | the maps are not raced for, the count is that of the calls at work, statements and pages in order | `CassHelper`, `CassPaging` |
| Mongo wrapper `wrapper/mongodb` | map of connection pools | query, count, add, update, remove | the driver | one pool per server, every connection comes back | `MongoHelper` |
| Version tool `version/` | a version file | show, auto, force | the file system | the version survives a crash | `VersionFile` |
| Formatters, properties, configs, scripts, makefiles, tutorials, `3rdparty` | - | - | - | text and packaging, vendored code | no |

The directories `network` and `event` are empty.

What is hard in this code: `spawnId` reads `DayStamp` and `PreallocValve`
outside the mutex that `daySwitch` and `reallocValve` hold; the valve is raised
in memory before it is saved; a watchdog (`tool/script/lct_monitor.sh`) starts
a dead service again and `tool/serve/process.sh` stops it with `kill -15`
followed at once by `kill -9`, so that the process does die in the middle of
calls; the clock reaches midnight at any point; producers and consumers of the
queue share one condition variable of which a dequeue makes no use; and the
flags of the thread pool and the log are plain members read by other threads.
The connection pool of the Cassandra wrapper changes its map under the lock for
reading; the signal handler stops the service from whatever thread and moment it
is delivered to; and the version tool removes a file before its copy is renamed.
`PROJECT.json` lists these hazards one by one, with the lines.

## 2. Modules

| Module | What it is |
|---|---|
| `IdEngine` | one engine, its row and its process |
| `IdDispenser` | what the id service promises, without valve, row or restart |
| `MCIdEngine` | instances of `IdEngine` for TLC |
| `IdEngineProofs` | type correctness; one run never repeats an id, and refuses none while a preallocation has room for all threads |
| `IdEngineRestartProofs` | restarts never repeat an id; the engine implements `IdDispenser` |
| `LctQueue`, `MCLctQueue`, `LctQueueProofs` | the queue, its instances, its proofs |
| `ThreadPool`, `MCThreadPool`, `ThreadPoolProofs` | the thread pool composed with `LctQueue` |
| `TaskPool` | what a thread pool promises |
| `AsyncLog`, `MCAsyncLog`, `AsyncLogProofs` | the logger and its sink pool composed with `LctQueue` |
| `RotateSink`, `MCRotateSink`, `RotateSinkProofs` | the file sink and the script on their directory; order, number and size of the files, and what a failure costs |
| `CassHelper` | the Cassandra wrapper: sessions, restraint, single and batch execution |
| `CassPaging` | its page queries and the vessel of their states |
| `Service`, `MCService` | the process of the id service, its signals and requests, composed with `CassHelper` |
| `ServiceProofs` | what the restraint and a batch keep, what the process keeps while it comes up, serves and stops, and that it implements `CassHelper` |
| `MongoHelper` | the Mongo wrapper: pools and operations |
| `CircularBuffer` | the two ring buffers against a bounded queue |
| `VersionFile` | the version tool and its two files |
| `Calendar` | dates and hex digits |
| `MCLibrary` | `CassHelper`, `CassPaging`, `MongoHelper`, `CircularBuffer`, `VersionFile` and `Calendar` side by side for TLC |
| `LibraryProofs` | what the Mongo pools, page readings, the ring, the version file, dates and hex digits keep or compute for every input |

### IdEngine

The action names follow the code.  A call of `spawnId` is cut into steps with
one access to shared memory each: `CheckDay` (`id_day_switch_engine.h:29`),
`LockDay` (`.cpp:46-48`), `ResetId` (50), `TearDayStamp` and `WriteDayStamp`
(51: the assignment of a string others read), `ResetValve` (52), `PersistDay`
(54-58), `FetchAdd` (`.h:37`), `CheckValve` (38), `LockValve` (`.cpp:68-71`),
`PersistValve` (72-76), `RecheckValve` (`.h:48`), `Stamp` (39-40, 49-50 and the
return).  The mutex is held from `LockDay`/`LockValve` to the persist.
`init` is `StartFromRow` or, if the query fails, `StartWithoutRow`, and then
`StartServing` or `StartFails` for the save it ends with.  `Shutdown` is a
signal that lets the calls in flight end, `Kill` is the process dying anywhere.

The row is present or not, and a null column reads as 0, as
`cass_value_get_*` leaves the initialised local.  An `UPDATE` of a missing row
creates one.  A failing `UPDATE` may have been applied.  Days are numbers that
only grow; `Max` and the text of the CQL are left out, and so are the other two
engines of the service, which share nothing with this one but the process.

`issued` and `clashes` are history variables: what was granted, and which
grants repeated one.

The constants `Midnight`, `KillMayHappen`, `PersistMayFail`, `QueryMayFail` and
`Prepared` say what the world may do.  They are parameters because the code is
correct in some worlds and not in others, and each run or theorem names its
world:

| Midnight | kills | database | threads | ids unique in one run | over restarts |
|---|---|---|---|---|---|
| service down | no | reliable | any | yes (proved) | yes (proved) |
| between calls | yes | may fail | any | yes (proved) | no |
| any time | yes | reliable | one | yes (proved) | yes (proved) |
| any time | - | reliable | two | **no**: `id_midnight` | no |
| service down | yes | reliable | two | yes (proved) | **no**: `id_kill` |

By changing the constants of these runs TLC shows further ways to a repeated id
that are not runs of their own: a save that fails before an orderly stop
(`PersistMayFail`, one thread), a read that fails at the restart
(`QueryMayFail`), and two threads at a midnight that found no call in flight
but two started right after it, one of which passes the old valve between
`WriteDayStamp` and `ResetValve`.  Without the prepared row (`Prepared = FALSE`)
a restarted engine has step and size 0 and refuses every call.

### LctQueue

`Enqueue` and `Dequeue` are one critical section each: a thread that has just
called (`"out"`) or was woken (`"woken"`) looks at the queue and leaves or waits.
`EnqueueTimeout` and `DequeueTimeout` are the `wait_for` that ran out, which
returns without a second look.  `Push` wakes all waiting threads, `Pop` wakes
nobody.  The constructor's arguments are chosen in `Init`, with the clamp of
`maxSize` to 1.  The template parameter is abstracted to objects that know their
producer and number, so that order and loss can be stated.

### ThreadPool and TaskPool

`ThreadPool` takes its task queue from `LctQueue` by `INSTANCE`, with the default
constructor's infinite size and waiting times.  The owner's `shutdown` is five
steps (`LowerFlag`, `WakeWorkers`, `JoinAndDelete`, `ClearPointer`,
`StopRunning`) and `emplaceTask` two (`CheckRunning`, `Emplace`), because other
threads see the states in between: a task may be accepted, and dropped, while
the pool shuts down, and a caller may use an implementation that was deleted
after its check.  From there (`undefined`) the model takes no step.  A thread
that cannot be created makes `Start` fail half way.  `TaskPool` is the promise:
accepted tasks begin once, in each caller's order, nothing runs after closing.

### AsyncLog

The logger and its sink pool, with the queue by `INSTANCE` as in `ThreadPool`.
`init` is `Setup` (levels, formatters and sink replaced), `StartPool` and
`SetInitiated`; `close` is `StopRunning`, `WakeWorker`, `JoinWorker` and
`ClearInitiated`; a `LOG_x` statement is `IsLogged`, `Log` and `AsyncSink`,
because `m_isInitiated` may change between them; the worker's `Run` is
`CheckRunning`, `Take` and `Sink`.  The owner calls `init` and `close` in any
order.  Where the program would terminate (a joined thread is joined again, a
running one replaced) or read the map of levels while `init` fills it, the
model stops (`undefined`).  `accepted` is a history of what was enqueued.  The
model shows what the code leaves open: a message logged just before `close`, as
`service_main.cpp:144` does, may stay in the queue and never be written.

### RotateSink

`CDailyRotateFileSink` and the script that cron starts at 01:10 work on the same
directory.  A name is a day and an index; `files` says which names exist and
`text` which messages, by number, are in them.  The sink reads the clock for
every name it makes and for every comparison, so each of these is a step:
the constructor is `Construct` (path, and whether it exists), the loop of
`rotateFile` and `OpenFirst` (rotation time, open); `sinkIt` is `Log` (the
comparison with `m_rotationTp`), `OpenOfDay`, `Grow` (the size), `MakeSource` and
`Move` for each index from `m_maxFiles` down, `Reopen` and `Write`.  `remove`,
`rename`, `fopen` and `fwrite` may each fail (`Fail`), `Stop` kills the process
anywhere, between the `remove` and the `rename` of a `Move` too (the two are one step
otherwise, as neither the clock nor the script changes what the `rename` does), `Archive` is the script on one file of yesterday, which leaves a handle
the sink may have on it without a name (`orphan`).

A message has size 1 and none is larger than `m_maxSize`.  The order of the
messages within a file is left out: files are only appended to.  `fclose` does
not fail.  No call and no constructor lasts from one day to 01:10 of the next
(`TenPastOne`); it may well last over midnight.  The history variable `smooth`
says that midnight has so far always found the process down, or at rest in the
file of the day.  What holds only then has it as its premise, and TLC shows it
is needed: midnight in the constructor loses messages (section 4), and after a
day without a message `nextRotationTp`, one day after the last one and not after
now, is already over, so that the next calls find the day over again and reset
the size of a file they go on writing, which then grows beyond `m_maxSize`.

### CassHelper and CassPaging

A call of the Cassandra wrapper passes the restraint (`Enter`, the condition
`s_concurrent < s_limit`), looks for a session (`Look`, `Looked`), connects one
if there is none (`Connect`, `ConnectFails`, `AppendSession`, `Appended`) and
looks again, executes (`Execute`) and leaves (`Leave`, the destructor of
`CassAutoFlowControl`).  `batchExec` does this once for each chunk (`Chunk`,
`FillsTo`) and for a statement too large for any; `multiQuery` once for all its
statements, whose futures it then polls.  `Open` and `Close` with `Clear` and
`Cleared` are `init` and `close`; `SetRequestMax` may come at any time.

The sections of the pool are two steps each because they hold the lock for
READING, also those that insert or erase, so two threads may be in the map at
once: `inMap` says who is there and what for, and once a writer has met
somebody (`Undefined`) nothing is said of what follows.  `CallsReturn` names
that exception.  All users of the repository pass one keyspace, hence one
session.

`CassPaging` is `pageQuery`: the reader's first page, then `RestPage`s that go
on from the state the vessel kept (`Retrieve`, `NextPage`, `Save`,
`RemoveState`), with a clock that makes states obsolete and calls that fail at
any step.  Nothing tells the reader that a page was the last; it learns that
from the `LCT_NOT_SUCH_RECORD` of the next call, which it also gets if its state
was out of date (`lapsed`), and the state of a reading that was given up is
there for the next one (`stale`).  The premises of `PagesInOrder` are these, and
that no other reader reads the same statement: states are kept by its text.

### Service

`main` goes through its stages (`Configure`, `InitDatabase`, `AccessRow` for the
read and the save that end each engine's init, whose failure ends `main` in
`EngineFails`, `MakeService`, `Build`, `RaiseFlag`, `LockWait` and `Waited` for the
server's `Wait`).  The server's threads take a `Request` once `Build` has started
the server, before `m_isServing` is true.  Every database access is a call of
`CassHelper`, whose `close` is the handler's (`Owner`).  `Kill` may come at any step.

A `Signal` starts a handler on top of a thread, which goes on when the handler has
returned.  `signal()` blocks only the kind that is being handled, and only on that
thread; so `handlers` is a sequence, of which each has its thread, its kind and its
place (`BeginShutdown`, `LockServer`, `Drained`, `CloseDatabase`, `ClearMap`), and of
those on one thread the last runs.  The kernel gives a signal of the process to
`main` if it can; `SIGPIPE` (`Pipe`) goes to the thread that wrote; any thread takes
what `main` blocks, also one of the log or of the driver (`Outsider`).  The gRPC
server is external and modelled by what its users see: `Shutdown` holds the
server's mutex until every thread of the server has ended, and `Wait` holds it
except while it sleeps.

What the code leaves open is named by the premises:

* `early`: a signal before `m_isServing` is true closes the database and not the
  server, which goes on without it.
* `Stuck`: a second handler, of another kind on the same thread or on a thread the
  first waits for, waits for the mutex inside `Shutdown`, and the first for it.
  `StopEnds` says that nothing but this prevents the end of a stop.
* A single signal that meets `main` while it holds `Wait`'s mutex waits for `main`
  from on top of it and hangs as well; `StopEnds` begins where `main` does not.

What a handler calls that is not safe in one (the log's queue, `std::cout`, `malloc`)
may hang it too.  That depends on what the thread was doing in libraries and is
left out.  No document of the repository says what a signal during the start or
during a stop should do, so none of this is a finding.

### MongoHelper

A call looks for the pool of its server (`FindPool`), makes it if it is not
there (`AddPool`, which looks again under the lock for writing), takes a
connection or waits for one (`Acquire`), does its requests and gives the
connection back, on whatever path it returns (`Done`).  A collection is the set
of keys of its documents; `update2Collection` sends its updates one by one,
`add2Collection` stops at the first document refused, and removing with no
filter empties the collection.

### CircularBuffer

Both templates, over one set of variables (`kind`).  `Append1` is `append` with
its increments, `PushBlock` the copy of a block behind `m_vlast`, `PushLoop` and
`PushNext` the element by element path that stops where one is refused.  The
ghosts `items` and `due` are what a bounded queue would hold and give out.
Three calls leave the ring with elements in the wrong places (`torn`): a block
pushed with overlap that is larger than what is free, `reallocate` after the
elements have gone round the end, and a `push` of objects into a full ring,
which makes the new object over the oldest before it finds that there is no
room.  No document promises otherwise, so they are no findings; the queue is
promised up to the first of them.

### VersionFile and Calendar

`VersionFile` is the tool step by step: `Parse`, `AutoVersion` or
`ForceVersion`, `OpenFiles`, `Copy` line by line, `RemoveFile`, `Rename`, each of
which may fail, and a crash between any two.  A file is the list of its version
numbers.  A write or an open that fails is not noticed and the original removed
all the same, so the promise is for tools whose file operations succeed
(`faults = 0`).  `Calendar` has `GetNextDate` with the end of months and leap
years, against the number of the day in the Gregorian calendar, and `Bin2Hex`
with `Hex2Bin`.

`MCLibrary` runs these parts and `CassHelper`, `CassPaging` and `MongoHelper` one
per behaviour (`part`): they share no state, so interleaving them would only
multiply states.

## 3. Runs

| Run | Instance | Shows |
|---|---|---|
| `id_run` | 2 threads, PreallocSize 2, 2 days, 2 runs, kills and failures | `UniqueWithinRun`, `DateIsARealDay`, `EveryCallReturns` |
| `id_graceful` | 3 threads, PreallocSize 3, 3 days, 3 runs, no failures | `Unique`, `SavedValveCoversIssuedIds`, `NeverOutOfIds`, `ImplementsDispenser` |
| `id_kill` | 2 threads, a kill | **violated**: `Unique` |
| `id_midnight` | 2 threads, midnight during calls | **violated**: `UniqueWithinRun` |
| `queue` | 2 producers, 2 consumers, sizes 1 and 2, all waiting times, spurious wakeups | types, FIFO, no lost wakeup for consumers, quit reaches everybody, dequeue returns |
| `queue_standstill` | size 1, infinite waits | **violated**: `NoStandstill` |
| `thread_pool` | 1 caller, 3 workers, 3 tasks, 2 lives, threads that cannot be created | `EveryTaskInOneHand`, `NoWorkerSleepsInVain`, `ImplementsTaskPool`, `AcceptedTasksRun`, `ShutdownReturns` |
| `log` | 2 loggers, 2 messages each, 2 inits, spurious wakeups | `NoMessageLostOrReordered`, `WorkerNeverSleepsInVain`, `NothingWrittenWhenClosed`, `MessagesAreWritten`, `InitAndCloseReturn` |
| `rotate` | 3 days, files of 2 messages, 2 older parts, 7 messages, 2 faults, 1 stop | `OlderInHigherIndex`, `DropsBounded`, `FilesBounded`, `NothingLost`, `RotationKeepsMaxFiles` |
| `rotate_daily` | the same | **violated**: `DailyFiles` |
| `service` | 1 engine, 2 server threads, 4 calls, 2 signals of 2 kinds, a thread outside the server, a kill, 2 connects that may fail | `ServedWithDatabase`, `NoMapRace`, `StoppedClean`, `StopEnds` |
| `library`, Cassandra | 2 callers and a closing owner, 2 calls of 4 kinds, 2 connects, limits 1 and 2 | `RestraintHolds`, `BatchInOrder`, `CallsReturn` |
| `library`, paging | 2 readers, 2 readings of up to 2 pages, a clock of 2 with states of age 1 | `PagesInOrder` |
| `library`, Mongo | 2 users, 2 servers, 3 calls, one connection per pool | `PoolsAreShared`, `MongoCallsReturn` |
| `library`, buffer | both templates, sizes 1, 2 and 3, blocks of up to 3 of 2 values | `BufferIsQueue` |
| `library`, version | 2 version lines, 1 failing file operation, a crash anywhere | `VersionSurvives` |
| `library`, calendar | 800 days from each of five dates shortly before an end of February, of a year or of a century | `RangeIsEveryDay` |

**Bounds.**  `MaxDay`, `MaxRuns`, `IdBound` (no new call once the counter is
there), `MaxSent`, `MaxTasks`, `MaxMessages`, `MaxLives`, `MaxFaults`, `MaxStops`,
`MaxSignals`, `MaxCalls`, `MaxConnects`, `MaxPages`, `MaxReadings`, `MaxClock`,
`MaxPools`, `MaxMongoCalls`, `MaxN`, `MaxBuild` and `MaxWalk` are the only ones, and all
appear in guards (`MaxN` bounds the blocks pushed).  They leave room for what matters: the counter passes the valve at
least twice, a day switch happens with ids left below the old valve, a third
run starts from the row of a second, the queue is filled and emptied with
threads waiting on either side, and a pool is created a second time while a
caller still holds its check of the first.  `PreallocSize` is at least the
number of threads because with fewer `NeverOutOfIds` is false: the valve is
raised once for all of them, and the last one is told `LCT_FAIL`.  In
`thread_pool` one caller is enough since callers only meet at the queue's mutex,
where the `queue` run has two.  In `rotate` seven messages fill the three files
of a day and force the oldest of them out, two faults break a rotation and
its retry, and three days leave one without a message between two others.  In `library` a
batch of four statements has a chunk that is full, one statement too large for
any and one after it; the limit is lowered under two calls; a ring of three goes
round its end several times; one connection makes users wait for it; and 800 days
from before a 29 February and a common century's end pass every kind of end.  In
`service` one engine is enough, since engines start one after the other; two
connects let the first fail, or the pool be filled again after it was emptied; two
signals meet on one thread or on two, and a third adds nothing to who waits for
whom.

**Fairness.**  `id_run`: each thread inside `spawnId` keeps running, since it
only waits for a mutex whose holders run; nothing makes clients call, the clock
move or the process stop.  `queue`: a woken thread gets the mutex and a timed
wait runs out; nobody has to call.  `thread_pool`: workers keep running (tasks
end) and a shutdown that has begun goes on; `log`: the same of the worker, init
and close.  `service`: `main`, the handlers and each request run on unless a handler is
on top of them or they are at the restraint, and a request also waits for the
driver's thread while a handler is on top of that; signals, requests and kills need not come.  `library`: a
call of the wrappers goes on, as its thread does and the driver answers or times
out; nobody has to make one, nobody has to close the helper, and no Mongo call
may count on a failing `acquire` to end its wait.  Weak fairness
is enough at the restraint and for a Mongo connection because the calls are
bounded in number: a waiter's turn comes when the others have ended, which is
why starvation by an endless stream of calls is not excluded.
All of it is weak fairness, and the
mutual exclusion of the mutex needs no more because each thread's turn is a
step of its own that stays enabled once the bounded calls of the others end.

**Symmetry** is used in `id_graceful` only, which checks no liveness.

`thread_pool` and `log` do not check for deadlock since a pool nobody uses any
more stops; nor do `rotate`, where days, messages and stops run out, `service`,
whose process ends, and `library`, where calls and days run out and a torn ring
or a raced map stops.  That shutdown, close and calls do not get stuck is what
`ShutdownReturns`, `InitAndCloseReturn`, `StopEnds`, `CallsReturn` and
`MongoCallsReturn` say.

## 4. What the violated runs show

* `id_kill`: thread 1 raises the valve (`.cpp:71`); thread 2, whose id is above
  the old valve, passes the unlocked check (`.h:38`) and returns; the process is
  killed before thread 1 has saved the valve; the restart goes on from the old
  valve and grants thread 2's id again, on the same day.
* `id_midnight`: thread 1 has taken an id and is about to stamp it; midnight
  passes and thread 2 switches the day; thread 1 reads the new `DayStamp`
  (`.h:39`) and returns its old id under the new day; the new counter reaches it.
* `queue_standstill`: a full queue with producers waiting; the consumers take
  everything, waking nobody, and then wait for producers that are waiting for
  room that is there.
* `rotate_daily`: the constructor makes the path of its file before midnight and
  its rotation time after it, one day too late.  For the whole new day the sink
  writes to the old day's file: rotations by size shift the new day's names,
  which do not exist, and the script takes the file away at 01:10 with everything
  logged after that.

The first two stand against the name of the service ("Unique Id Service",
`service_main.cpp:94`, and the field `uniqueId`), the third against the waiting
times that `lct_queue.h:31-47` documents, the fourth against the "daily log file
names" of `lct_log_sink.h:116`.

## 5. Proofs

All for any set of threads (any producers, consumers), any sizes and any bounds.

* `TypeCorrect`: `Spec => []TypeOK` of `IdEngine`.
* `OneRunNeverRepeats`: `Spec => []UniqueWithinRun`, assuming the row was
  prepared and midnight does not pass during calls.  `UniqueWithinRun` is not
  inductive: it says nothing of ids taken and not yet stamped.  `RunInv` adds
  that every claim (`Claiming`) is below the counter and nobody else's
  (`ClaimsApart`), that what was granted today is below the counter and nobody's
  claim (`IssuedApart`), that claims are only held on the day of the stamp
  (`DayPhase`), and what the mutex protects (`MutexHeld`).
* `GracefulRestartsNeverRepeat`: `Spec => []Unique` for orderly stops, a reliable
  database and a midnight that finds the service down.  `GracefulInv` adds that
  the saved valve lags behind only while the mutex is held (`ValveSaved`), and
  that the ids of today are below it once the service is down (`IssuedCovered`).
* `OneThreadNeverRepeats`: `Spec => []Unique` for one thread, killed anywhere, at
  any midnight.  `SingleInv` says where the thread stands in the switch and that
  the saved valve covers what was granted at every moment (`AlwaysCovered`).
* `EngineImplementsDispenser`: under either assumption the engine refines
  `IdDispenser`; an id that is stamped is fresh and its day not before any
  other's (`FreshStamp`).
* `DatesAreReal`: `Spec => []DateIsARealDay` under the assumptions of
  `OneRunNeverRepeats`: a thread that saw the date change waits for the mutex
  before it goes on, so no torn `DayStamp` reaches an id.
* `RowCoversIssuedIds`: `Spec => []SavedValveCoversIssuedIds` under the
  assumptions of either uniqueness theorem, from their invariants.
* `ValveNeverRefuses`: `Spec => []NeverOutOfIds` under `RoomAssumption`: the row was
  prepared, `PreallocSize` has a step for every thread (the defaults too, if the
  `SELECT` may fail) and midnight finds the service down.  Kills and failing
  `UPDATE`s are allowed.  `RoomInv` counts the threads whose id is not below the
  valve (`Beyond`): the counter is ahead of the valve by at most a step for each
  of them and one more (`Lead`), so that one `PreallocSize` brings them all below
  it.  Midnight while the service is up is left out for a reason: between
  `ResetId` and `ResetValve` the others may run the counter any distance beyond
  the valve that is about to be set.
* `QueueTypeCorrect`, `QueueIsFifo`, `NoConsumerWakeupLost`, `NoWaitAfterQuit` of
  `LctQueue`.  The FIFO proof goes through what `Append` and `Tail` do to the
  numbers of a producer in the queue (`NosAppend`, `NosTail`).

* `PoolTypeCorrect`, `TasksNeverLostOrRunTwice` and `PoolImplementsTaskPool` of
  `ThreadPool`.  `ThreadPoolProofs` instantiates `LctQueueProofs` with the pool's
  queue and cites its lemmas (`StepTyped`, `StepFifo`, `HeadIsOldest`).  The
  invariant adds that a worker exists only while the implementation does
  (`CrewInv`) and that a task has left the queue exactly if a worker holds it or
  it was run (`HandsInv`).
* `WorkersAreWoken` of `ThreadPool` and `LogWorkerIsWoken` of `AsyncLog`: nobody
  sleeps in vain.  This is the part of `ShutdownReturns` and
  `InitAndCloseReturn` a lost wakeup would break: the flag is lowered outside
  the queue's mutex, so the wakeup may fall anywhere between a worker's look at
  the flag and its look at the queue.  `SleepInv` joins the queue's own `WaitInv`
  (`StepWaitInv`, cited from `LctQueueProofs`) with where the owner is; a fresh
  queue of the pool starts it over.
* `LogTypeCorrect`, `LogKeepsEveryMessage` and `ClosedLogIsQuiet` of `AsyncLog`,
  again with `LctQueueProofs`.  `OwnerInv` says for each place the owner is at
  whether the pool runs and has a worker; that makes the action property hold.

* `SinkTypeCorrect`, `FaultsCostBoundedMessages` and `NothingIsLost` of
  `RotateSink`.  `BudgetInv` counts, beside the messages refused, those the sink
  may still refuse before its size makes it rotate and open a file again (`Owed`):
  a fault pays for `MaxSize` of them and nothing else adds to the sum.
  `ShelterInv` says in which day's file the sink is at each place, so that a file
  the script took away is only ever held by a sink that is about to leave it.
* `LogsStayInOrder`, `FilesStayBounded` and `RotationKeepsNewerFiles`, the last an
  action property, with no assumption but the constants' types.  `PlaceInv` says
  where messages may be and between which names a rotation moves, the move over
  a midnight included; that is what order needs.  `SizeInv` relates the contents
  of the current file to `currentSize` and the faults so far.  `GapInv` counts the
  indexes without a file below one that has a file (`Gaps`), those the sink is
  about to fill set aside: each is the work of a fault or a stop, so when the
  highest index is given up the others are there but for as many.

* `RestraintKeepsCount` of `CassHelper`: `s_concurrent` is the number of calls at
  work (`Holders`), by cardinality over every step that enters or leaves them,
  and never more than one of the limits there have been (`LimitsSet`; a bound by
  the present limit does not hold, since it may be lowered under the calls).
* `StatementsInOrder` of `CassHelper`: `BatchInv` says for every place of a call
  which part is ahead of it (`PartAhead`), was executed (`PartDone`) or comes next,
  for sequences of statements of any sizes but 0 (`CallsAssumption`).  What a
  part weighs, `Bytes`, is a recursive function, and what it computes needs
  induction.  The library's induction theorems are out of the provers' reach;
  `LeastNumber`, that a set of numbers has a least one, follows from its theorem on
  the strict subset ordering, and the least counterexample does the rest
  (`SumsExist`, `BytesAreNumbers`, `BytesNext`, `BytesGrow`).
* `PartsAreLongest`: the part the loop takes is the longest that fits, whatever the
  sizes, so the cut of a batch is determined.
* `ServiceImplementsWrapper`: every step of the process is one of `CassHelper` or
  leaves its state alone; so what `CassHelper` promises for any users holds in
  the process (`WrapperHoldsInService`).
* `RequestsFindTheDatabase`, `WarmPoolIsNotRaced` and `StopLeavesNothing` of
  `Service`, on top of the restraint's invariant, for any number of signals of any
  kinds.  `HandlerInv` says how handlers can lie on top of each other: at most one is
  inside `Shutdown`, and at most one closes the database, since only one finds it
  open.  `ComingUp` says what exists at each stage of `main`, `Stopping` what is left
  once a handler has passed each of its places (a stop that was not early waits for
  the requests before it closes), `Filled` that the engines' saves have put a
  session into the pool before the server is up, and `KeptWarm` that it is not
  filled again, so that only a handler, alone, changes the map (`NobodyMeets`).
  Assumed is `ServiceAssumption`: `main` is one of the threads, the outside thread is
  none, a query is one of the calls and there is an engine.
* `MongoPoolsAreShared` of `MongoHelper`: `RightPool` says that a call holds a
  connection of its server's only pool, `AllThere` that free connections and
  calls that hold one add up to `ConnCount`.
* `PagesComeInOrder` of `CassPaging`: for a reader alone with its statement
  (`Alone`), `CallGoesOn` says which state its call goes on from and `StateWaits`
  which state waits in the vessel between its calls; other readers and their
  `tidy` only ever take such a state away, which `lapsed` records.
* `RingIsQueue` of `CircularBuffer`: for every size, template and sequence of
  calls.  `RingInv` adds the types; the work is in `AppendKeeps`, `BlockKeeps` and
  `PopKeeps`, which say where `Place` puts each element after the ends have moved.
* `VersionNeverLost` of `VersionFile`: `Copying` and `Replacing` say that the backup is
  a beginning of the new version and is all of it before the file goes.
* `NextDateIsTheNextDay`, `RangesListEveryDay` and `HexRoundTrip` of `Calendar`: the first
  for every real date, by cases over months and the four kinds of year; the range
  by invariance; hex and back is the identity on strings of bytes.

The constants are assumed to be of their types (each module's `ASSUME`s), the sets
of threads of `CassHelper` and `MongoHelper` to be finite, and the database and the
clock of `IdEngine` to be as each theorem names them.

The invariants named above that no run lists (`RunInv`, `GracefulInv`, `SingleInv`,
`RoomInv`, `SleepInv`, `PlaceInv`, `SizeInv`, `GapInv`, `BatchInv`, `PagingInv` and the like)
are invariants of the proofs only: what they imply is what the runs check.

The type invariants of `IdEngine`, `ThreadPool`, `AsyncLog` and `RotateSink` are not
among the runs' properties, because their theorems say it for every instance.

Every invariant, every action property and both refinements that the passing runs
check are theorems.  Only model-checked is what must eventually happen
(`EveryCallReturns`, `ConsumersReturn`, `AcceptedTasksRun`, `ShutdownReturns`,
`MessagesAreWritten`, `InitAndCloseReturn`, `StopEnds`, `CallsReturn`,
`MongoCallsReturn`): liveness under fairness and `ENABLED` are beyond the prover.
The safety some of it rests on is proved: the engine's mutex is held by one thread
and only inside its section (`MutexHeld`), nobody waits after the queue has quit
(`NoWaitAfterQuit`) and no worker sleeps in vain (`WorkersAreWoken`,
`LogWorkerIsWoken`).

## 6. Not modelled

* Running the table tool on a used table: its `INSERT` sets the valve back to 0 and
  nothing in the code guards against it.  No promise of the service is left that a
  property could state.
* Empty CQL statements in a batch: `batchExec` takes a sum of 0 for an empty batch,
  so it would leave such statements collected and run the next one by itself.  The
  repository makes none (`CallsAssumption`).
* A second `init` of the Cassandra helper, and callers before the first: `Open` sets
  the pool, the flag and the limit at once, as callers start after it.
* The clock set back: days only grow in the models.  The engine would go to the
  earlier day, from 0.
* The local id generator, which nobody calls: a counter per kind of id under a
  mutex, forgotten when the process ends.
* `CLctMongoConnPool::tryGetConnection`, which nobody calls.
* `CRotateFileSink` and `CDailyFileSink`, which nobody makes; the terminal sink.
* Log formatters, string utilities, the formatting of times, the properties
  reader and the translation of rows and documents for the drivers: text and types.
* `shutdown` of a thread pool called by one of its tasks, tasks that throw, and
  what follows after undefined behaviour.
* The construction of singletons, which the C++ runtime makes safe, and the
  read-write lock itself, a pthread lock.
* The gRPC client helper (a call without state), packaging, makefiles, tutorials
  and `3rdparty`.

Two comments say other than the code, without a consequence a run could show:
`lct_common_util.h:70` has `Hex2Bin` pad an even length where it pads an odd one, and
`lct_queue.h:44` says that a queue of `maxSize` 0 returns at once where the
constructor makes the size 1.

## 7. What could follow

Several keyspaces in the session map; the service's three engines on one database,
each with its own row; an abstract specification of the log that `AsyncLog`
implements, as `TaskPool` is for the thread pool.
