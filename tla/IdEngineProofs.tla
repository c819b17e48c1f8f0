--------------------------- MODULE IdEngineProofs ---------------------------
(***************************************************************************)
(* Proofs about IdEngine, for any number of threads, any step and size and *)
(* without any of the bounds of the model-checking runs.                   *)
(***************************************************************************)
EXTENDS IdEngine, FiniteSetTheorems, TLAPS

USE DEF info, log, vars, Days

-----------------------------------------------------------------------------
(* Type correctness.                                                        *)

LEMMA PersistTyped ==
  ASSUME TypeOK, PersistSucceeds \/ PersistFails
  PROVE  row' \in [present : BOOLEAN, valve : Nat, step : Nat, size : Nat]
BY DEF TypeOK, PersistSucceeds, PersistFails, StoredRow

LEMMA GoDownTyped ==
  ASSUME GoDown
  PROVE  /\ svc' \in {"down", "starting", "up"}
         /\ step' \in Nat /\ preallocSize' \in Nat /\ preallocValve' \in Nat
         /\ currentId' \in Nat /\ dayStamp' \in Stamps /\ newDay' \in Nat
         /\ mutex' \in Threads \cup {NoThread}
         /\ pc' \in [Threads -> Labels]
         /\ nextId' \in [Threads -> Nat]
         /\ result' \in [Threads -> Results]
BY DefaultAssumption
   DEF GoDown, FreshMemory, Stamps, NoDay, Labels, Results

LEMMA InitTyped == Init => TypeOK
BY DefaultAssumption, SeedAssumption, BoundAssumption
   DEF Init, TypeOK, SeedRow, NoRow, NoDay, Stamps, Labels, Results, Ids

\* A step of the process keeps the types.
LEMMA ProcessTyped == TypeOK /\ Process => TypeOK'
<1> SUFFICES ASSUME TypeOK, Process PROVE TypeOK'
  OBVIOUS
<1>1. CASE StartFromRow
  BY <1>1 DEF StartFromRow, TypeOK, Stamps
<1>2. CASE StartWithoutRow
  BY <1>2 DEF StartWithoutRow, TypeOK, Stamps
<1>3. CASE StartServing
  BY <1>3, PersistTyped DEF StartServing, TypeOK
<1>4. CASE StartFails
  BY <1>4, PersistTyped, GoDownTyped DEF StartFails, TypeOK
<1>5. CASE Shutdown
  BY <1>5, GoDownTyped DEF Shutdown, TypeOK
<1>6. CASE Kill
  BY <1>6, GoDownTyped DEF Kill, TypeOK
<1> QED
  BY <1>1, <1>2, <1>3, <1>4, <1>5, <1>6 DEF Process

\* A step of spawnId keeps the types.
LEMMA SpawnIdTyped ==
  ASSUME TypeOK, NEW t \in Threads, SpawnId(t) PROVE TypeOK'
<1> USE DEF Goto, Return, Labels, Results
<1>1. CASE CheckDay(t)
  BY <1>1 DEF CheckDay, TypeOK
<1>2. CASE LockDay(t)
  BY <1>2 DEF LockDay, TypeOK
<1>3. CASE ResetId(t)
  BY <1>3 DEF ResetId, TypeOK
<1>4. CASE TearDayStamp(t)
  BY <1>4 DEF TearDayStamp, TypeOK, Stamps
<1>5. CASE WriteDayStamp(t)
  BY <1>5 DEF WriteDayStamp, TypeOK, Stamps, NoDay
<1>6. CASE ResetValve(t)
  BY <1>6 DEF ResetValve, TypeOK
<1>7. CASE PersistDay(t)
  BY <1>7, PersistTyped DEF PersistDay, TypeOK
<1>8. CASE FetchAdd(t)
  BY <1>8 DEF FetchAdd, TypeOK
<1>9. CASE CheckValve(t)
  BY <1>9 DEF CheckValve, TypeOK
<1>10. CASE LockValve(t)
  BY <1>10 DEF LockValve, TypeOK
<1>11. CASE PersistValve(t)
  BY <1>11, PersistTyped DEF PersistValve, TypeOK
<1>12. CASE RecheckValve(t)
  BY <1>12 DEF RecheckValve, TypeOK
<1>13. CASE Stamp(t)
  BY <1>13 DEF Stamp, TypeOK, Ids
<1> QED
  BY <1>1, <1>2, <1>3, <1>4, <1>5, <1>6, <1>7, <1>8, <1>9, <1>10, <1>11,
     <1>12, <1>13 DEF SpawnId

\* Every variable keeps its type: the whole of spawnId, the starts, stops and
\* kills of the process and the clock.
THEOREM TypeCorrect == Spec => []TypeOK
<1>1. Init => TypeOK
  BY InitTyped
<1>2. TypeOK /\ [Next]_vars => TypeOK'
  <2> SUFFICES ASSUME TypeOK, [Next]_vars PROVE TypeOK'
    OBVIOUS
  <2>1. CASE Process
    BY <2>1, ProcessTyped
  <2>2. CASE Tick
    BY <2>2, BoundAssumption DEF Tick, TypeOK
  <2>3. ASSUME NEW t \in Threads, Call(t) PROVE TypeOK'
    BY <2>3 DEF Call, TypeOK, Goto, Labels, Results
  <2>4. ASSUME NEW t \in Threads, SpawnId(t) PROVE TypeOK'
    BY <2>4, SpawnIdTyped
  <2>5. CASE UNCHANGED vars
    BY <2>5 DEF TypeOK
  <2> QED
    BY <2>1, <2>2, <2>3, <2>4, <2>5 DEF Next, Rest
<1> QED
  BY <1>1, <1>2, PTL DEF Spec

-----------------------------------------------------------------------------
(* One run never hands out an id twice, if midnight does not pass in the     *)
(* middle of a call and the table tool has inserted the row.                 *)

RunAssumption == Prepared /\ Midnight # "any"

LEMMA InitRunInv == RunAssumption /\ Init => RunInv
BY SeedAssumption, DefaultAssumption
   DEF RunAssumption, Init, RunInv, MutexHeld, CallsOnlyWhileUp, DayPhase,
       ClaimsApart, IssuedApart, UniqueWithinRun, Critical, Claiming, Quiet,
       SeedRow, NoDay

\* The row keeps the seed step whatever becomes of an UPDATE.
LEMMA PersistKeepsStep ==
  ASSUME TypeOK, CallsOnlyWhileUp, PersistSucceeds \/ PersistFails
  PROVE  row'.present /\ row'.step >= 1
BY DEF TypeOK, CallsOnlyWhileUp, PersistSucceeds, PersistFails, StoredRow

\* When the process goes down nothing is left that RunInv restricts.
LEMMA GoDownRunInv ==
  ASSUME TypeOK, RunInv, GoDown, UNCHANGED <<today, run, log>>,
         row'.present /\ row'.step >= 1
  PROVE  RunInv'
<1> USE DEF GoDown, FreshMemory, TypeOK
<1>1. MutexHeld'
  BY DEF MutexHeld, Critical
<1>2. CallsOnlyWhileUp'
  BY DefaultAssumption DEF CallsOnlyWhileUp, Quiet
<1>3. DayPhase'
  BY DEF DayPhase, Claiming, NoDay
<1>4. ClaimsApart'
  BY DEF ClaimsApart, Claiming
<1>5. IssuedApart'
  BY DEF RunInv, IssuedApart
<1>6. UniqueWithinRun'
  BY DEF RunInv, UniqueWithinRun
<1> QED
  BY <1>1, <1>2, <1>3, <1>4, <1>5, <1>6 DEF RunInv

\* A start opens a new run, of which no id is issued yet.
LEMMA StartRunInv ==
  ASSUME TypeOK, RunInv, StartFromRow \/ StartWithoutRow PROVE RunInv'
<1> USE DEF StartFromRow, StartWithoutRow, TypeOK, RunInv
<1>0. Quiet /\ svc = "down" /\ run' = run + 1 /\ UNCHANGED <<issued, today>>
  BY DEF CallsOnlyWhileUp
<1>1. MutexHeld'
  BY <1>0 DEF MutexHeld, Critical, Quiet
<1>2. CallsOnlyWhileUp'
  BY <1>0 DEF CallsOnlyWhileUp, Quiet
<1>3. DayPhase'
  BY <1>0 DEF DayPhase, Claiming, Quiet
<1>4. ClaimsApart'
  BY <1>0 DEF ClaimsApart, Claiming, Quiet
<1>5. IssuedApart'
  BY <1>0 DEF IssuedApart, Ids
<1>6. UniqueWithinRun'
  BY DEF UniqueWithinRun
<1> QED
  BY <1>1, <1>2, <1>3, <1>4, <1>5, <1>6

\* A step of the process keeps the invariant.
LEMMA ProcessRunInv == TypeOK /\ RunInv /\ Process => RunInv'
<1> SUFFICES ASSUME TypeOK, RunInv, Process PROVE RunInv'
  OBVIOUS
<1>1. CASE StartFromRow \/ StartWithoutRow
  BY <1>1, StartRunInv
<1>2. CASE StartServing
  <2>1. row'.present /\ row'.step >= 1
    BY <1>2, PersistKeepsStep DEF StartServing, RunInv
  <2> QED
    BY <1>2, <2>1
       DEF StartServing, RunInv, MutexHeld, CallsOnlyWhileUp, DayPhase,
           ClaimsApart, IssuedApart, UniqueWithinRun, Quiet
<1>3. CASE StartFails
  BY <1>3, PersistKeepsStep, GoDownRunInv DEF StartFails, RunInv
<1>4. CASE Shutdown \/ Kill
  BY <1>4, GoDownRunInv DEF Shutdown, Kill, RunInv, CallsOnlyWhileUp
<1> QED
  BY <1>1, <1>2, <1>3, <1>4 DEF Process

\* Midnight finds no call in flight, and no id of the new day issued.
LEMMA TickRunInv ==
  ASSUME RunAssumption, TypeOK, RunInv, Tick PROVE RunInv'
<1> USE DEF Tick, TypeOK, RunInv, RunAssumption
<1>0. Quiet /\ today' = today + 1
  BY MidnightAssumption DEF CallsOnlyWhileUp
<1>1. MutexHeld' /\ CallsOnlyWhileUp' /\ ClaimsApart' /\ UniqueWithinRun'
  BY <1>0 DEF MutexHeld, CallsOnlyWhileUp, ClaimsApart, UniqueWithinRun, Quiet
<1>2. DayPhase'
  BY <1>0 DEF DayPhase, Claiming, Quiet, Stamps, Torn
<1>3. IssuedApart'
  BY <1>0 DEF IssuedApart, Ids, Stamps, Torn
<1> QED
  BY <1>1, <1>2, <1>3

-----------------------------------------------------------------------------
(* The steps of spawnId.                                                    *)

\* What every step of daySwitch and reallocValve that only moves on leaves.
LEMMA SpawnIdRunInv ==
  ASSUME TypeOK, RunInv, NEW t \in Threads, SpawnId(t) PROVE RunInv'
<1> USE DEF TypeOK, RunInv, Goto, Return, Labels, Claiming, Critical
<1>0. svc = "up"
  BY DEF SpawnId, CallsOnlyWhileUp, Quiet, CheckDay, LockDay, ResetId,
         TearDayStamp, WriteDayStamp, ResetValve, PersistDay, FetchAdd,
         CheckValve, LockValve, PersistValve, RecheckValve, Stamp
<1>1. CASE CheckDay(t)
  BY <1>0, <1>1
     DEF CheckDay, MutexHeld, CallsOnlyWhileUp, DayPhase, ClaimsApart,
         IssuedApart, UniqueWithinRun
<1>2. CASE LockDay(t)
  <2>1. \A u \in Threads : pc[u] \notin Critical
    BY <1>2, ThreadsAssumption DEF LockDay, MutexHeld
  <2>2. MutexHeld' /\ CallsOnlyWhileUp' /\ UniqueWithinRun'
    BY <1>0, <1>2, <2>1
       DEF LockDay, MutexHeld, CallsOnlyWhileUp, UniqueWithinRun, Quiet
  <2>3. DayPhase'
    BY <1>0, <1>2, <2>1 DEF LockDay, DayPhase
  <2>4. ClaimsApart'
    BY <1>2 DEF LockDay, ClaimsApart
  <2>5. IssuedApart'
    BY <1>2 DEF LockDay, IssuedApart
  <2> QED
    BY <2>2, <2>3, <2>4, <2>5
<1>3. CASE ResetId(t)
  <2>1. dayStamp # today
    BY <1>3 DEF ResetId, DayPhase
  <2> QED
    BY <1>0, <1>3, <2>1
       DEF ResetId, MutexHeld, CallsOnlyWhileUp, DayPhase, ClaimsApart,
           IssuedApart, UniqueWithinRun
<1>4. CASE TearDayStamp(t)
  BY <1>0, <1>4
     DEF TearDayStamp, MutexHeld, CallsOnlyWhileUp, DayPhase, ClaimsApart,
         IssuedApart, UniqueWithinRun, Torn
<1>5. CASE WriteDayStamp(t)
  BY <1>0, <1>5
     DEF WriteDayStamp, MutexHeld, CallsOnlyWhileUp, DayPhase, ClaimsApart,
         IssuedApart, UniqueWithinRun
<1>6. CASE ResetValve(t)
  BY <1>0, <1>6
     DEF ResetValve, MutexHeld, CallsOnlyWhileUp, DayPhase, ClaimsApart,
         IssuedApart, UniqueWithinRun
<1>7. CASE PersistDay(t)
  BY <1>0, <1>7, PersistKeepsStep
     DEF PersistDay, MutexHeld, CallsOnlyWhileUp, DayPhase, ClaimsApart,
         IssuedApart, UniqueWithinRun
<1>8. CASE FetchAdd(t)
  BY <1>0, <1>8
     DEF FetchAdd, MutexHeld, CallsOnlyWhileUp, DayPhase, ClaimsApart,
         IssuedApart, UniqueWithinRun, Ids
<1>9. CASE CheckValve(t)
  BY <1>0, <1>9
     DEF CheckValve, MutexHeld, CallsOnlyWhileUp, DayPhase, ClaimsApart,
         IssuedApart, UniqueWithinRun
<1>10. CASE LockValve(t)
  <2>1. \A u \in Threads : pc[u] \notin Critical
    BY <1>10, ThreadsAssumption DEF LockValve, MutexHeld
  <2>2. MutexHeld' /\ CallsOnlyWhileUp' /\ UniqueWithinRun'
    BY <1>0, <1>10, <2>1
       DEF LockValve, MutexHeld, CallsOnlyWhileUp, UniqueWithinRun, Quiet
  <2>3. DayPhase'
    BY <1>0, <1>10, <2>1 DEF LockValve, DayPhase
  <2>4. ClaimsApart'
    BY <1>10 DEF LockValve, ClaimsApart
  <2>5. IssuedApart'
    BY <1>10 DEF LockValve, IssuedApart
  <2> QED
    BY <2>2, <2>3, <2>4, <2>5
<1>11. CASE PersistValve(t)
  BY <1>0, <1>11, PersistKeepsStep
     DEF PersistValve, MutexHeld, CallsOnlyWhileUp, DayPhase, ClaimsApart,
         IssuedApart, UniqueWithinRun
<1>12. CASE RecheckValve(t)
  BY <1>0, <1>12
     DEF RecheckValve, MutexHeld, CallsOnlyWhileUp, DayPhase, ClaimsApart,
         IssuedApart, UniqueWithinRun
<1>13. CASE Stamp(t)
  BY <1>0, <1>13
     DEF Stamp, MutexHeld, CallsOnlyWhileUp, DayPhase, ClaimsApart,
         IssuedApart, UniqueWithinRun, Ids
<1> QED
  BY <1>1, <1>2, <1>3, <1>4, <1>5, <1>6, <1>7, <1>8, <1>9, <1>10, <1>11,
     <1>12, <1>13 DEF SpawnId

LEMMA StepRunInv ==
  ASSUME RunAssumption, TypeOK, RunInv, [Next]_vars PROVE RunInv'
<1>1. CASE Process
  BY <1>1, ProcessRunInv
<1>2. CASE Tick
  BY <1>2, TickRunInv
<1>3. ASSUME NEW t \in Threads, Call(t) PROVE RunInv'
  BY <1>3
     DEF Call, TypeOK, RunInv, Goto, Labels, Claiming, Critical, MutexHeld,
         CallsOnlyWhileUp, DayPhase, ClaimsApart, IssuedApart,
         UniqueWithinRun, Quiet
<1>4. ASSUME NEW t \in Threads, SpawnId(t) PROVE RunInv'
  BY <1>4, SpawnIdRunInv
<1>5. CASE UNCHANGED vars
  BY <1>5
     DEF RunInv, MutexHeld, CallsOnlyWhileUp, DayPhase, ClaimsApart,
         IssuedApart, UniqueWithinRun, Quiet
<1> QED
  BY <1>1, <1>2, <1>3, <1>4, <1>5 DEF Next, Rest

LEMMA RunInvariant == ASSUME RunAssumption PROVE Spec => []RunInv
<1>1. TypeOK /\ RunInv /\ [Next]_vars => RunInv'
  BY StepRunInv
<1> QED
  BY <1>1, InitRunInv, TypeCorrect, PTL DEF Spec

\* One run of the service never hands out the same (date, uniqueId) twice,
\* however many threads call spawnId, and whatever becomes of the UPDATEs,
\* the SELECT at start and the process: it takes a midnight in the middle of
\* a call to break it.
THEOREM OneRunNeverRepeats ==
  ASSUME RunAssumption PROVE Spec => []UniqueWithinRun
<1>1. RunInv => UniqueWithinRun
  BY DEF RunInv
<1> QED
  BY <1>1, RunInvariant, PTL

\* Only spawnId's last step issues an id; the day it stamps is then today.
LEMMA StepRealDay ==
  ASSUME TypeOK, RunInv, DateIsARealDay, [Next]_vars PROVE DateIsARealDay'
<1>1. CASE UNCHANGED issued
  BY <1>1 DEF DateIsARealDay
<1>2. ASSUME NEW t \in Threads, Stamp(t) PROVE DateIsARealDay'
  <2>1. dayStamp \in 1 .. MaxDay
    BY <1>2 DEF Stamp, RunInv, DayPhase, Claiming, TypeOK
  <2> QED
    BY <1>2, <2>1 DEF Stamp, DateIsARealDay
<1>3. CASE Process
  BY <1>1, <1>3
     DEF Process, StartFromRow, StartWithoutRow, StartServing, StartFails,
         Shutdown, Kill
<1>4. ASSUME NEW t \in Threads, SpawnId(t), ~Stamp(t) PROVE UNCHANGED issued
  BY <1>4
     DEF SpawnId, CheckDay, LockDay, ResetId, TearDayStamp, WriteDayStamp,
         ResetValve, PersistDay, FetchAdd, CheckValve, LockValve,
         PersistValve, RecheckValve
<1>5. ASSUME NEW t \in Threads, Call(t) PROVE UNCHANGED issued
  BY <1>5 DEF Call
<1>6. CASE Tick \/ UNCHANGED vars
  BY <1>1, <1>6 DEF Tick
<1> QED
  BY <1>1, <1>2, <1>3, <1>4, <1>5, <1>6 DEF Next, Rest

\* No id carries a torn DayStamp although daySwitch assigns it while others
\* read it: a thread that saw a change waits for the mutex before it goes on.
THEOREM DatesAreReal ==
  ASSUME RunAssumption PROVE Spec => []DateIsARealDay
<1>1. Init => DateIsARealDay
  BY DEF Init, DateIsARealDay
<1>2. TypeOK /\ RunInv /\ DateIsARealDay /\ [Next]_vars => DateIsARealDay'
  BY StepRealDay
<1> QED
  BY <1>1, <1>2, RunInvariant, TypeCorrect, PTL DEF Spec

-----------------------------------------------------------------------------
(* The service never refuses a call because of its valve.                   *)

\* One PreallocSize is enough for an id of each thread, with the row and, where
\* the SELECT at start may fail, with the defaults; the service is down at
\* midnight.  It may be killed and its UPDATEs may fail.
RoomAssumption ==
  /\ Prepared /\ Midnight = "down"
  /\ IsFiniteSet(Threads)
  /\ Cardinality(Threads) * SeedStep <= SeedSize
  /\ QueryMayFail => Cardinality(Threads) * DefaultStep <= DefaultSize

\* The threads whose id is not below the valve.
Beyond == {t \in Threads : pc[t] \in Claiming /\ nextId[t] >= preallocValve}

\* The counter is ahead of the valve by no more than what those threads took.
Lead == step * (Cardinality(Beyond) + 1)

RoomInv ==
  /\ row.step = SeedStep /\ row.size = SeedSize
  /\ svc = "down" => step = DefaultStep /\ preallocSize = DefaultSize
  /\ svc # "down" => /\ Cardinality(Threads) * step <= preallocSize
                     /\ currentId < preallocValve + Lead
  /\ NoSwitch
  /\ \A t \in Threads :
        /\ pc[t] \in Claiming => nextId[t] + step <= currentId
        /\ pc[t] \in {"persistValve", "recheck", "stamp"} =>
             nextId[t] < preallocValve
  /\ NeverOutOfIds

LEMMA OneStepMore ==
  ASSUME NEW s \in Nat, NEW n \in Nat
  PROVE  s * n \in Nat /\ s * (n + 1) = s * n + s
  OBVIOUS

LEMMA ManySteps ==
  ASSUME NEW s \in Nat, NEW m \in Nat, NEW n \in Nat, m <= n
  PROVE  s * m <= s * n
<1>1. PICK k \in Nat : n = m + k
  <2>1. n - m \in Nat /\ n = m + (n - m)
    OBVIOUS
  <2> QED
    BY <2>1
<1>2. s * (m + k) = s * m + s * k /\ s * k \in Nat /\ s * m \in Nat
  OBVIOUS
<1> QED
  BY <1>1, <1>2

\* The lead is a step for each thread beyond the valve and one more.
LEMMA LeadIsBounded ==
  ASSUME RoomAssumption, TypeOK
  PROVE  /\ IsFiniteSet(Beyond) /\ Cardinality(Beyond) \in Nat
         /\ Lead \in Nat /\ Lead >= step
         /\ Lead <= Cardinality(Threads) * step + step
<1>1. IsFiniteSet(Threads) /\ Beyond \subseteq Threads
  BY DEF RoomAssumption, Beyond
<1>2. /\ IsFiniteSet(Beyond) /\ Cardinality(Beyond) \in Nat
      /\ Cardinality(Threads) \in Nat
      /\ Cardinality(Beyond) <= Cardinality(Threads)
  BY <1>1, FS_Subset, FS_CardinalityType
<1>3. step \in Nat
  BY DEF TypeOK
<1>4. /\ step * Cardinality(Beyond) <= step * Cardinality(Threads)
      /\ step * Cardinality(Threads) = Cardinality(Threads) * step
  BY <1>2, <1>3, ManySteps
<1>5. /\ Lead = step * Cardinality(Beyond) + step
      /\ step * Cardinality(Beyond) \in Nat
      /\ step * Cardinality(Threads) \in Nat
  BY <1>2, <1>3, OneStepMore DEF Lead
<1> QED
  BY <1>2, <1>3, <1>4, <1>5

LEMMA InitRoomInv == RoomAssumption /\ Init => RoomInv
BY DEF RoomAssumption, Init, RoomInv, NoSwitch, NeverOutOfIds, Claiming,
       SeedRow

\* The row keeps its step and size whatever becomes of an UPDATE.
LEMMA PersistKeepsSeed ==
  ASSUME TypeOK, RoomInv, PersistSucceeds \/ PersistFails
  PROVE  row'.step = SeedStep /\ row'.size = SeedSize
BY DEF TypeOK, RoomInv, PersistSucceeds, PersistFails, StoredRow

LEMMA GoDownRoomInv ==
  ASSUME GoDown, row'.step = SeedStep /\ row'.size = SeedSize
  PROVE  RoomInv'
BY DEF GoDown, FreshMemory, RoomInv, NoSwitch, NeverOutOfIds, Claiming

\* A start leaves a counter one PreallocSize below the valve.
LEMMA StartRoomInv ==
  ASSUME RoomAssumption, TypeOK, RunInv, RoomInv,
         StartFromRow \/ StartWithoutRow
  PROVE  RoomInv'
<1> USE DEF StartFromRow, StartWithoutRow, RoomInv
<1>1. /\ svc = "down" /\ svc' = "starting" /\ Quiet /\ row.present
      /\ UNCHANGED <<today, row, pc, nextId, result>> /\ dayStamp' = today
  BY DEF RunInv, CallsOnlyWhileUp
<1>2. \/ step' = SeedStep /\ preallocSize' = SeedSize
      \/ step' = DefaultStep /\ preallocSize' = DefaultSize /\ QueryMayFail
  BY <1>1
<1>3. /\ step' \in Nat \ {0} /\ preallocSize' \in Nat
      /\ Cardinality(Threads) * step' <= preallocSize'
  BY <1>2, SeedAssumption, DefaultAssumption DEF RoomAssumption
<1>4. currentId' \in Nat /\ preallocValve' = currentId' + preallocSize'
  BY <1>3 DEF TypeOK
<1>5. Beyond' = {}
  BY <1>1 DEF Beyond, Quiet, Claiming
<1>6. Lead' = step'
  BY <1>3, <1>5, FS_EmptySet DEF Lead
<1>7. NoSwitch'
  BY <1>1 DEF NoSwitch, Quiet
<1>8. \A t \in Threads : pc'[t] \notin Claiming
  BY <1>1 DEF Quiet, Claiming
<1>9. currentId' < preallocValve' + Lead'
  BY <1>3, <1>4, <1>6
<1>10. NeverOutOfIds'
  BY <1>1 DEF NeverOutOfIds
<1> QED
  BY <1>1, <1>3, <1>7, <1>8, <1>9, <1>10 DEF Claiming

\* A step that moves one thread and leaves the counter and the valve: a thread
\* ends its claim, or goes on to stamp it, only below the valve.
LEMMA MoveOnRoomInv ==
  ASSUME TypeOK, RoomInv, svc # "down",
         today' = today, svc' = svc, dayStamp' = dayStamp, nextId' = nextId,
         step' = step, preallocSize' = preallocSize, currentId' = currentId,
         preallocValve' = preallocValve,
         row'.step = SeedStep /\ row'.size = SeedSize,
         NEW t \in Threads, NEW l \in Labels, pc' = [pc EXCEPT ![t] = l],
         pc[t] \notin Claiming => l \notin Claiming,
         pc[t] \in Claiming /\ l \notin {"valve", "lockValve"} =>
           nextId[t] < preallocValve,
         l \notin {"lockDay", "reset", "tear", "writeDay", "writeValve",
                   "persistDay"},
         \A u \in Threads : result'[u] # "LCT_FAIL"
  PROVE  RoomInv'
<1>1. pc \in [Threads -> Labels] /\ nextId \in [Threads -> Nat]
      /\ preallocValve \in Nat
  BY DEF TypeOK
<1>2. \A u \in Threads : pc'[u] = IF u = t THEN l ELSE pc[u]
  BY <1>1
<1>3. Beyond' = Beyond
  BY <1>1, <1>2 DEF Beyond, Claiming
<1>4. Lead' = Lead
  BY <1>3 DEF Lead
<1>5. NoSwitch'
  BY <1>2 DEF RoomInv, NoSwitch
<1>6. \A u \in Threads :
        /\ pc'[u] \in Claiming => nextId'[u] + step' <= currentId'
        /\ pc'[u] \in {"persistValve", "recheck", "stamp"} =>
             nextId'[u] < preallocValve'
  BY <1>2 DEF RoomInv, Claiming
<1> QED
  BY <1>4, <1>5, <1>6 DEF RoomInv, NeverOutOfIds

\* A step that leaves all that RoomInv is about.
LEMMA SameRoomInv ==
  ASSUME RoomInv,
         dayStamp' = dayStamp, nextId' = nextId, pc' = pc, result' = result,
         step' = step, preallocSize' = preallocSize, currentId' = currentId,
         preallocValve' = preallocValve,
         svc = "down" <=> svc' = "down", today' = today \/ svc = "down",
         row'.step = SeedStep /\ row'.size = SeedSize
  PROVE  RoomInv'
<1>1. Lead' = Lead
  BY DEF Lead, Beyond
<1>2. NoSwitch'
  BY DEF RoomInv, NoSwitch
<1> QED
  BY <1>1, <1>2 DEF RoomInv, NeverOutOfIds

LEMMA ProcessRoomInv ==
  ASSUME RoomAssumption, TypeOK, RunInv, RoomInv, Process PROVE RoomInv'
<1>1. CASE StartFromRow \/ StartWithoutRow
  BY <1>1, StartRoomInv
<1>2. CASE StartServing
  BY <1>2, PersistKeepsSeed, SameRoomInv DEF StartServing
<1>3. CASE StartFails
  BY <1>3, PersistKeepsSeed, GoDownRoomInv DEF StartFails
<1>4. CASE Shutdown \/ Kill
  BY <1>4, GoDownRoomInv DEF Shutdown, Kill, RoomInv
<1> QED
  BY <1>1, <1>2, <1>3, <1>4 DEF Process

\* Only a fetch of an id adds to the threads beyond the valve, and only when
\* the counter is there; the thread that raises the valve leaves none beyond.
LEMMA FetchRoomInv ==
  ASSUME RoomAssumption, TypeOK, RoomInv, NEW t \in Threads, svc = "up",
         FetchAdd(t)
  PROVE  RoomInv'
<1> USE DEF FetchAdd, Goto, Claiming
<1>1. /\ pc[t] = "fetch" /\ pc' = [pc EXCEPT ![t] = "valve"]
      /\ nextId' = [nextId EXCEPT ![t] = currentId]
      /\ currentId' = currentId + step
      /\ UNCHANGED <<row, svc, step, preallocSize, preallocValve, dayStamp,
                     today, result>>
  OBVIOUS
<1>2. /\ currentId \in Nat /\ step \in Nat /\ preallocValve \in Nat
      /\ pc \in [Threads -> Labels] /\ nextId \in [Threads -> Nat]
  BY DEF TypeOK
<1>3. currentId' < preallocValve' + Lead'
  <2>1. CASE currentId < preallocValve
    <3>1. Beyond' = {}
      BY <1>1, <1>2, <2>1 DEF Beyond, RoomInv
    <3>2. Lead' = step
      BY <1>1, <1>2, <3>1, FS_EmptySet DEF Lead
    <3> QED
      BY <1>1, <1>2, <2>1, <3>2
  <2>2. CASE currentId >= preallocValve
    <3>1. Beyond' = Beyond \cup {t} /\ t \notin Beyond
      BY <1>1, <1>2, <2>2 DEF Beyond
    <3>2. /\ Cardinality(Beyond') = Cardinality(Beyond) + 1
          /\ Cardinality(Beyond) \in Nat /\ Lead \in Nat
      BY <3>1, LeadIsBounded, FS_AddElement
    <3>3. Lead' = Lead + step
      BY <1>1, <1>2, <3>2, OneStepMore DEF Lead
    <3> QED
      BY <1>1, <1>2, <3>2, <3>3 DEF RoomInv
  <2> QED
    BY <1>2, <2>1, <2>2
<1>4. NoSwitch'
  BY <1>1, <1>2 DEF RoomInv, NoSwitch
<1>5. \A u \in Threads :
        /\ pc'[u] \in Claiming => nextId'[u] + step' <= currentId'
        /\ pc'[u] \in {"persistValve", "recheck", "stamp"} =>
             nextId'[u] < preallocValve'
  BY <1>1, <1>2 DEF RoomInv
<1> QED
  BY <1>1, <1>3, <1>4, <1>5 DEF RoomInv, NeverOutOfIds

LEMMA RaiseRoomInv ==
  ASSUME RoomAssumption, TypeOK, RoomInv, NEW t \in Threads, svc = "up",
         LockValve(t)
  PROVE  RoomInv'
<1> USE DEF LockValve, Goto, Claiming
<1>1. /\ pc[t] = "lockValve"
      /\ UNCHANGED <<row, svc, step, preallocSize, currentId, dayStamp,
                     today, nextId, result>>
  OBVIOUS
<1>2. /\ currentId \in Nat /\ step \in Nat /\ preallocValve \in Nat
      /\ preallocSize \in Nat
      /\ pc \in [Threads -> Labels] /\ nextId \in [Threads -> Nat]
  BY DEF TypeOK
<1>3. /\ Lead \in Nat /\ Lead <= Cardinality(Threads) * step + step
      /\ Cardinality(Threads) * step \in Nat
      /\ Cardinality(Threads) * step <= preallocSize
      /\ currentId < preallocValve + Lead
  <2>1. Cardinality(Threads) \in Nat
    BY FS_CardinalityType DEF RoomAssumption
  <2>2. Cardinality(Threads) * step \in Nat
    BY <1>2, <2>1
  <2> QED
    BY <2>2, LeadIsBounded DEF RoomInv
<1>4. CASE /\ currentId >= preallocValve
           /\ preallocValve' = preallocValve + preallocSize
           /\ pc' = [pc EXCEPT ![t] = "persistValve"]
  <2>1. \A u \in Threads : pc'[u] \in Claiming <=> pc[u] \in Claiming
    BY <1>1, <1>2, <1>4
  <2>2. \A u \in Threads : pc[u] \in Claiming => nextId[u] < preallocValve'
    BY <1>2, <1>3, <1>4 DEF RoomInv
  <2>3. Beyond' = {}
    BY <1>1, <1>2, <1>4, <2>1, <2>2 DEF Beyond
  <2>4. Lead' = step
    BY <1>1, <1>2, <2>3, FS_EmptySet DEF Lead
  <2>5. currentId' < preallocValve' + Lead'
    BY <1>1, <1>2, <1>3, <1>4, <2>4
  <2>6. NoSwitch'
    BY <1>1, <1>2, <1>4 DEF RoomInv, NoSwitch
  <2> QED
    BY <1>1, <1>2, <1>4, <2>1, <2>2, <2>5, <2>6 DEF RoomInv, NeverOutOfIds
<1>5. CASE /\ currentId < preallocValve /\ preallocValve' = preallocValve
           /\ pc' = [pc EXCEPT ![t] = "recheck"]
  <2>1. Lead' = Lead
    BY <1>1, <1>2, <1>5 DEF Lead, Beyond
  <2>2. NoSwitch'
    BY <1>1, <1>2, <1>5 DEF RoomInv, NoSwitch
  <2> QED
    BY <1>1, <1>2, <1>3, <1>5, <2>1, <2>2 DEF RoomInv, NeverOutOfIds
<1> QED
  BY <1>4, <1>5

LEMMA SpawnIdRoomInv ==
  ASSUME RoomAssumption, TypeOK, RunInv, RoomInv, NEW t \in Threads,
         SpawnId(t)
  PROVE  RoomInv'
<1> USE DEF TypeOK, Goto, Return, Claiming, Labels
<1>0. svc = "up"
  BY DEF SpawnId, RunInv, CallsOnlyWhileUp, Quiet, CheckDay, LockDay, ResetId,
         TearDayStamp, WriteDayStamp, ResetValve, PersistDay, FetchAdd,
         CheckValve, LockValve, PersistValve, RecheckValve, Stamp
<1>s. row.step = SeedStep /\ row.size = SeedSize
      /\ \A u \in Threads : result[u] # "LCT_FAIL"
  BY DEF RoomInv, NeverOutOfIds
<1>1. CASE CheckDay(t)
  <2>1. pc' = [pc EXCEPT ![t] = "fetch"] /\ pc[t] = "day"
    BY <1>0, <1>1 DEF CheckDay, RoomInv, NoSwitch
  <2> QED
    BY <1>0, <1>1, <1>s, <2>1, MoveOnRoomInv DEF CheckDay
<1>2. CASE FetchAdd(t)
  BY <1>0, <1>2, FetchRoomInv
<1>3. CASE CheckValve(t)
  <2>1. PICK l \in {"stamp", "lockValve"} :
          pc' = [pc EXCEPT ![t] = l] /\ (l = "stamp" => nextId[t] < preallocValve)
    BY <1>3 DEF CheckValve
  <2>2. pc[t] = "valve"
    BY <1>3 DEF CheckValve
  <2> QED
    BY <1>0, <1>3, <1>s, <2>1, <2>2, MoveOnRoomInv DEF CheckValve
<1>4. CASE LockValve(t)
  BY <1>0, <1>4, RaiseRoomInv
<1>5. CASE PersistValve(t)
  <2>1. PICK l \in {"recheck", "idle"} : pc' = [pc EXCEPT ![t] = l]
    BY <1>5 DEF PersistValve
  <2>2. pc[t] = "persistValve" /\ nextId[t] < preallocValve
    BY <1>5 DEF PersistValve, RoomInv
  <2>3. \A u \in Threads : result'[u] # "LCT_FAIL"
    BY <1>5, <1>s DEF PersistValve
  <2>4. row'.step = SeedStep /\ row'.size = SeedSize
    BY <1>5, PersistKeepsSeed DEF PersistValve
  <2> QED
    BY <1>0, <1>5, <2>1, <2>2, <2>3, <2>4, MoveOnRoomInv DEF PersistValve
<1>6. CASE RecheckValve(t)
  <2>1. /\ pc[t] = "recheck" /\ nextId[t] < preallocValve
        /\ pc' = [pc EXCEPT ![t] = "stamp"] /\ result' = result
    BY <1>6 DEF RecheckValve, RoomInv
  <2> QED
    BY <1>0, <1>6, <1>s, <2>1, MoveOnRoomInv DEF RecheckValve
<1>7. CASE Stamp(t)
  <2>1. /\ pc[t] = "stamp" /\ nextId[t] < preallocValve
        /\ pc' = [pc EXCEPT ![t] = "idle"]
    BY <1>7 DEF Stamp, RoomInv
  <2>2. \A u \in Threads : result'[u] # "LCT_FAIL"
    BY <1>7, <1>s DEF Stamp
  <2> QED
    BY <1>0, <1>7, <1>s, <2>1, <2>2, MoveOnRoomInv DEF Stamp
<1>8. ~ (\/ LockDay(t) \/ ResetId(t) \/ TearDayStamp(t) \/ WriteDayStamp(t)
         \/ ResetValve(t) \/ PersistDay(t))
  BY DEF RoomInv, NoSwitch, LockDay, ResetId, TearDayStamp, WriteDayStamp,
         ResetValve, PersistDay
<1> QED
  BY <1>1, <1>2, <1>3, <1>4, <1>5, <1>6, <1>7, <1>8 DEF SpawnId

LEMMA StepRoomInv ==
  ASSUME RoomAssumption, TypeOK, RunInv, RoomInv, [Next]_vars PROVE RoomInv'
<1>1. CASE Process
  BY <1>1, ProcessRoomInv
<1>2. CASE Tick
  <2>1. svc = "down" /\ svc' = "down"
    BY <1>2 DEF Tick, RoomAssumption
  <2> QED
    BY <1>2, <2>1, SameRoomInv DEF Tick, RoomInv
<1>3. ASSUME NEW t \in Threads, Call(t) PROVE RoomInv'
  <2>1. pc[t] = "idle" /\ pc' = [pc EXCEPT ![t] = "day"] /\ svc = "up"
    BY <1>3 DEF Call, Goto
  <2>2. \A u \in Threads : result'[u] # "LCT_FAIL"
    BY <1>3 DEF Call, RoomInv, NeverOutOfIds, TypeOK
  <2> QED
    BY <1>3, <2>1, <2>2, MoveOnRoomInv DEF Call, RoomInv, Claiming, Labels
<1>4. ASSUME NEW t \in Threads, SpawnId(t) PROVE RoomInv'
  BY <1>4, SpawnIdRoomInv
<1>5. CASE UNCHANGED vars
  BY <1>5, SameRoomInv DEF RoomInv
<1> QED
  BY <1>1, <1>2, <1>3, <1>4, <1>5 DEF Next, Rest

\* Where one PreallocSize is enough for an id of each thread, no call is
\* refused because of the valve, in any number of runs, however they end and
\* whatever becomes of the UPDATEs: the thread that finds the valve used up
\* raises it for all who are waiting.
THEOREM ValveNeverRefuses ==
  ASSUME RoomAssumption PROVE Spec => []NeverOutOfIds
<1>1. TypeOK /\ RunInv /\ RoomInv /\ [Next]_vars => RoomInv'
  BY StepRoomInv
<1>2. RoomInv => NeverOutOfIds
  BY DEF RoomInv
<1>3. RunAssumption
  BY DEF RoomAssumption, RunAssumption
<1> QED
  BY <1>1, <1>2, <1>3, InitRoomInv, RunInvariant, TypeCorrect, PTL DEF Spec

=============================================================================
