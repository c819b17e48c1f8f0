------------------------ MODULE IdEngineRestartProofs ------------------------
(***************************************************************************)
(* Across restarts the engine hands out no id twice in two environments:   *)
(* any number of threads when the service is stopped by a signal only and  *)
(* is down at midnight; one thread whenever it is killed and whenever the  *)
(* day changes.  In both it implements IdDispenser.                        *)
(***************************************************************************)
EXTENDS IdEngineProofs

USE DEF info, log, vars

Reliable == Prepared /\ ~PersistMayFail /\ ~QueryMayFail

GracefulAssumption == Reliable /\ Midnight = "down" /\ ~KillMayHappen

SingleAssumption == Reliable /\ \E t : Threads = {t}

-----------------------------------------------------------------------------
(* Any number of threads, graceful stops.                                   *)

\* The definitions every step of the proof opens.
LEMMA InitGraceful == GracefulAssumption /\ Init => GracefulInv
BY SeedAssumption, DefaultAssumption
   DEF GracefulAssumption, Reliable, Init, GracefulInv, MutexHeld, NoSwitch,
       ValveSaved, CallsOnlyWhileUp, ClaimsApart, IssuedCovered, Unique,
       Claiming, Critical, Quiet, SeedRow, NoDay

\* With no thread in a call nobody holds the mutex, so the valve is saved.
LEMMA GracefulStop ==
  ASSUME TypeOK, GracefulInv, Shutdown PROVE GracefulInv'
<1> USE DEF Shutdown, GoDown, FreshMemory, TypeOK, GracefulInv
<1>1. mutex = NoThread /\ row.valve = preallocValve
  BY DEF ValveSaved, Quiet
<1>2. MutexHeld' /\ CallsOnlyWhileUp' /\ Unique'
  BY DefaultAssumption
     DEF MutexHeld, Critical, CallsOnlyWhileUp, Quiet, Unique
<1>3. NoSwitch' /\ ValveSaved' /\ ClaimsApart'
  BY DEF NoSwitch, ValveSaved, ClaimsApart, Claiming
<1>4. IssuedCovered'
  BY <1>1 DEF IssuedCovered, Claiming, Ids
<1> QED
  BY <1>2, <1>3, <1>4

LEMMA GracefulStart ==
  ASSUME TypeOK, GracefulInv, StartFromRow PROVE GracefulInv'
<1> USE DEF StartFromRow, TypeOK, GracefulInv
<1>0. Quiet
  BY DEF CallsOnlyWhileUp
<1>1. MutexHeld' /\ CallsOnlyWhileUp' /\ Unique' /\ NoSwitch' /\ ValveSaved'
  BY <1>0 DEF MutexHeld, CallsOnlyWhileUp, Unique, NoSwitch, ValveSaved, Quiet
<1>2. ClaimsApart'
  BY <1>0 DEF ClaimsApart, Claiming, Quiet
<1>3. IssuedCovered'
  BY <1>0 DEF IssuedCovered, Claiming, Quiet, CallsOnlyWhileUp, Ids
<1> QED
  BY <1>1, <1>2, <1>3

LEMMA GracefulServing ==
  ASSUME TypeOK, GracefulInv, StartServing PROVE GracefulInv'
BY DEF StartServing, PersistSucceeds, StoredRow, TypeOK, GracefulInv,
       MutexHeld, CallsOnlyWhileUp, Unique, NoSwitch, ValveSaved,
       ClaimsApart, IssuedCovered, Quiet

LEMMA GracefulTick ==
  ASSUME GracefulAssumption, TypeOK, GracefulInv, Tick PROVE GracefulInv'
<1> USE DEF Tick, GracefulAssumption, TypeOK, GracefulInv
<1>0. svc = "down" /\ Quiet /\ today' = today + 1 /\ today \in Nat
  BY DEF CallsOnlyWhileUp, Days
<1>1. MutexHeld' /\ CallsOnlyWhileUp' /\ Unique' /\ NoSwitch' /\ ValveSaved'
      /\ ClaimsApart'
  BY <1>0 DEF MutexHeld, CallsOnlyWhileUp, Unique, NoSwitch, ValveSaved,
              ClaimsApart, Quiet
<1>2. IssuedCovered'
  BY <1>0 DEF IssuedCovered, Ids, Stamps, Torn
<1> QED
  BY <1>1, <1>2

LEMMA GracefulSpawnId ==
  ASSUME GracefulAssumption, TypeOK, GracefulInv, NEW t \in Threads, SpawnId(t)
  PROVE  GracefulInv'
<1> USE DEF GracefulInv, TypeOK, Goto, Return, Claiming, Critical, Labels
<1>0. svc = "up" /\ dayStamp = today /\ today \in Nat
  BY DEF SpawnId, CallsOnlyWhileUp, Quiet, NoSwitch, Days, CheckDay, LockDay,
         ResetId, TearDayStamp, WriteDayStamp, ResetValve, PersistDay,
         FetchAdd, CheckValve, LockValve, PersistValve, RecheckValve, Stamp
<1>1. CASE CheckDay(t)
  BY <1>0, <1>1
     DEF CheckDay, MutexHeld, CallsOnlyWhileUp, Unique, NoSwitch,
         ValveSaved, ClaimsApart, IssuedCovered
<1>2. CASE FetchAdd(t)
  <2>1. MutexHeld' /\ CallsOnlyWhileUp' /\ Unique' /\ NoSwitch'
    BY <1>0, <1>2
       DEF FetchAdd, MutexHeld, CallsOnlyWhileUp, Unique, NoSwitch
  <2>2. ValveSaved'
    BY <1>0, <1>2 DEF FetchAdd, ValveSaved
  <2>3. ClaimsApart' /\ IssuedCovered'
    BY <1>0, <1>2
       DEF FetchAdd, ClaimsApart, IssuedCovered, CallsOnlyWhileUp, Ids
  <2> QED
    BY <2>1, <2>2, <2>3
<1>3. CASE CheckValve(t) \/ RecheckValve(t)
  <2>1. MutexHeld' /\ CallsOnlyWhileUp' /\ Unique' /\ NoSwitch'
    BY <1>0, <1>3
       DEF CheckValve, RecheckValve, MutexHeld, CallsOnlyWhileUp, Unique,
           NoSwitch
  <2>2. ValveSaved'
    BY <1>0, <1>3 DEF CheckValve, RecheckValve, ValveSaved
  <2>3. ClaimsApart' /\ IssuedCovered'
    BY <1>0, <1>3 DEF CheckValve, RecheckValve, ClaimsApart, IssuedCovered
  <2> QED
    BY <2>1, <2>2, <2>3
<1>4. CASE LockValve(t)
  <2>1. \A u \in Threads : pc[u] \notin Critical
    BY <1>4, ThreadsAssumption DEF LockValve, MutexHeld
  <2>2. MutexHeld' /\ CallsOnlyWhileUp' /\ Unique' /\ NoSwitch'
    BY <1>0, <1>4, <2>1
       DEF LockValve, MutexHeld, CallsOnlyWhileUp, Unique, NoSwitch
  <2>3. ValveSaved'
    BY <1>0, <1>4, ThreadsAssumption DEF LockValve, ValveSaved
  <2>4. ClaimsApart'
    BY <1>4 DEF LockValve, ClaimsApart
  <2>5. IssuedCovered'
    BY <1>0, <1>4 DEF LockValve, IssuedCovered, Ids
  <2> QED
    BY <2>2, <2>3, <2>4, <2>5
<1>5. CASE PersistValve(t)
  <2>1. row' = StoredRow /\ pc' = [pc EXCEPT ![t] = "recheck"]
    BY <1>5 DEF PersistValve, PersistSucceeds, PersistFails,
                GracefulAssumption, Reliable
  <2>2. MutexHeld' /\ CallsOnlyWhileUp' /\ Unique' /\ NoSwitch'
    BY <1>0, <1>5, <2>1
       DEF PersistValve, MutexHeld, CallsOnlyWhileUp, Unique, NoSwitch,
           StoredRow
  <2>3. ValveSaved' /\ ClaimsApart' /\ IssuedCovered'
    BY <1>0, <1>5, <2>1
       DEF PersistValve, ValveSaved, ClaimsApart, IssuedCovered, StoredRow
  <2> QED
    BY <2>2, <2>3
<1>6. CASE Stamp(t)
  <2>1. \A i \in issued : ~(i.day = dayStamp /\ i.id = nextId[t])
    BY <1>0, <1>6 DEF Stamp, IssuedCovered
  <2>2. clashes' = {}
    BY <1>6, <2>1 DEF Stamp, Unique
  <2>3. MutexHeld' /\ CallsOnlyWhileUp' /\ NoSwitch' /\ ValveSaved'
        /\ ClaimsApart'
    BY <1>0, <1>6
       DEF Stamp, MutexHeld, CallsOnlyWhileUp, NoSwitch, ValveSaved,
           ClaimsApart
  <2>4. IssuedCovered'
    BY <1>0, <1>6
       DEF Stamp, IssuedCovered, ValveSaved, ClaimsApart, Ids
  <2> QED
    BY <2>2, <2>3, <2>4 DEF Unique
<1>7. ~ (LockDay(t) \/ ResetId(t) \/ TearDayStamp(t) \/ WriteDayStamp(t)
         \/ ResetValve(t) \/ PersistDay(t))
  BY DEF NoSwitch, LockDay, ResetId, TearDayStamp, WriteDayStamp, ResetValve,
         PersistDay
<1> QED
  BY <1>1, <1>2, <1>3, <1>4, <1>5, <1>6, <1>7 DEF SpawnId

LEMMA GracefulStep ==
  ASSUME GracefulAssumption, TypeOK, GracefulInv, [Next]_vars
  PROVE  GracefulInv'
<1>1. CASE Process
  <2>1. ~StartWithoutRow /\ ~StartFails /\ ~Kill
    BY DEF GracefulAssumption, Reliable, StartWithoutRow, StartFails,
           PersistFails, Kill
  <2> QED
    BY <1>1, <2>1, GracefulStart, GracefulServing, GracefulStop DEF Process
<1>2. CASE Tick
  BY <1>2, GracefulTick
<1>3. ASSUME NEW t \in Threads, Call(t) PROVE GracefulInv'
  BY <1>3
     DEF Call, TypeOK, GracefulInv, Goto, Labels, Claiming, Critical,
         MutexHeld, CallsOnlyWhileUp, NoSwitch, ValveSaved, ClaimsApart,
         IssuedCovered, Unique, Quiet
<1>4. ASSUME NEW t \in Threads, SpawnId(t) PROVE GracefulInv'
  BY <1>4, GracefulSpawnId
<1>5. CASE UNCHANGED vars
  BY <1>5
     DEF GracefulInv, MutexHeld, CallsOnlyWhileUp, NoSwitch, ValveSaved,
         ClaimsApart, IssuedCovered, Unique, Quiet
<1> QED
  BY <1>1, <1>2, <1>3, <1>4, <1>5 DEF Next, Rest

LEMMA GracefulInvariant ==
  ASSUME GracefulAssumption PROVE Spec => []GracefulInv
<1>1. Init => GracefulInv
  BY InitGraceful
<1>2. TypeOK /\ GracefulInv /\ [Next]_vars => GracefulInv'
  BY GracefulStep
<1> QED
  BY <1>1, <1>2, TypeCorrect, PTL DEF Spec

\* A service that is stopped by SIGINT or SIGTERM only, and is down at
\* midnight, never hands out the same (date, uniqueId) twice, across any
\* number of restarts.
THEOREM GracefulRestartsNeverRepeat ==
  ASSUME GracefulAssumption PROVE Spec => []Unique
<1>1. GracefulInv => Unique
  BY DEF GracefulInv
<1> QED
  BY <1>1, GracefulInvariant, PTL

-----------------------------------------------------------------------------
(* One thread; kills and midnights at any moment.                            *)

LEMMA InitSingle == SingleAssumption /\ Init => SingleInv
BY SeedAssumption, DefaultAssumption
   DEF SingleAssumption, Reliable, Init, SingleInv, SingleDayPhase,
       SingleClaim, SingleSaved, AlwaysCovered, CallsOnlyWhileUp, Unique,
       Claiming, Quiet, SeedRow, NoDay

\* The saved valve always covers what was issued, so the process may go.
LEMMA SingleGone ==
  ASSUME TypeOK, SingleInv, GoDown, UNCHANGED <<today, row, run, log>>
  PROVE  SingleInv'
BY DefaultAssumption
   DEF GoDown, FreshMemory, TypeOK, SingleInv, SingleDayPhase, SingleClaim,
       SingleSaved, AlwaysCovered, CallsOnlyWhileUp, Unique, Claiming, Quiet

LEMMA SingleStart ==
  ASSUME TypeOK, SingleInv, StartFromRow PROVE SingleInv'
<1> USE DEF StartFromRow, TypeOK, SingleInv
<1>0. Quiet /\ today \in Nat
  BY DEF CallsOnlyWhileUp, Days
<1>1. CallsOnlyWhileUp' /\ Unique' /\ AlwaysCovered'
  BY <1>0 DEF CallsOnlyWhileUp, Unique, AlwaysCovered, Quiet
<1>2. SingleDayPhase'
  BY <1>0 DEF SingleDayPhase, AlwaysCovered, Quiet
<1>3. SingleClaim' /\ SingleSaved'
  BY <1>0 DEF SingleClaim, SingleSaved, AlwaysCovered, CallsOnlyWhileUp,
              Quiet, Claiming
<1> QED
  BY <1>1, <1>2, <1>3

LEMMA SingleServing ==
  ASSUME SingleAssumption, TypeOK, SingleInv, StartServing PROVE SingleInv'
<1> USE DEF StartServing, PersistSucceeds, StoredRow, TypeOK, SingleInv
<1>0. Quiet
  BY DEF CallsOnlyWhileUp
<1>1. CallsOnlyWhileUp' /\ Unique' /\ SingleDayPhase' /\ SingleClaim'
      /\ SingleSaved'
  BY <1>0 DEF CallsOnlyWhileUp, Unique, SingleDayPhase, SingleClaim,
              SingleSaved, Quiet, Claiming
<1>2. row.valve <= preallocValve
  BY DEF SingleAssumption, SingleSaved
<1>3. AlwaysCovered'
  BY <1>2 DEF AlwaysCovered, Ids
<1> QED
  BY <1>1, <1>3

LEMMA SingleTick ==
  ASSUME TypeOK, SingleInv, Tick PROVE SingleInv'
<1> USE DEF Tick, TypeOK, SingleInv
<1>0. today' = today + 1 /\ today \in Nat
  BY DEF Days
<1>1. CallsOnlyWhileUp' /\ Unique' /\ SingleClaim' /\ SingleSaved'
  BY <1>0 DEF CallsOnlyWhileUp, Unique, SingleClaim, SingleSaved, Quiet
<1>2. SingleDayPhase'
  BY <1>0 DEF SingleDayPhase, Stamps, Torn
<1>3. AlwaysCovered'
  BY <1>0 DEF AlwaysCovered, Ids, Stamps, Torn
<1> QED
  BY <1>1, <1>2, <1>3

LEMMA SingleSpawnId ==
  ASSUME SingleAssumption, TypeOK, SingleInv, NEW t \in Threads, SpawnId(t)
  PROVE  SingleInv'
<1> USE DEF SingleInv, TypeOK, Goto, Return, Claiming, Labels
<1>0. svc = "up" /\ today \in Nat
  BY DEF SpawnId, CallsOnlyWhileUp, Quiet, Days, CheckDay, LockDay,
         ResetId, TearDayStamp, WriteDayStamp, ResetValve, PersistDay,
         FetchAdd, CheckValve, LockValve, PersistValve, RecheckValve, Stamp
<1>s. Threads = {t}
  BY DEF SingleAssumption
<1>1. CASE CheckDay(t)
  BY <1>0, <1>1, <1>s
     DEF CheckDay, CallsOnlyWhileUp, Unique, SingleDayPhase, SingleClaim,
         SingleSaved, AlwaysCovered
<1>2. CASE LockDay(t)
  <2>1. CallsOnlyWhileUp' /\ Unique' /\ SingleSaved' /\ AlwaysCovered'
    BY <1>0, <1>2, <1>s
       DEF LockDay, CallsOnlyWhileUp, Unique, SingleSaved, AlwaysCovered
  <2>2. dayStamp \in Nat /\ dayStamp <= today /\ \A i \in issued : i.day <= dayStamp
    BY <1>0, <1>2 DEF LockDay, SingleDayPhase, Days
  <2>3. SingleDayPhase' /\ SingleClaim'
    BY <1>0, <1>2, <1>s, <2>2 DEF LockDay, SingleDayPhase, SingleClaim
  <2> QED
    BY <2>1, <2>3
<1>3. CASE ResetId(t)
  BY <1>0, <1>3, <1>s
     DEF ResetId, CallsOnlyWhileUp, Unique, SingleDayPhase, SingleClaim,
         SingleSaved, AlwaysCovered
<1>4. CASE TearDayStamp(t)
  <2>1. CallsOnlyWhileUp' /\ Unique' /\ SingleSaved' /\ AlwaysCovered'
        /\ SingleClaim'
    BY <1>0, <1>4, <1>s
       DEF TearDayStamp, CallsOnlyWhileUp, Unique, SingleSaved, AlwaysCovered,
           SingleClaim
  <2>2. dayStamp \in Nat /\ dayStamp < today /\ \A i \in issued : i.day <= dayStamp
    BY <1>0, <1>4 DEF TearDayStamp, SingleDayPhase, Days
  <2>3. \A i \in issued : i.day < today
    BY <1>0, <2>2 DEF Ids, Stamps, Torn
  <2>4. SingleDayPhase'
    BY <1>0, <1>4, <1>s, <2>3 DEF TearDayStamp, SingleDayPhase
  <2> QED
    BY <2>1, <2>4
<1>5. CASE WriteDayStamp(t)
  <2>1. CallsOnlyWhileUp' /\ Unique' /\ SingleSaved' /\ AlwaysCovered'
    BY <1>0, <1>5, <1>s
       DEF WriteDayStamp, CallsOnlyWhileUp, Unique, SingleSaved, AlwaysCovered
  <2>2. newDay \in Days /\ newDay <= today /\ \A i \in issued : i.day < newDay
    BY <1>5 DEF WriteDayStamp, SingleDayPhase
  <2>3. \A i \in issued : i.day <= newDay /\ i.day # newDay
    BY <2>2 DEF Ids, Stamps, Torn, Days
  <2>4. SingleDayPhase' /\ SingleClaim'
    BY <1>0, <1>5, <1>s, <2>2, <2>3
       DEF WriteDayStamp, SingleDayPhase, SingleClaim
  <2> QED
    BY <2>1, <2>4
<1>6. CASE ResetValve(t)
  BY <1>0, <1>6, <1>s
     DEF ResetValve, CallsOnlyWhileUp, Unique, SingleDayPhase, SingleClaim,
         SingleSaved, AlwaysCovered
<1>7. CASE PersistDay(t)
  <2>1. row' = StoredRow /\ pc' = [pc EXCEPT ![t] = "fetch"]
    BY <1>7 DEF PersistDay, PersistSucceeds, PersistFails,
                SingleAssumption, Reliable
  <2>2. \A i \in issued : i.day < dayStamp /\ dayStamp <= today
    BY <1>0, <1>7 DEF PersistDay, SingleDayPhase
  <2>3. AlwaysCovered'
    BY <1>0, <1>7, <2>2 DEF PersistDay, AlwaysCovered, Ids, Stamps, Torn
  <2> QED
    BY <1>0, <1>7, <1>s, <2>1, <2>3
       DEF PersistDay, StoredRow, CallsOnlyWhileUp, Unique, SingleDayPhase,
           SingleClaim, SingleSaved
<1>8. CASE FetchAdd(t)
  BY <1>0, <1>8, <1>s
     DEF FetchAdd, CallsOnlyWhileUp, Unique, SingleDayPhase, SingleClaim,
         SingleSaved, AlwaysCovered, Ids
<1>9. CASE CheckValve(t)
  BY <1>0, <1>9, <1>s
     DEF CheckValve, CallsOnlyWhileUp, Unique, SingleDayPhase, SingleClaim,
         SingleSaved, AlwaysCovered
<1>10. CASE LockValve(t)
  BY <1>0, <1>10, <1>s
     DEF LockValve, CallsOnlyWhileUp, Unique, SingleDayPhase, SingleClaim,
         SingleSaved, AlwaysCovered
<1>11. CASE PersistValve(t)
  <2>1. row' = StoredRow /\ pc' = [pc EXCEPT ![t] = "recheck"]
    BY <1>11 DEF PersistValve, PersistSucceeds, PersistFails,
                 SingleAssumption, Reliable
  <2>2. row.valve <= preallocValve
    BY <1>11 DEF PersistValve, SingleSaved
  <2>3. AlwaysCovered'
    BY <1>11, <2>1, <2>2 DEF PersistValve, StoredRow, AlwaysCovered, Ids
  <2> QED
    BY <1>0, <1>11, <1>s, <2>1, <2>3
       DEF PersistValve, StoredRow, CallsOnlyWhileUp, Unique, SingleDayPhase,
           SingleClaim, SingleSaved
<1>12. CASE RecheckValve(t)
  BY <1>0, <1>12, <1>s
     DEF RecheckValve, CallsOnlyWhileUp, Unique, SingleDayPhase, SingleClaim,
         SingleSaved, AlwaysCovered
<1>13. CASE Stamp(t)
  <2>1. \A i \in issued : ~(i.day = dayStamp /\ i.id = nextId[t])
    BY <1>0, <1>13 DEF Stamp, SingleClaim
  <2>2. Unique'
    BY <1>13, <2>1 DEF Stamp, Unique
  <2>3. CallsOnlyWhileUp' /\ SingleSaved'
    BY <1>0, <1>13, <1>s DEF Stamp, CallsOnlyWhileUp, SingleSaved
  <2>4. dayStamp \in Days /\ dayStamp <= dayStamp
    BY <1>0, <1>13 DEF Stamp, SingleDayPhase, Days
  <2>5. SingleDayPhase'
    BY <1>0, <1>13, <1>s, <2>4 DEF Stamp, SingleDayPhase
  <2>6. SingleClaim' /\ AlwaysCovered'
    BY <1>0, <1>13, <1>s
       DEF Stamp, SingleClaim, SingleDayPhase, SingleSaved, AlwaysCovered
  <2> QED
    BY <2>2, <2>3, <2>5, <2>6
<1> QED
  BY <1>1, <1>2, <1>3, <1>4, <1>5, <1>6, <1>7, <1>8, <1>9, <1>10, <1>11,
     <1>12, <1>13 DEF SpawnId

LEMMA SingleStep ==
  ASSUME SingleAssumption, TypeOK, SingleInv, [Next]_vars
  PROVE  SingleInv'
<1>1. CASE Process
  <2>1. ~StartWithoutRow /\ ~StartFails
    BY DEF SingleAssumption, Reliable, StartWithoutRow, StartFails,
           PersistFails
  <2>2. ASSUME Shutdown \/ Kill PROVE SingleInv'
    BY <2>2, SingleGone DEF Shutdown, Kill
  <2> QED
    BY <1>1, <2>1, <2>2, SingleStart, SingleServing DEF Process
<1>2. CASE Tick
  BY <1>2, SingleTick
<1>3. ASSUME NEW t \in Threads, Call(t) PROVE SingleInv'
  BY <1>3
     DEF Call, TypeOK, SingleInv, Goto, Labels, Claiming, CallsOnlyWhileUp,
         SingleDayPhase, SingleClaim, SingleSaved, AlwaysCovered, Unique,
         Quiet
<1>4. ASSUME NEW t \in Threads, SpawnId(t) PROVE SingleInv'
  BY <1>4, SingleSpawnId
<1>5. CASE UNCHANGED vars
  BY <1>5
     DEF SingleInv, CallsOnlyWhileUp, SingleDayPhase, SingleClaim,
         SingleSaved, AlwaysCovered, Unique, Quiet
<1> QED
  BY <1>1, <1>2, <1>3, <1>4, <1>5 DEF Next, Rest

LEMMA SingleInvariant ==
  ASSUME SingleAssumption PROVE Spec => []SingleInv
<1>1. Init => SingleInv
  BY InitSingle
<1>2. TypeOK /\ SingleInv /\ [Next]_vars => SingleInv'
  BY SingleStep
<1> QED
  BY <1>1, <1>2, TypeCorrect, PTL DEF Spec

\* A service that serves on one thread never hands out the same
\* (date, uniqueId) twice, wherever it is killed and whenever the day changes,
\* as long as its UPDATEs and SELECTs succeed.
THEOREM OneThreadNeverRepeats ==
  ASSUME SingleAssumption PROVE Spec => []Unique
<1>1. SingleInv => Unique
  BY DEF SingleInv
<1> QED
  BY <1>1, SingleInvariant, PTL

-----------------------------------------------------------------------------
(* The saved valve.                                                         *)

\* Whenever no call is in flight the row covers every id issued today: a call
\* that has returned never has to rely on a valve that is only in memory.
THEOREM RowCoversIssuedIds ==
  ASSUME GracefulAssumption \/ SingleAssumption
  PROVE  Spec => []SavedValveCoversIssuedIds
<1>1. TypeOK /\ GracefulInv => SavedValveCoversIssuedIds
  <2> SUFFICES ASSUME TypeOK, GracefulInv, Quiet,
                      NEW i \in issued, i.day = today
               PROVE  i.id < row.valve
    BY DEF SavedValveCoversIssuedIds
  <2>1. mutex = NoThread
    BY DEF GracefulInv, ValveSaved, Quiet
  <2> QED
    BY <2>1 DEF GracefulInv, ValveSaved, IssuedCovered, TypeOK
<1>2. SingleInv => SavedValveCoversIssuedIds
  BY DEF SingleInv, AlwaysCovered, SavedValveCoversIssuedIds
<1>3. CASE GracefulAssumption
  BY <1>1, <1>3, GracefulInvariant, TypeCorrect, PTL
<1>4. CASE SingleAssumption
  BY <1>2, <1>4, SingleInvariant, PTL
<1> QED
  BY <1>3, <1>4

-----------------------------------------------------------------------------
(* Refinement.  What the dispenser does not see is a stutter; an id that is *)
(* stamped fresh is a grant.                                                *)

LEMMA GracefulFresh == TypeOK /\ GracefulInv => FreshStamp
BY DEF TypeOK, GracefulInv, CallsOnlyWhileUp, Quiet, NoSwitch, IssuedCovered,
       FreshStamp, Claiming

LEMMA SingleFresh == TypeOK /\ SingleInv => FreshStamp
BY DEF TypeOK, SingleInv, CallsOnlyWhileUp, Quiet, SingleDayPhase,
       SingleClaim, FreshStamp, Claiming

LEMMA InitMaps == Init => Dispenser!DispenserInit
BY DEF Init, Dispenser!DispenserInit

\* Moving on inside spawnId, starting the process and midnight are stutters.
LEMMA Stutters ==
  ASSUME TypeOK, UNCHANGED <<issued, result>>,
         \/ UNCHANGED pc
         \/ \E t \in Threads, label \in Labels \ {"idle"} :
               pc[t] # "idle" /\ Goto(t, label)
  PROVE  UNCHANGED Dispenser!dispenserVars
BY DEF Dispenser!dispenserVars, Goto, TypeOK

\* A call that returns an error is refused.
LEMMA Refuses ==
  ASSUME TypeOK, NEW t \in Threads, pc[t] # "idle", UNCHANGED issued,
         Return(t, "DB_ERROR") \/ Return(t, "LCT_FAIL")
  PROVE  Dispenser!Refuse(t)
BY DEF Dispenser!Refuse, Dispenser!Codes, Return, Goto, TypeOK

\* A stamp grants the id it returns.
LEMMA StampGrants ==
  ASSUME TypeOK, FreshStamp, NEW t \in Threads, Stamp(t)
  PROVE  Dispenser!Grant(t)
<1> USE DEF TypeOK
<1> DEFINE granted == {<<i.day, i.id>> : i \in issued}
           fresh   == <<dayStamp, nextId[t]>>
           id      == [run |-> run, day |-> dayStamp, id |-> nextId[t]]
<1>1. issued' = issued \cup {id}
  BY DEF Stamp
<1>2. granted' = granted \cup {fresh}
  <2>1. <<id.day, id.id>> = fresh
    OBVIOUS
  <2> HIDE DEF id, fresh
  <2>2. granted' = {<<i.day, i.id>> : i \in issued \cup {id}}
    BY <1>1
  <2>3. {<<i.day, i.id>> : i \in issued \cup {id}}
          = {<<i.day, i.id>> : i \in issued} \cup {<<id.day, id.id>>}
    BY Zenon
  <2> QED
    BY <2>1, <2>2, <2>3
<1>3. dayStamp \in Days /\ nextId[t] \in Nat
  BY DEF Stamp, FreshStamp
<1>4. \A i \in issued : i.day <= dayStamp /\ <<i.day, i.id>> # fresh
  BY DEF Stamp, FreshStamp
<1>5. fresh \in granted' \ granted
  BY <1>2, <1>4
<1>6. \A old \in granted : old[1] <= fresh[1]
  BY <1>4
<1>7. /\ pc[t] # "idle"
      /\ {u \in Threads : pc'[u] # "idle"}
           = {u \in Threads : pc[u] # "idle"} \ {t}
      /\ result' = [result EXCEPT ![t] = "LCT_SUCCESS"]
  BY DEF Stamp, Return, Goto
<1> HIDE DEF granted, fresh
<1>8. \E f \in granted' \ granted :
        /\ granted' = granted \cup {f}
        /\ f[1] \in Days
        /\ f[2] \in Nat
        /\ \A old \in granted : old[1] <= f[1]
  <2>1. fresh[1] \in Days /\ fresh[2] \in Nat
    BY <1>3 DEF fresh
  <2> QED
    BY <1>2, <1>5, <1>6, <2>1
<1> QED
  BY <1>7, <1>8 DEF Dispenser!Grant, granted

\* Every step of spawnId is a grant, a refusal or a stutter.
LEMMA SpawnIdMaps ==
  ASSUME TypeOK, FreshStamp, NEW t \in Threads, SpawnId(t)
  PROVE  [Dispenser!DispenserNext]_(Dispenser!dispenserVars)
<1>1. ASSUME NEW label \in Labels \ {"idle"}, pc[t] # "idle", Goto(t, label),
             UNCHANGED <<issued, result>>
      PROVE  UNCHANGED Dispenser!dispenserVars
  BY <1>1, Stutters
<1>2. CASE CheckDay(t) \/ LockDay(t) \/ ResetId(t) \/ TearDayStamp(t)
           \/ WriteDayStamp(t) \/ ResetValve(t) \/ FetchAdd(t)
           \/ CheckValve(t) \/ LockValve(t)
  <2>1. pc[t] # "idle" /\ UNCHANGED <<issued, result>>
    BY <1>2 DEF CheckDay, LockDay, ResetId, TearDayStamp, WriteDayStamp,
                ResetValve, FetchAdd, CheckValve, LockValve
  <2>2. \E label \in Labels \ {"idle"} : Goto(t, label)
    BY <1>2 DEF CheckDay, LockDay, ResetId, TearDayStamp, WriteDayStamp,
                ResetValve, FetchAdd, CheckValve, LockValve, Labels
  <2> QED
    BY <1>1, <2>1, <2>2
<1>3. CASE PersistDay(t) \/ PersistValve(t) \/ RecheckValve(t)
  <2>1. pc[t] # "idle" /\ UNCHANGED issued
    BY <1>3 DEF PersistDay, PersistValve, RecheckValve
  <2>2. \/ Return(t, "DB_ERROR") \/ Return(t, "LCT_FAIL")
        \/ UNCHANGED result /\ \E label \in Labels \ {"idle"} : Goto(t, label)
    BY <1>3 DEF PersistDay, PersistValve, RecheckValve, Labels
  <2> QED
    BY <1>1, <2>1, <2>2, Refuses DEF Dispenser!DispenserNext
<1>4. CASE Stamp(t)
  BY <1>4, StampGrants DEF Dispenser!DispenserNext
<1> QED
  BY <1>2, <1>3, <1>4 DEF SpawnId

LEMMA StepMaps ==
  ASSUME TypeOK, FreshStamp, [Next]_vars
  PROVE  [Dispenser!DispenserNext]_(Dispenser!dispenserVars)
<1>1. CASE StartFromRow \/ StartWithoutRow \/ StartServing \/ Tick
           \/ UNCHANGED vars
  <2>1. UNCHANGED <<pc, issued, result>>
    BY <1>1 DEF StartFromRow, StartWithoutRow, StartServing, Tick
  <2> QED
    BY <2>1, Stutters
<1>2. CASE StartFails \/ Shutdown \/ Kill
  <2>1. GoDown /\ UNCHANGED issued
    BY <1>2 DEF StartFails, Shutdown, Kill
  <2>2. Dispenser!Stop
    BY <2>1 DEF GoDown, Dispenser!Stop
  <2> QED
    BY <2>2 DEF Dispenser!DispenserNext
<1>3. ASSUME NEW t \in Threads, Call(t) PROVE Dispenser!DispenserNext
  <2>1. Dispenser!Ask(t)
    BY <1>3 DEF Call, Goto, TypeOK, Dispenser!Ask
  <2> QED
    BY <2>1 DEF Dispenser!DispenserNext
<1> QED
  BY <1>1, <1>2, <1>3, SpawnIdMaps DEF Next, Process, Rest

\* In both environments the service is a dispenser: no (date, uniqueId) is
\* granted twice and the date never goes back, across all restarts.
THEOREM EngineImplementsDispenser ==
  ASSUME GracefulAssumption \/ SingleAssumption
  PROVE  Spec => ImplementsDispenser
<1>1. Init => Dispenser!DispenserInit
  BY InitMaps
<1>2. TypeOK /\ FreshStamp /\ [Next]_vars
        => [Dispenser!DispenserNext]_(Dispenser!dispenserVars)
  BY StepMaps
<1>3. Spec => []FreshStamp
  <2>1. CASE GracefulAssumption
    <3>1. Spec => []GracefulInv
      BY <2>1, GracefulInvariant
    <3> QED
      BY <3>1, TypeCorrect, GracefulFresh, PTL
  <2>2. CASE SingleAssumption
    <3>1. Spec => []SingleInv
      BY <2>2, SingleInvariant
    <3> QED
      BY <3>1, TypeCorrect, SingleFresh, PTL
  <2> QED
    BY <2>1, <2>2
<1> QED
  BY <1>1, <1>2, <1>3, TypeCorrect, PTL
  DEF Spec, ImplementsDispenser, Dispenser!DispenserSpec

=============================================================================
