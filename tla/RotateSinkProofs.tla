-------------------------- MODULE RotateSinkProofs --------------------------
(***************************************************************************)
(* For every number and size of files, every number of days, messages,     *)
(* faults and stops: the types; the bound on what a failing file system    *)
(* costs; that nothing is written to a file taken away; that a day's log   *)
(* stays in order; that files stay bounded; and that a message leaves the  *)
(* directory only behind MaxFiles newer files.                             *)
(***************************************************************************)
EXTENDS RotateSink, FiniteSetTheorems, TLAPS

-----------------------------------------------------------------------------
(* Types.                                                                   *)

\* The sink is in a call of log.
InCall == ~constructing /\ pc \in {"due", "grow", "source", "target", "reopen",
                                   "write"}

FlagTypes ==
  /\ late \in BOOLEAN /\ orphan \in BOOLEAN
  /\ constructing \in BOOLEAN /\ smooth \in BOOLEAN

DiskTypes ==
  /\ files \subseteq Names
  /\ text \in [Names -> SUBSET (1 .. messages)]
  /\ lost \subseteq 1 .. messages

ValueTypes ==
  /\ day \in Days
  /\ fd \in Names \cup {NoFile}
  /\ fileName \in Names \cup {NoFile}
  /\ rotationTp \in 0 .. MaxDay + 1
  /\ currentSize \in Nat
  /\ pc \in {"down", "first", "idle", "due", "grow", "source", "target",
             "reopen", "write"}
  /\ index \in 0 .. MaxFiles
  /\ source \in Names \cup {NoFile}
  /\ messages \in 0 .. MaxMessages
  /\ faults \in 0 .. MaxFaults /\ cuts \in Nat /\ stops \in 0 .. MaxStops
  /\ dropped \in Nat

\* What the types need to be inductive: the loop of rotateFile runs from
\* MaxFiles to 1, the names it uses are names, a rotation time that has come
\* is not after the last day, and a call is about a message.
LoopInv ==
  /\ pc \in {"source", "target"} => index >= 1
  /\ pc = "target" => source \in Names
  /\ pc # "down" => fileName \in Names
  /\ constructing => pc \in {"first", "source", "target"}
  /\ pc = "first" => constructing
  /\ pc = "due" => rotationTp <= day
  /\ InCall => messages >= 1

TypeInv == FlagTypes /\ DiskTypes /\ ValueTypes /\ LoopInv

\* A day begins with the first of its indexes.
LEMMA FirstOfDay ==
  ASSUME day \in Days
  PROVE  <<day, 0>> \in Names
  BY SinkSizesAssumption DEF Names

LEMMA NoFileIsNoName == NoFile \notin Names
  BY DEF Names, NoFile, Days

\* What Open leaves behind, whether it succeeds or fails.
LEMMA OpenTypes ==
  ASSUME DiskTypes, ValueTypes, NEW n \in Names, Open(n)
  PROVE  /\ files' \subseteq Names
         /\ text' = text
         /\ fd' \in Names \cup {NoFile}
         /\ orphan' = FALSE
         /\ fileName' = n
         /\ faults' \in 0 .. MaxFaults
  BY SinkBoundsAssumption DEF Open, Fail, CanFail, DiskTypes, ValueTypes

\* TypeInv is inductive.
LEMMA TypeInvHolds == Spec => []TypeInv
<1> USE SinkSizesAssumption, SinkBoundsAssumption, NoFileIsNoName
<1>1. Init => TypeInv
  <2> SUFFICES ASSUME Init
               PROVE  TypeInv
    OBVIOUS
  <2>1. FlagTypes /\ DiskTypes
    BY DEF Init, FlagTypes, DiskTypes
  <2>2. day \in Days /\ index \in 0 .. MaxFiles
    BY DEF Init, Days
  <2>3. ValueTypes
    BY <2>2 DEF Init, ValueTypes
  <2>4. LoopInv
    BY DEF Init, LoopInv, InCall
  <2>5. QED
    BY <2>1, <2>3, <2>4 DEF TypeInv
<1>2. TypeInv /\ [Next]_vars => TypeInv'
  <2> SUFFICES ASSUME FlagTypes, DiskTypes, ValueTypes, LoopInv, [Next]_vars
               PROVE  FlagTypes' /\ DiskTypes' /\ ValueTypes' /\ LoopInv'
    BY DEF TypeInv
  <2>1. CASE TenPastOne
    <3>1. FlagTypes'
      BY <2>1 DEF TenPastOne, clockVars, diskVars, fdVars, history, FlagTypes
    <3>2. DiskTypes'
      BY <2>1 DEF TenPastOne, clockVars, diskVars, fdVars, history, DiskTypes, ValueTypes, LoopInv, InCall
    <3>3. ValueTypes'
      BY <2>1 DEF TenPastOne, clockVars, diskVars, fdVars, history, ValueTypes, LoopInv
    <3>4. LoopInv'
      BY <2>1 DEF TenPastOne, clockVars, diskVars, fdVars, history, ValueTypes, LoopInv, InCall
    <3>5. QED
      BY <3>1, <3>2, <3>3, <3>4
  <2>2. CASE Midnight
    <3>1. day' \in Days /\ day < day'
      BY <2>2 DEF Midnight, ValueTypes, Days
    <3>2. FlagTypes'
      BY <2>2, <3>1 DEF Midnight, clockVars, diskVars, fdVars, history, FlagTypes
    <3>3. DiskTypes'
      BY <2>2, <3>1 DEF Midnight, clockVars, diskVars, fdVars, history, DiskTypes, ValueTypes, LoopInv, InCall
    <3>4. ValueTypes'
      BY <2>2, <3>1 DEF Midnight, clockVars, diskVars, fdVars, history, ValueTypes, LoopInv, Days
    <3>5. LoopInv'
      BY <2>2, <3>1 DEF Midnight, clockVars, diskVars, fdVars, history, ValueTypes, LoopInv, InCall, Days
    <3>6. QED
      BY <3>2, <3>3, <3>4, <3>5
  <2>3. CASE Stop
    <3>1. FlagTypes'
      BY <2>3 DEF Stop, clockVars, diskVars, fdVars, history, FlagTypes
    <3>2. DiskTypes'
      BY <2>3 DEF Stop, Removed, clockVars, diskVars, DiskTypes
    <3>3. ValueTypes'
      BY <2>3 DEF Stop, clockVars, diskVars, fdVars, history, ValueTypes, LoopInv
    <3>4. LoopInv'
      BY <2>3 DEF Stop, clockVars, diskVars, fdVars, history, ValueTypes, LoopInv, InCall
    <3>5. QED
      BY <3>1, <3>2, <3>3, <3>4
  <2>4. ASSUME NEW n \in Names, Archive(n)
        PROVE  FlagTypes' /\ DiskTypes' /\ ValueTypes' /\ LoopInv'
    <3>1. FlagTypes'
      BY <2>4 DEF Archive, Removed, clockVars, diskVars, fdVars, history, FlagTypes
    <3>2. DiskTypes'
      BY <2>4 DEF Archive, Removed, clockVars, diskVars, fdVars, history, DiskTypes, ValueTypes, LoopInv, InCall
    <3>3. ValueTypes'
      BY <2>4 DEF Archive, Removed, clockVars, diskVars, fdVars, history, ValueTypes, LoopInv
    <3>4. LoopInv'
      BY <2>4 DEF Archive, Removed, clockVars, diskVars, fdVars, history, ValueTypes, LoopInv, InCall
    <3>5. QED
      BY <3>1, <3>2, <3>3, <3>4
  <2>5. CASE Construct
    <3>1. <<day, 0>> \in Names
      BY FirstOfDay DEF ValueTypes
    <3>2. FlagTypes'
      BY <2>5, <3>1 DEF Construct, clockVars, diskVars, fdVars, history, FlagTypes
    <3>3. DiskTypes'
      BY <2>5, <3>1 DEF Construct, clockVars, diskVars, fdVars, history, DiskTypes, ValueTypes, LoopInv, InCall
    <3>4. ValueTypes'
      BY <2>5, <3>1 DEF Construct, clockVars, diskVars, fdVars, history, ValueTypes, LoopInv
    <3>5. LoopInv'
      BY <2>5, <3>1 DEF Construct, clockVars, diskVars, fdVars, history, ValueTypes, LoopInv, InCall
    <3>6. QED
      BY <3>2, <3>3, <3>4, <3>5
  <2>6. CASE OpenFirst
    <3>1. fileName \in Names /\ Open(fileName)
      BY <2>6, FirstOfDay DEF OpenFirst, LoopInv, ValueTypes
    <3>2. /\ files' \subseteq Names /\ text' = text
          /\ fd' \in Names \cup {NoFile} /\ orphan' = FALSE
          /\ fileName' = fileName /\ faults' \in 0 .. MaxFaults
      BY <3>1, OpenTypes
    <3>3. FlagTypes'
      BY <2>6, <3>2 DEF OpenFirst, clockVars, FlagTypes
    <3>4. DiskTypes'
      BY <2>6, <3>2 DEF OpenFirst, clockVars, DiskTypes
    <3>5. ValueTypes'
      BY <2>6, <3>1, <3>2 DEF OpenFirst, clockVars, ValueTypes, LoopInv, Days
    <3>6. LoopInv'
      BY <2>6, <3>1, <3>2 DEF OpenFirst, clockVars, ValueTypes, LoopInv, InCall, Days
    <3>7. QED
      BY <3>3, <3>4, <3>5, <3>6
  <2>7. CASE Log
    <3>1. FlagTypes'
      BY <2>7 DEF Log, clockVars, diskVars, fdVars, history, FlagTypes
    <3>2. DiskTypes'
      BY <2>7 DEF Log, clockVars, diskVars, fdVars, history, DiskTypes, ValueTypes, LoopInv, InCall
    <3>3. ValueTypes'
      BY <2>7 DEF Log, clockVars, diskVars, fdVars, history, ValueTypes, LoopInv, Days
    <3>4. LoopInv'
      BY <2>7 DEF Log, clockVars, diskVars, fdVars, history, ValueTypes, LoopInv, InCall, Days
    <3>5. QED
      BY <3>1, <3>2, <3>3, <3>4
  <2>8. CASE OpenOfDay
    <3>1. <<day, 0>> \in Names /\ Open(<<day, 0>>)
      BY <2>8, FirstOfDay DEF OpenOfDay, LoopInv, ValueTypes
    <3>2. /\ files' \subseteq Names /\ text' = text
          /\ fd' \in Names \cup {NoFile} /\ orphan' = FALSE
          /\ fileName' = <<day, 0>> /\ faults' \in 0 .. MaxFaults
      BY <3>1, OpenTypes
    <3>3. FlagTypes'
      BY <2>8, <3>2 DEF OpenOfDay, clockVars, FlagTypes
    <3>4. DiskTypes'
      BY <2>8, <3>2 DEF OpenOfDay, clockVars, DiskTypes
    <3>5. ValueTypes'
      BY <2>8, <3>1, <3>2 DEF OpenOfDay, clockVars, ValueTypes, LoopInv, Days
    <3>6. LoopInv'
      BY <2>8, <3>1, <3>2 DEF OpenOfDay, clockVars, ValueTypes, LoopInv, InCall, Days
    <3>7. QED
      BY <3>3, <3>4, <3>5, <3>6
  <2>9. CASE Grow
    <3>1. FlagTypes'
      BY <2>9 DEF Grow, Close, clockVars, diskVars, fdVars, history, FlagTypes
    <3>2. DiskTypes'
      BY <2>9 DEF Grow, Close, clockVars, diskVars, fdVars, history, DiskTypes, ValueTypes, LoopInv, InCall
    <3>3. ValueTypes'
      BY <2>9 DEF Grow, Close, clockVars, diskVars, fdVars, history, ValueTypes, LoopInv
    <3>4. LoopInv'
      BY <2>9 DEF Grow, Close, clockVars, diskVars, fdVars, history, ValueTypes, LoopInv, InCall
    <3>5. QED
      BY <3>1, <3>2, <3>3, <3>4
  <2>10. CASE MakeSource
    <3>1. <<day, index - 1>> \in Names
      BY <2>10 DEF MakeSource, ValueTypes, LoopInv, Names
    <3>2. FlagTypes'
      BY <2>10, <3>1 DEF MakeSource, clockVars, diskVars, fdVars, history, FlagTypes
    <3>3. DiskTypes'
      BY <2>10, <3>1 DEF MakeSource, clockVars, diskVars, fdVars, history, DiskTypes, ValueTypes, LoopInv, InCall
    <3>4. ValueTypes'
      BY <2>10, <3>1 DEF MakeSource, clockVars, diskVars, fdVars, history, ValueTypes, LoopInv
    <3>5. LoopInv'
      BY <2>10, <3>1 DEF MakeSource, clockVars, diskVars, fdVars, history, ValueTypes, LoopInv, InCall
    <3>6. QED
      BY <3>2, <3>3, <3>4, <3>5
  <2>11. CASE Move
    <3>1. <<day, index>> \in Names /\ source \in Names
      BY <2>11 DEF Move, ValueTypes, LoopInv, Names
    <3>2. index >= 1 /\ index' \in 0 .. MaxFiles /\ (pc' = "source" => index' >= 1)
      BY <2>11 DEF Move, RotationFails, ValueTypes, LoopInv
    <3>3. FlagTypes'
      BY <2>11, <3>1, <3>2 DEF Move, Moved, Removed, RotationFails, Fail, CanFail, clockVars, diskVars, fdVars, history, FlagTypes
    <3>4. DiskTypes'
      BY <2>11, <3>1, <3>2 DEF Move, Moved, Removed, RotationFails, Fail, CanFail, clockVars, diskVars, fdVars, history, DiskTypes, ValueTypes, LoopInv, InCall
    <3>5. ValueTypes'
      BY <2>11, <3>1, <3>2 DEF Move, Moved, Removed, RotationFails, Fail, CanFail, clockVars, diskVars, fdVars, history, ValueTypes, LoopInv
    <3>6. LoopInv'
      BY <2>11, <3>1, <3>2 DEF Move, Moved, Removed, RotationFails, Fail, CanFail, clockVars, diskVars, fdVars, history, ValueTypes, LoopInv, InCall
    <3>7. QED
      BY <3>3, <3>4, <3>5, <3>6
  <2>12. CASE Reopen
    <3>1. fileName \in Names /\ Open(fileName)
      BY <2>12, FirstOfDay DEF Reopen, LoopInv, ValueTypes
    <3>2. /\ files' \subseteq Names /\ text' = text
          /\ fd' \in Names \cup {NoFile} /\ orphan' = FALSE
          /\ fileName' = fileName /\ faults' \in 0 .. MaxFaults
      BY <3>1, OpenTypes
    <3>3. FlagTypes'
      BY <2>12, <3>2 DEF Reopen, clockVars, FlagTypes
    <3>4. DiskTypes'
      BY <2>12, <3>2 DEF Reopen, clockVars, DiskTypes
    <3>5. ValueTypes'
      BY <2>12, <3>1, <3>2 DEF Reopen, clockVars, ValueTypes, LoopInv
    <3>6. LoopInv'
      BY <2>12, <3>1, <3>2 DEF Reopen, clockVars, ValueTypes, LoopInv, InCall
    <3>7. QED
      BY <3>3, <3>4, <3>5, <3>6
  <2>13. CASE Write
    <3>1. messages \in 1 .. messages /\ messages' = messages /\ files' = files
      BY <2>13 DEF Write, ValueTypes, LoopInv, InCall
    <3>2. text' \in [Names -> SUBSET (1 .. messages)]
      <4>1. CASE text' = text
        BY <4>1 DEF DiskTypes
      <4>2. CASE fd \in Names /\ text' = [text EXCEPT ![fd] = @ \cup {messages}]
        BY <3>1, <4>2 DEF DiskTypes
      <4>3. QED
        BY <2>13, <4>1, <4>2 DEF Write, ValueTypes
    <3>3. lost' \subseteq 1 .. messages
      BY <2>13, <3>1 DEF Write, DiskTypes
    <3>4. FlagTypes'
      BY <2>13 DEF Write, clockVars, fdVars, FlagTypes
    <3>5. ValueTypes'
      BY <2>13 DEF Write, Fail, CanFail, clockVars, fdVars, ValueTypes
    <3>6. LoopInv'
      BY <2>13 DEF Write, clockVars, fdVars, LoopInv, InCall
    <3>7. QED
      BY <3>1, <3>2, <3>3, <3>4, <3>5, <3>6 DEF DiskTypes
  <2>14. CASE UNCHANGED vars
    BY <2>14 DEF vars, clockVars, diskVars, fdVars, history, FlagTypes,
                 DiskTypes, ValueTypes, LoopInv, InCall
  <2>15. QED
    BY <2>1, <2>2, <2>3, <2>4, <2>5, <2>6, <2>7, <2>8, <2>9, <2>10, <2>11,
       <2>12, <2>13, <2>14 DEF Next
<1>3. QED
  BY <1>1, <1>2, PTL DEF Spec

\* The types of the sink, of the clock and of the log directory.
THEOREM SinkTypeCorrect == Spec => []TypeOK
<1>1. TypeInv => TypeOK
  BY DEF TypeInv, FlagTypes, DiskTypes, ValueTypes, TypeOK
<1>2. QED
  BY <1>1, TypeInvHolds, PTL

-----------------------------------------------------------------------------
(* What a failing file system costs.                                        *)

\* How many messages the sink may still refuse, the one in hand included,
\* before it rotates and opens the file again.
Owed ==
  IF fd # NoFile \/ pc \notin {"idle", "due", "grow", "write"} THEN 0
  ELSE IF pc = "write" THEN MaxSize - currentSize + 1
  ELSE IF currentSize < MaxSize THEN MaxSize - currentSize
  ELSE 0

\* What was refused and what may still be is paid for by the faults; a file is
\* rotated only when it was counted too large.
BudgetInv ==
  /\ dropped + Owed <= MaxSize * faults
  /\ constructing => currentSize = 0
  /\ pc = "down" => currentSize = 0
  /\ pc = "write" => currentSize \in 1 .. MaxSize
  /\ pc \in {"source", "target", "reopen"} /\ ~constructing
       => currentSize >= MaxSize

\* One more fault pays for MaxSize more messages.
LEMMA FaultPays ==
  ASSUME NEW f \in Nat
  PROVE  /\ MaxSize * f \in Nat
         /\ MaxSize * (f + 1) = MaxSize * f + MaxSize
  BY SinkSizesAssumption

\* BudgetInv is inductive.
LEMMA BudgetInvHolds == Spec => []BudgetInv
<1> USE SinkSizesAssumption, SinkBoundsAssumption, NoFileIsNoName
<1>1. Init => BudgetInv
  BY DEF Init, BudgetInv, Owed
<1>2. TypeInv /\ BudgetInv /\ [Next]_vars => BudgetInv'
  <2> SUFFICES ASSUME ValueTypes, LoopInv, FlagTypes, BudgetInv, [Next]_vars
               PROVE  BudgetInv'
    BY DEF TypeInv
  <2>0. /\ MaxSize * faults \in Nat
        /\ MaxSize * (faults + 1) = MaxSize * faults + MaxSize
    BY FaultPays DEF ValueTypes
  <2>1. CASE TenPastOne
    BY <2>1 DEF TenPastOne, fdVars, history, BudgetInv, Owed
  <2>2. CASE Midnight
    BY <2>2 DEF Midnight, fdVars, BudgetInv, Owed
  <2>3. CASE Stop
    BY <2>0, <2>3 DEF Stop, BudgetInv, Owed, ValueTypes
  <2>4. ASSUME NEW n \in Names, Archive(n)
        PROVE  BudgetInv'
    BY <2>4 DEF Archive, Removed, history, BudgetInv, Owed
  <2>5. CASE Construct
    BY <2>0, <2>5 DEF Construct, history, BudgetInv, Owed, ValueTypes
  <2>6. CASE OpenFirst
    BY <2>0, <2>6 DEF OpenFirst, Open, Fail, BudgetInv, Owed, ValueTypes, LoopInv
  <2>7. CASE Log
    BY <2>7 DEF Log, fdVars, history, BudgetInv, Owed, LoopInv
  <2>8. CASE OpenOfDay
    <3>1. <<day, 0>> \in Names
      BY FirstOfDay DEF ValueTypes
    <3>2. Owed \in Nat
      BY DEF Owed, BudgetInv, ValueTypes
    <3>3. \/ Owed' = 0 /\ faults' = faults
          \/ Owed' = MaxSize /\ faults' = faults + 1
      BY <2>8, <3>1 DEF OpenOfDay, Open, Fail, Owed
    <3>4. dropped' + Owed' <= MaxSize * faults'
      BY <2>0, <2>8, <3>2, <3>3 DEF OpenOfDay, BudgetInv, ValueTypes
    <3>5. QED
      BY <2>8, <3>4 DEF OpenOfDay, BudgetInv, LoopInv
  <2>9. CASE Grow
    BY <2>0, <2>9 DEF Grow, Close, fdVars, history, BudgetInv, Owed,
                      ValueTypes, LoopInv
  <2>10. CASE MakeSource
    BY <2>10 DEF MakeSource, fdVars, history, BudgetInv, Owed
  <2>11. CASE Move
    BY <2>0, <2>11 DEF Move, RotationFails, Fail, fdVars, BudgetInv, Owed,
                       ValueTypes, LoopInv
  <2>12. CASE Reopen
    BY <2>0, <2>12 DEF Reopen, Open, Fail, BudgetInv, Owed, ValueTypes, LoopInv
  <2>13. CASE Write
    BY <2>0, <2>13 DEF Write, Fail, fdVars, BudgetInv, Owed, ValueTypes, LoopInv
  <2>14. CASE UNCHANGED vars
    BY <2>14 DEF vars, fdVars, history, BudgetInv, Owed
  <2>15. QED
    BY <2>1, <2>2, <2>3, <2>4, <2>5, <2>6, <2>7, <2>8, <2>9, <2>10, <2>11,
       <2>12, <2>13, <2>14 DEF Next
<1>3. QED
  BY <1>1, <1>2, TypeInvHolds, PTL DEF Spec

\* A call of the file system that fails costs at most MaxSize of messages.
THEOREM FaultsCostBoundedMessages == Spec => []DropsBounded
<1>1. TypeInv /\ BudgetInv => DropsBounded
  <2> SUFFICES ASSUME ValueTypes, BudgetInv
               PROVE  DropsBounded
    BY DEF TypeInv
  <2>1. Owed \in Nat
    BY SinkSizesAssumption DEF Owed, BudgetInv, ValueTypes
  <2>2. MaxSize * faults \in Nat
    BY FaultPays DEF ValueTypes
  <2>3. QED
    BY <2>1, <2>2 DEF BudgetInv, DropsBounded, ValueTypes
<1>2. QED
  BY <1>1, TypeInvHolds, BudgetInvHolds, PTL

-----------------------------------------------------------------------------
(* The script and the sink.                                                 *)

\* While midnight finds the sink at rest, it is in the file of the day, or of
\* an earlier day at whose end it has not looked at the clock since; only such
\* a file can have been taken away.
ShelterInv ==
  smooth =>
    /\ lost = {}
    /\ fd # NoFile => fd = fileName
    /\ constructing => fd = NoFile /\ fileName[1] = day
    /\ pc \in {"down"} => fd = NoFile
    /\ orphan => pc \in {"idle", "due"} /\ fd # NoFile /\ fd[1] < day
    /\ pc = "idle" => /\ day <= rotationTp /\ rotationTp = fileName[1] + 1
                      /\ fileName[1] <= day
    /\ pc = "due" => rotationTp = day
    /\ pc \in {"grow", "source", "target", "reopen", "write"} /\ ~constructing
         => fileName[1] = day /\ rotationTp = day + 1

\* ShelterInv is inductive.
LEMMA ShelterInvHolds == Spec => []ShelterInv
<1> USE SinkSizesAssumption, SinkBoundsAssumption, NoFileIsNoName
<1>1. Init => ShelterInv
  BY DEF Init, ShelterInv
<1>2. TypeInv /\ ShelterInv /\ [Next]_vars => ShelterInv'
  <2> SUFFICES ASSUME ValueTypes, LoopInv, ShelterInv, [Next]_vars, smooth'
               PROVE  ShelterInv'
    BY DEF TypeInv, ShelterInv
  <2>0. day \in Nat /\ rotationTp \in Nat
    BY DEF ValueTypes, Days
  <2>1. CASE TenPastOne
    BY <2>1 DEF TenPastOne, fdVars, history, ShelterInv
  <2>2. CASE Midnight
    <3>1. /\ day' = day + 1 /\ smooth
          /\ pc = "down" \/ (pc = "idle" /\ day < rotationTp)
      BY <2>2 DEF Midnight
    <3>2. QED
      BY <2>0, <2>2, <3>1 DEF Midnight, fdVars, ShelterInv, ValueTypes, LoopInv,
                              Names, Days
  <2>3. CASE Stop
    BY <2>0, <2>3 DEF Stop, clockVars, ShelterInv, ValueTypes, LoopInv
  <2>4. ASSUME NEW n \in Names, Archive(n)
        PROVE  ShelterInv'
    <3>1. n # NoFile /\ n[1] = day - 1 /\ smooth
      BY <2>4 DEF Archive, Removed, history
    <3>2. orphan' => orphan \/ fd = n
      BY <2>4, Zenon DEF Archive, Removed
    <3>3. fd = n => pc \in {"idle", "due"}
      BY <2>0, <3>1 DEF ShelterInv, ValueTypes, LoopInv
    <3>4. orphan' => pc \in {"idle", "due"} /\ fd # NoFile /\ fd[1] < day
      BY <2>0, <3>1, <3>2, <3>3 DEF ShelterInv
    <3>5. QED
      BY <2>4, <3>1, <3>4 DEF Archive, Removed, clockVars, history, ShelterInv
  <2>5. CASE Construct
    BY <2>0, <2>5 DEF Construct, clockVars, fdVars, history, ShelterInv, ValueTypes, LoopInv
  <2>6. CASE OpenFirst
    BY <2>0, <2>6 DEF OpenFirst, clockVars, fdVars, history, Open, ShelterInv, ValueTypes, LoopInv
  <2>7. CASE Log
    <3>1. pc = "idle" /\ fileName[1] \in Nat /\ smooth
      BY <2>7 DEF Log, history, LoopInv, Names, Days
    <3>2. CASE day >= rotationTp
      BY <2>0, <2>7, <3>1, <3>2 DEF Log, clockVars, fdVars, history, ShelterInv,
                                   LoopInv
    <3>3. CASE day < rotationTp
      BY <2>0, <2>7, <3>1, <3>3 DEF Log, clockVars, fdVars, history, ShelterInv,
                                   LoopInv
    <3>4. QED
      BY <2>0, <3>2, <3>3
  <2>8. CASE OpenOfDay
    BY <2>0, <2>8 DEF OpenOfDay, clockVars, fdVars, history, Open, ShelterInv, ValueTypes, LoopInv
  <2>9. CASE Grow
    BY <2>0, <2>9 DEF Grow, clockVars, fdVars, history, Close, ShelterInv, ValueTypes, LoopInv
  <2>10. CASE MakeSource
    BY <2>0, <2>10 DEF MakeSource, clockVars, fdVars, history, ShelterInv, ValueTypes, LoopInv
  <2>11. CASE Move
    BY <2>0, <2>11 DEF Move, clockVars, fdVars, history, RotationFails, Fail, ShelterInv, ValueTypes, LoopInv
  <2>12. CASE Reopen
    BY <2>0, <2>12 DEF Reopen, clockVars, fdVars, history, Open, ShelterInv, ValueTypes, LoopInv
  <2>13. CASE Write
    BY <2>0, <2>13 DEF Write, clockVars, fdVars, history, ShelterInv, ValueTypes, LoopInv
  <2>14. CASE UNCHANGED vars
    BY <2>14 DEF vars, clockVars, fdVars, history, ShelterInv
  <2>15. QED
    BY <2>1, <2>2, <2>3, <2>4, <2>5, <2>6, <2>7, <2>8, <2>9, <2>10, <2>11,
       <2>12, <2>13, <2>14 DEF Next
<1>3. QED
  BY <1>1, <1>2, TypeInvHolds, PTL DEF Spec

\* While midnight finds the sink at rest, nothing is written to a file the
\* script has taken away.
THEOREM NothingIsLost == Spec => []NothingLost
<1>1. ShelterInv => NothingLost
  BY DEF ShelterInv, NothingLost
<1>2. QED
  BY <1>1, ShelterInvHolds, PTL

-----------------------------------------------------------------------------
(* The order of a day's log.                                                *)

\* Where messages may be: only in files that are there and not in those of days
\* to come, the current one in none yet; the sink writes to an index 0; and a
\* rotation moves a file one index up in its day, except that at most once, when
\* midnight has just passed, it moves one to a day that has no files.
PlaceInv ==
  /\ \A n \in Names : text[n] # {} => n \in files
  /\ \A n \in files : n[1] <= day
  /\ fd # NoFile => fd[1] <= day /\ fd[2] = 0
  /\ fileName # NoFile => fileName[1] <= day /\ fileName[2] = 0
  /\ pc \in {"down", "first", "source", "target", "reopen"} => fd = NoFile
  /\ fd # NoFile /\ ~orphan => fd \in files
  /\ InCall => \A n \in Names : messages \notin text[n]
  /\ pc = "target" =>
       \/ source = <<day, index - 1>>
       \/ /\ source = <<day - 1, index - 1>> /\ ~late /\ ~smooth
          /\ \A n \in files : n[1] # day

\* PlaceInv is inductive.
LEMMA PlaceInvHolds == Spec => []PlaceInv
<1> USE SinkSizesAssumption, SinkBoundsAssumption, NoFileIsNoName
<1>1. Init => PlaceInv
  BY DEF Init, PlaceInv, InCall
<1>2. TypeInv /\ PlaceInv /\ [Next]_vars => PlaceInv'
  <2> SUFFICES ASSUME ValueTypes, LoopInv, FlagTypes, DiskTypes, PlaceInv,
                      [Next]_vars
               PROVE  PlaceInv'
    BY DEF TypeInv
  <2>0. day \in Nat /\ \A n \in Names : n[1] \in Nat /\ n[2] \in Nat
    BY DEF ValueTypes, Days, Names
  <2>1. CASE TenPastOne
    BY <2>1 DEF TenPastOne, diskVars, fdVars, history, PlaceInv, InCall
  <2>2. CASE Midnight
    <3>1. \A n \in files : n[1] # day + 1 /\ n[1] <= day + 1
      BY <2>0 DEF PlaceInv, DiskTypes
    <3>2. pc = "target" => source = <<day, index - 1>>
      BY <2>2 DEF Midnight, PlaceInv
    <3>3. pc = "target" => ~smooth'
      BY <2>2 DEF Midnight
    <3>4. (day + 1) - 1 = day
      BY <2>0
    <3>5. /\ fd # NoFile => fd[1] <= day + 1
          /\ fileName # NoFile => fileName[1] <= day + 1
      BY <2>0 DEF PlaceInv, ValueTypes
    <3> QED
      BY <2>2, <3>1, <3>2, <3>3, <3>4, <3>5
         DEF Midnight, diskVars, fdVars, PlaceInv, InCall
  <2>3. CASE Stop
    <3>1. \A n \in Names : text'[n] # {} => n \in files'
      <4>1. CASE UNCHANGED diskVars
        BY <4>1 DEF diskVars, PlaceInv
      <4>2. CASE Removed(<<day, index>>)
        BY <4>2 DEF Removed, PlaceInv, DiskTypes
      <4> QED
        BY <2>3, <4>1, <4>2 DEF Stop
    <3>2. files' \subseteq files
      BY <2>3 DEF Stop, Removed, diskVars
    <3> QED
      BY <2>3, <3>1, <3>2 DEF Stop, clockVars, PlaceInv, InCall
  <2>4. ASSUME NEW n \in Names, Archive(n) PROVE PlaceInv'
    <3>1. \A m \in Names : /\ text'[m] \subseteq text[m]
                           /\ text'[m] # {} => m \in files'
      BY <2>4 DEF Archive, Removed, PlaceInv, DiskTypes
    <3>2. files' = files \ {n} /\ (fd = n => orphan') /\ (~orphan' => ~orphan)
      BY <2>4, Zenon DEF Archive, Removed
    <3>3. UNCHANGED <<clockVars, fd, fileName, pc, constructing, index, source,
                      messages, smooth>>
      BY <2>4 DEF Archive, Removed, history
    <3> QED
      BY <3>1, <3>2, <3>3 DEF PlaceInv, InCall, clockVars
  <2>5. CASE Construct
    BY <2>0, <2>5 DEF Construct, clockVars, diskVars, history, PlaceInv, InCall,
       ValueTypes, LoopInv
  <2>6. CASE OpenFirst
    <3>1. fileName \in Names /\ constructing' = FALSE /\ pc' = "idle"
      BY <2>6 DEF OpenFirst, LoopInv
    <3> QED
      BY <2>0, <2>6, <3>1 DEF OpenFirst, Open, clockVars, PlaceInv, InCall
  <2>7. CASE Log
    <3>1. \A n \in Names : messages + 1 \notin text[n]
      BY DEF DiskTypes, ValueTypes
    <3> QED
      BY <2>7, <3>1 DEF Log, clockVars, diskVars, fdVars, history, PlaceInv,
         InCall
  <2>8. CASE OpenOfDay
    <3>1. <<day, 0>> \in Names /\ InCall
      BY <2>8, FirstOfDay DEF OpenOfDay, ValueTypes, LoopInv, InCall
    <3> QED
      BY <2>0, <2>8, <3>1 DEF OpenOfDay, Open, clockVars, PlaceInv, InCall
  <2>9. CASE Grow
    BY <2>9 DEF Grow, Close, clockVars, diskVars, fdVars, history, PlaceInv,
       InCall, LoopInv
  <2>10. CASE MakeSource
    BY <2>10 DEF MakeSource, clockVars, diskVars, fdVars, history, PlaceInv,
       InCall
  <2>11. CASE Move
    <3>1. <<day, index>> \in Names /\ source \in Names /\ fd = NoFile
      BY <2>11 DEF Move, ValueTypes, LoopInv, Names, PlaceInv
    <3>2. /\ \A n \in Names : text'[n] # {} => n \in files'
          /\ files' \subseteq files \cup {<<day, index>>}
          /\ InCall => \A n \in Names : messages \notin text'[n]
      <4>1. CASE Moved(<<day, index>>)
        BY <3>1, <4>1 DEF Moved, PlaceInv, DiskTypes
      <4>2. CASE UNCHANGED diskVars
        BY <4>2 DEF diskVars, PlaceInv
      <4>3. CASE Removed(<<day, index>>)
        BY <3>1, <4>3 DEF Removed, PlaceInv, DiskTypes
      <4> QED
        BY <2>11, <4>1, <4>2, <4>3 DEF Move
    <3>3. /\ pc' # "target" /\ (pc' = "down" => pc = "down")
          /\ InCall' => InCall
          /\ pc' \in {"source", "first", "reopen", "idle"}
      BY <2>11 DEF Move, RotationFails, InCall
    <3> QED
      BY <2>0, <2>11, <3>1, <3>2, <3>3
         DEF Move, clockVars, fdVars, PlaceInv
  <2>12. CASE Reopen
    <3>1. fileName \in Names /\ InCall
      BY <2>12 DEF Reopen, LoopInv, InCall
    <3> QED
      BY <2>0, <2>12, <3>1 DEF Reopen, Open, clockVars, PlaceInv, InCall
  <2>13. CASE Write
    <3>1. \A n \in Names : text'[n] # {} => n \in files
      BY <2>13 DEF Write, PlaceInv, DiskTypes, ValueTypes
    <3> QED
      BY <2>13, <3>1 DEF Write, clockVars, fdVars, PlaceInv, InCall
  <2>14. CASE UNCHANGED vars
    BY <2>14 DEF vars, clockVars, diskVars, fdVars, history, PlaceInv, InCall
  <2> QED
    BY <2>1, <2>2, <2>3, <2>4, <2>5, <2>6, <2>7, <2>8, <2>9, <2>10, <2>11,
       <2>12, <2>13, <2>14 DEF Next
<1> QED
  BY <1>1, <1>2, TypeInvHolds, PTL DEF Spec

\* A file that moves one index up stays between its neighbours.
LEMMA MoveKeepsOrder ==
  ASSUME ValueTypes, DiskTypes, LoopInv, PlaceInv, OlderInHigherIndex, Move
  PROVE  OlderInHigherIndex'
<1> USE SinkSizesAssumption
<1> DEFINE target == <<day, index>>
<1>1. /\ target \in Names /\ source \in Names /\ source # target
      /\ pc = "target" /\ day \in Days /\ index \in 1 .. MaxFiles
  BY DEF Move, ValueTypes, LoopInv, Names, PlaceInv, Days
<1>2. CASE text' = text
  BY <1>2 DEF OlderInHigherIndex
<1>3. CASE text' = [text EXCEPT ![target] = {}]
  <2>1. \A n \in Names : text'[n] \subseteq text[n]
    BY <1>1, <1>3 DEF DiskTypes
  <2> QED
    BY <2>1 DEF OlderInHigherIndex, Names
<1>4. CASE /\ source \in files
           /\ text' = [text EXCEPT ![target] = text[source], ![source] = {}]
  <2>1. /\ text'[target] = text[source] /\ text'[source] = {}
        /\ \A n \in Names \ {target, source} : text'[n] = text[n]
    BY <1>1, <1>4 DEF DiskTypes
  <2> SUFFICES ASSUME NEW d \in Days, NEW i \in 0 .. MaxFiles,
                      NEW j \in 0 .. MaxFiles, i > j,
                      NEW a \in text'[<<d, i>>], NEW b \in text'[<<d, j>>]
               PROVE  a < b
    BY DEF OlderInHigherIndex
  <2>2. <<d, i>> \in Names /\ <<d, j>> \in Names
    BY DEF Names
  <2>3. <<d, i>> # source /\ <<d, j>> # source
    BY <2>1
  <2>4. CASE d # day
    BY <2>1, <2>2, <2>3, <2>4 DEF OlderInHigherIndex
  <2>5. CASE d = day /\ source = <<day, index - 1>>
    <3>1. CASE i = index
      <4>1. j # index - 1 /\ j < index - 1 /\ a \in text[<<day, index - 1>>]
        BY <1>1, <2>1, <2>3, <2>5, <3>1
      <4>2. b \in text[<<day, j>>]
        BY <2>1, <2>2, <2>3, <2>5, <3>1
      <4>3. index - 1 \in 0 .. MaxFiles /\ index - 1 > j
        BY <1>1, <4>1
      <4> QED
        BY <1>1, <4>1, <4>2, <4>3 DEF OlderInHigherIndex
    <3>2. CASE j = index
      <4>1. b \in text[<<day, index - 1>>] /\ a \in text[<<day, i>>]
        BY <2>1, <2>2, <2>3, <2>5, <3>2
      <4>2. index - 1 \in 0 .. MaxFiles /\ i > index - 1
        BY <1>1, <3>2
      <4> QED
        BY <1>1, <4>1, <4>2 DEF OlderInHigherIndex
    <3>3. CASE i # index /\ j # index
      BY <2>1, <2>2, <2>3, <3>3 DEF OlderInHigherIndex
    <3> QED
      BY <3>1, <3>2, <3>3
  <2>6. CASE d = day /\ source # <<day, index - 1>>
    <3>1. \A n \in Names : n[1] = day => text[n] = {}
      BY <1>1, <2>6 DEF PlaceInv
    <3>2. <<d, i>> = target /\ <<d, j>> = target
      BY <2>1, <2>2, <2>3, <2>6, <3>1
    <3> QED
      BY <3>2
  <2> QED
    BY <2>4, <2>5, <2>6
<1> QED
  BY <1>2, <1>3, <1>4 DEF Move, Moved, Removed, diskVars

\* The message that is written is the newest of all, in an index 0.
LEMMA WriteKeepsOrder ==
  ASSUME ValueTypes, DiskTypes, LoopInv, PlaceInv, OlderInHigherIndex, Write
  PROVE  OlderInHigherIndex'
<1>1. CASE text' = text
  BY <1>1 DEF OlderInHigherIndex
<1>2. CASE fd # NoFile /\ text' = [text EXCEPT ![fd] = @ \cup {messages}]
  <2>1. fd \in Names /\ fd[2] = 0 /\ messages \in Nat
    BY <1>2 DEF ValueTypes, PlaceInv
  <2>2. \A n \in Names : \A a \in text[n] : a < messages
    <3>1. InCall
      BY DEF Write, InCall, LoopInv
    <3> QED
      BY <3>1, <2>1 DEF PlaceInv, DiskTypes
  <2>3. \A n \in Names : n[2] > 0 => text'[n] = text[n]
    BY <1>2, <2>1 DEF DiskTypes
  <2>4. \A n \in Names : \A b \in text'[n] : b \in text[n] \/ b = messages
    BY <1>2, <2>1 DEF DiskTypes
  <2> SUFFICES ASSUME NEW d \in Days, NEW i \in 0 .. MaxFiles,
                      NEW j \in 0 .. MaxFiles, i > j,
                      NEW a \in text'[<<d, i>>], NEW b \in text'[<<d, j>>]
               PROVE  a < b
    BY DEF OlderInHigherIndex
  <2>5. <<d, i>> \in Names /\ <<d, j>> \in Names /\ <<d, i>>[2] > 0
    BY DEF Names
  <2>6. a \in text[<<d, i>>]
    BY <2>3, <2>5
  <2> QED
    BY <2>2, <2>4, <2>5, <2>6 DEF OlderInHigherIndex
<1> QED
  BY <1>1, <1>2 DEF Write

\* A day's log read from its highest index down to 0 is in the order of logging,
\* wherever the sink was stopped, whatever failed and whenever midnight passed.
THEOREM LogsStayInOrder == Spec => []OlderInHigherIndex
<1>1. Init => OlderInHigherIndex
  BY DEF Init, OlderInHigherIndex, Names
<1>2. TypeInv /\ PlaceInv /\ OlderInHigherIndex /\ [Next]_vars
        => OlderInHigherIndex'
  <2> SUFFICES ASSUME ValueTypes, DiskTypes, LoopInv, PlaceInv,
                      OlderInHigherIndex, [Next]_vars
               PROVE  OlderInHigherIndex'
    BY DEF TypeInv
  <2>1. CASE text' = text
    BY <2>1 DEF OlderInHigherIndex
  <2>2. ASSUME NEW n \in Names, Archive(n) PROVE OlderInHigherIndex'
    <3>1. \A m \in Names : text'[m] \subseteq text[m]
      BY <2>2 DEF Archive, Removed, DiskTypes
    <3> QED
      BY <3>1 DEF OlderInHigherIndex, Names
  <2>3. CASE Move
    BY <2>3, MoveKeepsOrder
  <2>4. CASE Write
    BY <2>4, WriteKeepsOrder
  <2>5. CASE Stop
    <3>1. \A m \in Names : text'[m] \subseteq text[m]
      BY <2>5 DEF Stop, Removed, diskVars, DiskTypes
    <3> QED
      BY <3>1 DEF OlderInHigherIndex, Names
  <2> QED
    BY <2>1, <2>2, <2>3, <2>4, <2>5
       DEF Next, TenPastOne, Midnight, Construct, OpenFirst, Log,
           OpenOfDay, Grow, MakeSource, Reopen, Open, vars, diskVars
<1> QED
  BY <1>1, <1>2, TypeInvHolds, PlaceInvHolds, PTL DEF Spec

-----------------------------------------------------------------------------
(* The size of a file.                                                      *)

Held(n) == Cardinality(text[n])

LEMMA HeldIsANumber ==
  ASSUME ValueTypes, DiskTypes, NEW n \in Names
  PROVE  IsFiniteSet(text[n]) /\ Held(n) \in Nat
<1>1. IsFiniteSet(1 .. messages) /\ text[n] \in SUBSET (1 .. messages)
  BY FS_Interval DEF ValueTypes, DiskTypes
<1> QED
  BY <1>1, FS_Subset, FS_CardinalityType DEF Held

LEMMA NothingHeld == ASSUME NEW n, text[n] = {} PROVE Held(n) = 0
BY FS_EmptySet DEF Held

\* The file the sink is in holds what was counted since it was opened and what
\* failures left in it; while midnight finds the sink at rest, the file of a new
\* day is not there before the sink opens it.
SizeParts ==
  /\ \A n \in Names : Held(n) <= MaxSize * faults + MaxSize
  /\ pc \in {"idle", "due"} /\ fileName[1] < day => <<day, 0>> \notin files
  /\ pc \in {"idle", "due", "first", "grow"} =>
       Held(fileName) <= MaxSize * faults + currentSize
  /\ pc = "write" => Held(fileName) < MaxSize * faults + currentSize
  /\ pc = "reopen" => text[fileName] = {}
  /\ pc = "due" => fileName[1] = day - 1

SizeInv == smooth => SizeParts

\* What a step does that leaves the contents of the files alone.
LEMMA SameText ==
  ASSUME text' = text PROVE \A n : Held(n)' = Held(n) /\ text'[n] = text[n]
BY DEF Held

\* What Move leaves in the files is in them before, or in the one moved from.
LEMMA MovedText ==
  ASSUME ValueTypes, DiskTypes, LoopInv, Move
  PROVE  \A n \in Names : text'[n] \in {text[n], text[source], {}}
<1>1. <<day, index>> \in Names /\ source \in Names
  BY DEF Move, ValueTypes, LoopInv, Names
<1> QED
  BY <1>1 DEF Move, Moved, Removed, DiskTypes, diskVars

\* SizeInv is inductive.
LEMMA SizeInvHolds == Spec => []SizeInv
<1> USE SinkSizesAssumption, SinkBoundsAssumption, NoFileIsNoName
<1>1. Init => SizeInv
  <2> SUFFICES ASSUME Init PROVE SizeInv
    OBVIOUS
  <2>1. \A n \in Names : Held(n) = 0
    BY NothingHeld DEF Init
  <2>2. MaxSize * faults = 0
    BY DEF Init
  <2> QED
    BY <2>1, <2>2 DEF Init, SizeInv, SizeParts
<1>2. TypeInv /\ BudgetInv /\ ShelterInv /\ PlaceInv /\ SizeInv /\ [Next]_vars
        => SizeInv'
  <2> SUFFICES ASSUME ValueTypes, LoopInv, FlagTypes, DiskTypes, BudgetInv,
                      ShelterInv, PlaceInv, SizeInv, [Next]_vars
               PROVE  SizeInv'
    BY DEF TypeInv
  <2> SUFFICES ASSUME smooth' PROVE SizeParts'
    BY DEF SizeInv
  <2>0. /\ day \in Nat
        /\ \A n \in Names : n[1] \in Nat /\ Held(n) \in Nat
        /\ MaxSize * faults \in Nat
        /\ MaxSize * (faults + 1) = MaxSize * faults + MaxSize
    BY FaultPays, HeldIsANumber DEF ValueTypes, Days, Names
  <2>1. CASE TenPastOne
    BY <2>1, SameText DEF TenPastOne, diskVars, fdVars, history, SizeInv, SizeParts
  <2>2. CASE Midnight
    <3>1. \A n : n[1] = day + 1 => n \notin files
      BY <2>0 DEF PlaceInv
    <3>2. <<day + 1, 0>>[1] = day + 1
      OBVIOUS
    <3>3. smooth /\ pc \in {"down", "idle"}
      BY <2>2 DEF Midnight
    <3> QED
      BY <2>2, <3>1, <3>2, <3>3, SameText DEF Midnight, diskVars, fdVars, SizeInv, SizeParts
  <2>3. CASE Stop
    <3>1. \A m \in Names : text'[m] = text[m] \/ text'[m] = {}
      BY <2>3 DEF Stop, Removed, diskVars, DiskTypes
    <3>2. \A m \in Names : Held(m)' <= Held(m) /\ Held(m)' \in Nat
      <4> SUFFICES ASSUME NEW m \in Names
                   PROVE  Held(m)' <= Held(m) /\ Held(m)' \in Nat
        OBVIOUS
      <4>1. CASE text'[m] = text[m]
        BY <2>0, <4>1 DEF Held
      <4>2. CASE text'[m] = {}
        BY <2>0, <4>2, FS_EmptySet DEF Held
      <4> QED
        BY <3>1, <4>1, <4>2
    <3>3. smooth /\ faults' = faults /\ pc' = "down"
      BY <2>3 DEF Stop
    <3> QED
      BY <2>0, <3>2, <3>3 DEF SizeInv, SizeParts
  <2>4. ASSUME NEW n \in Names, Archive(n) PROVE SizeParts'
    <3>1. \A m \in Names : text'[m] = text[m] \/ text'[m] = {}
      BY <2>4 DEF Archive, Removed, DiskTypes
    <3>2. \A m \in Names : Held(m)' <= Held(m) /\ Held(m)' \in Nat
      <4> SUFFICES ASSUME NEW m \in Names
                   PROVE  Held(m)' <= Held(m) /\ Held(m)' \in Nat
        OBVIOUS
      <4>1. CASE text'[m] = text[m]
        BY <2>0, <4>1 DEF Held
      <4>2. CASE text'[m] = {}
        BY <2>0, <4>2, FS_EmptySet DEF Held
      <4> QED
        BY <3>1, <4>1, <4>2
    <3>3. UNCHANGED <<clockVars, fileName, currentSize, pc, history>>
          /\ files' \subseteq files
      BY <2>4 DEF Archive, Removed
    <3>4. pc \in {"idle", "due", "first", "grow", "write", "reopen"}
            => fileName \in Names
      BY DEF LoopInv
    <3>5. pc = "reopen" => text'[fileName] = {}
      BY <3>1, <3>3, <3>4 DEF SizeInv, SizeParts, history
    <3>6. \A m \in Names : Held(m)' <= MaxSize * faults + MaxSize
      BY <2>0, <3>2, <3>3 DEF SizeInv, SizeParts, history
    <3>7. pc \in {"idle", "due", "first", "grow"} =>
            Held(fileName)' <= MaxSize * faults + currentSize
      BY <2>0, <3>2, <3>3, <3>4 DEF SizeInv, SizeParts, history, ValueTypes
    <3>8. pc = "write" => Held(fileName)' < MaxSize * faults + currentSize
      BY <2>0, <3>2, <3>3, <3>4 DEF SizeInv, SizeParts, history, ValueTypes
    <3> QED
      BY <3>3, <3>5, <3>6, <3>7, <3>8 DEF SizeInv, SizeParts, history, clockVars
  <2>5. CASE Construct
    <3>1. <<day, 0>> \notin files => Held(<<day, 0>>) = 0
      BY FirstOfDay, NothingHeld DEF ValueTypes, PlaceInv
    <3> QED
      BY <2>0, <2>5, <3>1, SameText
         DEF Construct, clockVars, diskVars, history, SizeInv, SizeParts, ValueTypes
  <2>6. CASE OpenFirst
    <3>1. /\ fileName \in Names /\ fileName' = fileName /\ currentSize = 0
          /\ fileName[1] = day /\ pc' = "idle" /\ smooth
      BY <2>6 DEF OpenFirst, Open, LoopInv, BudgetInv, ShelterInv
    <3>2. faults' = faults \/ faults' = faults + 1
      BY <2>6 DEF OpenFirst, Open, Fail
    <3>3. text' = text /\ UNCHANGED <<day, currentSize>>
      BY <2>6 DEF OpenFirst, Open, clockVars
    <3>4. MaxSize * faults <= MaxSize * faults'
      BY <2>0, <3>2
    <3>5. MaxSize * faults' \in Nat
      BY <2>0, <3>2
    <3> QED
      <4>1. \A n \in Names : Held(n)' <= MaxSize * faults' + MaxSize
        BY <2>0, <3>1, <3>3, <3>4, <3>5, SameText DEF SizeInv, SizeParts
      <4>2. Held(fileName)' <= MaxSize * faults' + currentSize'
        BY <2>0, <2>6, <3>1, <3>3, <3>4, <3>5, SameText
           DEF OpenFirst, SizeInv, SizeParts
      <4> QED
        BY <2>0, <3>1, <3>3, <4>1, <4>2 DEF SizeParts
  <2>7. CASE Log
    <3>1. smooth /\ fileName \in Names
      BY <2>7 DEF Log, LoopInv, history
    <3>2. pc' = "due" => fileName[1] = day - 1
      BY <2>0, <2>7, <3>1 DEF Log, ShelterInv
    <3> QED
      BY <2>0, <2>7, <3>1, <3>2, SameText
         DEF Log, clockVars, diskVars, fdVars, history, SizeInv, SizeParts
  <2>8. CASE OpenOfDay
    <3>1. <<day, 0>> \in Names /\ <<day, 0>> \notin files /\ smooth
      BY <2>0, <2>8, FirstOfDay DEF OpenOfDay, SizeInv, SizeParts, ValueTypes
    <3>2. Held(<<day, 0>>) = 0
      BY <3>1, NothingHeld DEF PlaceInv
    <3>3. faults' = faults \/ faults' = faults + 1
      BY <2>8 DEF OpenOfDay, Open, Fail
    <3>4. /\ text' = text /\ fileName' = <<day, 0>> /\ currentSize' = 0
          /\ pc' = "grow"
      BY <2>8 DEF OpenOfDay, Open
    <3>5. MaxSize * faults <= MaxSize * faults' /\ MaxSize * faults' \in Nat
      BY <2>0, <3>3
    <3> QED
      BY <2>0, <3>1, <3>2, <3>4, <3>5, SameText DEF SizeInv, SizeParts
  <2>9. CASE Grow
    <3>1. fileName' = fileName /\ fileName \in Names /\ smooth
      BY <2>9 DEF Grow, Close, fdVars, history, LoopInv
    <3> QED
      BY <2>0, <2>9, <3>1, SameText
         DEF Grow, clockVars, diskVars, history, SizeInv, SizeParts, ValueTypes
  <2>10. CASE MakeSource
    BY <2>10, SameText
       DEF MakeSource, clockVars, diskVars, fdVars, history, SizeInv, SizeParts
  <2>11. CASE Move
    <3>1. /\ <<day, index>> \in Names /\ source = <<day, index - 1>>
          /\ source \in Names /\ smooth /\ index \in 1 .. MaxFiles
          /\ fileName \in Names
      BY <2>11 DEF Move, ValueTypes, LoopInv, Names, PlaceInv
    <3>2. \A n \in Names : Held(n)' \in {Held(n), Held(source), 0}
      BY <2>11, MovedText, FS_EmptySet DEF Held
    <3>3. faults' = faults \/ faults' = faults + 1
      BY <2>11 DEF Move, Fail
    <3>4. MaxSize * faults <= MaxSize * faults' /\ MaxSize * faults' \in Nat
      BY <2>0, <3>3
    <3>5. \A n \in Names : Held(n)' <= MaxSize * faults + MaxSize
      BY <2>0, <3>1, <3>2 DEF SizeInv, SizeParts
    <3>6. /\ UNCHANGED <<day, fileName, currentSize, smooth>>
          /\ pc' \in {"source", "first", "reopen", "idle"}
      BY <2>11 DEF Move, RotationFails, clockVars, fdVars
    <3>7. fileName[1] = day /\ fileName = <<day, 0>>
      BY <2>11, <3>1 DEF Move, ShelterInv, PlaceInv, Names
    <3>8. CASE faults' = faults
      <4>1. pc' \in {"first", "reopen"} => source = <<day, 0>> /\ index = 1
        BY <2>0, <2>11, <3>1, <3>8 DEF Move, Fail, ValueTypes
      <4>2. pc' \in {"first", "reopen"} => text'[fileName] = {}
        <5>1. Moved(<<day, index>>)
          BY <2>0, <2>11, <3>8 DEF Move, Fail, ValueTypes
        <5>2. <<day, 1>> # <<day, 0>>
          OBVIOUS
        <5> QED
          BY <3>1, <3>7, <4>1, <5>1, <5>2 DEF Moved, DiskTypes, PlaceInv
      <4>3. pc' \in {"first", "reopen"} => Held(fileName)' = 0
        BY <4>2, <3>6, FS_EmptySet DEF Held
      <4>4. pc' # "idle"
        BY <2>0, <2>11, <3>8 DEF Move, Fail, ValueTypes
      <4> QED
        BY <2>0, <3>5, <3>6, <3>8, <4>2, <4>3, <4>4 DEF SizeInv, SizeParts, ValueTypes
    <3>9. CASE faults' = faults + 1
      <4>1. pc' \in {"first", "idle"}
        BY <2>0, <2>11, <3>9 DEF Move, RotationFails, ValueTypes
      <4>2. Held(fileName)' <= MaxSize * faults'
        BY <2>0, <3>1, <3>5, <3>6, <3>9
      <4> QED
        <5>1. Held(fileName)' <= MaxSize * faults' + currentSize'
          BY <2>0, <3>1, <3>2, <3>4, <3>6, <4>2 DEF ValueTypes
        <5>2. \A n \in Names : Held(n)' <= MaxSize * faults' + MaxSize
          BY <2>0, <3>1, <3>2, <3>4, <3>5
        <5> QED
          BY <2>0, <3>6, <3>7, <4>1, <5>1, <5>2 DEF SizeParts
    <3> QED
      BY <3>3, <3>8, <3>9
  <2>12. CASE Reopen
    <3>1. /\ fileName \in Names /\ fileName' = fileName /\ smooth
          /\ text[fileName] = {} /\ fileName[1] = day
      BY <2>12 DEF Reopen, Open, LoopInv, SizeInv, SizeParts, ShelterInv
    <3>2. faults' = faults \/ faults' = faults + 1
      BY <2>12 DEF Reopen, Open, Fail
    <3>3. text' = text /\ UNCHANGED day /\ Held(fileName) = 0
      BY <2>12, <3>1, NothingHeld DEF Reopen, Open, clockVars
    <3>4. MaxSize * faults <= MaxSize * faults' /\ MaxSize * faults' \in Nat
      BY <2>0, <3>2
    <3>5. \/ pc' = "write" /\ currentSize' = 1
          \/ pc' = "idle" /\ currentSize' = currentSize
      BY <2>12 DEF Reopen
    <3> QED
      BY <2>0, <3>1, <3>3, <3>4, <3>5, SameText DEF SizeInv, SizeParts, ValueTypes
  <2>13. CASE Write
    <3>1. fileName \in Names /\ smooth /\ fileName[1] = day
          /\ currentSize \in 1 .. MaxSize
      BY <2>13 DEF Write, LoopInv, ShelterInv, BudgetInv
    <3>2. /\ fileName' = fileName /\ currentSize' = currentSize /\ day' = day
          /\ pc' = "idle"
      BY <2>13 DEF Write, fdVars, clockVars
    <3>3. faults' = faults \/ faults' = faults + 1
      BY <2>13 DEF Write, Fail
    <3>4. MaxSize * faults <= MaxSize * faults' /\ MaxSize * faults' \in Nat
      BY <2>0, <3>3
    <3>5. /\ \A n \in Names : n # fileName => text'[n] = text[n]
          /\ text'[fileName] \in {text[fileName],
                                  text[fileName] \cup {messages}}
      BY <2>13, <3>1 DEF Write, ShelterInv, DiskTypes
    <3>6. \A n \in Names : n # fileName => Held(n)' = Held(n)
      BY <3>5 DEF Held
    <3>7. Held(fileName)' \in {Held(fileName), Held(fileName) + 1}
      <4>1. CASE text'[fileName] = text[fileName]
        BY <3>2, <4>1 DEF Held
      <4>2. CASE text'[fileName] = text[fileName] \cup {messages}
        <5>1. IsFiniteSet(text[fileName])
          BY <3>1, HeldIsANumber
        <5>2. Cardinality(text[fileName] \cup {messages})
                \in {Held(fileName), Held(fileName) + 1}
          BY <5>1, FS_AddElement DEF Held
        <5> QED
          BY <3>2, <4>2, <5>2 DEF Held
      <4> QED
        BY <3>5, <4>1, <4>2
    <3>8. Held(fileName)' <= MaxSize * faults + currentSize
      BY <2>0, <2>13, <3>1, <3>7 DEF SizeInv, SizeParts, Write
    <3>9. \A n \in Names : Held(n)' <= MaxSize * faults + MaxSize
      <4>1. Held(fileName)' <= MaxSize * faults + MaxSize
        BY <2>0, <3>1, <3>7, <3>8
      <4> QED
        BY <3>2, <3>6, <4>1, <3>1 DEF SizeInv, SizeParts
    <3>10. Held(fileName)' \in Nat
      BY <2>0, <3>1, <3>7
    <3>11. \A n \in Names : Held(n)' \in Nat
      BY <2>0, <3>2, <3>6, <3>10
    <3> QED
      BY <2>0, <3>1, <3>2, <3>4, <3>8, <3>9, <3>10, <3>11 DEF SizeInv, SizeParts
  <2>14. CASE UNCHANGED vars
    BY <2>14, SameText DEF vars, clockVars, diskVars, fdVars, history, SizeInv, SizeParts
  <2> QED
    BY <2>1, <2>2, <2>3, <2>4, <2>5, <2>6, <2>7, <2>8, <2>9, <2>10, <2>11,
       <2>12, <2>13, <2>14 DEF Next
<1> QED
  BY <1>1, <1>2, TypeInvHolds, BudgetInvHolds, ShelterInvHolds, PlaceInvHolds,
     PTL DEF Spec

\* While midnight finds the sink at rest, no file grows beyond its size, but
\* for what each failing call of the file system may leave in it.
THEOREM FilesStayBounded == Spec => []FilesBounded
<1>1. TypeInv /\ SizeInv => FilesBounded
  <2> SUFFICES ASSUME ValueTypes, SizeInv PROVE FilesBounded
    BY DEF TypeInv
  <2>1. MaxSize * (1 + faults) = MaxSize * faults + MaxSize
    BY FaultPays DEF ValueTypes
  <2> QED
    BY <2>1 DEF SizeInv, SizeParts, FilesBounded, Held
<1> QED
  BY <1>1, TypeInvHolds, SizeInvHolds, PTL

-----------------------------------------------------------------------------
(* The gaps a rotation may leave among the files of the day.                *)

\* The indexes without a file, below one that has a file.
Gaps == {j \in 0 .. MaxFiles :
           /\ <<day, j>> \notin files
           /\ \E k \in 0 .. MaxFiles : k > j /\ <<day, k>> \in files}

\* The index the sink is about to give a file to.
Filling == IF pc \in {"source", "target"} THEN {index}
           ELSE IF pc \in {"first", "reopen"} THEN {0}
           ELSE {}

LeftGaps == Gaps \ Filling

\* Each gap is left by a fault or by a stop, and a rotation under way has
\* emptied the index it moves to.
GapParts ==
  /\ Cardinality(LeftGaps) <= faults + cuts
  /\ pc \in {"source", "target"} /\ index < MaxFiles
       => <<day, index>> \notin files

GapInv == smooth => GapParts

\* Below a file there is always a higher index.
LEMMA HighestIsNoGap == MaxFiles \notin Gaps
<1>1. \A k \in 0 .. MaxFiles : ~ (k > MaxFiles)
  BY SinkSizesAssumption
<1> QED
  BY <1>1 DEF Gaps

LEMMA GapsAreFinite == IsFiniteSet(LeftGaps) /\ Cardinality(LeftGaps) \in Nat
<1>1. IsFiniteSet(0 .. MaxFiles) /\ LeftGaps \subseteq 0 .. MaxFiles
  BY FS_Interval, SinkSizesAssumption DEF LeftGaps, Gaps
<1> QED
  BY <1>1, FS_Subset, FS_CardinalityType

\* Nothing more than one element makes a set larger by one at most; giving one
\* away for it, not at all.
LEMMA OneMore ==
  ASSUME NEW A, NEW B, IsFiniteSet(B), NEW x, A \subseteq B \cup {x}
  PROVE  /\ Cardinality(A) \in Nat
         /\ Cardinality(A) <= Cardinality(B) + 1
         /\ \A y \in B : y \notin A => Cardinality(A) <= Cardinality(B)
<1>1. ASSUME NEW S, IsFiniteSet(S), A \subseteq S \cup {x}
      PROVE  /\ Cardinality(A) \in Nat /\ Cardinality(S) \in Nat
             /\ Cardinality(A) <= Cardinality(S) + 1
  <2>1. /\ IsFiniteSet(S \cup {x}) /\ Cardinality(S) \in Nat
        /\ Cardinality(S \cup {x}) \in {Cardinality(S), Cardinality(S) + 1}
    BY <1>1, FS_AddElement, FS_CardinalityType
  <2>2. IsFiniteSet(A) /\ Cardinality(A) <= Cardinality(S \cup {x})
    BY <1>1, <2>1, FS_Subset
  <2>3. Cardinality(A) \in Nat
    BY <2>2, FS_CardinalityType
  <2> QED
    BY <2>1, <2>2, <2>3
<1>2. Cardinality(A) \in Nat /\ Cardinality(A) <= Cardinality(B) + 1
  BY <1>1
<1>3. ASSUME NEW y \in B, y \notin A PROVE Cardinality(A) <= Cardinality(B)
  <2>1. IsFiniteSet(B \ {y}) /\ Cardinality(B \ {y}) = Cardinality(B) - 1
    BY <1>3, FS_RemoveElement
  <2>2. A \subseteq (B \ {y}) \cup {x}
    BY <1>3
  <2>3. Cardinality(A) <= Cardinality(B \ {y}) + 1
    BY <1>1, <2>1, <2>2
  <2>4. Cardinality(B) \in Nat
    BY FS_CardinalityType
  <2> QED
    BY <1>2, <2>1, <2>3, <2>4
<1> QED
  BY <1>2, <1>3

LEMMA NoMore ==
  ASSUME NEW A, NEW B, IsFiniteSet(B), A \subseteq B
  PROVE  Cardinality(A) \in Nat /\ Cardinality(A) <= Cardinality(B)
BY FS_Subset, FS_CardinalityType

\* A rename that succeeds moves the gap the sink fills one index down; where
\* there was nothing to rename, a gap below becomes one above.
LEMMA RenameKeepsGaps ==
  ASSUME ValueTypes, DiskTypes, LoopInv, pc = "target", day' = day,
         source = <<day, index - 1>>, Moved(<<day, index>>),
         Filling' = {index - 1}
  PROVE  Cardinality(LeftGaps') <= Cardinality(LeftGaps)
<1> USE SinkSizesAssumption
<1>1. index \in 1 .. MaxFiles /\ Filling = {index} /\ day \in Nat
  BY DEF ValueTypes, LoopInv, Filling, Days
<1>2. \A j \in 0 .. MaxFiles :
        /\ <<day, j>> = source <=> j = index - 1
        /\ <<day, j>> = <<day, index>> <=> j = index
  BY <1>1
<1>3. CASE source \in files
  <2>1. files' = (files \ {source}) \cup {<<day, index>>}
    BY <1>3 DEF Moved
  <2>2. ASSUME NEW j \in LeftGaps' PROVE j \in LeftGaps
    <3>1. /\ j \in 0 .. MaxFiles /\ j # index - 1 /\ <<day, j>> \notin files'
          /\ \E k \in 0 .. MaxFiles : k > j /\ <<day, k>> \in files'
      BY <2>2 DEF LeftGaps, Gaps
    <3>2. j # index /\ <<day, j>> \notin files
      BY <1>1, <1>2, <2>1, <3>1
    <3>3. PICK k \in 0 .. MaxFiles : k > j /\ <<day, k>> \in files'
      BY <3>1
    <3>4. CASE k = index
      BY <1>1, <1>3, <3>1, <3>2, <3>3, <3>4 DEF LeftGaps, Gaps
    <3>5. CASE k # index
      <4>1. <<day, k>> \in files
        BY <1>2, <2>1, <3>3, <3>5
      <4> QED
        BY <1>1, <3>1, <3>2, <3>3, <4>1 DEF LeftGaps, Gaps
    <3> QED
      BY <3>4, <3>5
  <2> QED
    BY <2>2, NoMore, GapsAreFinite
<1>4. CASE source \notin files
  <2>1. files' = files \ {<<day, index>>}
    BY <1>4 DEF Moved
  <2>2. ASSUME NEW j \in LeftGaps', j # index PROVE j \in LeftGaps
    <3>1. /\ j \in 0 .. MaxFiles /\ j # index - 1 /\ <<day, j>> \notin files'
          /\ \E k \in 0 .. MaxFiles : k > j /\ <<day, k>> \in files'
      BY <2>2 DEF LeftGaps, Gaps
    <3> QED
      BY <1>1, <1>2, <2>1, <2>2, <3>1 DEF LeftGaps, Gaps
  <2>3. CASE index \notin LeftGaps'
    BY <2>2, <2>3, NoMore, GapsAreFinite
  <2>4. CASE index \in LeftGaps'
    <3>1. PICK k \in 0 .. MaxFiles : k > index /\ <<day, k>> \in files'
      BY <2>4 DEF LeftGaps, Gaps
    <3>2. index - 1 \in LeftGaps
      BY <1>1, <1>4, <2>1, <3>1 DEF LeftGaps, Gaps
    <3>3. index - 1 \notin LeftGaps'
      BY DEF LeftGaps
    <3>4. LeftGaps' \subseteq LeftGaps \cup {index}
      BY <2>2
    <3> QED
      BY <3>2, <3>3, <3>4, OneMore, GapsAreFinite
  <2> QED
    BY <2>3, <2>4
<1> QED
  BY <1>3, <1>4

\* Opening the file of the day adds no gap, and fills that of index 0.
LEMMA OpenKeepsGaps ==
  ASSUME ValueTypes, Open(<<day, 0>>), day' = day, Filling' = {}
  PROVE  /\ Gaps' \subseteq Gaps
         /\ faults' = faults => 0 \notin Gaps'
         /\ faults' = faults \/ faults' = faults + 1
<1> USE SinkSizesAssumption
<1>1. CASE files' = files \cup {<<day, 0>>} /\ faults' = faults
  <2>1. \A j \in 0 .. MaxFiles : <<day, j>> \in files' => j = 0 \/ <<day, j>> \in files
    BY <1>1
  <2> QED
    BY <1>1, <2>1 DEF Gaps
<1>2. CASE files' = files /\ faults' = faults + 1
  BY <1>2 DEF Gaps, ValueTypes
<1> QED
  BY <1>1, <1>2 DEF Open, Fail

\* GapInv is inductive.
LEMMA GapInvHolds == Spec => []GapInv
<1> USE SinkSizesAssumption, SinkBoundsAssumption, NoFileIsNoName
<1>1. Init => GapInv
  <2> SUFFICES ASSUME Init PROVE GapParts
    BY DEF GapInv
  <2>1. LeftGaps = {}
    BY DEF Init, LeftGaps, Gaps
  <2> QED
    BY <2>1, FS_EmptySet DEF Init, GapParts
<1>2. TypeInv /\ ShelterInv /\ PlaceInv /\ GapInv /\ [Next]_vars => GapInv'
  <2> SUFFICES ASSUME ValueTypes, LoopInv, FlagTypes, DiskTypes, ShelterInv,
                      PlaceInv, GapInv, [Next]_vars
               PROVE  GapInv'
    BY DEF TypeInv
  <2> SUFFICES ASSUME smooth' PROVE GapParts'
    BY DEF GapInv
  <2>0. /\ day \in Nat /\ faults \in Nat /\ cuts \in Nat
        /\ IsFiniteSet(LeftGaps) /\ Cardinality(LeftGaps) \in Nat
    BY GapsAreFinite DEF ValueTypes, Days
  <2>a. ASSUME smooth, LeftGaps' \subseteq LeftGaps,
               UNCHANGED <<faults, cuts>>
        PROVE  Cardinality(LeftGaps)' <= faults' + cuts'
    <3>1. /\ Cardinality(LeftGaps') \in Nat
          /\ Cardinality(LeftGaps') <= Cardinality(LeftGaps)
      BY <2>0, <2>a, NoMore
    <3> QED
      BY <2>0, <2>a, <3>1 DEF GapInv, GapParts
  <2>b. ASSUME smooth, NEW x, LeftGaps' \subseteq LeftGaps \cup {x},
               faults' + cuts' = faults + cuts + 1
        PROVE  Cardinality(LeftGaps)' <= faults' + cuts'
    <3>1. /\ Cardinality(LeftGaps') \in Nat
          /\ Cardinality(LeftGaps') <= Cardinality(LeftGaps) + 1
      BY <2>0, <2>b, OneMore
    <3> QED
      BY <2>0, <2>b, <3>1 DEF GapInv, GapParts
  <2>1. CASE TenPastOne
    <3>1. LeftGaps' = LeftGaps /\ smooth
      BY <2>1 DEF TenPastOne, diskVars, history, LeftGaps, Gaps, Filling
    <3> QED
      BY <2>1, <2>a, <3>1 DEF TenPastOne, diskVars, history, GapParts
  <2>2. CASE Midnight
    <3>1. day' = day + 1 /\ files' = files /\ smooth /\ pc' \in {"down", "idle"}
      BY <2>2 DEF Midnight, diskVars
    <3>2. \A n \in files : n[1] # day + 1
      BY <2>0 DEF PlaceInv, DiskTypes, Names, Days
    <3>3. \A k : <<day', k>> \notin files'
      <4>1. \A k : <<day + 1, k>>[1] = day + 1
        OBVIOUS
      <4> QED
        BY <3>1, <3>2, <4>1
    <3>4. LeftGaps' \subseteq LeftGaps
      BY <3>3 DEF LeftGaps, Gaps
    <3> QED
      BY <2>2, <2>a, <3>1, <3>4 DEF Midnight, GapParts
  <2>3. CASE Stop
    <3>1. smooth /\ Filling' = {} /\ pc' = "down"
      BY <2>3 DEF Stop, Filling
    <3>a. Gaps' \subseteq Gaps \cup Filling
      <4>1. CASE UNCHANGED diskVars
        BY <2>3, <4>1 DEF Stop, clockVars, diskVars, Gaps
      <4>2. CASE pc = "target" /\ Removed(<<day, index>>)
        BY <2>3, <4>2 DEF Stop, clockVars, Removed, Gaps, Filling
      <4> QED
        BY <2>3, <4>1, <4>2 DEF Stop
    <3>2. CASE pc \in {"idle", "due", "grow", "write"}
      <4>1. LeftGaps' \subseteq LeftGaps /\ UNCHANGED <<faults, cuts>>
        BY <2>3, <3>1, <3>2, <3>a DEF Stop, LeftGaps, Filling
      <4> QED
        BY <2>a, <3>1, <4>1 DEF GapParts
    <3>3. CASE pc \notin {"idle", "due", "grow", "write"}
      <4>1. PICK x : Filling \subseteq {x}
        BY DEF Filling
      <4>2. LeftGaps' \subseteq LeftGaps \cup {x}
        BY <3>1, <3>a, <4>1 DEF LeftGaps
      <4>3. faults' + cuts' = faults + cuts + 1
        BY <2>0, <2>3, <3>3 DEF Stop
      <4> QED
        BY <2>b, <3>1, <4>2, <4>3 DEF GapParts
    <3> QED
      BY <3>2, <3>3
  <2>4. ASSUME NEW n \in Names, Archive(n) PROVE GapParts'
    <3>1. /\ files' = files \ {n} /\ n[1] # day /\ smooth
          /\ UNCHANGED <<day, pc, index, faults, cuts>>
      BY <2>0, <2>4 DEF Archive, Removed, clockVars, history
    <3>2. \A k : <<day, k>> \in files' <=> <<day, k>> \in files
      <4>1. \A k : <<day, k>>[1] = day
        OBVIOUS
      <4> QED
        BY <3>1, <4>1
    <3>3. LeftGaps' = LeftGaps
      BY <3>1, <3>2 DEF LeftGaps, Gaps, Filling
    <3> QED
      BY <2>a, <3>1, <3>2, <3>3 DEF GapInv, GapParts
  <2>5. CASE Construct
    <3>1. /\ smooth /\ Gaps' = Gaps /\ UNCHANGED <<faults, cuts>>
          /\ pc = "down" /\ (pc' = "source" => index' = MaxFiles)
          /\ pc' \in {"source", "first"}
      BY <2>5 DEF Construct, clockVars, diskVars, history, Gaps
    <3>2. LeftGaps' \subseteq LeftGaps
      BY <3>1 DEF LeftGaps, Filling
    <3> QED
      BY <2>a, <3>1, <3>2 DEF GapParts
  <2>6. CASE OpenFirst
    <3>1. fileName = <<day, 0>> /\ smooth
      BY <2>6 DEF OpenFirst, ShelterInv, PlaceInv, LoopInv, Names
    <3>2. /\ Open(<<day, 0>>) /\ pc' = "idle" /\ Filling = {0}
          /\ Filling' = {} /\ UNCHANGED <<day, cuts>>
      BY <2>6, <3>1 DEF OpenFirst, clockVars, Filling
    <3>3. CASE faults' = faults
      BY <2>a, <3>1, <3>2, <3>3, OpenKeepsGaps DEF LeftGaps, GapParts
    <3>4. CASE faults' = faults + 1
      <4>1. LeftGaps' \subseteq LeftGaps \cup {0}
        BY <3>2, OpenKeepsGaps DEF LeftGaps
      <4> QED
        BY <2>0, <2>b, <3>1, <3>2, <3>4, <4>1 DEF GapParts
    <3> QED
      BY <3>2, <3>3, <3>4, OpenKeepsGaps
  <2>7. CASE Log
    <3>1. LeftGaps' = LeftGaps /\ smooth
      BY <2>7 DEF Log, clockVars, diskVars, history, LeftGaps, Gaps, Filling
    <3> QED
      BY <2>7, <2>a, <3>1 DEF Log, history, GapParts
  <2>8. CASE OpenOfDay
    <3>1. /\ Open(<<day, 0>>) /\ pc' = "grow" /\ Filling = {} /\ smooth
          /\ Filling' = {} /\ UNCHANGED <<day, cuts>>
      BY <2>8 DEF OpenOfDay, clockVars, Filling
    <3>2. LeftGaps' \subseteq LeftGaps
      BY <3>1, OpenKeepsGaps DEF LeftGaps
    <3>3. Cardinality(LeftGaps)' <= faults' + cuts'
      BY <2>0, <2>a, <2>b, <3>1, <3>2, OpenKeepsGaps
    <3> QED
      BY <3>1, <3>3 DEF GapParts
  <2>9. CASE Grow
    <3>1. /\ smooth /\ Gaps' = Gaps /\ UNCHANGED <<faults, cuts>>
          /\ pc = "grow" /\ (pc' = "source" => index' = MaxFiles)
          /\ pc' \in {"source", "write"}
      BY <2>9 DEF Grow, clockVars, diskVars, history, Gaps
    <3>2. LeftGaps' \subseteq LeftGaps
      BY <3>1, HighestIsNoGap DEF LeftGaps, Filling
    <3> QED
      BY <2>a, <3>1, <3>2 DEF GapParts
  <2>10. CASE MakeSource
    <3>1. LeftGaps' = LeftGaps /\ smooth
      BY <2>10
         DEF MakeSource, clockVars, diskVars, history, LeftGaps, Gaps, Filling
    <3> QED
      BY <2>10, <2>a, <3>1
         DEF MakeSource, clockVars, diskVars, history, GapInv, GapParts
  <2>11. CASE Move
    <3>1. /\ smooth /\ pc = "target" /\ UNCHANGED <<day, cuts>>
          /\ source = <<day, index - 1>> /\ Filling = {index}
          /\ index \in 1 .. MaxFiles
      BY <2>11 DEF Move, clockVars, PlaceInv, Filling, ValueTypes, LoopInv
    <3>2. CASE /\ Moved(<<day, index>>) /\ faults' = faults
               /\ index' = index - 1
               /\ pc' \in {"source", "first", "reopen"}
               /\ pc' # "source" => index = 1
      <4>1. Filling' = {index - 1}
        BY <3>1, <3>2 DEF Filling
      <4>2. Cardinality(LeftGaps)' <= faults' + cuts'
        <5>1. Cardinality(LeftGaps') <= Cardinality(LeftGaps)
          BY <3>1, <3>2, <4>1, RenameKeepsGaps
        <5>2. Cardinality(LeftGaps') \in Nat
          <6>1. IsFiniteSet(0 .. MaxFiles) /\ LeftGaps' \subseteq 0 .. MaxFiles
            BY FS_Interval DEF LeftGaps, Gaps
          <6> QED
            BY <6>1, FS_Subset, FS_CardinalityType
        <5> QED
          BY <2>0, <3>1, <3>2, <5>1, <5>2 DEF GapInv, GapParts
      <4>3. <<day, index - 1>> \notin files'
        BY <3>1, <3>2 DEF Moved
      <4> QED
        BY <3>1, <3>2, <4>2, <4>3 DEF GapParts
    <3>3. CASE /\ faults' = faults + 1 /\ pc' \in {"first", "idle"}
               /\ files' = files \/ files' = files \ {<<day, index>>}
      <4>1. LeftGaps' \subseteq LeftGaps \cup {index}
        BY <3>1, <3>3 DEF LeftGaps, Gaps
      <4> QED
        BY <2>0, <2>b, <3>1, <3>3, <4>1 DEF GapParts
    <3> QED
      BY <2>0, <2>11, <3>1, <3>2, <3>3
         DEF Move, Fail, RotationFails, Removed, diskVars, ValueTypes
  <2>12. CASE Reopen
    <3>1. fileName = <<day, 0>> /\ smooth
      BY <2>12 DEF Reopen, ShelterInv, PlaceInv, LoopInv, Names
    <3>2. /\ Open(<<day, 0>>) /\ pc' \in {"idle", "write"} /\ Filling = {0}
          /\ Filling' = {} /\ UNCHANGED <<day, cuts>>
      BY <2>12, <3>1 DEF Reopen, clockVars, Filling
    <3>3. CASE faults' = faults
      BY <2>a, <3>1, <3>2, <3>3, OpenKeepsGaps DEF LeftGaps, GapParts
    <3>4. CASE faults' = faults + 1
      <4>1. LeftGaps' \subseteq LeftGaps \cup {0}
        BY <3>2, OpenKeepsGaps DEF LeftGaps
      <4> QED
        BY <2>0, <2>b, <3>1, <3>2, <3>4, <4>1 DEF GapParts
    <3> QED
      BY <3>2, <3>3, <3>4, OpenKeepsGaps
  <2>13. CASE Write
    <3>1. LeftGaps' = LeftGaps /\ smooth /\ pc' = "idle"
      BY <2>13 DEF Write, clockVars, LeftGaps, Gaps, Filling
    <3>2. cuts' = cuts /\ (faults' = faults \/ faults' = faults + 1)
      BY <2>13 DEF Write, Fail
    <3> QED
      BY <2>0, <2>a, <2>b, <3>1, <3>2 DEF GapParts
  <2>14. CASE UNCHANGED vars
    <3>1. LeftGaps' = LeftGaps /\ smooth
      BY <2>14 DEF vars, clockVars, diskVars, history, LeftGaps, Gaps, Filling
    <3> QED
      BY <2>14, <2>a, <3>1
         DEF vars, clockVars, diskVars, history, GapInv, GapParts
  <2> QED
    BY <2>1, <2>2, <2>3, <2>4, <2>5, <2>6, <2>7, <2>8, <2>9, <2>10, <2>11,
       <2>12, <2>13, <2>14 DEF Next
<1> QED
  BY <1>1, <1>2, TypeInvHolds, ShelterInvHolds, PlaceInvHolds, PTL DEF Spec

\* All the indexes below a file have a file themselves or are gaps.
LEMMA NewerFilesAndGaps ==
  ASSUME ValueTypes, DiskTypes, <<day, MaxFiles>> \in files
  PROVE  /\ Cardinality(NewerFiles(<<day, MaxFiles>>)) \in Nat
         /\ Cardinality(Gaps) \in Nat
         /\ MaxFiles = Cardinality(NewerFiles(<<day, MaxFiles>>))
                         + Cardinality(Gaps)
<1> USE SinkSizesAssumption
<1> DEFINE Below == 0 .. MaxFiles - 1
           Full == {j \in Below : <<day, j>> \in files}
           Newer == NewerFiles(<<day, MaxFiles>>)
           name == [j \in Full |-> <<day, j>>]
<1>1. IsFiniteSet(Below) /\ Cardinality(Below) = MaxFiles
  BY FS_Interval
<1>2. Below = Full \cup Gaps /\ Full \cap Gaps = {}
  <2>1. \A j \in Below : j \in 0 .. MaxFiles /\ MaxFiles > j
    OBVIOUS
  <2>2. MaxFiles \in 0 .. MaxFiles
    OBVIOUS
  <2>3. \A j \in Gaps : j \in Below /\ <<day, j>> \notin files
    BY DEF Gaps
  <2>4. \A j \in Below : <<day, j>> \notin files => j \in Gaps
    BY <2>1, <2>2 DEF Gaps
  <2> QED
    BY <2>3, <2>4
<1>3. IsFiniteSet(Full) /\ IsFiniteSet(Gaps)
  BY <1>1, <1>2, FS_Subset
<1>4. Cardinality(Below) = Cardinality(Full) + Cardinality(Gaps)
  <2>1. Cardinality(Full \cap Gaps) = 0
    BY <1>2, FS_EmptySet
  <2>2. Cardinality(Full) \in Nat /\ Cardinality(Gaps) \in Nat
    BY <1>3, FS_CardinalityType
  <2>3. Cardinality(Full \cup Gaps)
          = Cardinality(Full) + Cardinality(Gaps) - Cardinality(Full \cap Gaps)
    BY <1>3, FS_Union
  <2>4. Cardinality(Below) = Cardinality(Full \cup Gaps)
    BY <1>2
  <2> HIDE DEF Full, Below
  <2> QED
    BY <2>1, <2>2, <2>3, <2>4
<1>5. Newer = {<<day, j>> : j \in Full}
  <2>1. ASSUME NEW m \in Newer PROVE m[2] \in Full /\ m = <<day, m[2]>>
    <3>1. m \in Days \X (0 .. MaxFiles) /\ m \in files /\ m[1] = day
          /\ m[2] < MaxFiles
      BY DEF NewerFiles, DiskTypes, Names
    <3> QED
      BY <3>1
  <2>2. ASSUME NEW j \in Full PROVE <<day, j>> \in Newer
    <3>1. <<day, j>>[1] = day /\ <<day, j>>[2] = j /\ j < MaxFiles
      OBVIOUS
    <3> QED
      BY <3>1 DEF NewerFiles
  <2> QED
    BY <2>1, <2>2
<1>6. name \in Bijection(Full, Newer)
  <2>1. name \in [Full -> Newer]
    BY <1>5
  <2>2. name \in Surjection(Full, Newer)
    BY <1>5, <2>1 DEF Surjection
  <2>3. name \in Injection(Full, Newer)
    BY <2>1 DEF Injection, IsInjective
  <2> QED
    BY <2>2, <2>3 DEF Bijection
<1>7. Cardinality(Newer) = Cardinality(Full)
  BY <1>3, <1>6, FS_Bijection DEF ExistsBijection
<1>8. Cardinality(Full) \in Nat /\ Cardinality(Gaps) \in Nat
  BY <1>3, FS_CardinalityType
<1> HIDE DEF Full, Below, Newer
<1>9. MaxFiles = Cardinality(Newer) + Cardinality(Gaps)
  BY <1>1, <1>4, <1>7
<1> QED
  BY <1>7, <1>8, <1>9 DEF Newer

\* While midnight finds the sink at rest, a message leaves the log directory by
\* the script or because MaxFiles newer files of its day stay, but for one for
\* each rotation that failed or was cut short.
THEOREM RotationKeepsNewerFiles == Spec => RotationKeepsMaxFiles
<1> USE SinkSizesAssumption
<1> DEFINE Kept(n) ==
      smooth /\ text[n] # {} /\ (\A m \in Names : ~ text[n] \subseteq text'[m])
        => \/ \E m \in Names : Archive(m)
           \/ Cardinality(NewerFiles(n)) >= MaxFiles - (faults + cuts)
<1>1. TypeInv /\ PlaceInv /\ GapInv /\ [Next]_vars => \A n \in Names : Kept(n)
  <2> SUFFICES ASSUME ValueTypes, DiskTypes, LoopInv, PlaceInv, GapInv,
                      [Next]_vars, NEW n \in Names, smooth, text[n] # {},
                      \A m \in Names : ~ text[n] \subseteq text'[m]
               PROVE  \/ \E m \in Names : Archive(m)
                      \/ Cardinality(NewerFiles(n)) >= MaxFiles - (faults + cuts)
    BY DEF TypeInv
  <2>1. text'[n] # text[n]
    OBVIOUS
  <2>2. CASE Move \/ (Stop /\ pc = "target" /\ Removed(<<day, index>>))
    <3>0. pc = "target"
      BY <2>2 DEF Move
    <3>1. /\ pc = "target" /\ source = <<day, index - 1>>
          /\ index \in 1 .. MaxFiles
          /\ source \in Names /\ <<day, index>> \in Names
      BY <3>0 DEF ValueTypes, LoopInv, PlaceInv, Names
    <3>2. n = <<day, index>>
      <4>1. ASSUME n # <<day, index>> PROVE FALSE
        <5>1. \/ n = source /\ source \in files /\ text'[<<day, index>>] = text[n]
              \/ text'[n] = text[n]
          BY <2>2, <3>1, <4>1 DEF Move, Moved, Removed, diskVars, DiskTypes
        <5> QED
          BY <2>1, <3>1, <5>1
      <4> QED
        BY <4>1
    <3>3. n \in files
      BY DEF PlaceInv
    <3>4. index = MaxFiles
      BY <3>1, <3>2, <3>3 DEF GapInv, GapParts
    <3>5. LeftGaps = Gaps
      BY <3>1, <3>4, HighestIsNoGap DEF LeftGaps, Filling
    <3>6. Cardinality(Gaps) <= faults + cuts
      BY <3>5 DEF GapInv, GapParts
    <3>7. /\ Cardinality(NewerFiles(n)) \in Nat /\ Cardinality(Gaps) \in Nat
          /\ MaxFiles = Cardinality(NewerFiles(n)) + Cardinality(Gaps)
      BY <3>2, <3>3, <3>4, NewerFilesAndGaps
    <3>8. faults \in Nat /\ cuts \in Nat
      BY DEF ValueTypes
    <3> QED
      BY <3>6, <3>7, <3>8
  <2>3. CASE Write
    BY <2>3 DEF Write, DiskTypes, ValueTypes
  <2> QED
    BY <2>1, <2>2, <2>3
       DEF Next, TenPastOne, Midnight, Stop, Construct, OpenFirst, Log,
           OpenOfDay, Grow, MakeSource, Reopen, Open, vars, diskVars
<1> QED
  BY <1>1, TypeInvHolds, PlaceInvHolds, GapInvHolds, PTL
     DEF Spec, RotationKeepsMaxFiles

=============================================================================
