--------------------------- MODULE LibraryProofs ---------------------------
(***************************************************************************)
(* What the parts of the library keep, for every number of threads, size   *)
(* and value: the version file is never lost to a crash, the Mongo pools   *)
(* are shared and complete, the pages of a result come in order, the       *)
(* circular buffer is a queue, a range of dates lists every day, and a     *)
(* byte survives its two hex digits.                                       *)
(***************************************************************************)
EXTENDS CassPaging, MongoHelper, CircularBuffer, VersionFile, Calendar,
        FiniteSetTheorems, SequenceTheorems, TLAPS

-----------------------------------------------------------------------------
(* The version file. *)

VersionTyped ==
  /\ faults \in Nat
  /\ at \in {"idle", "parsed", "open", "copy", "remove", "rename"}
  /\ file \in [there : BOOLEAN, values : Seq(Nat)]
  /\ backup \in [there : BOOLEAN, values : Seq(Nat)]
  /\ memory \in Seq(Nat) /\ before \in Seq(Nat) /\ after \in Seq(Nat)

\* Where the tool is says what both files hold; the last part while no call
\* fails.
Reading == at = "parsed" => file.there /\ memory = file.values
Writing ==
  at \in {"open", "copy"} =>
    /\ file.there /\ file.values = before
    /\ memory = after /\ Len(after) = Len(before)
Copying ==
  at = "copy" =>
    /\ backup.there /\ Len(backup.values) <= Len(after)
    /\ \A i \in 1 .. Len(backup.values) : backup.values[i] = after[i]
Replacing ==
  /\ at \in {"remove", "rename"} => backup.there /\ backup.values = after
  /\ at = "remove" => file.there

VersionInv ==
  /\ VersionTyped
  /\ Reading /\ Writing /\ Copying
  /\ faults = 0 => Replacing
  /\ VersionSurvives

LEMMA VersionStart == VersionInit => VersionInv
<1> SUFFICES ASSUME VersionInit PROVE VersionInv
  OBVIOUS
<1>1. file \in [there : BOOLEAN, values : Seq(Nat)] /\ file.there
  BY VersionAssumption DEF VersionInit, Holding
<1>2. backup \in [there : BOOLEAN, values : Seq(Nat)]
  BY DEF VersionInit, NoFile
<1> QED
  BY <1>1, <1>2 DEF VersionInit, VersionInv, VersionTyped, Reading, Writing,
     Copying, Replacing, VersionSurvives

LEMMA VersionStep == VersionInv /\ [VersionNext]_versionVars => VersionInv'
<1> SUFFICES ASSUME VersionInv, [VersionNext]_versionVars PROVE VersionInv'
  OBVIOUS
<1> USE DEF VersionInv, Reading, Writing, Copying, Replacing, VersionSurvives
<1>1. CASE Parse
  BY <1>1 DEF Parse, VersionTyped, diskVars
<1>2. ASSUME NEW v \in Seq(Nat), at = "parsed", Len(v) = Len(memory), Begin(v)
      PROVE  VersionInv'
  BY <1>2 DEF Begin, VersionTyped, diskVars
<1>3. CASE AutoVersion
  <2>1. [memory EXCEPT ![Len(memory)] = @ + 1] \in Seq(Nat)
        /\ Len([memory EXCEPT ![Len(memory)] = @ + 1]) = Len(memory)
    <3>1. memory # <<>> /\ memory \in Seq(Nat)
      BY <1>3 DEF AutoVersion, VersionTyped
    <3>2. Len(memory) \in 1 .. Len(memory) /\ memory[Len(memory)] + 1 \in Nat
      BY <3>1
    <3> QED BY <3>1, <3>2
  <2> QED BY <1>2, <1>3, <2>1 DEF AutoVersion
<1>4. ASSUME NEW v \in Forced, ForceVersion(v) PROVE VersionInv'
  BY <1>2, <1>4, VersionAssumption DEF ForceVersion
<1>5. CASE ShowOnly
  BY <1>5 DEF ShowOnly, VersionTyped, diskVars
<1>6. CASE OpenFiles
  BY <1>6 DEF OpenFiles, VersionTyped, Holding
<1>7. CASE OpenFails
  <2>1. /\ at' = "remove" /\ faults' = faults + 1
        /\ UNCHANGED <<file, memory, before, after>>
    BY <1>7 DEF OpenFails, Fault
  <2>2. backup' \in [there : BOOLEAN, values : Seq(Nat)]
    <3>1. Holding(<<>>) \in [there : BOOLEAN, values : Seq(Nat)]
      BY DEF Holding
    <3> QED BY <1>7, <3>1 DEF OpenFails, VersionTyped
  <2> QED BY <2>1, <2>2 DEF VersionTyped
<1>8. CASE Copy
  <2>1. CASE Len(backup.values) < Len(file.values)
    <3> DEFINE w == memory[Len(backup.values) + 1]
               b == Append(backup.values, w)
    <3>1. at = "copy" /\ at' = "copy" /\ backup' = [backup EXCEPT !.values = b]
          /\ UNCHANGED <<file, memory, before, after, faults>>
      BY <1>8, <2>1 DEF Copy
    <3>2. /\ memory \in Seq(Nat) /\ after \in Seq(Nat)
          /\ Len(backup.values) + 1 \in 1 .. Len(after) /\ memory = after
          /\ backup.values \in Seq(Nat)
      BY <2>1, <3>1 DEF VersionTyped
    <3>3. b \in Seq(Nat) /\ Len(b) = Len(backup.values) + 1
          /\ \A i \in 1 .. Len(b) : b[i] = after[i]
      <4>1. w \in Nat /\ w = after[Len(backup.values) + 1]
        BY <3>2
      <4>2. b \in Seq(Nat) /\ Len(b) = Len(backup.values) + 1
        BY <3>2, <4>1
      <4>3. ASSUME NEW i \in 1 .. Len(b) PROVE b[i] = after[i]
        <5>1. i \in 1 .. Len(backup.values) \/ i = Len(backup.values) + 1
          BY <3>2, <4>2
        <5>2. \A k \in 1 .. Len(backup.values) : backup.values[k] = after[k]
          BY <3>1
        <5> QED BY <3>2, <4>1, <5>1, <5>2
      <4> QED BY <4>2, <4>3
    <3> HIDE DEF b, w
    <3>4. backup' \in [there : BOOLEAN, values : Seq(Nat)]
          /\ backup'.values = b /\ backup'.there = backup.there
      BY <3>1, <3>3 DEF VersionTyped
    <3> QED BY <3>1, <3>2, <3>3, <3>4 DEF VersionTyped
  <2>2. CASE ~(Len(backup.values) < Len(file.values))
    <3>1. at = "copy" /\ at' = "remove"
          /\ UNCHANGED <<file, backup, memory, before, after, faults>>
      BY <1>8, <2>2 DEF Copy
    <3>2. ASSUME faults = 0 PROVE backup.values = after
      <4>1. backup.values \in Seq(Nat) /\ after \in Seq(Nat)
            /\ Len(backup.values) = Len(after)
        BY <2>2, <3>1, <3>2 DEF VersionTyped
      <4>2. \A i \in 1 .. Len(backup.values) : backup.values[i] = after[i]
        BY <3>1, <3>2
      <4> QED BY <4>1, <4>2, SeqEqual
    <3> QED BY <3>1, <3>2 DEF VersionTyped
  <2> QED BY <2>1, <2>2
<1>9. CASE WriteFails
  BY <1>9 DEF WriteFails, Fault, VersionTyped, diskVars
<1>10. CASE RemoveFile
  BY <1>10 DEF RemoveFile, VersionTyped, NoFile
<1>11. CASE RemoveFails
  BY <1>11 DEF RemoveFails, Fault, Finish, VersionTyped, diskVars
<1>12. CASE Rename
  BY <1>12 DEF Rename, Finish, VersionTyped, NoFile
<1>13. CASE RenameFails
  BY <1>13 DEF RenameFails, Fault, Finish, VersionTyped, diskVars
<1>14. CASE Crash
  BY <1>14 DEF Crash, Finish, VersionTyped, diskVars
<1>15. CASE UNCHANGED versionVars
  BY <1>15 DEF versionVars, diskVars, toolVars, VersionTyped
<1> QED
  BY <1>1, <1>3, <1>4, <1>5, <1>6, <1>7, <1>8, <1>9, <1>10, <1>11, <1>12, <1>13,
     <1>14, <1>15 DEF VersionNext

\* Wherever the version tool is killed, the version is in one of its two files.
THEOREM VersionNeverLost == VersionSpec => []VersionSurvives
BY VersionStart, VersionStep, PTL DEF VersionSpec, VersionInv
-----------------------------------------------------------------------------
(* The Mongo pools. *)

Works == {"idle", "find", "again", "make", "acquire"} \cup Ops

MongoTyped ==
  /\ pools \in 0 .. MaxPools
  /\ poolOf \in [Servers -> 0 .. pools]
  /\ free \in [Pools -> Int]
  /\ work \in [Users -> Works]
  /\ asked \in [Users -> MongoCalls]
  /\ pool \in [Users -> 0 .. MaxPools]

\* A user that wants a connection or has one took the only pool of its server.
RightPool ==
  \A u \in Users :
    work[u] \in Ops \cup {"acquire"} =>
      pool[u] = poolOf[Server(u)] /\ pool[u] # NoPool

\* The connections of a pool are free or with a call at work.
AllThere == \A p \in Pools : free[p] + Cardinality(InUse(p)) = ConnCount

MongoInv == MongoTyped /\ RightPool /\ AllThere

LEMMA InUseFinite ==
  \A p : IsFiniteSet(InUse(p)) /\ Cardinality(InUse(p)) \in Nat
<1> TAKE p
<1>1. InUse(p) \in SUBSET Users
  BY DEF InUse
<1>2. IsFiniteSet(InUse(p))
  BY <1>1, MongoAssumption, FS_Subset
<1> QED BY <1>2, FS_CardinalityType

LEMMA MongoStart == MongoInit => MongoInv
<1> SUFFICES ASSUME MongoInit PROVE MongoInv
  OBVIOUS
<1>1. (CHOOSE c \in MongoCalls : TRUE) \in MongoCalls
  BY MongoAssumption
<1>2. MongoTyped
  BY <1>1, MongoAssumption DEF MongoInit, MongoTyped, Works, Pools, NoPool
<1>3. RightPool
  BY DEF MongoInit, RightPool, Ops
<1>4. \A p \in Pools : InUse(p) = {} /\ free[p] = ConnCount
  BY DEF MongoInit, InUse, Ops
<1>5. AllThere
  <2> SUFFICES ASSUME NEW p \in Pools
               PROVE  free[p] + Cardinality(InUse(p)) = ConnCount
    BY DEF AllThere
  <2>1. Cardinality(InUse(p)) = 0 /\ free[p] = ConnCount
    BY <1>4, FS_EmptySet
  <2> QED BY <2>1, MongoAssumption
<1> QED BY <1>2, <1>3, <1>5 DEF MongoInv

\* Nobody takes a connection or gives one back.
LEMMA SameUse ==
  ASSUME AllThere, \A p \in Pools : InUse(p)' = InUse(p), free' = free
  PROVE  AllThere'
BY DEF AllThere

\* A call returns and gives its connection back.
LEMMA GivenBack ==
  ASSUME MongoInv, NEW u \in Users, NEW code, work[u] \in Ops, Done(u, code)
  PROVE  MongoInv'
<1>1. /\ work' = [work EXCEPT ![u] = "idle"]
      /\ free' = [free EXCEPT ![pool[u]] = @ + 1]
      /\ UNCHANGED <<pools, poolOf, asked, pool>>
  BY DEF Done, GiveBack, Reply, mapVars
<1>2. pool[u] \in Pools
  BY DEF MongoInv, RightPool, MongoTyped, Pools, NoPool
<1>3. MongoTyped'
  BY <1>1, <1>2 DEF MongoInv, MongoTyped, Works
<1>4. RightPool'
  BY <1>1 DEF MongoInv, MongoTyped, RightPool, Server, Ops
<1>5. AllThere'
  <2> SUFFICES ASSUME NEW p \in Pools
               PROVE  free'[p] + Cardinality(InUse(p)') = ConnCount
    BY DEF AllThere
  <2>1. free[p] + Cardinality(InUse(p)) = ConnCount /\ free[p] \in Int
        /\ Cardinality(InUse(p)) \in Nat
    BY InUseFinite DEF MongoInv, AllThere, MongoTyped
  <2>2. CASE p = pool[u]
    <3>1. InUse(p)' = InUse(p) \ {u} /\ u \in InUse(p)
      BY <1>1, <2>2 DEF InUse, MongoInv, MongoTyped, Ops
    <3>2. Cardinality(InUse(p)') = Cardinality(InUse(p)) - 1
      BY <3>1, InUseFinite, FS_RemoveElement
    <3>3. free'[p] = free[p] + 1
      BY <1>1, <1>2, <2>2 DEF MongoInv, MongoTyped
    <3> QED BY <2>1, <3>2, <3>3
  <2>3. CASE p # pool[u]
    <3>1. InUse(p)' = InUse(p)
      BY <1>1, <2>3 DEF InUse, MongoInv, MongoTyped, Ops
    <3>2. free'[p] = free[p]
      BY <1>1, <1>2, <2>3 DEF MongoInv, MongoTyped
    <3> QED BY <2>1, <3>1, <3>2
  <2> QED BY <2>2, <2>3
<1> QED BY <1>3, <1>4, <1>5 DEF MongoInv

LEMMA MongoKeeps == MongoInv /\ [MongoNext]_mongoVars => MongoInv'
<1> SUFFICES ASSUME MongoInv, [MongoNext]_mongoVars PROVE MongoInv'
  OBVIOUS
<1>0. MongoTyped /\ RightPool /\ AllThere
  BY DEF MongoInv
<1>1. ASSUME NEW u \in Users, NEW c \in MongoCalls, Ask(u, c) PROVE MongoInv'
  <2>1. /\ work[u] = "idle" /\ work' = [work EXCEPT ![u] = "find"]
        /\ asked' = [asked EXCEPT ![u] = c]
        /\ UNCHANGED <<poolOf, pools, free, pool>>
    BY <1>1 DEF Ask, mapVars
  <2>2. MongoTyped' /\ RightPool'
    BY <1>0, <2>1 DEF MongoTyped, RightPool, Works, Ops, Server
  <2>3. \A p \in Pools : InUse(p)' = InUse(p)
    BY <1>0, <2>1 DEF InUse, MongoTyped, Ops
  <2> QED BY <1>0, <2>1, <2>2, <2>3, SameUse DEF MongoInv
<1>2. ASSUME NEW u \in Users, FindPool(u) PROVE MongoInv'
  <2>1. /\ work[u] \in {"find", "again"}
        /\ pool' = [pool EXCEPT ![u] = poolOf[Server(u)]]
        /\ UNCHANGED <<poolOf, pools, free, asked>>
    BY <1>2 DEF FindPool, mapVars
  <2>2. PICK to \in {"idle", "make", "acquire"} :
          /\ work' = [work EXCEPT ![u] = to]
          /\ to = "acquire" => poolOf[Server(u)] # NoPool
    BY <1>2 DEF FindPool, Reply
  <2>3. Server(u) \in Servers
    BY <1>0, MongoAssumption DEF MongoTyped, Server
  <2>4. MongoTyped'
    BY <1>0, <2>1, <2>2, <2>3, MongoAssumption DEF MongoTyped, Works
  <2>5. RightPool'
    BY <1>0, <2>1, <2>2 DEF MongoTyped, RightPool, Ops, Server
  <2>6. \A p \in Pools : InUse(p)' = InUse(p)
    BY <1>0, <2>1, <2>2 DEF InUse, MongoTyped, Ops
  <2> QED BY <1>0, <2>1, <2>4, <2>5, <2>6, SameUse DEF MongoInv
<1>3. ASSUME NEW u \in Users, AddPool(u) PROVE MongoInv'
  <2>1. /\ work[u] = "make" /\ work' = [work EXCEPT ![u] = "again"]
        /\ UNCHANGED <<free, asked, pool>>
    BY <1>3 DEF AddPool
  <2>2. Server(u) \in Servers
    BY <1>0, MongoAssumption DEF MongoTyped, Server
  <2>3. \A p \in Pools : InUse(p)' = InUse(p)
    BY <1>0, <2>1 DEF InUse, MongoTyped, Ops
  <2>4. CASE poolOf[Server(u)] = NoPool /\ MakePool(u)
    <3>1. /\ pools < MaxPools /\ pools' = pools + 1
          /\ poolOf' = [poolOf EXCEPT ![Server(u)] = pools + 1]
      BY <2>4 DEF MakePool
    <3>2. MongoTyped'
      BY <1>0, <2>1, <2>2, <3>1, MongoAssumption DEF MongoTyped, Works
    <3>3. RightPool'
      BY <1>0, <2>1, <2>2, <2>4, <3>1 DEF MongoTyped, RightPool, Ops, Server
    <3> QED BY <1>0, <2>1, <2>3, <3>2, <3>3, SameUse DEF MongoInv
  <2>5. CASE UNCHANGED mapVars
    <3>1. MongoTyped' /\ RightPool'
      BY <1>0, <2>1, <2>5 DEF MongoTyped, RightPool, Works, Ops, Server, mapVars
    <3> QED BY <1>0, <2>1, <2>3, <3>1, SameUse DEF MongoInv
  <2> QED BY <1>3, <2>4, <2>5 DEF AddPool
<1>4. ASSUME NEW u \in Users, Acquire(u) PROVE MongoInv'
  <2>1. /\ work[u] = "acquire" /\ work' = [work EXCEPT ![u] = asked[u].op]
        /\ free' = [free EXCEPT ![pool[u]] = @ - 1]
        /\ UNCHANGED <<poolOf, pools, asked, pool>>
    BY <1>4 DEF Acquire, mapVars
  <2>2. asked[u].op \in Ops
    BY <1>0, MongoAssumption DEF MongoTyped, Ops
  <2>3. pool[u] \in Pools
    BY <1>0, <2>1 DEF RightPool, MongoTyped, Pools, NoPool
  <2>4. MongoTyped' /\ RightPool'
    BY <1>0, <2>1, <2>2, <2>3 DEF MongoTyped, RightPool, Works, Server
  <2>5. AllThere'
    <3> SUFFICES ASSUME NEW p \in Pools
                 PROVE  free'[p] + Cardinality(InUse(p)') = ConnCount
      BY DEF AllThere
    <3>1. free[p] + Cardinality(InUse(p)) = ConnCount /\ free[p] \in Int
          /\ Cardinality(InUse(p)) \in Nat
      BY <1>0, InUseFinite DEF AllThere, MongoTyped
    <3>2. CASE p = pool[u]
      <4>1. InUse(p)' = InUse(p) \cup {u} /\ u \notin InUse(p)
        BY <1>0, <2>1, <2>2, <3>2 DEF InUse, MongoTyped, Ops
      <4>2. Cardinality(InUse(p)') = Cardinality(InUse(p)) + 1
        BY <4>1, InUseFinite, FS_AddElement
      <4>3. free'[p] = free[p] - 1
        BY <1>0, <2>1, <2>3, <3>2 DEF MongoTyped
      <4> QED BY <3>1, <4>2, <4>3
    <3>3. CASE p # pool[u]
      <4>1. InUse(p)' = InUse(p)
        BY <1>0, <2>1, <3>3 DEF InUse, MongoTyped, Ops
      <4>2. free'[p] = free[p]
        BY <1>0, <2>1, <2>3, <3>3 DEF MongoTyped
      <4> QED BY <3>1, <4>1, <4>2
    <3> QED BY <3>2, <3>3
  <2> QED BY <2>4, <2>5 DEF MongoInv
<1>5. ASSUME NEW u \in Users, AcquireFails(u) PROVE MongoInv'
  <2>1. /\ work[u] = "acquire" /\ work' = [work EXCEPT ![u] = "idle"]
        /\ UNCHANGED <<poolOf, pools, free, asked, pool>>
    BY <1>5 DEF AcquireFails, Reply, mapVars
  <2>2. MongoTyped' /\ RightPool'
    BY <1>0, <2>1 DEF MongoTyped, RightPool, Works, Ops, Server
  <2>3. \A p \in Pools : InUse(p)' = InUse(p)
    BY <1>0, <2>1 DEF InUse, MongoTyped, Ops
  <2> QED BY <1>0, <2>1, <2>2, <2>3, SameUse DEF MongoInv
<1>6. ASSUME NEW u \in Users,
             \/ OperationFails(u) \/ LookUp(u) \/ Rows(u) \/ Insert(u)
             \/ Updated(u) \/ Delete(u)
      PROVE  MongoInv'
  <2>1. work[u] \in Ops
    BY <1>6 DEF OperationFails, LookUp, Rows, Insert, Updated, Delete, Ops
  <2>2. \E code : Done(u, code)
    BY <1>6 DEF OperationFails, LookUp, Rows, Insert, Updated, Delete
  <2> QED BY <2>1, <2>2, GivenBack
<1>7. ASSUME NEW u \in Users, Count(u) \/ Update(u) PROVE MongoInv'
  <2>1. PICK to \in Ops : work' = [work EXCEPT ![u] = to]
    BY <1>0, <1>7 DEF Count, Update, Ops, MongoTyped
  <2>2. work[u] \in Ops /\ UNCHANGED <<poolOf, pools, free, asked, pool>>
    BY <1>7 DEF Count, Update, Ops, mapVars
  <2>3. MongoTyped' /\ RightPool'
    BY <1>0, <2>1, <2>2 DEF MongoTyped, RightPool, Works, Server
  <2>4. \A p \in Pools : InUse(p)' = InUse(p)
    BY <1>0, <2>1, <2>2 DEF InUse, MongoTyped
  <2> QED BY <1>0, <2>2, <2>3, <2>4, SameUse DEF MongoInv
<1>8. CASE UNCHANGED mongoVars
  <2>1. UNCHANGED <<poolOf, pools, free, work, asked, pool>>
    BY <1>8 DEF mongoVars, mapVars, userVars
  <2>2. MongoTyped' /\ RightPool'
    BY <1>0, <2>1 DEF MongoTyped, RightPool, Server
  <2>3. \A p \in Pools : InUse(p)' = InUse(p)
    BY <2>1 DEF InUse
  <2> QED BY <1>0, <2>1, <2>2, <2>3, SameUse DEF MongoInv
<1> QED
  BY <1>1, <1>2, <1>3, <1>4, <1>5, <1>6, <1>7, <1>8
  DEF MongoNext, MongoStep, Proceeds

\* A server has one pool, and none of its connections is lost or given back
\* twice, for any number of users, servers and calls.
THEOREM MongoPoolsAreShared == MongoSpec => []PoolsAreShared
<1>1. MongoInv => PoolsAreShared
  BY DEF MongoInv, RightPool, AllThere, PoolsAreShared
<1> QED BY <1>1, MongoStart, MongoKeeps, PTL DEF MongoSpec

-----------------------------------------------------------------------------
(* The pages of a statement. *)

Page == [by : Readers \cup {"nobody"}, reading : Nat, page : Nat,
         last : BOOLEAN, at : Nat]

PagingTyped ==
  /\ clock \in Nat
  /\ vessel \in [Statements -> Page] /\ state \in [Readers -> Page]
  /\ rpc \in [Readers -> {"idle", "first", "retrieve", "rest", "save", "remove"}]
  /\ readings \in [Readers -> Nat]
  /\ got \in [Readers -> Seq(Page)]
  /\ answer \in [Readers -> {"ok", "norecord", "fail"}]

Alone(r) == \A s \in Readers \ {r} : Cql[s] # Cql[r]
InOrder(r) == \A i \in 1 .. Len(got[r]) :
                got[r][i].reading = readings[r] /\ got[r][i].page = i
Ended(r) == got[r] # <<>> => got[r][Len(got[r])].last

\* The state a reader's call goes on from.
CallGoesOn(r) ==
  /\ rpc[r] \in {"first", "rest", "save"} => state[r].reading <= readings[r]
  /\ rpc[r] = "first" =>
       /\ state[r].reading = readings[r] /\ state[r].page = 0
       /\ got[r] = <<>>
       /\ Cql[r] \notin stale => vessel[Cql[r]] = NoState
  /\ rpc[r] = "rest" =>
       /\ state[r].reading = readings[r] => Cql[r] \notin stale
       /\ Cql[r] \notin stale =>
            /\ state[r].reading = readings[r] /\ state[r].page = Len(got[r])
            /\ vessel[Cql[r]] = NoState => Cql[r] \in lapsed
  /\ rpc[r] = "save" =>
       /\ state[r].page >= 1
       /\ state[r].reading = readings[r] =>
            InOrder(r) /\ state[r].page = Len(got[r])
       /\ state[r].reading # readings[r] => Cql[r] \in stale
  /\ rpc[r] = "remove" => Ended(r)

\* The state that waits in the vessel between the calls.
StateWaits(r) ==
  /\ vessel[Cql[r]] # NoState =>
       /\ vessel[Cql[r]].reading <= readings[r]
       /\ vessel[Cql[r]].reading = readings[r] => Cql[r] \notin stale
  /\ Cql[r] \notin stale =>
       /\ InOrder(r)
       /\ rpc[r] \notin {"save", "remove"} /\ vessel[Cql[r]] # NoState =>
            /\ vessel[Cql[r]].reading = readings[r]
            /\ vessel[Cql[r]].page = Len(got[r])
       /\ rpc[r] \in {"idle", "retrieve"} /\ vessel[Cql[r]] = NoState
            /\ Cql[r] \notin lapsed => Ended(r)
       /\ rpc[r] = "idle" /\ answer[r] = "norecord" /\ Cql[r] \notin lapsed
            => Ended(r)

ReaderInv(r) == CallGoesOn(r) /\ StateWaits(r)
PagingInv == PagingTyped /\ \A r \in Readers : Alone(r) => ReaderInv(r)

LEMMA NoStateIsAPage == NoState \in Page
BY DEF NoState, Page

\* The page after a page.
LEMMA PageAfter ==
  ASSUME NEW p \in Page, NEW last \in BOOLEAN
  PROVE  LET q == [p EXCEPT !.page = @ + 1, !.last = last]
         IN  /\ q \in Page /\ q.page = p.page + 1 /\ q.last = last
             /\ q.reading = p.reading /\ p.page \in Nat
<1> DEFINE q == [p EXCEPT !.page = @ + 1, !.last = last]
<1>1. p.page \in Nat /\ p.page + 1 \in Nat
  BY DEF Page
<1>2. [p EXCEPT !.page = p.page + 1] \in Page
  BY <1>1 DEF Page
<1>3. q = [[p EXCEPT !.page = p.page + 1] EXCEPT !.last = last]
  OBVIOUS
<1>4. q \in Page
  BY <1>2, <1>3 DEF Page
<1> QED BY <1>1, <1>4 DEF Page

\* Removing what is out of date: a state stays or is one of those that lapse.
LEMMA TidyKeeps ==
  ASSUME PagingTyped
  PROVE  /\ Tidy \in [Statements -> Page]
         /\ \A c \in Statements :
              \/ Tidy[c] = vessel[c]
              \/ Tidy[c] = NoState /\ c \in OldStatements
BY NoStateIsAPage DEF PagingTyped, Tidy, OldStatements

\* What a step that is not the reader's own may do to what it relies on: its
\* state may lapse.
LEMMA ReaderRests ==
  ASSUME NEW r \in Readers, ReaderInv(r),
         rpc'[r] = rpc[r], state'[r] = state[r], readings'[r] = readings[r],
         got'[r] = got[r], answer'[r] = answer[r],
         Cql[r] \in stale' <=> Cql[r] \in stale,
         Cql[r] \in lapsed => Cql[r] \in lapsed',
         \/ vessel'[Cql[r]] = vessel[Cql[r]]
         \/ vessel'[Cql[r]] = NoState /\ Cql[r] \in lapsed'
  PROVE  ReaderInv(r)'
BY DEF ReaderInv, CallGoesOn, StateWaits, InOrder, Ended, NoState

\* The reader's own step decides, if its statement is its own: the others keep
\* to theirs.
LEMMA OwnStep ==
  ASSUME PagingInv, PagingTyped', NEW r \in Readers, Alone(r) => ReaderInv(r)',
         \A s \in Readers \ {r} :
           /\ rpc'[s] = rpc[s] /\ state'[s] = state[s]
           /\ readings'[s] = readings[s] /\ got'[s] = got[s]
           /\ answer'[s] = answer[s],
         \A c \in Statements \ {Cql[r]} :
           /\ c \in stale' <=> c \in stale
           /\ c \in lapsed => c \in lapsed'
           /\ \/ vessel'[c] = vessel[c]
              \/ vessel'[c] = NoState /\ c \in lapsed'
  PROVE  PagingInv'
<1>1. ASSUME NEW s \in Readers, Alone(s) PROVE ReaderInv(s)'
  <2>1. CASE s = r
    BY <1>1, <2>1
  <2>2. CASE s # r
    <3>1. Cql[s] \in Statements \ {Cql[r]}
      BY <1>1, <2>2 DEF Alone, Statements
    <3>2. ReaderInv(s)
      BY <1>1 DEF PagingInv
    <3> QED BY <2>2, <3>1, <3>2, ReaderRests
  <2> QED BY <2>1, <2>2
<1>2. \A s \in Readers : Alone(s)' => Alone(s)
  BY DEF Alone
<1> QED BY <1>1, <1>2 DEF PagingInv

LEMMA PagingStart == PagingInit => PagingInv
<1> SUFFICES ASSUME PagingInit PROVE PagingInv
  OBVIOUS
<1>1. PagingTyped
  BY NoStateIsAPage DEF PagingInit, PagingTyped
<1>2. ASSUME NEW r \in Readers PROVE ReaderInv(r)
  BY DEF PagingInit, ReaderInv, CallGoesOn, StateWaits, InOrder, Ended,
     Statements
<1> QED BY <1>1, <1>2 DEF PagingInv

LEMMA FirstPageKeeps ==
  ASSUME PagingInv, NEW r \in Readers, FirstPage(r)
  PROVE  PagingInv'
<1>0. PagingTyped /\ (Alone(r) => ReaderInv(r)) /\ Cql[r] \in Statements
  BY DEF PagingInv, Statements
<1>1. PagingTyped'
  <2>1. [by |-> r, reading |-> readings[r] + 1, page |-> 0, last |-> FALSE,
         at |-> 0] \in Page
    BY <1>0 DEF PagingTyped, Page
  <2>2. readings[r] + 1 \in Nat
    BY <1>0 DEF PagingTyped
  <2>3. rpc' = [rpc EXCEPT ![r] = "idle"] \/ rpc' = [rpc EXCEPT ![r] = "first"]
    BY DEF FirstPage, Answer
  <2>4. answer' = answer \/ answer' = [answer EXCEPT ![r] = "ok"]
    BY DEF FirstPage, Answer
  <2>5. /\ UNCHANGED <<clock, vessel>>
        /\ readings' = [readings EXCEPT ![r] = readings[r] + 1]
        /\ state' = [state EXCEPT ![r] =
                       [by |-> r, reading |-> readings[r] + 1, page |-> 0,
                        last |-> FALSE, at |-> 0]]
        /\ got' = [got EXCEPT ![r] = <<>>]
    BY DEF FirstPage
  <2>6. clock' \in Nat /\ vessel' \in [Statements -> Page]
    BY <1>0, <2>5 DEF PagingTyped
  <2>7. state' \in [Readers -> Page] /\ readings' \in [Readers -> Nat]
    BY <1>0, <2>1, <2>2, <2>5 DEF PagingTyped
  <2>8. rpc' \in [Readers -> {"idle", "first", "retrieve", "rest", "save",
                             "remove"}]
    BY <1>0, <2>3 DEF PagingTyped
  <2>9. answer' \in [Readers -> {"ok", "norecord", "fail"}]
    BY <1>0, <2>4 DEF PagingTyped
  <2>10. got' \in [Readers -> Seq(Page)]
    <3>1. got \in [Readers -> Seq(Page)] /\ <<>> \in Seq(Page)
      BY <1>0 DEF PagingTyped
    <3> QED BY <2>5, <3>1
  <2> QED BY <2>6, <2>7, <2>8, <2>9, <2>10 DEF PagingTyped
<1>2. ASSUME Alone(r) PROVE ReaderInv(r)'
  <2>1. /\ readings'[r] = readings[r] + 1 /\ readings[r] \in Nat
        /\ state'[r].reading = readings[r] + 1 /\ state'[r].page = 0
        /\ got'[r] = <<>> /\ rpc'[r] \in {"idle", "first"}
        /\ rpc'[r] = "idle" => answer'[r] = "ok"
        /\ UNCHANGED <<vessel, lapsed>>
        /\ Cql[r] \in stale' <=> (Cql[r] \in stale \/ vessel[Cql[r]] # NoState)
    BY <1>0 DEF FirstPage, PagingTyped, Answer
  <2>2. vessel[Cql[r]].reading \in Nat
    BY <1>0 DEF PagingTyped, Page
  <2>3. CallGoesOn(r)'
    BY <1>2, <2>1 DEF CallGoesOn
  <2>4. StateWaits(r)'
    BY <1>0, <1>2, <2>1, <2>2 DEF ReaderInv, StateWaits, InOrder, Ended
  <2> QED BY <2>3, <2>4 DEF ReaderInv
<1> QED BY <1>0, <1>1, <1>2, OwnStep DEF FirstPage, PagingTyped, Answer

LEMMA RetrieveKeeps ==
  ASSUME PagingInv, NEW r \in Readers, RestPage(r) \/ Retrieve(r)
  PROVE  PagingInv'
<1>0. PagingTyped /\ (Alone(r) => ReaderInv(r)) /\ Cql[r] \in Statements
  BY DEF PagingInv, Statements
<1>1. CASE RestPage(r)
  <2>1. PagingTyped'
    BY <1>0, <1>1 DEF RestPage, PagingTyped, ghostVars
  <2>2. ASSUME Alone(r) PROVE ReaderInv(r)'
    BY <1>0, <1>1, <2>2
       DEF RestPage, PagingTyped, ReaderInv, CallGoesOn, StateWaits, InOrder,
           Ended, ghostVars
  <2> QED BY <1>0, <1>1, <2>1, <2>2, OwnStep DEF RestPage, PagingTyped, ghostVars
<1>2. CASE Retrieve(r)
  <2>1. /\ vessel' = Tidy /\ lapsed' = lapsed \cup OldStatements
        /\ UNCHANGED <<clock, readings, got, stale>> /\ rpc[r] = "retrieve"
        /\ \/ /\ vessel'[Cql[r]] = NoState /\ state' = state
              /\ rpc' = [rpc EXCEPT ![r] = "idle"]
              /\ answer' = [answer EXCEPT ![r] = "norecord"]
           \/ /\ vessel'[Cql[r]] # NoState /\ answer' = answer
              /\ rpc' = [rpc EXCEPT ![r] = "rest"]
              /\ state' = [state EXCEPT ![r] = vessel'[Cql[r]]]
    BY <1>2 DEF Retrieve, Answer
  <2>2. PagingTyped'
    BY <1>0, <2>1, TidyKeeps DEF PagingTyped
  <2>3. ASSUME Alone(r) PROVE ReaderInv(r)'
    <3>1. \/ vessel'[Cql[r]] = vessel[Cql[r]]
          \/ vessel'[Cql[r]] = NoState /\ Cql[r] \in lapsed'
      BY <1>0, <2>1, TidyKeeps
    <3>2. /\ rpc'[r] = "idle" => /\ vessel'[Cql[r]] = NoState
                                 /\ answer'[r] = "norecord"
          /\ rpc'[r] = "rest" => /\ vessel'[Cql[r]] # NoState
                                 /\ state'[r] = vessel'[Cql[r]]
          /\ rpc'[r] \in {"idle", "rest"}
      BY <1>0, <2>1 DEF PagingTyped
    <3>3. StateWaits(r) /\ got'[r] = got[r] /\ readings'[r] = readings[r]
      BY <1>0, <2>1, <2>3 DEF ReaderInv
    <3>4. CallGoesOn(r)'
      BY <2>1, <3>1, <3>2, <3>3 DEF CallGoesOn, StateWaits
    <3>5. StateWaits(r)'
      BY <2>1, <3>1, <3>2, <3>3 DEF StateWaits, InOrder, Ended
    <3> QED BY <3>4, <3>5 DEF ReaderInv
  <2>4. \A c \in Statements :
          \/ vessel'[c] = vessel[c]
          \/ vessel'[c] = NoState /\ c \in lapsed'
    BY <1>0, <2>1, TidyKeeps
  <2> QED BY <1>0, <2>1, <2>2, <2>3, <2>4, OwnStep DEF PagingTyped
<1> QED BY <1>1, <1>2

LEMMA NextPageKeeps ==
  ASSUME PagingInv, NEW r \in Readers, NEW last \in BOOLEAN,
         PageFails(r) \/ NextPage(r, last)
  PROVE  PagingInv'
<1>0. PagingTyped /\ (Alone(r) => ReaderInv(r)) /\ Cql[r] \in Statements
  BY DEF PagingInv, Statements
<1>1. CASE PageFails(r)
  <2>1. PagingTyped'
    BY <1>0, <1>1 DEF PageFails, PagingTyped, ghostVars, Answer
  <2>2. ASSUME Alone(r) PROVE ReaderInv(r)'
    BY <1>0, <1>1, <2>2
       DEF PageFails, PagingTyped, ReaderInv, CallGoesOn, StateWaits, InOrder,
           Ended, ghostVars, Answer
  <2> QED BY <1>0, <1>1, <2>1, <2>2, OwnStep
       DEF PageFails, PagingTyped, ghostVars, Answer
<1>2. CASE NextPage(r, last)
  <2> DEFINE page == [state[r] EXCEPT !.page = @ + 1, !.last = last]
  <2>1. /\ UNCHANGED <<clock, vessel, readings, stale, lapsed>>
        /\ rpc[r] \in {"first", "rest"}
        /\ state' = [state EXCEPT ![r] = page]
        /\ got' = [got EXCEPT ![r] = Append(got[r], page)]
        /\ \/ /\ last /\ rpc[r] = "first"
              /\ rpc' = [rpc EXCEPT ![r] = "idle"]
              /\ answer' = [answer EXCEPT ![r] = "ok"]
           \/ /\ last /\ rpc' = [rpc EXCEPT ![r] = "remove"] /\ answer' = answer
           \/ /\ ~last /\ rpc' = [rpc EXCEPT ![r] = "save"] /\ answer' = answer
    BY <1>2 DEF NextPage, Answer, ghostVars
  <2>2. /\ page \in Page /\ page.page = state[r].page + 1 /\ page.last = last
        /\ page.reading = state[r].reading /\ state[r].page \in Nat
    <3>1. state[r] \in Page
      BY <1>0 DEF PagingTyped
    <3> QED BY <3>1, PageAfter
  <2> HIDE DEF page
  <2>3. PagingTyped'
    <3>1. Append(got[r], page) \in Seq(Page)
      BY <1>0, <2>2 DEF PagingTyped
    <3> QED BY <1>0, <2>1, <2>2, <3>1 DEF PagingTyped
  <2>4. ASSUME Alone(r) PROVE ReaderInv(r)'
    <3>1. /\ got[r] \in Seq(Page) /\ Len(got[r]) \in Nat
          /\ got'[r] = Append(got[r], page) /\ state'[r] = page
          /\ rpc'[r] \in {"idle", "remove", "save"}
          /\ rpc'[r] \in {"idle", "remove"} => last
          /\ rpc'[r] = "idle" => rpc[r] = "first" /\ answer'[r] = "ok"
      BY <1>0, <2>1 DEF PagingTyped
    <3>2. /\ Len(got'[r]) = Len(got[r]) + 1 /\ got'[r] # <<>>
          /\ got'[r][Len(got'[r])] = page
          /\ \A i \in 1 .. Len(got[r]) : got'[r][i] = got[r][i]
      BY <3>1
    <3>3. CallGoesOn(r) /\ StateWaits(r) /\ readings'[r] = readings[r]
      BY <1>0, <2>1, <2>4 DEF ReaderInv
    <3>4. state[r].reading = readings[r] =>
            InOrder(r)' /\ page.page = Len(got'[r])
      <4>1. state[r].reading = readings[r] =>
              InOrder(r) /\ state[r].page = Len(got[r])
        BY <2>1, <3>3 DEF CallGoesOn, StateWaits, InOrder
      <4> QED BY <2>2, <3>1, <3>2, <3>3, <4>1 DEF InOrder
    <3>5. Cql[r] \notin stale => state[r].reading = readings[r]
      BY <2>1, <3>3 DEF CallGoesOn
    <3>6. last => Ended(r)'
      BY <2>2, <3>2 DEF Ended
    <3>7. CallGoesOn(r)'
      BY <2>1, <2>2, <3>1, <3>3, <3>4, <3>5, <3>6 DEF CallGoesOn
    <3>8. StateWaits(r)'
      BY <2>1, <2>2, <3>1, <3>3, <3>4, <3>5, <3>6 DEF CallGoesOn, StateWaits
    <3> QED BY <3>7, <3>8 DEF ReaderInv
  <2> QED BY <1>0, <2>1, <2>3, <2>4, OwnStep DEF PagingTyped
<1> QED BY <1>1, <1>2

LEMMA SaveKeeps ==
  ASSUME PagingInv, NEW r \in Readers, Save(r)
  PROVE  PagingInv'
<1>0. PagingTyped /\ (Alone(r) => ReaderInv(r)) /\ Cql[r] \in Statements
  BY DEF PagingInv, Statements
<1> DEFINE kept == [state[r] EXCEPT !.at = clock]
<1>1. /\ kept \in Page /\ kept.page = state[r].page
      /\ kept.reading = state[r].reading
  BY <1>0 DEF PagingTyped, Page
<1>2. /\ rpc[r] = "save" /\ UNCHANGED <<clock, state, readings, got>>
      /\ vessel' = [Tidy EXCEPT ![Cql[r]] = kept]
      /\ stale' = IF state[r].reading = readings[r]
                  THEN stale \ {Cql[r]} ELSE stale
      /\ lapsed' = (lapsed \cup OldStatements) \ {Cql[r]}
      /\ rpc' = [rpc EXCEPT ![r] = "idle"]
      /\ answer' = [answer EXCEPT ![r] = "ok"]
  BY DEF Save, Answer
<1> HIDE DEF kept
<1>3. PagingTyped'
  BY <1>0, <1>1, <1>2, TidyKeeps DEF PagingTyped
<1>4. ASSUME Alone(r) PROVE ReaderInv(r)'
  <2>1. /\ vessel'[Cql[r]] = kept /\ rpc'[r] = "idle" /\ answer'[r] = "ok"
        /\ got'[r] = got[r] /\ readings'[r] = readings[r]
    BY <1>0, <1>2, TidyKeeps DEF PagingTyped
  <2>2. CallGoesOn(r)
    BY <1>0, <1>4 DEF ReaderInv
  <2>3. kept # NoState
    BY <1>1, <1>2, <2>2 DEF CallGoesOn, NoState
  <2>4. CallGoesOn(r)'
    BY <2>1 DEF CallGoesOn
  <2>5. StateWaits(r)'
    BY <1>1, <1>2, <2>1, <2>2, <2>3 DEF CallGoesOn, StateWaits, InOrder, NoState
  <2> QED BY <2>4, <2>5 DEF ReaderInv
<1>5. \A c \in Statements \ {Cql[r]} :
        /\ c \in stale' <=> c \in stale
        /\ c \in lapsed => c \in lapsed'
        /\ \/ vessel'[c] = vessel[c]
           \/ vessel'[c] = NoState /\ c \in lapsed'
  BY <1>0, <1>2, TidyKeeps
<1> QED BY <1>0, <1>2, <1>3, <1>4, <1>5, OwnStep DEF PagingTyped

LEMMA RemoveStateKeeps ==
  ASSUME PagingInv, NEW r \in Readers, RemoveState(r)
  PROVE  PagingInv'
<1>0. PagingTyped /\ (Alone(r) => ReaderInv(r)) /\ Cql[r] \in Statements
  BY DEF PagingInv, Statements
<1>1. /\ rpc[r] = "remove" /\ UNCHANGED <<clock, state, readings, got>>
      /\ UNCHANGED <<stale, lapsed>>
      /\ vessel' = [vessel EXCEPT ![Cql[r]] = NoState]
      /\ rpc' = [rpc EXCEPT ![r] = "idle"]
      /\ \E code \in {"norecord", "ok"} :
           answer' = [answer EXCEPT ![r] = code]
  BY DEF RemoveState, Answer, ghostVars
<1>2. PagingTyped'
  BY <1>0, <1>1, NoStateIsAPage DEF PagingTyped
<1>3. ASSUME Alone(r) PROVE ReaderInv(r)'
  <2>1. vessel'[Cql[r]] = NoState /\ rpc'[r] = "idle"
    BY <1>0, <1>1 DEF PagingTyped
  <2>2. ReaderInv(r) /\ Ended(r)
    BY <1>0, <1>1, <1>3 DEF ReaderInv, CallGoesOn
  <2> QED BY <1>1, <2>1, <2>2
       DEF ReaderInv, CallGoesOn, StateWaits, InOrder, Ended, NoState
<1> QED BY <1>0, <1>1, <1>2, <1>3, OwnStep DEF PagingTyped

LEMMA PagingKeeps == PagingInv /\ [PagingNext]_pagingVars => PagingInv'
<1> SUFFICES ASSUME PagingInv, [PagingNext]_pagingVars PROVE PagingInv'
  OBVIOUS
<1>1. CASE PassTime \/ UNCHANGED pagingVars
  <2>1. UNCHANGED <<vessel, placeVars, got, answer, ghostVars>>
    BY <1>1 DEF PassTime, pagingVars
  <2>2. PagingTyped'
    BY <1>1, <2>1 DEF PagingInv, PagingTyped, PassTime, pagingVars, placeVars
  <2>3. ASSUME NEW r \in Readers, Alone(r)' PROVE ReaderInv(r)'
    <3>1. ReaderInv(r)
      BY <2>3 DEF PagingInv, Alone
    <3> QED BY <2>1, <3>1, ReaderRests DEF placeVars, ghostVars
  <2> QED BY <2>2, <2>3 DEF PagingInv
<1> QED
  BY <1>1, FirstPageKeeps, RetrieveKeeps, NextPageKeeps, SaveKeeps,
     RemoveStateKeeps DEF PagingNext

\* A reader that has its statement to itself gets the pages of its reading in
\* order and each once, and is told that there are no more after the last one,
\* unless an earlier reading left its state or a day went by: for any number of
\* readers and statements, whichever calls fail.
THEOREM PagesComeInOrder == PagingSpec => []PagesInOrder
<1>1. PagingInv => PagesInOrder
  <2> SUFFICES ASSUME PagingInv, NEW r \in Readers,
                      \A s \in Readers \ {r} : Cql[s] # Cql[r],
                      Cql[r] \notin stale
               PROVE  /\ \A i \in DOMAIN got[r] :
                           got[r][i].reading = readings[r] /\ got[r][i].page = i
                      /\ (answer[r] = "norecord" /\ rpc[r] = "idle"
                            /\ got[r] # <<>> /\ Cql[r] \notin lapsed)
                           => got[r][Len(got[r])].last
    BY DEF PagesInOrder
  <2>1. got[r] \in Seq(Page) /\ StateWaits(r)
    BY DEF PagingInv, PagingTyped, ReaderInv, Alone
  <2> QED BY <2>1, LenProperties DEF StateWaits, InOrder, Ended
<1> QED BY <1>1, PagingStart, PagingKeeps, PTL DEF PagingSpec

-----------------------------------------------------------------------------
(* The circular buffer. *)

Stored == Values \cup {Zero}

RingTyped ==
  /\ size \in Nat \ {0} /\ count \in Nat
  /\ vfirst \in 0 .. size - 1 /\ vlast \in 0 .. size - 1
  /\ store \in [0 .. size - 1 -> Stored]
  /\ items \in Seq(Values) /\ todo \in Seq(Values)

\* A buffer that is torn makes no further step.
RingInv == ~torn => RingTyped /\ BufferIsQueue

\* What the ring holds, without the ghosts of the last call.
RingHolds ==
  /\ count = Len(items) /\ count <= size
  /\ vlast = Place(count + 1)
  /\ \A i \in 1 .. count : store[Place(i)] = items[i]

LEMMA RingStart == BufferInit => RingInv
<1> SUFFICES ASSUME BufferInit PROVE RingInv
  OBVIOUS
<1>1. size \in Nat \ {0}
  BY BufferAssumption DEF BufferInit, AtLeastOne
<1>2. store \in [0 .. size - 1 -> Stored]
  BY DEF BufferInit, Stored
<1>3. RingTyped
  BY <1>1, <1>2, EmptySeq DEF BufferInit, RingTyped
<1>4. BufferIsQueue
  BY <1>1 DEF BufferInit, BufferIsQueue, Place
<1> QED BY <1>3, <1>4 DEF RingInv

\* The places of two elements differ, and none is the next free place.
LEMMA PlacesDiffer ==
  ASSUME RingTyped, RingHolds, NEW i \in 1 .. count
  PROVE  /\ Place(i) \in 0 .. size - 1
         /\ count < size => Place(i) # vlast
         /\ count = size => vlast = vfirst /\ (i > 1 => Place(i) # vlast)
<1>1. /\ size \in Nat /\ count \in Nat /\ count <= size /\ i \in Int
      /\ vfirst \in 0 .. size - 1 /\ vlast = Place(count + 1)
  BY DEF RingTyped, RingHolds
<1>2. Place(i) \in 0 .. size - 1
  BY <1>1 DEF Place
<1>3. count < size => Place(i) # vlast
  BY <1>1 DEF Place
<1>4. count = size => vlast = vfirst
  BY <1>1 DEF Place
<1>5. i > 1 => Place(i) # vfirst
  BY <1>1 DEF Place
<1> QED BY <1>2, <1>3, <1>4, <1>5

\* append keeps the order of what it takes, in place of the oldest if full.
LEMMA AppendKeeps ==
  ASSUME RingTyped, RingHolds, NEW v \in Values, Append1(v)
  PROVE  /\ size' = size /\ count' \in Nat
         /\ vfirst' \in 0 .. size - 1 /\ vlast' \in 0 .. size - 1
         /\ store' \in [0 .. size - 1 -> Stored]
         /\ items' \in Seq(Values)
         /\ RingHolds'
<1>0. /\ size \in Nat \ {0} /\ count \in Nat /\ count <= size
      /\ count = Len(items) /\ items \in Seq(Values)
      /\ vfirst \in 0 .. size - 1 /\ vlast \in 0 .. size - 1
      /\ store \in [0 .. size - 1 -> Stored] /\ vlast = Place(count + 1)
  BY DEF RingTyped, RingHolds
<1>1. /\ store' = [store EXCEPT ![vlast] = v] /\ size' = size
      /\ vlast' = Next1(vlast)
  BY DEF Append1
<1>2. store' \in [0 .. size - 1 -> Stored]
  BY <1>0, <1>1 DEF Stored
<1>3. vlast' \in 0 .. size - 1
  BY <1>0, <1>1 DEF Next1
<1>4. CASE count < size
  <2>1. count' = count + 1 /\ vfirst' = vfirst /\ items' = Append(items, v)
    BY <1>4 DEF Append1
  <2>2. /\ items' \in Seq(Values) /\ Len(items') = count + 1
        /\ \A i \in 1 .. count : items'[i] = items[i]
        /\ items'[count + 1] = v
    BY <2>1, <1>0, AppendProperties
  <2>3. \A i \in 1 .. count + 1 : Place(i)' = Place(i)
    BY <1>1, <2>1 DEF Place
  <2>4. vlast' = Place(count + 1)'
    BY <1>0, <1>1, <1>4, <2>1 DEF Place, Next1
  <2>5. ASSUME NEW i \in 1 .. count + 1
        PROVE  store'[Place(i)'] = items'[i]
    <3>1. CASE i = count + 1
      BY <3>1, <1>0, <1>1, <2>2, <2>3
    <3>2. CASE i \in 1 .. count
      <4>1. Place(i) \in 0 .. size - 1 /\ Place(i) # vlast
        BY <3>2, <1>4, PlacesDiffer
      <4>2. store[Place(i)] = items[i]
        BY <3>2 DEF RingHolds
      <4> QED BY <4>1, <4>2, <3>2, <1>0, <1>1, <2>2, <2>3
    <3> QED BY <3>1, <3>2, <1>0
  <2>6. count' = Len(items') /\ count' <= size' /\ count' \in Nat
    BY <1>0, <1>1, <1>4, <2>1, <2>2
  <2>7. \A i \in 1 .. count' : store'[Place(i)'] = items'[i]
    BY <2>1, <2>5
  <2>8. RingHolds'
    BY <2>4, <2>6, <2>7 DEF RingHolds
  <2> QED BY <1>0, <1>1, <1>2, <1>3, <2>1, <2>2, <2>6, <2>8
<1>5. CASE ~(count < size)
  <2>0. count = size
    BY <1>5, <1>0
  <2>1. /\ count' = count /\ vfirst' = Next1(vfirst)
        /\ items' = Append(Tail(items), v)
    BY <1>5 DEF Append1
  <2>2. items # <<>>
    BY <2>0, <1>0, EmptySeq
  <2>3. /\ Tail(items) \in Seq(Values) /\ Len(Tail(items)) = count - 1
        /\ \A i \in 1 .. count - 1 : Tail(items)[i] = items[i + 1]
    BY <2>2, <1>0, HeadTailProperties
  <2>4. /\ items' \in Seq(Values) /\ Len(items') = count
        /\ \A i \in 1 .. count - 1 : items'[i] = Tail(items)[i]
        /\ items'[count] = v
    <3>1. (Len(Tail(items)) + 1) = count
      BY <2>3, <1>0
    <3> QED BY <2>1, <2>3, <3>1, AppendProperties
  <2>5. vlast = vfirst
    <3>1. vlast = IF vfirst + size >= size THEN vfirst + size - size
                                           ELSE vfirst + size
      BY <2>0, <1>0 DEF Place
    <3> QED BY <3>1, <1>0
  <2>6. /\ vfirst' \in 0 .. size - 1
        /\ \A i \in 1 .. count - 1 : Place(i)' = Place(i + 1)
        /\ Place(count)' = vlast
        /\ vlast' = Place(count + 1)'
    <3>1. vfirst' \in 0 .. size - 1
      BY <2>1, <1>0 DEF Next1
    <3>2. \A i \in 1 .. count - 1 : Place(i)' = Place(i + 1)
      BY <2>1, <1>0, <1>1 DEF Place, Next1
    <3>3. Place(count)' = vlast
      <4>1. Place(count)' = IF vfirst' + count - 1 >= size
                            THEN vfirst' + count - 1 - size
                            ELSE vfirst' + count - 1
        BY <2>1, <3>1, <1>0, <1>1 DEF Place
      <4>2. CASE vfirst + 1 = size
        <5>1. vfirst' = 0 /\ vfirst = size - 1
          BY <4>2, <2>1, <1>0 DEF Next1
        <5> QED BY <4>1, <5>1, <2>0, <2>5, <1>0
      <4>3. CASE vfirst + 1 # size
        <5>1. vfirst' = vfirst + 1
          BY <4>3, <2>1 DEF Next1
        <5> QED BY <4>1, <4>3, <5>1, <2>0, <2>5, <1>0
      <4> QED BY <4>2, <4>3
    <3>4. vlast' = vfirst'
      BY <2>1, <2>5, <1>1
    <3>5. Place(count + 1)' = vfirst'
      <4>1. Place(count + 1)' = IF vfirst' + count >= size
                                THEN vfirst' + count - size
                                ELSE vfirst' + count
        BY <2>1, <3>1, <1>0, <1>1 DEF Place
      <4> QED BY <4>1, <2>0, <3>1, <1>0
    <3> QED BY <3>1, <3>2, <3>3, <3>4, <3>5
  <2>7. ASSUME NEW i \in 1 .. count
        PROVE  store'[Place(i)'] = items'[i]
    <3>1. CASE i = count
      <4>1. Place(i)' = vlast
        BY <3>1, <2>1, <2>6
      <4>2. items'[i] = v /\ store'[vlast] = v
        BY <3>1, <1>0, <1>1, <2>4
      <4> QED BY <4>1, <4>2
    <3>2. CASE i \in 1 .. count - 1
      <4>0. i + 1 \in 1 .. count /\ i + 1 > 1
        BY <3>2, <1>0
      <4>1. Place(i + 1) \in 0 .. size - 1 /\ Place(i + 1) # vlast
        BY <4>0, <2>0, PlacesDiffer
      <4>2. store[Place(i + 1)] = items[i + 1]
        BY <4>0 DEF RingHolds
      <4>3. store'[Place(i + 1)] = store[Place(i + 1)]
        BY <4>1, <1>0, <1>1
      <4>4. Place(i)' = Place(i + 1) /\ items'[i] = items[i + 1]
        BY <3>2, <2>3, <2>4, <2>6
      <4> QED BY <4>2, <4>3, <4>4
    <3> QED BY <3>1, <3>2, <1>0
  <2>8. count' = Len(items') /\ count' <= size' /\ count' \in Nat
    BY <1>0, <1>1, <2>0, <2>1, <2>4
  <2>9. \A i \in 1 .. count' : store'[Place(i)'] = items'[i]
    BY <2>1, <2>7
  <2>10. RingHolds'
    BY <2>6, <2>8, <2>9 DEF RingHolds
  <2> QED BY <1>1, <1>2, <1>3, <2>4, <2>6, <2>8, <2>10
<1> QED BY <1>4, <1>5

\* A step that leaves the ring alone.
LEMMA RingRests ==
  ASSUME RingTyped, RingHolds, UNCHANGED <<ringVars, items>>,
         todo' \in Seq(Values)
  PROVE  RingTyped' /\ RingHolds'
BY DEF RingTyped, RingHolds, ringVars, Place

\* A block goes to the free places in one piece.
LEMMA BlockKeeps ==
  ASSUME RingTyped, RingHolds, NEW s \in Seq(Values), PushBlock(s), ~torn'
  PROVE  RingTyped' /\ RingHolds'
<1> DEFINE n == Len(s)
<1>0. /\ size \in Nat \ {0} /\ count \in Nat /\ n \in Nat
      /\ count = Len(items) /\ items \in Seq(Values)
      /\ vfirst \in 0 .. size - 1 /\ vlast \in 0 .. size - 1
      /\ store \in [0 .. size - 1 -> Stored] /\ vlast = Place(count + 1)
      /\ count <= size /\ todo \in Seq(Values)
  BY LenProperties DEF RingTyped, RingHolds
<1>1. /\ vlast' = NextN(vlast, n) /\ count' = count + n
      /\ items' = items \o s /\ UNCHANGED <<size, vfirst, todo>>
      /\ store' = [p \in 0 .. size - 1 |->
                     IF p >= vlast /\ p < vlast + n THEN s[p - vlast + 1]
                                                    ELSE store[p]]
      /\ n <= Space
  BY DEF PushBlock
<1>2. vlast + n <= size
  BY <1>0, <1>1 DEF Space
<1>3. count + n <= size
  <2>1. torn' = (count + n > size)
    BY DEF PushBlock
  <2>2. ~(count + n > size)
    BY <2>1
  <2> QED BY <2>2, <1>0
<1>4. /\ items' \in Seq(Values) /\ Len(items') = count + n
      /\ \A i \in 1 .. count + n :
           items'[i] = IF i <= count THEN items[i] ELSE s[i - count]
  BY <1>0, <1>1, ConcatProperties
<1>5. store' \in [0 .. size - 1 -> Stored]
  <2>1. ASSUME NEW p \in 0 .. size - 1, p >= vlast, p < vlast + n
        PROVE  s[p - vlast + 1] \in Stored
    <3>1. p - vlast + 1 \in 1 .. Len(s)
      BY <2>1, <1>0
    <3> QED BY <3>1, ElementOfSeq DEF Stored
  <2>2. \A p \in 0 .. size - 1 : store[p] \in Stored
    BY <1>0
  <2>3. \A p \in 0 .. size - 1 :
          (IF p >= vlast /\ p < vlast + n THEN s[p - vlast + 1]
                                          ELSE store[p]) \in Stored
    BY <2>1, <2>2
  <2> HIDE DEF n
  <2> QED BY <1>1, <2>3
<1> HIDE DEF n
<1>6. vlast' \in 0 .. size - 1
  BY <1>0, <1>1, <1>2 DEF NextN
<1>7. vlast' = Place(count + 1)'
  <2>1. Place(count + 1)' = IF vfirst + count + n >= size
                            THEN vfirst + count + n - size
                            ELSE vfirst + count + n
    BY <1>0, <1>1 DEF Place
  <2>2. vlast = IF vfirst + count >= size THEN vfirst + count - size
                                          ELSE vfirst + count
    BY <1>0 DEF Place
  <2>3. vlast' = IF vlast + n = size THEN 0 ELSE vlast + n
    BY <1>1 DEF NextN
  <2>4. CASE vfirst + count >= size
    BY <2>1, <2>2, <2>3, <2>4, <1>0, <1>2, <1>3
  <2>5. CASE ~(vfirst + count >= size)
    BY <2>1, <2>2, <2>3, <2>5, <1>0, <1>2, <1>3
  <2> QED BY <2>4, <2>5
<1>8. ASSUME NEW i \in 1 .. count + n
      PROVE  store'[Place(i)'] = items'[i]
  <2>1. Place(i)' = Place(i)
    BY <1>1 DEF Place
  <2>2. CASE i <= count
    <3>1. i \in 1 .. count
      BY <2>2, <1>0
    <3>2. Place(i) \in 0 .. size - 1
          /\ ~(Place(i) >= vlast /\ Place(i) < vlast + n)
      BY <3>1, <1>0, <1>2, <1>3 DEF Place
    <3>3. store[Place(i)] = items[i]
      BY <3>1 DEF RingHolds
    <3>4. store'[Place(i)] = store[Place(i)]
      BY <3>2, <1>1
    <3> QED BY <2>1, <2>2, <3>3, <3>4, <1>4
  <2>3. CASE ~(i <= count)
    <3>1. Place(i) = vlast + i - count - 1
      BY <2>3, <1>0, <1>2, <1>3 DEF Place
    <3>2. /\ Place(i) \in 0 .. size - 1
          /\ Place(i) >= vlast /\ Place(i) < vlast + n
          /\ Place(i) - vlast + 1 = i - count
      BY <3>1, <2>3, <1>0, <1>2, <1>3
    <3>3. store'[Place(i)] = s[Place(i) - vlast + 1]
      BY <3>2, <1>1
    <3> QED BY <2>1, <2>3, <3>2, <3>3, <1>4
  <2> QED BY <2>2, <2>3
<1>9. RingTyped'
  BY <1>0, <1>1, <1>4, <1>5, <1>6 DEF RingTyped
<1>10. count' = Len(items') /\ count' <= size'
  BY <1>0, <1>1, <1>3, <1>4
<1>11. \A i \in 1 .. count' : store'[Place(i)'] = items'[i]
  BY <1>1, <1>8
<1>12. RingHolds'
  BY <1>7, <1>10, <1>11 DEF RingHolds
<1> QED BY <1>9, <1>12

\* popN takes the oldest, and the rest is where it was.
LEMMA PopKeeps ==
  ASSUME RingTyped, RingHolds, NEW n \in 0 .. count, PopN(n)
  PROVE  RingTyped' /\ RingHolds' /\ out' = due'
<1>0. /\ size \in Nat \ {0} /\ count \in Nat /\ n \in Nat /\ n <= count
      /\ count = Len(items) /\ items \in Seq(Values)
      /\ vfirst \in 0 .. size - 1 /\ vlast \in 0 .. size - 1
      /\ store \in [0 .. size - 1 -> Stored] /\ vlast = Place(count + 1)
      /\ count <= size /\ todo \in Seq(Values)
  BY DEF RingTyped, RingHolds
<1>1. /\ vfirst' = IF vlast > vfirst THEN NextN(vfirst, n) ELSE Place(n + 1)
      /\ count' = count - n
      /\ due' = SubSeq(items, 1, n)
      /\ items' = SubSeq(items, n + 1, Len(items))
      /\ UNCHANGED <<store, size, vlast, todo>>
      /\ out' = [i \in 1 .. n |-> store[IF vlast > vfirst THEN vfirst + i - 1
                                                          ELSE Place(i)]]
  BY DEF PopN
<1>2. \A i \in 1 .. Len(items) : items[i] \in Values
  BY <1>0, ElementOfSeq
<1>3. /\ items' \in Seq(Values) /\ Len(items') = count - n
      /\ \A i \in 1 .. count - n : items'[i] = items[n + i]
  <2>1. \A i \in n + 1 .. Len(items) : items[i] \in Values
    BY <1>0, <1>2
  <2>2. n + 1 \in Int /\ Len(items) \in Int
    BY <1>0
  <2>3. /\ SubSeq(items, n + 1, Len(items)) \in Seq(Values)
        /\ Len(SubSeq(items, n + 1, Len(items)))
             = IF n + 1 <= Len(items) THEN Len(items) - (n + 1) + 1 ELSE 0
        /\ \A i \in 1 .. Len(items) - (n + 1) + 1 :
             SubSeq(items, n + 1, Len(items))[i] = items[n + 1 + i - 1]
    BY <2>1, <2>2, SubSeqProperties
  <2>4. items' \in Seq(Values) /\ Len(items') = count - n
    BY <2>3, <1>0, <1>1
  <2>5. ASSUME NEW i \in 1 .. count - n
        PROVE  items'[i] = items[n + i]
    <3>1. i \in 1 .. Len(items) - (n + 1) + 1 /\ n + 1 + i - 1 = n + i
      BY <1>0
    <3> QED BY <3>1, <2>3, <1>1
  <2> QED BY <2>4, <2>5
<1>4. \A i \in 1 .. n :
        Place(i) = IF vlast > vfirst THEN vfirst + i - 1 ELSE Place(i)
  BY <1>0 DEF Place
<1>5. \A i \in 1 .. n : out'[i] = items[i]
  <2> SUFFICES ASSUME NEW i \in 1 .. n PROVE out'[i] = items[i]
    OBVIOUS
  <2>1. i \in 1 .. count
    BY <1>0
  <2>2. store[Place(i)] = items[i]
    BY <2>1 DEF RingHolds
  <2>3. out'[i] = store[Place(i)]
    BY <1>1, <1>4
  <2> QED BY <2>2, <2>3
<1>6. out' = due'
  <2>1. \A i \in 1 .. n : items[i] \in Values
    BY <1>0, <1>2
  <2>2. /\ due' \in Seq(Values) /\ Len(due') = n
        /\ \A i \in 1 .. n : due'[i] = items[i]
    <3>1. /\ SubSeq(items, 1, n) \in Seq(Values)
          /\ Len(SubSeq(items, 1, n)) = IF 1 <= n THEN n - 1 + 1 ELSE 0
          /\ \A i \in 1 .. n - 1 + 1 : SubSeq(items, 1, n)[i] = items[1 + i - 1]
      BY <2>1, <1>0, SubSeqProperties
    <3> QED BY <3>1, <1>0, <1>1
  <2>3. due' = [i \in 1 .. n |-> due'[i]]
    BY <2>2, LenProperties
  <2>4. out' = [i \in 1 .. n |-> out'[i]]
    BY <1>1
  <2> QED BY <2>2, <2>3, <2>4, <1>5
<1>7. vfirst' \in 0 .. size - 1
  BY <1>0, <1>1 DEF NextN, Place
<1>8. \A i \in 1 .. count - n : Place(i)' = Place(n + i)
  BY <1>0, <1>1 DEF NextN, Place
<1>9. vlast' = Place(count + 1)'
  <2>1. Place(count + 1)' = IF vfirst' + count - n >= size
                            THEN vfirst' + count - n - size
                            ELSE vfirst' + count - n
    BY <1>0, <1>1, <1>7 DEF Place
  <2> QED BY <2>1, <1>0, <1>1 DEF NextN, Place
<1>10. ASSUME NEW i \in 1 .. count - n
       PROVE  store'[Place(i)'] = items'[i]
  <2>1. n + i \in 1 .. count
    BY <1>0
  <2>2. store[Place(n + i)] = items[n + i]
    BY <2>1 DEF RingHolds
  <2> QED BY <2>2, <1>1, <1>3, <1>8
<1>11. RingTyped'
  BY <1>0, <1>1, <1>3, <1>7 DEF RingTyped
<1>12. count' = Len(items') /\ count' <= size'
  BY <1>0, <1>1, <1>3
<1>13. \A i \in 1 .. count' : store'[Place(i)'] = items'[i]
  BY <1>1, <1>10
<1>14. RingHolds'
  BY <1>9, <1>12, <1>13 DEF RingHolds
<1> QED BY <1>6, <1>11, <1>14

LEMMA RingKeeps == RingInv /\ [BufferNext]_bufferVars => RingInv'
<1> SUFFICES ASSUME RingInv, [BufferNext]_bufferVars PROVE RingInv'
  OBVIOUS
<1>0. CASE torn
  <2>1. UNCHANGED torn
    BY <1>0 DEF BufferNext, Push, PushBlock, PushLoop, PushNext, Peek,
       Iterate, PopN, SetOverlap, Reallocate, Resting, bufferVars
  <2> QED BY <1>0, <2>1 DEF RingInv
<1> SUFFICES ASSUME ~torn, ~torn' PROVE RingTyped' /\ BufferIsQueue'
  BY <1>0 DEF RingInv
<1>1. /\ RingTyped /\ RingHolds /\ out = due
      /\ todo \in Seq(Values) /\ size \in Nat \ {0}
      /\ count \in Nat /\ count = Len(items) /\ count <= size
      /\ vfirst \in 0 .. size - 1 /\ items \in Seq(Values)
  BY DEF RingInv, BufferIsQueue, RingHolds, RingTyped
<1>2. RingTyped' /\ RingHolds' /\ out' = due' => RingTyped' /\ BufferIsQueue'
  BY DEF RingHolds, BufferIsQueue
<1>3. ASSUME NEW v \in Values, Append1(v), todo' \in Seq(Values),
             UNCHANGED <<out, due>>
      PROVE  RingTyped' /\ RingHolds' /\ out' = due'
  BY <1>1, <1>3, AppendKeeps DEF RingTyped
<1>4. ASSUME NEW v \in Values, Refuse1(v), todo' \in Seq(Values),
             UNCHANGED <<out, due>>
      PROVE  RingTyped' /\ RingHolds' /\ out' = due'
  <2>1. UNCHANGED <<ringVars, items>>
    BY <1>4 DEF Refuse1, ringVars
  <2> QED BY <1>1, <1>4, <2>1, RingRests
<1>5. ASSUME NEW v \in Values, Push(v) PROVE RingTyped' /\ BufferIsQueue'
  <2>1. (Append1(v) \/ Refuse1(v)) /\ UNCHANGED <<todo, out, due>>
    BY <1>5 DEF Push
  <2> QED BY <1>1, <1>2, <1>3, <1>4, <2>1
<1>6. ASSUME NEW s \in Inputs PROVE s \in Seq(Values)
  BY <1>6 DEF Inputs
<1>7. ASSUME NEW s \in Inputs, PushBlock(s)
      PROVE  RingTyped' /\ BufferIsQueue'
  <2>1. UNCHANGED <<out, due>>
    BY <1>7 DEF PushBlock
  <2> QED BY <1>1, <1>2, <1>6, <1>7, <2>1, BlockKeeps
<1>8. ASSUME NEW s \in Inputs, PushLoop(s)
      PROVE  RingTyped' /\ BufferIsQueue'
  <2>1. UNCHANGED <<ringVars, items, out, due>> /\ todo' = s
    BY <1>8 DEF PushLoop
  <2> QED BY <1>1, <1>2, <1>6, <2>1, RingRests
<1>9. CASE PushNext
  <2>1. todo # <<>> /\ UNCHANGED <<out, due>>
    BY <1>9 DEF PushNext
  <2>2. Head(todo) \in Values /\ Tail(todo) \in Seq(Values)
    BY <1>1, <2>1, HeadTailProperties
  <2>3. CASE Append1(Head(todo)) /\ todo' = Tail(todo)
    BY <1>2, <1>3, <2>1, <2>2, <2>3
  <2>4. CASE Refuse1(Head(todo)) /\ todo' = <<>>
    BY <1>2, <1>4, <2>1, <2>2, <2>4, EmptySeq
  <2> QED BY <1>9, <2>3, <2>4 DEF PushNext
<1>10. CASE Peek
  <2>1. /\ UNCHANGED <<ringVars, items, todo>> /\ count > 0
        /\ out' = <<store[vfirst]>> /\ due' = SubSeq(items, 1, 1)
    BY <1>10 DEF Peek
  <2>2. store[vfirst] = items[1]
    <3>1. Place(1) = vfirst
      BY <1>1 DEF Place
    <3>2. 1 \in 1 .. count
      BY <1>1, <2>1
    <3> QED BY <1>1, <3>1, <3>2 DEF RingHolds
  <2>3. items[1] \in Values
    BY <1>1, <2>1, ElementOfSeq
  <2>4. SubSeq(items, 1, 1) = <<items[1]>>
    <3>1. \A i \in 1 .. 1 : items[i] \in Values
      BY <2>3
    <3>2. /\ SubSeq(items, 1, 1) \in Seq(Values)
          /\ Len(SubSeq(items, 1, 1)) = IF 1 <= 1 THEN 1 - 1 + 1 ELSE 0
          /\ \A i \in 1 .. 1 - 1 + 1 : SubSeq(items, 1, 1)[i] = items[1 + i - 1]
      BY <3>1, SubSeqProperties
    <3>3. /\ SubSeq(items, 1, 1) \in Seq(Values)
          /\ Len(SubSeq(items, 1, 1)) = 1
          /\ SubSeq(items, 1, 1)[1] = items[1]
      BY <3>2
    <3>4. <<items[1]>> \in Seq(Values) /\ Len(<<items[1]>>) = 1
          /\ <<items[1]>>[1] = items[1]
      BY <2>3
    <3>5. \A i \in 1 .. Len(SubSeq(items, 1, 1)) :
             SubSeq(items, 1, 1)[i] = <<items[1]>>[i]
      BY <3>3, <3>4
    <3> QED BY <3>3, <3>4, <3>5, SeqEqual
  <2> QED BY <1>1, <1>2, <2>1, <2>2, <2>4, RingRests
<1>11. CASE Iterate
  <2>1. /\ UNCHANGED <<ringVars, items, todo>> /\ count > 0 /\ due' = items
        /\ out' = [i \in 1 .. (IF vlast > vfirst THEN vlast - vfirst
                                                 ELSE vlast - vfirst + size)
                     |-> store[Place(i)]]
    BY <1>11 DEF Iterate
  <2>2. (IF vlast > vfirst THEN vlast - vfirst
                           ELSE vlast - vfirst + size) = count
    <3>1. vlast = IF vfirst + count >= size THEN vfirst + count - size
                                            ELSE vfirst + count
      BY <1>1 DEF RingHolds, Place
    <3> QED BY <1>1, <2>1, <3>1
  <2>3. out' = [i \in 1 .. count |-> items[i]]
    BY <1>1, <2>1, <2>2 DEF RingHolds
  <2>4. items = [i \in 1 .. count |-> items[i]]
    BY <1>1, LenProperties
  <2> QED BY <1>1, <1>2, <2>1, <2>3, <2>4, RingRests
<1>12. ASSUME NEW n \in 0 .. count, PopN(n)
       PROVE  RingTyped' /\ BufferIsQueue'
  BY <1>1, <1>2, <1>12, PopKeeps
<1>13. ASSUME NEW b \in BOOLEAN, SetOverlap(b)
       PROVE  RingTyped' /\ BufferIsQueue'
  <2>1. UNCHANGED <<ringVars, items, todo, out, due>>
    BY <1>13 DEF SetOverlap
  <2> QED BY <1>1, <1>2, <2>1, RingRests
<1>14. ASSUME NEW sz \in Sizes, Reallocate(sz)
       PROVE  RingTyped' /\ BufferIsQueue'
  <2>1. /\ sz > size /\ size' = sz /\ sz \in Nat
        /\ UNCHANGED <<vfirst, vlast, count, items, todo, out, due>>
        /\ store' = [p \in 0 .. sz - 1 |-> IF p < size THEN store[p] ELSE Zero]
    BY <1>14, BufferAssumption DEF Reallocate
  <2>2. count > 0 => vlast > vfirst
    <3>1. torn' = (count > 0 /\ vlast <= vfirst)
      BY <1>14 DEF Reallocate
    <3>2. ~(count > 0 /\ vlast <= vfirst)
      BY <3>1
    <3> QED BY <3>2, <1>1 DEF RingTyped
  <2>3. vlast = IF vfirst + count >= size THEN vfirst + count - size
                                          ELSE vfirst + count
    BY <1>1 DEF RingHolds, Place
  <2>4. vlast = vfirst + count /\ vfirst + count < size
    BY <1>1, <2>2, <2>3
  <2>5. store' \in [0 .. size' - 1 -> Stored]
    BY <1>1, <2>1 DEF RingTyped, Stored
  <2>6. RingTyped'
    BY <1>1, <2>1, <2>5 DEF RingTyped
  <2>7. vlast' = Place(count + 1)'
    BY <1>1, <2>1, <2>4 DEF Place
  <2>8. ASSUME NEW i \in 1 .. count
        PROVE  store'[Place(i)'] = items'[i]
    <3>1. Place(i) = vfirst + i - 1 /\ Place(i)' = vfirst + i - 1
      BY <1>1, <2>1, <2>4 DEF Place
    <3>2. vfirst + i - 1 \in 0 .. size - 1
      BY <1>1, <2>4
    <3>3. store'[vfirst + i - 1] = store[vfirst + i - 1]
      BY <3>2, <2>1, <1>1
    <3> QED BY <3>1, <3>3, <1>1, <2>1 DEF RingHolds
  <2>9. RingHolds'
    BY <1>1, <2>1, <2>7, <2>8 DEF RingHolds
  <2> QED BY <1>1, <1>2, <2>1, <2>6, <2>9
<1>15. CASE UNCHANGED bufferVars
  <2>1. UNCHANGED <<ringVars, items, todo, out, due>>
    BY <1>15 DEF bufferVars
  <2> QED BY <1>1, <1>2, <2>1, RingRests
<1> QED
  BY <1>5, <1>7, <1>8, <1>9, <1>10, <1>11, <1>12, <1>13, <1>14, <1>15
  DEF BufferNext

\* Until one of the calls that tear it is made the ring is a queue, for every
\* size, template and sequence of calls.
THEOREM RingIsQueue == BufferSpec => []BufferIsQueue
<1>1. RingInv => BufferIsQueue
  BY DEF RingInv, BufferIsQueue
<1> QED BY <1>1, RingStart, RingKeeps, PTL DEF BufferSpec

-----------------------------------------------------------------------------
(* Dates and hex digits. *)

\* What a date is made of.
LEMMA Parts ==
  ASSUME NEW d \in Nat
  PROVE  /\ GetYear(d) \in Nat /\ GetMonth(d) \in 0 .. 99 /\ GetDay(d) \in 0 .. 99
         /\ d = GetYear(d) * 10000 + GetMonth(d) * 100 + GetDay(d)
BY DEF GetYear, GetMonth, GetDay

\* And the date that is made of them.
DateOf(y, m, k) == y * 10000 + m * 100 + k

LEMMA Compose ==
  ASSUME NEW a \in Nat, NEW b \in 0 .. 99, NEW c \in 0 .. 99
  PROVE  /\ GetYear(DateOf(a, b, c)) = a
         /\ GetMonth(DateOf(a, b, c)) = b
         /\ GetDay(DateOf(a, b, c)) = c
<1> DEFINE d == DateOf(a, b, c)
<1>0. d = a * 10000 + b * 100 + c
  BY DEF DateOf
<1> HIDE DEF d
<1>1. d \div 100 = a * 100 + b
  BY <1>0
<1>2. d \div 10000 = a
  BY <1>0
<1>3. d % 100 = c
  BY <1>0
<1>4. (a * 100 + b) % 100 = b
  OBVIOUS
<1>5. GetYear(d) = a /\ GetMonth(d) = b /\ GetDay(d) = c
  BY <1>1, <1>2, <1>3, <1>4 DEF GetYear, GetMonth, GetDay
<1> QED BY <1>5 DEF d

LEMMA MonthLengths ==
  ASSUME NEW d \in Nat, GetMonth(d) \in 1 .. 12
  PROVE  /\ DaysOf(d) \in 28 .. 31
         /\ GetMonth(d) \in {1, 3, 5, 7, 8, 10, 12} => DaysOf(d) = 31
         /\ GetMonth(d) \in {4, 6, 9, 11} => DaysOf(d) = 30
         /\ GetMonth(d) = 2 => DaysOf(d) = IF IsLeapYear(GetYear(d)) THEN 29 ELSE 28
BY DEF DaysOf, month, leapMonth

\* The three ways GetNextDate goes.
LEMMA NextParts ==
  ASSUME NEW d, RealDate(d), NEW n, n = GetNextDate(d)
  PROVE  /\ n \in Nat
         /\ \/ /\ GetDay(d) < DaysOf(d)
               /\ GetYear(n) = GetYear(d) /\ GetMonth(n) = GetMonth(d)
               /\ GetDay(n) = GetDay(d) + 1
            \/ /\ GetDay(d) = DaysOf(d) /\ GetMonth(d) < 12
               /\ GetYear(n) = GetYear(d) /\ GetMonth(n) = GetMonth(d) + 1
               /\ GetDay(n) = 1
            \/ /\ GetDay(d) = DaysOf(d) /\ GetMonth(d) = 12
               /\ GetYear(n) = GetYear(d) + 1 /\ GetMonth(n) = 1
               /\ GetDay(n) = 1
<1> DEFINE y == GetYear(d)
           m == GetMonth(d)
           k == GetDay(d)
<1>1. /\ d \in Nat /\ y \in Nat /\ m \in 1 .. 12 /\ k \in 1 .. DaysOf(d)
      /\ d = y * 10000 + m * 100 + k /\ DaysOf(d) \in 28 .. 31
  BY Parts, MonthLengths DEF RealDate
<1>2. d \div 10000 = y /\ d \div 100 = y * 100 + m
  BY <1>1 DEF GetYear
<1> HIDE DEF y, m, k
<1>3. CASE k < DaysOf(d)
  <2>1. n = y * 10000 + m * 100 + (k + 1) /\ n \in Nat
    BY <1>1, <1>3 DEF GetNextDate, IsEndOfMonth, k
  <2>2. GetYear(n) = y /\ GetMonth(n) = m /\ GetDay(n) = k + 1
    <3>1. k + 1 \in 0 .. 99 /\ m \in 0 .. 99 /\ y \in Nat
      BY <1>1, <1>3
    <3>2. n = DateOf(y, m, k + 1)
      BY <2>1 DEF DateOf
    <3>3. GetYear(DateOf(y, m, k + 1)) = y
         /\ GetMonth(DateOf(y, m, k + 1)) = m
         /\ GetDay(DateOf(y, m, k + 1)) = k + 1
      BY <3>1, Compose
    <3> QED BY <3>2, <3>3
  <2> QED BY <1>3, <2>1, <2>2 DEF y, m, k
<1>4. CASE k = DaysOf(d) /\ m < 12
  <2>1. n = y * 10000 + (m + 1) * 100 + 1 /\ n \in Nat
    BY <1>1, <1>2, <1>4 DEF GetNextDate, IsEndOfMonth, IsEndOfYear, k, m
  <2>2. GetYear(n) = y /\ GetMonth(n) = m + 1 /\ GetDay(n) = 1
    <3>1. m + 1 \in 0 .. 99 /\ 1 \in 0 .. 99 /\ y \in Nat
      BY <1>1, <1>4
    <3>2. n = DateOf(y, m + 1, 1)
      BY <2>1 DEF DateOf
    <3>3. GetYear(DateOf(y, m + 1, 1)) = y
         /\ GetMonth(DateOf(y, m + 1, 1)) = m + 1
         /\ GetDay(DateOf(y, m + 1, 1)) = 1
      BY <3>1, Compose
    <3> QED BY <3>2, <3>3
  <2> QED BY <1>4, <2>1, <2>2 DEF y, m, k
<1>5. CASE k = DaysOf(d) /\ m = 12
  <2>1. n = (y + 1) * 10000 + 1 * 100 + 1 /\ n \in Nat
    BY <1>1, <1>2, <1>5 DEF GetNextDate, IsEndOfMonth, IsEndOfYear, k, m
  <2>2. GetYear(n) = y + 1 /\ GetMonth(n) = 1 /\ GetDay(n) = 1
    <3>1. y + 1 \in Nat /\ 1 \in 0 .. 99
      BY <1>1
    <3>2. n = DateOf(y + 1, 1, 1)
      BY <2>1 DEF DateOf
    <3>3. GetYear(DateOf(y + 1, 1, 1)) = y + 1
         /\ GetMonth(DateOf(y + 1, 1, 1)) = 1
         /\ GetDay(DateOf(y + 1, 1, 1)) = 1
      BY <3>1, Compose
    <3> QED BY <3>2, <3>3
  <2> QED BY <1>5, <2>1, <2>2 DEF y, m, k
<1> QED BY <1>1, <1>3, <1>4, <1>5

\* The days before a month, counted from March on, and before a year.
MonthDays(m) == (153 * m + 2) \div 5
YearDays(y) == 365 * y + y \div 4 - y \div 100 + y \div 400

LEMMA YearLength ==
  ASSUME NEW y \in Nat
  PROVE  /\ YearDays(y) \in Int
         /\ YearDays(y + 1) - YearDays(y) = IF IsLeapYear(y + 1) THEN 366 ELSE 365
<1>1. (y + 1) \div 4 - y \div 4 = IF (y + 1) % 4 = 0 THEN 1 ELSE 0
  OBVIOUS
<1>2. (y + 1) \div 100 - y \div 100 = IF (y + 1) % 100 = 0 THEN 1 ELSE 0
  OBVIOUS
<1>3. (y + 1) \div 400 - y \div 400 = IF (y + 1) % 400 = 0 THEN 1 ELSE 0
  OBVIOUS
<1>4. (y + 1) % 400 = 0 => (y + 1) % 100 = 0 /\ (y + 1) % 4 = 0
  OBVIOUS
<1>5. (y + 1) % 100 = 0 => (y + 1) % 4 = 0
  OBVIOUS
<1> QED BY <1>1, <1>2, <1>3, <1>4, <1>5 DEF YearDays, IsLeapYear

\* The same date, counted in years that begin in March.
LEMMA LeapShift ==
  ASSUME NEW y \in Nat
  PROVE  IsLeapYear(y + 4800) <=> IsLeapYear(y)
BY DEF IsLeapYear

LEMMA DayNumberParts ==
  ASSUME NEW d \in Nat, GetMonth(d) \in 1 .. 12
  PROVE  DayNumber(d) =
           IF GetMonth(d) < 3
           THEN GetDay(d) + MonthDays(GetMonth(d) + 9) + YearDays(GetYear(d) + 4799)
           ELSE GetDay(d) + MonthDays(GetMonth(d) - 3) + YearDays(GetYear(d) + 4800)
<1>1. (14 - GetMonth(d)) \div 12 = IF GetMonth(d) < 3 THEN 1 ELSE 0
  OBVIOUS
<1>2. GetYear(d) \in Nat
  BY Parts
<1>3. GetDay(d) \in Int
  BY Parts
<1>4. CASE GetMonth(d) < 3
  <2>1. /\ (14 - GetMonth(d)) \div 12 = 1
        /\ GetYear(d) + 4800 - 1 = GetYear(d) + 4799
        /\ GetMonth(d) + 12 * 1 - 3 = GetMonth(d) + 9
    BY <1>1, <1>2, <1>4
  <2>2. DayNumber(d) =
          GetDay(d) + (153 * (GetMonth(d) + 9) + 2) \div 5
            + 365 * (GetYear(d) + 4799) + (GetYear(d) + 4799) \div 4
            - (GetYear(d) + 4799) \div 100 + (GetYear(d) + 4799) \div 400
    BY <2>1 DEF DayNumber
  <2> QED BY <1>2, <1>3, <1>4, <2>2 DEF MonthDays, YearDays
<1>5. CASE ~(GetMonth(d) < 3)
  <2>1. /\ (14 - GetMonth(d)) \div 12 = 0
        /\ GetYear(d) + 4800 - 0 = GetYear(d) + 4800
        /\ GetMonth(d) + 12 * 0 - 3 = GetMonth(d) - 3
    BY <1>1, <1>2, <1>5
  <2>2. DayNumber(d) =
          GetDay(d) + (153 * (GetMonth(d) - 3) + 2) \div 5
            + 365 * (GetYear(d) + 4800) + (GetYear(d) + 4800) \div 4
            - (GetYear(d) + 4800) \div 100 + (GetYear(d) + 4800) \div 400
    BY <2>1 DEF DayNumber
  <2> QED BY <1>2, <1>3, <1>5, <2>2 DEF MonthDays, YearDays
<1> QED BY <1>4, <1>5

LEMMA DayNumberIsANumber ==
  ASSUME NEW d, RealDate(d)
  PROVE  DayNumber(d) \in Int
<1>1. d \in Nat /\ GetMonth(d) \in 1 .. 12
  BY DEF RealDate
<1>2. GetYear(d) \in Nat /\ GetDay(d) \in Nat
  BY <1>1, Parts
<1>3. YearDays(GetYear(d) + 4799) \in Int /\ YearDays(GetYear(d) + 4800) \in Int
  BY <1>2, YearLength
<1>4. MonthDays(GetMonth(d) + 9) \in Int /\ MonthDays(GetMonth(d) - 3) \in Int
  BY <1>1 DEF MonthDays
<1> QED BY <1>1, <1>2, <1>3, <1>4, DayNumberParts

\* The day after a real date is a real date, and the next day number: no day is
\* left out at the end of a month, a year or a century, and none is invented.
THEOREM NextDateIsTheNextDay ==
  ASSUME NEW d, RealDate(d)
  PROVE  /\ RealDate(GetNextDate(d))
         /\ DayNumber(GetNextDate(d)) = DayNumber(d) + 1
<1> DEFINE n == GetNextDate(d)
           y == GetYear(d)
           m == GetMonth(d)
<1> HIDE DEF n
<1>1. /\ d \in Nat /\ y \in Nat /\ m \in 1 .. 12 /\ GetDay(d) \in 1 .. DaysOf(d)
      /\ DaysOf(d) \in 28 .. 31
  BY Parts, MonthLengths DEF RealDate
<1>2. n \in Nat
  BY NextParts DEF n
<1>3. CASE GetYear(n) = y /\ GetMonth(n) = m /\ GetDay(n) = GetDay(d) + 1
           /\ GetDay(d) < DaysOf(d)
  <2>1. DaysOf(n) = DaysOf(d)
    BY <1>3 DEF DaysOf
  <2>2. RealDate(n)
    BY <1>1, <1>2, <1>3, <2>1 DEF RealDate
  <2>3. MonthDays(m + 9) \in Int /\ MonthDays(m - 3) \in Int
    BY <1>1 DEF MonthDays
  <2>4. YearDays(y + 4799) \in Int /\ YearDays(y + 4800) \in Int
    BY <1>1, YearLength
  <2>5. DayNumber(n) = DayNumber(d) + 1
    BY <1>1, <1>2, <1>3, <2>3, <2>4, DayNumberParts
  <2> QED BY <2>2, <2>5 DEF n
<1>4. CASE /\ GetDay(d) = DaysOf(d) /\ m < 12
           /\ GetYear(n) = y /\ GetMonth(n) = m + 1 /\ GetDay(n) = 1
  <2>1. DaysOf(n) \in 28 .. 31
    BY <1>1, <1>2, <1>4, MonthLengths
  <2>2. RealDate(n)
    BY <1>1, <1>2, <1>4, <2>1 DEF RealDate
  <2>3. YearDays(y + 4800) - YearDays(y + 4799) =
          IF IsLeapYear(y) THEN 366 ELSE 365
    <3>1. y + 4799 \in Nat /\ y + 4799 + 1 = y + 4800
      BY <1>1
    <3> QED BY <1>1, <3>1, YearLength, LeapShift
  <2>4. YearDays(y + 4799) \in Int /\ YearDays(y + 4800) \in Int
    BY <1>1, YearLength
  <2>5. CASE m = 2
    <3>1. DayNumber(n) = 1 + MonthDays(0) + YearDays(y + 4800)
      BY <1>2, <1>4, <2>5, DayNumberParts
    <3>2. DayNumber(d) = DaysOf(d) + MonthDays(11) + YearDays(y + 4799)
      BY <1>1, <1>4, <2>5, DayNumberParts
    <3>3. MonthDays(0) = 0 /\ MonthDays(11) = 337
      BY DEF MonthDays
    <3>4. DaysOf(d) = IF IsLeapYear(y) THEN 29 ELSE 28
      BY <1>1, <2>5, MonthLengths
    <3> QED BY <2>2, <2>3, <2>4, <3>1, <3>2, <3>3, <3>4 DEF n
  <2>6. CASE m # 2
    <3>1. MonthDays(m + 10) - MonthDays(m + 9) = DaysOf(d) \/ m # 1
      BY <1>1, MonthLengths DEF MonthDays
    <3>2. MonthDays(m - 2) - MonthDays(m - 3) = DaysOf(d) \/ m < 3
      <4>1. m \in {3, 4, 5, 6, 7, 8, 9, 10, 11} \/ m < 3
        BY <1>1, <1>4
      <4>2. m \in {3, 5, 7, 8, 10} => DaysOf(d) = 31
        BY <1>1, MonthLengths
      <4>3. m \in {4, 6, 9, 11} => DaysOf(d) = 30
        BY <1>1, MonthLengths
      <4> QED BY <4>1, <4>2, <4>3 DEF MonthDays
    <3>3. /\ MonthDays(m + 10) \in Int /\ MonthDays(m + 9) \in Int
          /\ MonthDays(m - 2) \in Int /\ MonthDays(m - 3) \in Int
      BY <1>1 DEF MonthDays
    <3>4. CASE m < 3
      <4>1. DayNumber(n) = 1 + MonthDays(m + 10) + YearDays(y + 4799)
        BY <1>1, <1>2, <1>4, <2>6, <3>4, DayNumberParts
      <4>2. DayNumber(d) = DaysOf(d) + MonthDays(m + 9) + YearDays(y + 4799)
        BY <1>1, <1>4, <3>4, DayNumberParts
      <4> QED BY <1>1, <2>2, <2>4, <2>6, <3>1, <3>3, <3>4, <4>1, <4>2 DEF n
    <3>5. CASE ~(m < 3)
      <4>1. DayNumber(n) = 1 + MonthDays(m - 2) + YearDays(y + 4800)
        BY <1>1, <1>2, <1>4, <3>5, DayNumberParts
      <4>2. DayNumber(d) = DaysOf(d) + MonthDays(m - 3) + YearDays(y + 4800)
        BY <1>1, <1>4, <3>5, DayNumberParts
      <4> QED BY <1>1, <2>2, <2>4, <3>2, <3>3, <3>5, <4>1, <4>2 DEF n
    <3> QED BY <3>4, <3>5
  <2> QED BY <2>5, <2>6
<1>5. CASE /\ GetDay(d) = DaysOf(d) /\ m = 12
           /\ GetYear(n) = y + 1 /\ GetMonth(n) = 1 /\ GetDay(n) = 1
  <2>1. DaysOf(n) \in 28 .. 31
    BY <1>2, <1>5, MonthLengths
  <2>2. RealDate(n)
    BY <1>2, <1>5, <2>1 DEF RealDate
  <2>3. DayNumber(n) = 1 + MonthDays(10) + YearDays(y + 4800)
    <3>1. y + 1 + 4799 = y + 4800
      BY <1>1
    <3> QED BY <1>2, <1>5, <3>1, DayNumberParts
  <2>4. DayNumber(d) = 31 + MonthDays(9) + YearDays(y + 4800)
    BY <1>1, <1>5, DayNumberParts, MonthLengths
  <2>5. MonthDays(10) = 306 /\ MonthDays(9) = 275
    BY DEF MonthDays
  <2>6. YearDays(y + 4800) \in Int
    BY <1>1, YearLength
  <2> QED BY <2>2, <2>3, <2>4, <2>5, <2>6 DEF n
<1> QED BY <1>3, <1>4, <1>5, NextParts DEF n

\* RetrieveRangeDate lists every day of its range, from any real date on.
THEOREM RangesListEveryDay == CalendarSpec => []RangeIsEveryDay
<1>1. CalendarInit => RangeIsEveryDay
  <2> SUFFICES ASSUME CalendarInit PROVE RangeIsEveryDay
    OBVIOUS
  <2>1. RealDate(begin)
    BY CalendarAssumption DEF CalendarInit
  <2>2. DayNumber(begin) \in Int
    BY <2>1, DayNumberIsANumber
  <2> QED BY <2>1, <2>2 DEF CalendarInit, RangeIsEveryDay
<1>2. RangeIsEveryDay /\ days \in Nat /\ begin \in FirstDates
        /\ [GetRangeDate]_calendarVars
      => (RangeIsEveryDay /\ days \in Nat /\ begin \in FirstDates)'
  <2> SUFFICES ASSUME RangeIsEveryDay, days \in Nat, begin \in FirstDates,
                      [GetRangeDate]_calendarVars
               PROVE  (RangeIsEveryDay /\ days \in Nat /\ begin \in FirstDates)'
    OBVIOUS
  <2>1. CASE UNCHANGED calendarVars
    BY <2>1 DEF calendarVars, RangeIsEveryDay
  <2>2. CASE GetRangeDate
    <3>1. DayNumber(begin) \in Int
      BY CalendarAssumption, DayNumberIsANumber
    <3>2. RealDate(listed') /\ DayNumber(listed') = DayNumber(listed) + 1
      BY <2>2, NextDateIsTheNextDay DEF GetRangeDate, RangeIsEveryDay
    <3> QED BY <2>2, <3>1, <3>2 DEF GetRangeDate, RangeIsEveryDay
  <2> QED BY <2>1, <2>2
<1>3. CalendarInit => days \in Nat /\ begin \in FirstDates
  BY DEF CalendarInit
<1> QED BY <1>1, <1>2, <1>3, PTL DEF CalendarSpec

\* A string of bytes comes back from its hex digits.
THEOREM HexRoundTrip ==
  ASSUME NEW s \in Seq(0 .. 255)
  PROVE  Hex2Bin(Bin2Hex(s)) = s
<1> DEFINE h == Bin2Hex(s)
<1>1. Len(s) \in Nat /\ h = [i \in 1 .. 2 * Len(s) |->
                 IF i % 2 = 1 THEN s[(i + 1) \div 2] \div 16
                              ELSE s[i \div 2] % 16]
  BY DEF Bin2Hex
<1>0. \A i \in 1 .. Len(s) : s[i] \in 0 .. 255
  BY ElementOfSeq
<1>2. \A i \in 1 .. Len(s) :
        /\ h[2 * i - 1] = s[i] \div 16 /\ h[2 * i] = s[i] % 16
        /\ s[i] \in 0 .. 255
  <2> TAKE i \in 1 .. Len(s)
  <2>1. 2 * i - 1 \in 1 .. 2 * Len(s) /\ 2 * i \in 1 .. 2 * Len(s)
    BY <1>1
  <2>2. (2 * i - 1) % 2 = 1 /\ (2 * i) % 2 = 0
    BY <1>1
  <2>3. (2 * i - 1 + 1) \div 2 = i /\ (2 * i) \div 2 = i
    BY <1>1
  <2>4. h[2 * i - 1] = s[(2 * i - 1 + 1) \div 2] \div 16
    BY <1>1, <2>1, <2>2
  <2>5. h[2 * i] = s[(2 * i) \div 2] % 16
    BY <1>1, <2>1, <2>2
  <2> QED BY <1>0, <2>3, <2>4, <2>5
<1>3. \A i \in 1 .. 2 * Len(s) : h[i] \in 0 .. 15
  <2> TAKE i \in 1 .. 2 * Len(s)
  <2>1. CASE i % 2 = 1
    <3>1. (i + 1) \div 2 \in 1 .. Len(s)
      BY <1>1, <2>1
    <3>2. s[(i + 1) \div 2] \in 0 .. 255
      BY <1>0, <3>1
    <3>3. h[i] = s[(i + 1) \div 2] \div 16
      BY <1>1, <2>1
    <3>4. \A b \in 0 .. 255 : b \div 16 \in 0 .. 15
      OBVIOUS
    <3> QED BY <3>2, <3>3, <3>4
  <2>2. CASE i % 2 # 1
    <3>1. i \div 2 \in 1 .. Len(s)
      BY <1>1, <2>2
    <3>2. s[i \div 2] \in 0 .. 255
      BY <1>0, <3>1
    <3>3. h[i] = s[i \div 2] % 16
      BY <1>1, <2>2
    <3>4. \A b \in 0 .. 255 : b % 16 \in 0 .. 15
      OBVIOUS
    <3> QED BY <3>2, <3>3, <3>4
  <2> QED BY <2>1, <2>2
<1>4. h \in Seq(0 .. 15) /\ Len(h) = 2 * Len(s)
  BY <1>1, <1>3
<1> HIDE DEF h
<1>5. Len(h) % 2 # 1 /\ Len(h) \div 2 = Len(s)
  BY <1>1, <1>4
<1>6. Hex2Bin(h) = [i \in 1 .. Len(s) |-> h[2 * i - 1] * 16 + h[2 * i]]
  <2>1. \A i \in 1 .. Len(s) : h[2 * i - 1] \in 0 .. 15 /\ h[2 * i] \in 0 .. 15
    <3> TAKE i \in 1 .. Len(s)
    <3>1. 2 * i - 1 \in 1 .. 2 * Len(s) /\ 2 * i \in 1 .. 2 * Len(s)
      BY <1>1
    <3> QED BY <1>3, <3>1
  <2> QED BY <1>5, <2>1 DEF Hex2Bin
<1>7. \A i \in 1 .. Len(s) : h[2 * i - 1] * 16 + h[2 * i] = s[i]
  <2> TAKE i \in 1 .. Len(s)
  <2>1. \A b \in 0 .. 255 : (b \div 16) * 16 + (b % 16) = b
    OBVIOUS
  <2>2. /\ h[2 * i - 1] = s[i] \div 16 /\ h[2 * i] = s[i] % 16
        /\ s[i] \in 0 .. 255
    BY <1>2
  <2> QED BY <2>1, <2>2
<1> QED BY <1>6, <1>7 DEF h
=============================================================================
