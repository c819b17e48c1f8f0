---------------------------- MODULE ServiceProofs ----------------------------
(***************************************************************************)
(* The Cassandra restraint counts the calls at work and a batch reaches    *)
(* the server in order, for every number of threads and every batch; and   *)
(* on top of it, what the process of the id service keeps while it is      *)
(* brought up, serves and is stopped by a signal.                          *)
(***************************************************************************)
EXTENDS Service, FiniteSetTheorems, SequenceTheorems, TLAPS

-----------------------------------------------------------------------------
(* The restraint of the Cassandra wrapper. *)

PcTyped == pc \in [Threads \cup {Owner} -> Places \cup {"clear", "clearing"}]

RestraintInv ==
  /\ PcTyped
  /\ limit \in LimitsSet
  /\ RestraintHolds

LEMMA LimitsAreNumbers == LimitsSet \subseteq Nat
BY LimitAssumption DEF LimitsSet

LEMMA HoldersFinite == IsFiniteSet(Holders) /\ Cardinality(Holders) \in Nat
<1>1. Holders \subseteq Threads
  BY DEF Holders
<1>2. IsFiniteSet(Holders)
  BY <1>1, ThreadsAssumption, FS_Subset
<1> QED BY <1>2, FS_CardinalityType

\* A step of a thread that is at work before and after it, or not at work
\* before and after it, leaves the count right.
LEMMA SamePlace ==
  ASSUME RestraintInv, NEW t, NEW to,
         t \in Threads => (pc[t] \in AtWork <=> to \in AtWork),
         t \in Threads \cup {Owner}, to \in Places \cup {"clear", "clearing"},
         pc' = [pc EXCEPT ![t] = to], limit' \in LimitsSet,
         concurrent' = concurrent
  PROVE  RestraintInv'
<1>1. PcTyped'
  BY DEF RestraintInv, PcTyped
<1>2. Holders' = Holders
  BY DEF Holders, RestraintInv, PcTyped
<1> QED BY <1>1, <1>2 DEF RestraintInv, RestraintHolds, RestraintCountsCalls

LEMMA RestraintStart == CassInit => RestraintInv
<1> SUFFICES ASSUME CassInit PROVE RestraintInv
  OBVIOUS
<1>1. PcTyped
  BY DEF CassInit, PcTyped, Places
<1>2. Holders = {}
  BY DEF CassInit, Holders, AtWork
<1>3. limit \in LimitsSet
  BY DEF CassInit, LimitsSet
<1>4. RestraintHolds
  BY <1>2, <1>3, LimitsAreNumbers, FS_EmptySet
     DEF CassInit, RestraintHolds, RestraintCountsCalls
<1> QED BY <1>1, <1>3, <1>4 DEF RestraintInv

LEMMA RestraintStep == RestraintInv /\ [CassNext]_cassVars => RestraintInv'
<1> SUFFICES ASSUME RestraintInv, [CassNext]_cassVars PROVE RestraintInv'
  OBVIOUS
<1>0. /\ PcTyped /\ limit \in LimitsSet /\ concurrent = Cardinality(Holders)
      /\ concurrent \in Nat /\ limit \in Nat
      /\ \A t \in Threads : t # Owner /\ pc[t] \in Places \cup {"clear", "clearing"}
  BY HoldersFinite, LimitsAreNumbers, OwnerAssumption
     DEF RestraintInv, RestraintHolds, RestraintCountsCalls, PcTyped
<1>1. CASE UNCHANGED <<pc, concurrent>> /\ limit' \in LimitsSet
  BY <1>1 DEF RestraintInv, PcTyped, RestraintHolds, RestraintCountsCalls, Holders
<1>2. CASE Open
  BY <1>0, <1>1, <1>2 DEF Open, LimitsSet, callVars
<1>3. ASSUME NEW n \in Limits, SetRequestMax(n) PROVE RestraintInv'
  BY <1>1, <1>3 DEF SetRequestMax, LimitsSet, callVars
<1>4. CASE Close \/ Clear \/ Cleared
  <2>1. PICK to \in {"idle", "clear", "clearing"} : pc' = [pc EXCEPT ![Owner] = to]
    BY <1>4 DEF Close, Clear, Cleared, InTheMap
  <2>2. UNCHANGED restrainVars
    BY <1>4 DEF Close, Clear, Cleared, InTheMap
  <2> QED BY <1>0, <2>1, <2>2, OwnerAssumption, SamePlace DEF restrainVars, Places
<1>5. ASSUME NEW t \in Threads, NEW c \in Calls, Start(t, c) PROVE RestraintInv'
  <2>1. PICK to \in {"idle", "chunk", "gate"} : pc' = [pc EXCEPT ![t] = to]
    BY <1>0, <1>5 DEF Start, PcTyped
  <2>2. pc[t] = "idle" /\ UNCHANGED restrainVars
    BY <1>5 DEF Start
  <2> QED BY <1>0, <2>1, <2>2, SamePlace DEF restrainVars, Places, AtWork
<1>6. ASSUME NEW t \in Threads, Chunk(t) \/ Poll(t) PROVE RestraintInv'
  <2>1. PICK to \in {"idle", "chunk", "gate", "futures"} : pc' = [pc EXCEPT ![t] = to]
    BY <1>0, <1>6 DEF Chunk, Poll, PcTyped
  <2>2. pc[t] \in {"chunk", "futures"} /\ UNCHANGED restrainVars
    BY <1>6 DEF Chunk, Poll
  <2> QED BY <1>0, <2>1, <2>2, SamePlace DEF restrainVars, Places, AtWork
<1>7. ASSUME NEW t \in Threads,
             \/ Look(t) \/ Looked(t) \/ Connect(t) \/ ConnectFails(t)
             \/ AppendSession(t) \/ Appended(t) \/ Execute(t)
      PROVE  RestraintInv'
  <2>1. PICK to \in AtWork : pc' = [pc EXCEPT ![t] = to]
    BY <1>7 DEF Look, Looked, Connect, ConnectFails, AppendSession, Appended,
         Execute, InTheMap, AtWork
  <2>2. pc[t] \in AtWork /\ UNCHANGED restrainVars
    BY <1>7 DEF Look, Looked, Connect, ConnectFails, AppendSession, Appended,
         Execute, InTheMap, AtWork
  <2> QED BY <1>0, <2>1, <2>2, SamePlace DEF restrainVars, Places
<1>8. ASSUME NEW t \in Threads, Enter(t) PROVE RestraintInv'
  <2>1. /\ pc[t] = "gate" /\ pc' = [pc EXCEPT ![t] = "look"]
        /\ concurrent < limit /\ concurrent' = concurrent + 1 /\ limit' = limit
    BY <1>8 DEF Enter
  <2>2. PcTyped'
    BY <1>0, <2>1 DEF PcTyped, Places, AtWork
  <2>3. Holders' = Holders \cup {t} /\ t \notin Holders
    BY <1>0, <2>1 DEF Holders, AtWork, PcTyped
  <2>4. Cardinality(Holders') = Cardinality(Holders) + 1
    BY <2>3, HoldersFinite, FS_AddElement
  <2>5. concurrent' = Cardinality(Holders') /\ concurrent' <= limit
    BY <1>0, <2>1, <2>4
  <2> QED BY <1>0, <2>1, <2>2, <2>5
        DEF RestraintInv, RestraintHolds, RestraintCountsCalls
<1>9. ASSUME NEW t \in Threads, Leave(t) PROVE RestraintInv'
  <2>1. PICK to \in {"idle", "chunk", "futures"} : pc' = [pc EXCEPT ![t] = to]
    BY <1>9 DEF Leave
  <2>2. pc[t] = "leave" /\ concurrent' = concurrent - 1 /\ limit' = limit
    BY <1>9 DEF Leave
  <2>3. PcTyped'
    BY <1>0, <2>1 DEF PcTyped, Places
  <2>4. Holders' = Holders \ {t} /\ t \in Holders
    BY <1>0, <2>1, <2>2 DEF Holders, AtWork, PcTyped
  <2>5. Cardinality(Holders') = Cardinality(Holders) - 1
    BY <2>4, HoldersFinite, FS_RemoveElement
  <2>6. PICK n \in LimitsSet : concurrent <= n
    BY DEF RestraintInv, RestraintHolds
  <2>7. concurrent' = Cardinality(Holders') /\ concurrent' <= n
    BY <1>0, <2>2, <2>5, <2>6, LimitsAreNumbers
  <2> QED BY <1>0, <2>2, <2>3, <2>7
        DEF RestraintInv, RestraintHolds, RestraintCountsCalls
<1>10. CASE UNCHANGED cassVars
  BY <1>0, <1>1, <1>10 DEF cassVars, restrainVars, callVars
<1> QED
  BY <1>2, <1>3, <1>4, <1>5, <1>6, <1>7, <1>8, <1>9, <1>10 DEF CassNext, Work

LEMMA CallsAreCounted == CassInit /\ [][CassNext]_cassVars => []RestraintHolds
BY RestraintStart, RestraintStep, PTL DEF RestraintInv

\* The restraint counts the calls at work and lets no more of them in than some
\* limit that was set, for any number of threads, calls and changes of it.
THEOREM RestraintKeepsCount == CassSpec => []RestraintHolds
BY CallsAreCounted, PTL DEF CassSpec

-----------------------------------------------------------------------------
(* A batch goes to the server part by part. *)

\* Every set of numbers has a least one: the sets below its members are finite,
\* and the strict subset ordering of finite sets is well founded.
LEMMA LeastNumber ==
  ASSUME NEW T \in SUBSET Nat, T # {}
  PROVE  \E x \in T : \A y \in T : x <= y
<1> DEFINE Below == {0 .. (x - 1) : x \in T}
<1>1. Below \subseteq FiniteSubsetsOf(Nat) /\ Below # {}
  <2>1. \A x \in T : 0 .. (x - 1) \in SUBSET Nat /\ IsFiniteSet(0 .. (x - 1))
    BY FS_Interval
  <2> QED BY <2>1 DEF FiniteSubsetsOf
<1>2. PICK b \in Below :
        \A c \in Below : <<c, b>> \notin StrictSubsetOrdering(Nat)
  BY <1>1, WFMin, FS_StrictSubsetOrderingWellFounded
<1>3. PICK x \in T : b = 0 .. (x - 1)
  BY <1>2
<1>4. ASSUME NEW y \in T, y < x PROVE FALSE
  <2> DEFINE c == 0 .. (y - 1)
  <2>1. c \in Below /\ c \in SUBSET Nat /\ b \in SUBSET Nat
    BY <1>3
  <2>2. c \subseteq b /\ c # b
    <3>1. y \in b /\ y \notin c
      BY <1>3, <1>4
    <3>2. c \subseteq b
      BY <1>3, <1>4
    <3> QED BY <3>1, <3>2
  <2>3. <<c, b>> \in StrictSubsetOrdering(Nat)
    BY <2>1, <2>2 DEF StrictSubsetOrdering
  <2> QED BY <1>2, <2>1, <2>3
<1> QED BY <1>4

\* f adds up the bytes of the statements from i to j.
Sums(s, i, j, f) ==
  f = [k \in (i - 1) .. j |-> IF k < i THEN 0 ELSE f[k - 1] + s[k]]

\* What Bytes picks is such a sum.
LEMMA BytesIs == \A s, i, j : Bytes(s, i, j) = (CHOOSE f : Sums(s, i, j, f))[j]
BY DEF Bytes, Sums

\* There is such a sum for every part: the least part without one could be
\* had from the part before it.
LEMMA SumsExist ==
  ASSUME NEW s \in Seq(Nat), NEW i \in 1 .. Len(s)
  PROVE  \A j \in (i - 1) .. Len(s) : \E f : Sums(s, i, j, f)
<1> DEFINE Bad == {j \in (i - 1) .. Len(s) : ~ \E f : Sums(s, i, j, f)}
<1> SUFFICES ASSUME Bad # {} PROVE FALSE
  OBVIOUS
<1>0. i \in Nat /\ i >= 1 /\ Len(s) \in Nat /\ i <= Len(s)
  OBVIOUS
<1>1. Bad \in SUBSET Nat
  BY <1>0
<1>2. PICK j \in Bad : \A k \in Bad : j <= k
  BY <1>1, LeastNumber
<1>3. j # i - 1
  <2>1. Sums(s, i, i - 1, [k \in (i - 1) .. (i - 1) |-> 0])
    BY <1>0 DEF Sums
  <2> QED BY <2>1
<1>4. j - 1 \in (i - 1) .. Len(s) /\ j - 1 \notin Bad /\ j \in Int
  BY <1>0, <1>2, <1>3
<1>5. PICK f : Sums(s, i, j - 1, f)
  BY <1>4
<1> DEFINE g == [k \in (i - 1) .. j |-> IF k = j THEN f[j - 1] + s[j] ELSE f[k]]
<1>6. Sums(s, i, j, g)
  <2>1. ASSUME NEW k \in (i - 1) .. j
        PROVE  g[k] = IF k < i THEN 0 ELSE g[k - 1] + s[k]
    <3>1. CASE k = j
      <4>1. g[k] = f[j - 1] + s[j] /\ ~(k < i)
        BY <1>0, <1>3, <1>4, <3>1
      <4>2. g[k - 1] = f[j - 1]
        BY <1>0, <1>3, <1>4, <3>1
      <4> QED BY <3>1, <4>1, <4>2
    <3>2. CASE k # j
      <4>1. g[k] = f[k] /\ k \in (i - 1) .. (j - 1)
        BY <1>0, <1>4, <3>2
      <4>2. f[k] = IF k < i THEN 0 ELSE f[k - 1] + s[k]
        BY <1>5, <4>1 DEF Sums
      <4>3. ~(k < i) => g[k - 1] = f[k - 1]
        BY <1>0, <1>4, <3>2, <4>1
      <4> QED BY <4>1, <4>2, <4>3
    <3> QED BY <3>1, <3>2
  <2> HIDE DEF g
  <2>2. g = [k \in (i - 1) .. j |-> g[k]]
    BY DEF g
  <2> QED BY <2>1, <2>2 DEF Sums
<1> QED BY <1>2, <1>6

\* The bytes of a part are a number.
LEMMA BytesAreNumbers ==
  ASSUME NEW s \in Seq(Nat), NEW i \in 1 .. Len(s), NEW j \in (i - 1) .. Len(s)
  PROVE  Bytes(s, i, j) \in Nat
<1> DEFINE f == CHOOSE g : Sums(s, i, j, g)
           Bad == {k \in (i - 1) .. j : f[k] \notin Nat}
<1>0. i \in Nat /\ i >= 1 /\ Len(s) \in Nat /\ j \in Int /\ i - 1 <= j /\ j <= Len(s)
  OBVIOUS
<1>1. Sums(s, i, j, f)
  <2>1. \E g : Sums(s, i, j, g)
    BY SumsExist
  <2> QED BY <2>1
<1> HIDE DEF f
<1>2. \A k \in (i - 1) .. j : f[k] = IF k < i THEN 0 ELSE f[k - 1] + s[k]
  BY <1>1 DEF Sums
<1>3. Bad = {}
  <2> SUFFICES ASSUME Bad # {} PROVE FALSE
    OBVIOUS
  <2>1. Bad \in SUBSET Nat
    BY <1>0
  <2>2. PICK k \in Bad : \A l \in Bad : k <= l
    BY <2>1, LeastNumber
  <2>3. k \in (i - 1) .. j /\ f[k] \notin Nat
    BY <2>2
  <2>4. ~(k < i)
    BY <1>2, <2>3
  <2>5. k - 1 \in (i - 1) .. j /\ k - 1 \notin Bad
    BY <1>0, <2>2, <2>3, <2>4
  <2>6. s[k] \in Nat
    BY <1>0, <2>3, <2>4
  <2> QED BY <1>2, <2>3, <2>4, <2>5, <2>6
<1>4. Bytes(s, i, j) = f[j]
  BY BytesIs DEF f
<1> QED BY <1>0, <1>3, <1>4

\* One statement more adds its bytes: two sums agree where both are defined,
\* for the least place where they did not would follow one where they do.
LEMMA BytesNext ==
  ASSUME NEW s \in Seq(Nat), NEW i \in 1 .. Len(s), NEW j \in i .. Len(s)
  PROVE  Bytes(s, i, j) = Bytes(s, i, j - 1) + s[j]
<1> DEFINE f == CHOOSE h : Sums(s, i, j - 1, h)
           g == CHOOSE h : Sums(s, i, j, h)
           Bad == {k \in (i - 1) .. (j - 1) : f[k] # g[k]}
<1>0. i \in Nat /\ i >= 1 /\ Len(s) \in Nat /\ j \in Nat /\ i <= j /\ j <= Len(s)
  OBVIOUS
<1>1. Sums(s, i, j - 1, f) /\ Sums(s, i, j, g)
  <2>1. j - 1 \in (i - 1) .. Len(s) /\ j \in (i - 1) .. Len(s)
    BY <1>0
  <2>2. (\E h : Sums(s, i, j - 1, h)) /\ (\E h : Sums(s, i, j, h))
    BY <2>1, SumsExist
  <2> QED BY <2>2
<1>2. Bytes(s, i, j - 1) = f[j - 1] /\ Bytes(s, i, j) = g[j]
  BY BytesIs
<1> HIDE DEF f, g
<1>3. /\ \A k \in (i - 1) .. (j - 1) : f[k] = IF k < i THEN 0 ELSE f[k - 1] + s[k]
      /\ \A k \in (i - 1) .. j : g[k] = IF k < i THEN 0 ELSE g[k - 1] + s[k]
  BY <1>1 DEF Sums
<1>4. Bad = {}
  <2> SUFFICES ASSUME Bad # {} PROVE FALSE
    OBVIOUS
  <2>1. Bad \in SUBSET Nat
    BY <1>0
  <2>2. PICK k \in Bad : \A l \in Bad : k <= l
    BY <2>1, LeastNumber
  <2>3. k \in (i - 1) .. (j - 1) /\ k \in (i - 1) .. j /\ f[k] # g[k]
    BY <1>0, <2>2
  <2>4. ~(k < i)
    BY <1>3, <2>3
  <2>5. k - 1 \in (i - 1) .. (j - 1) /\ k - 1 \notin Bad
    BY <1>0, <2>2, <2>3, <2>4
  <2> QED BY <1>3, <2>3, <2>4, <2>5
<1>5. f[j - 1] = g[j - 1]
  BY <1>0, <1>4
<1>6. g[j] = g[j - 1] + s[j]
  BY <1>0, <1>3
<1> QED BY <1>2, <1>5, <1>6

\* A longer part never has fewer bytes.
LEMMA BytesGrow ==
  ASSUME NEW s \in Seq(Nat), NEW i \in 1 .. Len(s), NEW k \in i .. Len(s)
  PROVE  \A l \in k .. Len(s) : Bytes(s, i, k) <= Bytes(s, i, l)
<1> DEFINE Bad == {l \in k .. Len(s) : ~(Bytes(s, i, k) <= Bytes(s, i, l))}
<1> SUFFICES ASSUME Bad # {} PROVE FALSE
  OBVIOUS
<1>0. i \in Nat /\ i >= 1 /\ Len(s) \in Nat /\ k \in Nat /\ i <= k /\ k <= Len(s)
  OBVIOUS
<1>1. Bad \in SUBSET Nat
  BY <1>0
<1>2. PICK l \in Bad : \A m \in Bad : l <= m
  BY <1>1, LeastNumber
<1>3. l \in Nat /\ k <= l /\ l <= Len(s) /\ ~(Bytes(s, i, k) <= Bytes(s, i, l))
  BY <1>0, <1>2
<1>4. \A m \in (i - 1) .. Len(s) : Bytes(s, i, m) \in Nat
  BY BytesAreNumbers
<1>5. Bytes(s, i, k) \in Nat /\ Bytes(s, i, l) \in Nat
  BY <1>0, <1>3, <1>4
<1>6. l # k
  BY <1>3, <1>5
<1>7. l - 1 \in k .. Len(s) /\ l - 1 \notin Bad
  BY <1>0, <1>2, <1>3, <1>6
<1>8. Bytes(s, i, l - 1) \in Nat /\ s[l] \in Nat
  BY <1>0, <1>3, <1>4, <1>6
<1>9. Bytes(s, i, l) = Bytes(s, i, l - 1) + s[l]
  BY <1>0, <1>3, BytesNext
<1> QED BY <1>3, <1>5, <1>7, <1>8, <1>9

\* The part that FillsTo takes ends inside the batch or before it begins, and
\* its bytes stay below the chunk size at each of its statements.
LEMMA FillsToFits ==
  ASSUME NEW s \in Seq(Nat), NEW i \in 1 .. Len(s)
  PROVE  /\ FillsTo(s, i) \in (i - 1) .. Len(s)
         /\ \A k \in i .. FillsTo(s, i) : Bytes(s, i, k) < ChunkSize
         /\ FillsTo(s, i) < Len(s) => Bytes(s, i, FillsTo(s, i) + 1) >= ChunkSize
<1> DEFINE Ends(j) == /\ \A k \in i .. j : Bytes(s, i, k) < ChunkSize
                      /\ j < Len(s) => Bytes(s, i, j + 1) >= ChunkSize
           Over == {k \in i .. Len(s) : Bytes(s, i, k) >= ChunkSize}
<1>0. /\ i \in Nat /\ i >= 1 /\ Len(s) \in Nat /\ i <= Len(s)
      /\ ChunkSize \in Nat
      /\ \A k \in i .. Len(s) : Bytes(s, i, k) \in Nat
  BY BytesAreNumbers, CallsAssumption
<1>1. \E j \in (i - 1) .. Len(s) : Ends(j)
  <2>1. CASE Over = {}
    BY <1>0, <2>1
  <2>2. CASE Over # {}
    <3>1. Over \in SUBSET Nat
      BY <1>0
    <3>2. PICK k \in Over : \A l \in Over : k <= l
      BY <2>2, <3>1, LeastNumber
    <3>3. k - 1 \in (i - 1) .. Len(s) /\ Ends(k - 1)
      BY <1>0, <3>2
    <3> QED BY <3>3
  <2> QED BY <2>1, <2>2
<1>2. FillsTo(s, i) = CHOOSE j \in (i - 1) .. Len(s) : Ends(j)
  BY DEF FillsTo
<1> QED BY <1>1, <1>2

\* The cut is the only one possible: a part fits exactly when it ends no later
\* than the one FillsTo takes, for statements of any sizes, those above the chunk
\* size included.
THEOREM PartsAreLongest ==
  ASSUME NEW s \in Seq(Nat), NEW i \in 1 .. Len(s), NEW k \in i .. Len(s)
  PROVE  Bytes(s, i, k) < ChunkSize <=> k <= FillsTo(s, i)
<1>0. /\ i \in Nat /\ i >= 1 /\ Len(s) \in Nat /\ k \in Nat /\ i <= k /\ k <= Len(s)
      /\ ChunkSize \in Nat
  BY CallsAssumption
<1> DEFINE to == FillsTo(s, i)
<1>1. /\ to \in (i - 1) .. Len(s)
      /\ \A l \in i .. to : Bytes(s, i, l) < ChunkSize
      /\ to < Len(s) => Bytes(s, i, to + 1) >= ChunkSize
  BY FillsToFits
<1> HIDE DEF to
<1>2. CASE k <= to
  BY <1>0, <1>1, <1>2 DEF to
<1>3. CASE ~(k <= to)
  <2>1. to + 1 \in i .. Len(s) /\ k \in (to + 1) .. Len(s)
    BY <1>0, <1>1, <1>3
  <2>2. Bytes(s, i, to + 1) <= Bytes(s, i, k)
    BY <2>1, BytesGrow
  <2>3. Bytes(s, i, to + 1) \in Nat /\ Bytes(s, i, k) \in Nat
    BY <1>0, <2>1, BytesAreNumbers
  <2>4. Bytes(s, i, to + 1) >= ChunkSize
    BY <1>0, <1>1, <2>1
  <2>5. ~(Bytes(s, i, k) < ChunkSize)
    BY <1>0, <2>2, <2>3, <2>4
  <2> QED BY <1>3, <2>5 DEF to
<1> QED BY <1>2, <1>3

\* Where a thread has a part ahead of it that is not executed yet.
WithPart == {"gate", "look", "looking", "connect", "append", "appending", "run"}

CallsTyped ==
  /\ call \in [Threads -> [op : {"execute", "create", "multi", "batch"},
                           sizes : Seq(Nat)]]
  /\ next \in [Threads -> Nat] /\ upto \in [Threads -> Nat]
  /\ executed \in [Threads -> Seq(Nat)]
  /\ result \in [Threads -> {"ok", "fail", "norecord", "notready"}]

\* What was executed are the statements before next, in order; the part next ..
\* upto lies inside the call and, of a batch, stays below the chunk size.
PartAhead(t) ==
  /\ result[t] = "ok"
  /\ next[t] >= 1 /\ Len(executed[t]) = next[t] - 1
  /\ call[t].op # "batch" => next[t] = 1 /\ upto[t] = Len(call[t].sizes)
  /\ call[t].op = "batch" =>
       /\ next[t] <= upto[t] /\ upto[t] <= Len(call[t].sizes)
       /\ upto[t] > next[t] =>
            Bytes(call[t].sizes, next[t], upto[t]) < ChunkSize

PartDone(t) ==
  result[t] = "ok" =>
    /\ call[t].op \in {"execute", "batch"} => Len(executed[t]) = upto[t]
    /\ call[t].op = "batch" => upto[t] <= Len(call[t].sizes)
    /\ call[t].op # "batch" => upto[t] = Len(call[t].sizes)

PartsInOrder(t) ==
  /\ \A i \in 1 .. Len(executed[t]) : executed[t][i] = i
  /\ pc[t] \in WithPart => PartAhead(t)
  /\ pc[t] = "leave" => PartDone(t)
  /\ pc[t] = "futures" => call[t].op = "multi"
  /\ pc[t] = "chunk" =>
       /\ call[t].op = "batch" /\ result[t] = "ok"
       /\ next[t] \in 1 .. (Len(call[t].sizes) + 1)
       /\ Len(executed[t]) = next[t] - 1
  /\ pc[t] = "idle" /\ result[t] = "ok" /\ call[t].op \in {"execute", "batch"}
       => Len(executed[t]) = Len(call[t].sizes)

BatchInv == PcTyped /\ CallsTyped /\ \A t \in Threads : PartsInOrder(t)

\* What goes on from an ordered list is ordered with it.
LEMMA GoesOn ==
  ASSUME NEW s \in Seq(Nat), NEW p \in Seq(Nat),
         \A i \in 1 .. Len(s) : s[i] = i,
         \A i \in 1 .. Len(p) : p[i] = Len(s) + i
  PROVE  /\ s \o p \in Seq(Nat) /\ Len(s \o p) = Len(s) + Len(p)
         /\ \A i \in 1 .. (Len(s) + Len(p)) : (s \o p)[i] = i
<1>1. /\ s \o p \in Seq(Nat) /\ Len(s \o p) = Len(s) + Len(p)
      /\ \A i \in 1 .. Len(s) + Len(p) :
           (s \o p)[i] = IF i <= Len(s) THEN s[i] ELSE p[i - Len(s)]
  BY ConcatProperties
<1>2. Len(s) \in Nat /\ Len(p) \in Nat
  OBVIOUS
<1>3. ASSUME NEW i \in 1 .. (Len(s) + Len(p)) PROVE (s \o p)[i] = i
  <2>1. CASE i <= Len(s)
    BY <1>1, <1>2, <2>1
  <2>2. CASE i > Len(s)
    <3>1. i - Len(s) \in 1 .. Len(p)
      BY <1>2, <2>2
    <3>2. p[i - Len(s)] = Len(s) + (i - Len(s))
      BY <3>1
    <3> QED BY <1>1, <1>2, <2>2, <3>2
  <2> QED BY <1>2, <2>1, <2>2
<1> QED BY <1>1, <1>3

\* A step of one thread leaves the parts of the others as they are.
LEMMA PartsOfOthers ==
  ASSUME BatchInv, PcTyped', CallsTyped', NEW t \in Threads, PartsInOrder(t)',
         \A u \in Threads : u # t =>
           /\ pc'[u] = pc[u] /\ call'[u] = call[u] /\ next'[u] = next[u]
           /\ upto'[u] = upto[u] /\ executed'[u] = executed[u]
           /\ result'[u] = result[u]
  PROVE  BatchInv'
<1>1. ASSUME NEW u \in Threads, u # t PROVE PartsInOrder(u)'
  BY <1>1 DEF BatchInv, PartsInOrder, PartAhead, PartDone
<1> QED BY <1>1 DEF BatchInv

LEMMA BatchStart == CassInit => BatchInv
<1> SUFFICES ASSUME CassInit PROVE BatchInv
  OBVIOUS
<1>1. PcTyped
  BY DEF CassInit, PcTyped, Places
<1>2. CallsTyped
  BY DEF CassInit, CallsTyped
<1>3. ASSUME NEW t \in Threads PROVE PartsInOrder(t)
  BY DEF CassInit, PartsInOrder, WithPart
<1> QED BY <1>1, <1>2, <1>3 DEF BatchInv

LEMMA BatchStep ==
  BatchInv /\ PcTyped' /\ [CassNext]_cassVars => BatchInv'
<1> SUFFICES ASSUME BatchInv, PcTyped', [CassNext]_cassVars PROVE BatchInv'
  OBVIOUS
<1>0. /\ pc \in [Threads \cup {Owner} -> Places \cup {"clear", "clearing"}]
      /\ CallsTyped /\ Owner \notin Threads
      /\ \A t \in Threads : PartsInOrder(t)
  BY OwnerAssumption DEF BatchInv, PcTyped
<1>1. ASSUME UNCHANGED <<planVars, result, executed>>,
             \A t \in Threads : pc'[t] = pc[t]
      PROVE  BatchInv'
  BY <1>0, <1>1 DEF BatchInv, CallsTyped, PartsInOrder, PartAhead, PartDone,
     planVars
<1>2. CASE Open \/ Close \/ Clear \/ Cleared \/ UNCHANGED cassVars
  BY <1>0, <1>1, <1>2 DEF Open, Close, Clear, Cleared, InTheMap, cassVars,
     callVars, outVars
<1>3. ASSUME NEW n \in Limits, SetRequestMax(n) PROVE BatchInv'
  BY <1>0, <1>1, <1>3 DEF SetRequestMax, callVars, outVars
<1>4. ASSUME NEW t \in Threads, NEW c \in Calls, Start(t, c) PROVE BatchInv'
  <2>1. c \in [op : {"execute", "create", "multi", "batch"}, sizes : Seq(Nat)]
    BY CallsAssumption
  <2>2. CallsTyped'
    <3>1. call' \in [Threads -> [op : {"execute", "create", "multi", "batch"},
                                sizes : Seq(Nat)]]
      BY <1>0, <1>4, <2>1 DEF Start, CallsTyped
    <3>2. next' \in [Threads -> Nat] /\ upto' \in [Threads -> Nat]
      <4>1. Len(c.sizes) \in Nat
        BY <2>1
      <4> QED BY <1>0, <1>4, <4>1 DEF Start, CallsTyped
    <3>3. executed' \in [Threads -> Seq(Nat)]
      <4>1. <<>> \in Seq(Nat)
        OBVIOUS
      <4> QED BY <1>0, <1>4, <4>1 DEF Start, CallsTyped
    <3>4. result' \in [Threads -> {"ok", "fail", "norecord", "notready"}]
      BY <1>0, <1>4 DEF Start, CallsTyped
    <3> QED BY <3>1, <3>2, <3>3, <3>4 DEF CallsTyped
  <2>3. PartsInOrder(t)'
    BY <1>0, <1>4, <2>1
       DEF Start, CallsTyped, PartsInOrder, PartAhead, WithPart
  <2> QED BY <1>0, <1>4, <2>2, <2>3, PartsOfOthers DEF Start, CallsTyped
<1>5. ASSUME NEW t \in Threads, Chunk(t) PROVE BatchInv'
  <2> DEFINE s == call[t].sizes
             j == FillsTo(s, next[t])
  <2>1. /\ s \in Seq(Nat) /\ Len(s) \in Nat /\ next[t] \in 1 .. (Len(s) + 1)
        /\ call[t].op = "batch" /\ result[t] = "ok"
        /\ Len(executed[t]) = next[t] - 1 /\ pc[t] = "chunk"
    BY <1>0, <1>5 DEF Chunk, PartsInOrder, CallsTyped
  <2>2. next[t] <= Len(s) =>
          /\ j \in (next[t] - 1) .. Len(s)
          /\ j >= next[t] => Bytes(s, next[t], j) < ChunkSize
    BY <2>1, FillsToFits
  <2> HIDE DEF j
  <2>3. CallsTyped'
    <3>1. UNCHANGED <<call, next, executed>>
      BY <1>5 DEF Chunk
    <3>2. upto' \in [Threads -> Nat]
      <4>1. upto \in [Threads -> Nat] /\ next[t] \in Nat
        BY <1>0 DEF CallsTyped
      <4>2. \/ upto' = upto
            \/ /\ next[t] <= Len(s)
               /\ upto' = [upto EXCEPT ![t] = IF j < next[t] THEN next[t] ELSE j]
        BY <1>5 DEF Chunk, j
      <4>3. next[t] <= Len(s) => (IF j < next[t] THEN next[t] ELSE j) \in Nat
        BY <2>1, <2>2
      <4> QED BY <4>1, <4>2, <4>3
    <3>3. result' \in [Threads -> {"ok", "fail", "norecord", "notready"}]
      BY <1>0, <1>5 DEF Chunk, CallsTyped
    <3> QED BY <1>0, <3>1, <3>2, <3>3 DEF CallsTyped
  <2>4. PartsInOrder(t)'
    <3>1. CASE next[t] > Len(s)
      BY <1>0, <1>5, <2>1, <3>1 DEF Chunk, CallsTyped, PartsInOrder, WithPart
    <3>2. CASE next[t] <= Len(s) /\ pc' = [pc EXCEPT ![t] = "idle"]
      BY <1>0, <1>5, <2>1, <3>2 DEF Chunk, CallsTyped, PartsInOrder, WithPart
    <3>3. CASE /\ next[t] <= Len(s) /\ pc' = [pc EXCEPT ![t] = "gate"]
               /\ upto' = [upto EXCEPT ![t] = IF j < next[t] THEN next[t] ELSE j]
      BY <1>0, <1>5, <2>1, <2>2, <3>3
         DEF Chunk, CallsTyped, PartsInOrder, PartAhead, WithPart
    <3> QED BY <1>5, <2>1, <3>1, <3>2, <3>3 DEF Chunk, j
  <2> QED BY <1>0, <1>5, <2>3, <2>4, PartsOfOthers DEF Chunk, CallsTyped
<1>6. ASSUME NEW t \in Threads,
             \/ Enter(t) \/ Look(t) \/ Looked(t) \/ Connect(t)
             \/ ConnectFails(t) \/ AppendSession(t) \/ Appended(t)
      PROVE  BatchInv'
  <2>1. /\ UNCHANGED <<call, next, upto, executed>> /\ pc[t] \in WithPart
        /\ \E to \in WithPart \cup {"leave"} : pc' = [pc EXCEPT ![t] = to]
        /\ \/ result' = result
           \/ /\ pc' = [pc EXCEPT ![t] = "leave"]
              /\ \/ result' = [result EXCEPT ![t] = "norecord"]
                 \/ result' = [result EXCEPT ![t] = "fail"]
        /\ pc' = [pc EXCEPT ![t] = "leave"] => result'[t] # "ok"
    BY <1>0, <1>6 DEF Enter, Look, Looked, Connect, ConnectFails, AppendSession,
       Appended, InTheMap, WithPart, planVars, outVars, CallsTyped
  <2>2. CallsTyped'
    BY <1>0, <2>1 DEF CallsTyped
  <2>3. PartsInOrder(t)'
    BY <1>0, <2>1 DEF CallsTyped, PartsInOrder, PartAhead, PartDone, WithPart
  <2> QED BY <1>0, <2>1, <2>2, <2>3, PartsOfOthers DEF CallsTyped
<1>7. ASSUME NEW t \in Threads, Execute(t) PROVE BatchInv'
  <2>1. /\ PartAhead(t) /\ pc[t] = "run" /\ pc' = [pc EXCEPT ![t] = "leave"]
        /\ executed[t] \in Seq(Nat) /\ Len(call[t].sizes) \in Nat
        /\ next[t] \in Nat /\ upto[t] \in Nat
        /\ UNCHANGED <<call, next, upto>>
    BY <1>0, <1>7 DEF Execute, PartsInOrder, WithPart, planVars, CallsTyped
  <2>2. CASE /\ UNCHANGED executed
             /\ \/ call[t].op \in {"multi", "create"} /\ UNCHANGED result
                \/ result' = [result EXCEPT ![t] = "fail"]
    <3>1. CallsTyped'
      BY <1>0, <1>7, <2>1, <2>2 DEF Execute, CallsTyped
    <3>2. result'[t] = "ok" => call[t].op \in {"multi", "create"}
      BY <1>0, <1>7, <2>1, <2>2 DEF Execute, CallsTyped, Part, PartAhead
    <3>4. PartsInOrder(t)'
      BY <1>0, <2>1, <2>2, <3>2
         DEF CallsTyped, PartsInOrder, PartAhead, PartDone, WithPart
    <3> QED BY <1>0, <1>7, <2>1, <2>2, <3>1, <3>4, PartsOfOthers
         DEF Execute, CallsTyped
  <2>3. CASE /\ executed' = [executed EXCEPT ![t] = @ \o Part(t)]
             /\ UNCHANGED result
    <3>1. /\ Part(t) \in Seq(Nat) /\ Len(Part(t)) = upto[t] - next[t] + 1
          /\ \A i \in 1 .. Len(Part(t)) : Part(t)[i] = next[t] + i - 1
      <4> DEFINE n == upto[t] - next[t] + 1
      <4>1. n \in Nat /\ next[t] \in Nat /\ next[t] >= 1
        BY <2>1 DEF PartAhead
      <4> HIDE DEF n
      <4>2. [i \in 1 .. n |-> next[t] + i - 1] \in Seq(Nat)
        BY <4>1
      <4>3. Len([i \in 1 .. n |-> next[t] + i - 1]) = n
        BY <4>1
      <4>4. Part(t) = [i \in 1 .. n |-> next[t] + i - 1]
        BY DEF Part, n
      <4> QED BY <4>1, <4>2, <4>3, <4>4 DEF n
    <3>2. executed'[t] = executed[t] \o Part(t)
      BY <1>0, <2>3 DEF CallsTyped
    <3>3. /\ executed'[t] \in Seq(Nat)
          /\ Len(executed'[t]) = upto[t]
          /\ \A i \in 1 .. upto[t] : executed'[t][i] = i
      <4>1. Len(executed[t]) = next[t] - 1
        BY <2>1 DEF PartAhead
      <4>2. \A i \in 1 .. Len(executed[t]) : executed[t][i] = i
        BY <1>0 DEF PartsInOrder
      <4>3. \A i \in 1 .. Len(Part(t)) : Part(t)[i] = Len(executed[t]) + i
        BY <2>1, <3>1, <4>1
      <4>4. Len(executed[t]) + Len(Part(t)) = upto[t]
        BY <2>1, <3>1, <4>1
      <4> QED BY <2>1, <3>1, <3>2, <4>2, <4>3, <4>4, GoesOn
    <3>4. CallsTyped'
      BY <1>0, <1>7, <2>1, <2>3, <3>2, <3>3 DEF CallsTyped
    <3>5. PartsInOrder(t)'
      BY <1>0, <2>1, <2>3, <3>3
         DEF CallsTyped, PartsInOrder, PartAhead, PartDone, WithPart
    <3> QED BY <1>0, <2>1, <2>3, <3>4, <3>5, PartsOfOthers DEF CallsTyped
  <2> QED BY <1>7, <2>2, <2>3 DEF Execute
<1>8. ASSUME NEW t \in Threads, Leave(t) PROVE BatchInv'
  <2>1. /\ PartDone(t) /\ pc[t] = "leave" /\ next[t] \in Nat /\ upto[t] \in Nat
        /\ executed[t] \in Seq(Nat) /\ Len(executed[t]) \in Nat
        /\ Len(call[t].sizes) \in Nat
        /\ call[t].op \in {"execute", "create", "multi", "batch"}
    BY <1>0, <1>8 DEF Leave, PartsInOrder, CallsTyped
  <2>2. CallsTyped'
    <3>1. UNCHANGED <<call, upto, executed, result>>
      BY <1>8 DEF Leave
    <3>2. next' \in [Threads -> Nat]
      <4>1. next \in [Threads -> Nat] /\ upto[t] + 1 \in Nat
        BY <1>0 DEF CallsTyped
      <4>2. next' = next \/ next' = [next EXCEPT ![t] = upto[t] + 1]
        BY <1>8 DEF Leave
      <4> QED BY <4>1, <4>2
    <3> QED BY <1>0, <3>1, <3>2 DEF CallsTyped
  <2>3. PartsInOrder(t)'
    BY <1>0, <1>8, <2>1 DEF Leave, CallsTyped, PartsInOrder, PartDone, WithPart
  <2> QED BY <1>0, <1>8, <2>2, <2>3, PartsOfOthers DEF Leave, CallsTyped
<1>9. ASSUME NEW t \in Threads, Poll(t) PROVE BatchInv'
  <2>1. CallsTyped'
    <3>1. UNCHANGED <<call, upto, executed, result>>
      BY <1>9 DEF Poll, outVars
    <3>2. next' \in [Threads -> Nat]
      <4>1. next \in [Threads -> Nat] /\ next[t] + 1 \in Nat
        BY <1>0 DEF CallsTyped
      <4>2. next' = next \/ next' = [next EXCEPT ![t] = next[t] + 1]
        BY <1>9 DEF Poll
      <4> QED BY <4>1, <4>2
    <3> QED BY <1>0, <3>1, <3>2 DEF CallsTyped
  <2>2. PartsInOrder(t)'
    BY <1>0, <1>9 DEF Poll, CallsTyped, PartsInOrder, WithPart, outVars
  <2> QED BY <1>0, <1>9, <2>1, <2>2, PartsOfOthers DEF Poll, CallsTyped, outVars
<1> QED
  BY <1>2, <1>3, <1>4, <1>5, <1>6, <1>7, <1>8, <1>9 DEF CassNext, Work

LEMMA PartsAreInOrder == CassInit /\ [][CassNext]_cassVars => []BatchInOrder
<1>1. BatchInv => BatchInOrder
  <2> SUFFICES ASSUME BatchInv, NEW t \in Threads
               PROVE  /\ \A i \in DOMAIN executed[t] : executed[t][i] = i
                      /\ (pc[t] = "idle" /\ result[t] = "ok"
                            /\ call[t].op \in {"execute", "batch"})
                           => Len(executed[t]) = Len(call[t].sizes)
                      /\ (pc[t] = "run" /\ call[t].op = "batch"
                            /\ upto[t] > next[t])
                           => Bytes(call[t].sizes, next[t], upto[t]) < ChunkSize
    BY DEF BatchInOrder
  <2>1. executed[t] \in Seq(Nat) /\ PartsInOrder(t)
    BY DEF BatchInv, CallsTyped
  <2> QED BY <2>1, LenProperties DEF PartsInOrder, PartAhead, WithPart
<1>2. RestraintInv => PcTyped
  BY DEF RestraintInv
<1> QED
  BY <1>1, <1>2, RestraintStart, RestraintStep, BatchStart, BatchStep, PTL

\* The statements of a call reach the server in order and each once, in parts
\* below the chunk size, and a call that says so has had all of them executed,
\* for any batch, chunk size, threads, sessions that fail and closed helper.
THEOREM StatementsInOrder == CassSpec => []BatchInOrder
BY PartsAreInOrder, PTL DEF CassSpec

-----------------------------------------------------------------------------
(* The wrapper as the process uses it. *)

\* The service makes single queries only.
OnlyQueries ==
  \A t \in Threads :
    call[t].op = "execute" /\ pc[t] \in AtWork \cup {"idle", "gate"}

\* Who is in the map is where its section says, and the session a thread holds
\* is one it found or connected.
InTheirPlaces ==
  /\ inMap \in [Threads \cup {Owner} -> {"no", "reads", "writes"}]
  /\ held \in [Threads -> Nat] /\ mapped \in Nat /\ connects \in Nat
  /\ call \in [Threads -> [op : {"execute"}, sizes : {<<>>, <<1>>}]]
  /\ result \in [Threads -> {"ok", "fail", "norecord", "notready"}]
  /\ retried \in [Threads -> BOOLEAN]
  /\ \A t \in Threads \cup {Owner} :
       /\ inMap[t] # "no" => pc[t] \in {"looking", "appending", "clearing"}
       /\ inMap[t] = "writes" => pc[t] \in {"appending", "clearing"}
  /\ \A t \in Threads :
       pc[t] \in {"idle", "gate", "look", "looking"} => held[t] = NoSession

CassPart == RestraintInv /\ OnlyQueries /\ InTheirPlaces

\* The steps of the wrapper that the service takes.
ServiceCass ==
  \/ UNCHANGED cassVars
  \/ Open \/ Close \/ Clear \/ Cleared
  \/ \E t \in Threads : Start(t, Query) \/ Work(t)

LEMMA CassPartStart == CassInit => CassPart
<1> SUFFICES ASSUME CassInit PROVE CassPart
  OBVIOUS
<1>1. RestraintInv
  BY RestraintStart
<1>2. OnlyQueries
  BY DEF CassInit, OnlyQueries
<1>3. InTheirPlaces
  BY DEF CassInit, InTheirPlaces, NoSession
<1> QED BY <1>1, <1>2, <1>3 DEF CassPart

\* What a thread's own step may change.
LEMMA WorkOfOne ==
  ASSUME CassPart, NEW t \in Threads, Work(t)
  PROVE  /\ pc[t] # "idle" /\ UNCHANGED <<ready, opened, call>>
         /\ \E to \in AtWork \cup {"idle", "gate"} :
              /\ pc' = [pc EXCEPT ![t] = to]
              /\ pc[t] # "leave" => to \in AtWork
              /\ mapped # NoSession /\ pc[t] \notin {"connect", "append", "appending"}
                   => to \notin {"connect", "append", "appending"}
         /\ \E r \in {"ok", "fail", "norecord", "notready"} :
              /\ result' = [result EXCEPT ![t] = r]
              /\ r = "notready" => result[t] = "notready"
         /\ pc[t] # "appending" => mapped' = mapped
<1>0. /\ pc \in [Threads \cup {Owner} -> Places \cup {"clear", "clearing"}]
      /\ call[t].op = "execute" /\ pc[t] \in AtWork \cup {"idle", "gate"}
      /\ result \in [Threads -> {"ok", "fail", "norecord", "notready"}]
  BY DEF CassPart, RestraintInv, PcTyped, OnlyQueries, InTheirPlaces
<1>1. ~Chunk(t) /\ ~Poll(t)
  BY <1>0 DEF Chunk, Poll, AtWork
<1>2. CASE Enter(t) \/ Look(t) \/ Connect(t) \/ AppendSession(t) \/ Appended(t)
  BY <1>0, <1>2 DEF Enter, Look, Connect, AppendSession, Appended, InTheMap,
     AtWork, outVars, planVars, helperVars, poolVars
<1>3. CASE Looked(t) \/ ConnectFails(t) \/ Execute(t)
  BY <1>0, <1>3 DEF Looked, ConnectFails, Execute,
     AtWork, outVars, planVars, helperVars, poolVars
<1>4. CASE Leave(t)
  BY <1>0, <1>4 DEF Leave,
     AtWork, outVars, planVars, helperVars, poolVars
<1> QED BY <1>1, <1>2, <1>3, <1>4 DEF Work

LEMMA CassPartKeeps == CassPart /\ ~Undefined /\ ServiceCass => CassPart'
<1> SUFFICES ASSUME CassPart, ~Undefined, ServiceCass PROVE CassPart'
  OBVIOUS
<1>0. /\ pc \in [Threads \cup {Owner} -> Places \cup {"clear", "clearing"}]
      /\ Owner \notin Threads
  BY OwnerAssumption DEF CassPart, RestraintInv, PcTyped
<1>1. RestraintInv'
  <2>1. [CassNext]_cassVars
    BY ServiceAssumption DEF ServiceCass, CassNext
  <2> QED BY <2>1, RestraintStep DEF CassPart
<1>2. CASE UNCHANGED cassVars
  <2>1. OnlyQueries' /\ InTheirPlaces'
    BY <1>2 DEF CassPart, OnlyQueries, InTheirPlaces, cassVars, callVars,
       planVars, outVars, poolVars
  <2> QED BY <1>1, <2>1 DEF CassPart
<1>3. CASE Open
  <2>1. OnlyQueries' /\ InTheirPlaces'
    BY <1>3 DEF Open, CassPart, OnlyQueries, InTheirPlaces, callVars,
       planVars, outVars, poolVars
  <2> QED BY <1>1, <2>1 DEF CassPart
<1>4. CASE Close \/ Clear \/ Cleared
  <2>1. OnlyQueries'
    BY <1>0, <1>4 DEF Close, Clear, Cleared, InTheMap, CassPart, OnlyQueries,
       planVars
  <2>2. InTheirPlaces'
    BY <1>0, <1>4 DEF Close, Clear, Cleared, InTheMap, CassPart, InTheirPlaces,
       planVars, outVars, poolVars, NoSession
  <2> QED BY <1>1, <2>1, <2>2 DEF CassPart
<1>5. ASSUME NEW t \in Threads, Start(t, Query) PROVE CassPart'
  <2>1. OnlyQueries'
    BY <1>0, <1>5 DEF Start, CassPart, OnlyQueries, InTheirPlaces, Query
  <2>2. InTheirPlaces'
    BY <1>0, <1>5 DEF Start, CassPart, InTheirPlaces, Query, poolVars
  <2> QED BY <1>1, <2>1, <2>2 DEF CassPart
<1>6. ASSUME NEW t \in Threads, Work(t) PROVE CassPart'
  <2>1. OnlyQueries'
    BY <1>0, <1>6, WorkOfOne DEF CassPart, OnlyQueries
  <2>2. ~Chunk(t) /\ ~Poll(t)
    BY DEF CassPart, OnlyQueries, Chunk, Poll, AtWork
  <2>3. CASE Enter(t) \/ Look(t) \/ AppendSession(t)
    BY <1>0, <1>1, <2>1, <2>3 DEF CassPart, InTheirPlaces, Enter, Look,
       AppendSession, InTheMap, planVars, outVars, poolVars
  <2>4. CASE Looked(t)
    BY <1>0, <1>1, <2>1, <2>4 DEF CassPart, InTheirPlaces, Looked, planVars,
       NoSession
  <2>5. CASE Connect(t)
    <3>1. InTheirPlaces'
      BY <1>0, <2>5 DEF CassPart, InTheirPlaces, Connect, planVars
    <3> QED BY <1>1, <2>1, <3>1 DEF CassPart
  <2>9. CASE ConnectFails(t)
    BY <1>0, <1>1, <2>1, <2>9 DEF CassPart, InTheirPlaces, ConnectFails,
       planVars, poolVars
  <2>6. CASE Appended(t)
    BY <1>0, <1>1, <2>1, <2>6 DEF CassPart, InTheirPlaces, Appended, planVars,
       NoSession
  <2>7. CASE Execute(t)
    BY <1>0, <1>1, <2>1, <2>7 DEF CassPart, InTheirPlaces, Execute, planVars,
       poolVars
  <2>8. CASE Leave(t)
    BY <1>0, <1>1, <2>1, <2>8 DEF CassPart, InTheirPlaces, Leave, poolVars,
       NoSession
  <2> QED BY <1>6, <2>2, <2>3, <2>4, <2>5, <2>6, <2>7, <2>8, <2>9 DEF Work
<1> QED BY <1>2, <1>3, <1>4, <1>5, <1>6 DEF ServiceCass

-----------------------------------------------------------------------------
(* The handlers. *)

HandlerPlaces == {"shutdown", "lock", "drain", "close", "clear", "done"}
SomeAt(p) == \E i \in DOMAIN handlers : handlers[i].at = p
Alone(p) == \A i, j \in DOMAIN handlers :
              handlers[i].at = p /\ handlers[j].at = p => i = j
HandlersTyped ==
  handlers \in Seq([on : Threads \cup {Outsider}, sig : Kinds, at : HandlerPlaces])

\* One handler at most is inside Shutdown, and then main is outside the mutex;
\* one at most is at the map, and there it is the Owner of the wrapper.
HandlerInv ==
  /\ HandlersTyped /\ engines \in Nat /\ early \in BOOLEAN
  /\ Alone("drain") /\ Alone("clear")
  /\ stage = "locked" => ~SomeAt("drain")
  /\ pc[Owner] # "idle" <=> SomeAt("clear")

\* What the step of one handler changes.
LEMMA HandlerMoves ==
  ASSUME HandlersTyped, NEW i, NEW from, NEW to \in HandlerPlaces,
         HandlerRuns(i, from, to)
  PROVE  /\ HandlersTyped' /\ SomeAt(from) /\ SomeAt(to)'
         /\ \A p \in HandlerPlaces : p # from /\ p # to => SomeAt(p)' = SomeAt(p)
         /\ \A p \in HandlerPlaces : p # to /\ Alone(p) => Alone(p)'
         /\ ~SomeAt(to) \/ from = to => (Alone(to) => Alone(to)')
         /\ from # to /\ Alone(from) => ~SomeAt(from)'
<1>1. /\ i \in DOMAIN handlers /\ handlers[i].at = from
      /\ handlers' = [handlers EXCEPT ![i].at = to]
  BY DEF HandlerRuns
<1>0. DEFINE H == [on : Threads \cup {Outsider}, sig : Kinds, at : HandlerPlaces]
             h == [handlers[i] EXCEPT !.at = to]
<1>2. /\ handlers \in Seq(H) /\ i \in 1 .. Len(handlers)
      /\ DOMAIN handlers = 1 .. Len(handlers)
  BY <1>1 DEF HandlersTyped
<1>9. h \in H /\ h.at = to
  <2>1. handlers[i] \in H
    <3> HIDE DEF H, h
    <3> QED BY <1>2, ElementOfSeq
  <2> QED BY <2>1
<1>10. handlers' = [handlers EXCEPT ![i] = h]
  BY <1>1
<1>11. HandlersTyped' /\ DOMAIN handlers' = DOMAIN handlers
  <2> HIDE DEF H, h
  <2>1. [handlers EXCEPT ![i] = h] \in Seq(H)
    BY <1>2, <1>9, ExceptSeq
  <2> QED BY <1>10, <2>1 DEF HandlersTyped, H
<1>3. /\ DOMAIN handlers' = DOMAIN handlers /\ handlers'[i].at = to
      /\ \A j \in DOMAIN handlers : j # i => handlers'[j] = handlers[j]
  <2> HIDE DEF H, h
  <2> QED BY <1>1, <1>9, <1>10, <1>11
<1>4. SomeAt(from) /\ SomeAt(to)'
  BY <1>1, <1>3 DEF SomeAt
<1>5. \A p : p # from /\ p # to => SomeAt(p)' = SomeAt(p)
  BY <1>1, <1>3 DEF SomeAt
<1>6. \A p : p # to /\ Alone(p) => Alone(p)'
  BY <1>1, <1>3 DEF Alone
<1>7. ~SomeAt(to) \/ from = to => (Alone(to) => Alone(to)')
  BY <1>1, <1>3 DEF Alone, SomeAt
<1>8. from # to /\ Alone(from) => ~SomeAt(from)'
  BY <1>1, <1>3 DEF Alone, SomeAt
<1> QED BY <1>11, <1>4, <1>5, <1>6, <1>7, <1>8

\* A signal starts a handler at its first place.
LEMMA SignalAdds ==
  ASSUME HandlersTyped, Signal
  PROVE  /\ HandlersTyped'
         /\ \A p \in HandlerPlaces : p # "shutdown" =>
              SomeAt(p)' = SomeAt(p) /\ (Alone(p) => Alone(p)')
<1>1. PICK h \in [on : Threads \cup {Outsider}, sig : Kinds, at : {"shutdown"}] :
        handlers' = Append(handlers, h)
  BY DEF Signal
<1>2. HandlersTyped'
  BY <1>1 DEF HandlersTyped, HandlerPlaces
<1>3. /\ DOMAIN handlers' = 1 .. (Len(handlers) + 1)
      /\ DOMAIN handlers = 1 .. Len(handlers) /\ Len(handlers) \in Nat
      /\ handlers'[Len(handlers) + 1].at = "shutdown"
      /\ \A j \in DOMAIN handlers : handlers'[j] = handlers[j]
  BY <1>1 DEF HandlersTyped
<1>4. \A p : p # "shutdown" => SomeAt(p)' = SomeAt(p) /\ (Alone(p) => Alone(p)')
  BY <1>3 DEF SomeAt, Alone
<1> QED BY <1>2, <1>4

-----------------------------------------------------------------------------
(* The life of the process. *)

Stages == {"config", "log", "database", "engines", "build", "flag", "serving",
           "locked", "waiting"}
Up == {"serving", "locked", "waiting"}
Quiet == \A t \in Threads : pc[t] = "idle"

\* What exists at each stage.
ComingUp ==
  /\ stage \in Stages
  /\ stage \in {"config", "log", "database", "engines", "build"} =>
       server = "none" /\ \A r \in Requests : pc[r] = "idle"
  /\ stage = "flag" => server = "up"
  /\ stage \in Up => server \in {"up", "down"}
  /\ stage \notin Up => ~isServing
  /\ stage \in {"build", "flag"} \cup Up => serviceShp /\ pc[Main] = "idle"
  /\ stage \notin {"config", "log", "database"} /\ server # "down" => ready

\* A handler closes the database only when the server has been drained, and
\* then one of them does.
Stopping ==
  /\ server # "down" \/ SomeAt("drain") =>
       ~SomeAt("close") /\ ~SomeAt("clear") /\ ~SomeAt("done")
  /\ server # "down" /\ SomeAt("lock") => isServing
  /\ SomeAt("drain") => server = "down" /\ ready /\ isServing
  /\ SomeAt("clear") => ~ready
  /\ server = "down" /\ ~SomeAt("drain") =>
       /\ Quiet
       /\ \/ ready /\ SomeAt("close")
          \/ ~ready /\ SomeAt("clear")
          \/ ~ready /\ mapped = NoSession

\* main's query has come to "ok" only with a session in the map ...
Filled ==
  /\ pc[Main] = "run" => mapped # NoSession
  /\ pc[Main] = "leave" /\ result[Main] = "ok" => mapped # NoSession
  /\ RowSaved => mapped # NoSession

\* ... so the pool is filled before the server comes up, and not filled again.
KeptWarm ==
  /\ stage \in {"config", "log", "database", "engines"} => Filled
  /\ stage \in {"build", "flag"} \cup Up =>
       mapped # NoSession \/ (server = "down" /\ ~SomeAt("drain"))
  /\ \A r \in Requests : pc[r] \notin {"connect", "append", "appending"}

LifeInv == ~early /\ stage # "exited" => ComingUp /\ Stopping /\ KeptWarm
ExitInv ==
  /\ stage = "exited" /\ server = "down" /\ ~early
  /\ ~SomeAt("close") /\ ~SomeAt("clear")
  => ~ready /\ mapped = NoSession /\ Quiet

LifePart == HandlerInv /\ LifeInv /\ ExitInv /\ ServedWithDatabase
ServiceInv == CassPart /\ LifePart /\ NoMapRace

LEMMA ServiceStart == ServiceInit => ServiceInv
<1> SUFFICES ASSUME ServiceInit PROVE ServiceInv
  OBVIOUS
<1>1. CassPart
  BY CassPartStart DEF ServiceInit
<1>2. HandlersTyped /\ DOMAIN handlers = {}
  BY DEF ServiceInit, HandlersTyped
<1>3. \A p : ~SomeAt(p) /\ Alone(p)
  BY <1>2 DEF SomeAt, Alone
<1>4. HandlerInv /\ ServedWithDatabase /\ NoMapRace
  <2>1. pc[Owner] = "idle" /\ engines = 0 /\ early = FALSE /\ stage = "config"
        /\ \A t \in Threads : result[t] = "ok"
    BY DEF ServiceInit, CassInit
  <2>2. ~Undefined
    BY DEF ServiceInit, CassInit, Undefined
  <2> QED BY <1>2, <1>3, <2>1, <2>2 DEF HandlerInv, ServedWithDatabase,
          NoMapRace, Requests
<1>5. LifeInv /\ ExitInv
  BY <1>3, ServiceAssumption DEF ServiceInit, CassInit, LifeInv, ExitInv,
     ComingUp, Stopping, KeptWarm, Filled, RowSaved, Stages, Up, Requests
<1> QED BY <1>1, <1>4, <1>5 DEF ServiceInv, LifePart

\* Nobody meets in the map while the pool stays filled.
LEMMA NobodyMeets ==
  CassPart /\ HandlerInv /\ LifeInv /\ stage # "exited" => NoMapRace
<1> SUFFICES ASSUME CassPart, HandlerInv, LifeInv, stage # "exited",
                    ~early, NEW t \in Threads \cup {Owner},
                    NEW u \in Threads \cup {Owner}, t # u,
                    inMap[t] = "writes", inMap[u] # "no"
             PROVE  FALSE
  BY DEF NoMapRace, Undefined
<1>1. ComingUp /\ Stopping /\ KeptWarm
  BY DEF LifeInv
<1>2. pc[t] \in {"appending", "clearing"}
      /\ pc[u] \in {"looking", "appending", "clearing"}
  BY DEF CassPart, InTheirPlaces
<1>3. t = Owner \/ u = Owner => server = "down" /\ Quiet
  <2>1. t = Owner \/ u = Owner => SomeAt("clear")
    BY <1>2 DEF HandlerInv
  <2> QED BY <1>1, <2>1 DEF Stopping
<1>4. t \in Threads /\ u \in Threads
  BY <1>2, <1>3 DEF Quiet
<1>5. pc[t] = "appending"
  BY <1>2, <1>4 DEF CassPart, OnlyQueries, AtWork
<1>6. t = Main
  BY <1>1, <1>4, <1>5 DEF KeptWarm, Requests
<1>7. \A r \in Requests : pc[r] = "idle"
  BY <1>1, <1>5, <1>6 DEF ComingUp, Stages, Up
<1> QED BY <1>2, <1>4, <1>6, <1>7 DEF Requests

\* Every step is one of the wrapper's or leaves the wrapper alone.
LEMMA StepsOfTheWrapper ==
  ASSUME ServiceNext PROVE ServiceCass /\ Running
<1>1. MainStep => ServiceCass /\ Running
  BY ServiceAssumption DEF MainStep, Configure, Proceed, InitDatabase,
     AccessRow, EngineFails, MainWorks, MakeService, Build, RaiseFlag, LockWait,
     Waited, MainRuns, ServiceCass
<1>2. ASSUME NEW i \in 1 .. MaxSignals, HandlerStep(i)
      PROVE  ServiceCass /\ Running
  BY <1>2 DEF HandlerStep, BeginShutdown, LockServer, Drained, CloseDatabase,
     ClearMap, HandlerRuns, ServiceCass
<1>3. Signal \/ Kill => ServiceCass /\ Running
  BY DEF Signal, Kill, ServiceCass
<1>4. (\E r \in Requests : Request(r) \/ RequestWorks(r))
        => ServiceCass /\ Running
  BY DEF Requests, Request, RequestWorks, ServiceCass
<1> QED BY <1>1, <1>2, <1>3, <1>4 DEF ServiceNext

\* A step of main that does not reach the wrapper's threads.
LEMMA MainKeeps ==
  ASSUME ServiceInv,
         \/ Configure \/ InitDatabase \/ EngineFails \/ MakeService \/ Build
         \/ RaiseFlag \/ LockWait \/ Waited
  PROVE  LifePart'
<1>1. /\ stage # "exited" /\ early' = early
      /\ UNCHANGED <<pc, mapped, result, handlers, engines>>
  BY DEF Configure, InitDatabase, EngineFails, MakeService, Build, RaiseFlag,
     LockWait, Waited, Proceed, MainRuns, Running, Open, cassVars, stopVars,
     callVars, outVars, poolVars
<1>2. /\ \A p : SomeAt(p)' = SomeAt(p) /\ Alone(p)' = Alone(p)
      /\ HandlersTyped' = HandlersTyped
  BY <1>1 DEF SomeAt, Alone, HandlersTyped
<1>3. ServedWithDatabase' /\ Filled' = Filled /\ Quiet' = Quiet
  BY <1>1 DEF ServiceInv, LifePart, ServedWithDatabase, Filled, RowSaved, Quiet
<1>4. HandlerInv'
  <2>1. stage' = "locked" => stage = "locked" \/ ~SomeAt("drain")
    BY DEF Configure, InitDatabase, EngineFails, MakeService, Build, RaiseFlag,
       LockWait, Waited, Proceed, MutexFree, Draining, SomeAt
  <2> QED BY <1>1, <1>2, <2>1 DEF HandlerInv, ServiceInv, LifePart
<1>5. SUFFICES ASSUME ~early
               PROVE  /\ stage' # "exited" =>
                           ComingUp' /\ Stopping' /\ KeptWarm'
                      /\ ExitInv'
  BY <1>1, <1>3, <1>4 DEF LifePart, LifeInv, ExitInv
<1>6. ComingUp /\ Stopping /\ KeptWarm
  BY <1>1, <1>5 DEF ServiceInv, LifePart, LifeInv
<1>7. CASE Configure
  BY <1>1, <1>2, <1>3, <1>6, <1>7 DEF Configure, Proceed, MainRuns, cassVars,
     stopVars, helperVars, ComingUp, Stopping, KeptWarm, ExitInv, Stages, Up
<1>8. CASE InitDatabase
  BY <1>1, <1>2, <1>3, <1>6, <1>8 DEF InitDatabase, MainRuns, Open, stopVars,
     ComingUp, Stopping, KeptWarm, ExitInv, Stages, Up
<1>9. CASE EngineFails
  BY <1>1, <1>2, <1>3, <1>6, <1>9 DEF EngineFails, ComingUp, ExitInv, Stages, Up
<1>10. CASE MakeService
  BY <1>1, <1>2, <1>3, <1>6, <1>10 DEF MakeService, Proceed, MainRuns, cassVars,
     stopVars, helperVars, ComingUp, Stopping, KeptWarm, Filled, RowSaved,
     ExitInv, Stages, Up
<1>11. CASE Build
  BY <1>1, <1>2, <1>3, <1>6, <1>11 DEF Build, Proceed, MainRuns, cassVars,
     stopVars, helperVars, ComingUp, Stopping, KeptWarm, ExitInv, Stages, Up
<1>12. CASE RaiseFlag
  BY <1>1, <1>2, <1>3, <1>6, <1>12 DEF RaiseFlag, MainRuns, cassVars,
     helperVars, ComingUp, Stopping, KeptWarm, ExitInv, Stages, Up
<1>13. CASE LockWait
  BY <1>1, <1>2, <1>3, <1>6, <1>13 DEF LockWait, MainRuns, cassVars,
     helperVars, stopVars, ComingUp, Stopping, KeptWarm, ExitInv, Stages, Up
<1>14. CASE Waited
  <2>1. ~SomeAt("drain")
    BY <1>14 DEF Waited, ServiceInv, LifePart, HandlerInv
  <2> QED BY <1>1, <1>2, <1>3, <1>6, <1>14, <2>1 DEF Waited, MainRuns,
          cassVars, helperVars, stopVars, ComingUp, Stopping, KeptWarm, ExitInv, Stages,
          Up
<1> QED BY <1>7, <1>8, <1>9, <1>10, <1>11, <1>12, <1>13, <1>14

\* A signal or a kill.
LEMMA SignalKeeps == ASSUME ServiceInv, Signal \/ Kill PROVE LifePart'
<1>1. /\ stage # "exited" /\ early' = early
      /\ UNCHANGED <<pc, ready, mapped, result, engines, isServing, serviceShp>>
  BY DEF Signal, Kill, Running, cassVars, callVars, outVars, poolVars,
     helperVars, lifeVars, stopVars
<1>2. ServedWithDatabase'
  BY <1>1 DEF ServiceInv, LifePart, ServedWithDatabase
<1>3. CASE Kill
  <2>1. /\ \A p : SomeAt(p)' = SomeAt(p) /\ Alone(p)' = Alone(p)
        /\ HandlersTyped' = HandlersTyped /\ stage' = "exited"
        /\ server' = "none"
    BY <1>3 DEF Kill, SomeAt, Alone, HandlersTyped, stopVars
  <2> QED BY <1>1, <1>2, <2>1 DEF ServiceInv, LifePart, HandlerInv, LifeInv,
          ExitInv
<1>4. CASE Signal
  <2>1. /\ HandlersTyped' /\ UNCHANGED <<stage, server>>
        /\ \A p \in HandlerPlaces : p # "shutdown" =>
             SomeAt(p)' = SomeAt(p) /\ (Alone(p) => Alone(p)')
    BY <1>4, SignalAdds DEF ServiceInv, LifePart, HandlerInv, Signal, lifeVars
  <2>2. /\ SomeAt("drain")' = SomeAt("drain") /\ SomeAt("close")' = SomeAt("close")
        /\ SomeAt("clear")' = SomeAt("clear") /\ SomeAt("done")' = SomeAt("done")
        /\ SomeAt("lock")' = SomeAt("lock")
        /\ (Alone("drain") => Alone("drain")') /\ (Alone("clear") => Alone("clear")')
    BY <2>1 DEF HandlerPlaces
  <2>3. HandlerInv'
    BY <1>1, <2>1, <2>2 DEF ServiceInv, LifePart, HandlerInv
  <2>4. Filled' = Filled /\ Quiet' = Quiet
    BY <1>1 DEF Filled, RowSaved, Quiet
  <2>5. LifeInv'
    BY <1>1, <2>1, <2>2, <2>4 DEF ServiceInv, LifePart, LifeInv, ComingUp,
       Stopping, KeptWarm
  <2> QED BY <1>1, <1>2, <2>1, <2>3, <2>5 DEF LifePart, ExitInv
<1> QED BY <1>3, <1>4

\* A step of a handler.
LEMMA HandlerKeeps ==
  ASSUME ServiceInv, NEW i, HandlerStep(i) PROVE LifePart'
<1>1. /\ stage # "exited" /\ (early => early') /\ early' \in BOOLEAN
      /\ UNCHANGED <<stage, engines, serviceShp, result>>
      /\ \A t \in Threads : pc'[t] = pc[t]
  BY OwnerAssumption DEF ServiceInv, LifePart, HandlerInv, CassPart,
     RestraintInv, PcTyped, HandlerStep, BeginShutdown, LockServer, Drained,
     CloseDatabase, ClearMap, HandlerRuns, Running, Close, Clear, Cleared,
     InTheMap, cassVars, lifeVars, callVars, outVars
<1>2. ServedWithDatabase' /\ Quiet' = Quiet /\ ExitInv'
  BY <1>1 DEF ServiceInv, LifePart, ServedWithDatabase, Requests, Quiet, ExitInv
<1>3. /\ HandlersTyped /\ engines \in Nat /\ Alone("drain") /\ Alone("clear")
      /\ stage = "locked" => ~SomeAt("drain")
      /\ pc[Owner] # "idle" <=> SomeAt("clear")
      /\ pc \in [Threads \cup {Owner} -> Places \cup {"clear", "clearing"}]
  BY DEF ServiceInv, LifePart, HandlerInv, CassPart, RestraintInv, PcTyped
<1>4. ~early' => ComingUp /\ Stopping /\ KeptWarm /\ ~early
  BY <1>1 DEF ServiceInv, LifePart, LifeInv
<1>5. Main \in Threads /\ Requests \subseteq Threads
  BY ServiceAssumption DEF Requests
<1>6. mapped' = mapped => Filled' = Filled
  BY <1>1, ServiceAssumption DEF Filled, RowSaved
<1>7. SUFFICES HandlerInv' /\ (~early' => ComingUp' /\ Stopping' /\ KeptWarm')
  BY <1>2 DEF LifePart, LifeInv
<1>8. CASE BeginShutdown(i)
  <2>1. UNCHANGED <<server, isServing, ready, mapped, pc>>
    BY <1>8 DEF BeginShutdown, lifeVars, cassVars, helperVars, poolVars, callVars
  <2>2. CASE HandlerRuns(i, "shutdown", "lock") /\ isServing /\ early' = early
    <3>1. /\ HandlersTyped' /\ Alone("drain")' /\ Alone("clear")'
          /\ SomeAt("drain")' = SomeAt("drain")
          /\ SomeAt("close")' = SomeAt("close")
          /\ SomeAt("clear")' = SomeAt("clear")
          /\ SomeAt("done")' = SomeAt("done")
      BY <1>3, <2>2, HandlerMoves DEF HandlerPlaces
    <3>2. HandlerInv'
      BY <1>1, <1>3, <2>1, <3>1 DEF HandlerInv
    <3> QED BY <1>1, <1>2, <1>4, <1>5, <1>6, <2>1, <2>2, <3>1, <3>2
            DEF ComingUp, Stopping, KeptWarm, Requests
  <2>3. CASE /\ HandlerRuns(i, "shutdown", "close")
             /\ ~(serviceShp /\ isServing) /\ early' = (early \/ server # "down")
    <3>1. /\ HandlersTyped' /\ Alone("drain")' /\ Alone("clear")'
          /\ SomeAt("drain")' = SomeAt("drain")
          /\ SomeAt("close")'
          /\ SomeAt("clear")' = SomeAt("clear")
          /\ SomeAt("done")' = SomeAt("done")
          /\ SomeAt("lock")' = SomeAt("lock")
      BY <1>3, <2>3, HandlerMoves DEF HandlerPlaces
    <3>2. HandlerInv'
      BY <1>1, <1>3, <2>1, <3>1 DEF HandlerInv
    <3>3. ~early' => server = "down" /\ ~SomeAt("drain")
      BY <1>1, <1>3, <1>4, <2>3
         DEF ComingUp, Stopping, Stages, Up
    <3> QED BY <1>1, <1>2, <1>4, <1>5, <1>6, <2>1, <2>3, <3>1, <3>2, <3>3
            DEF ComingUp, Stopping, KeptWarm, Requests
  <2> QED BY <1>8, <2>2, <2>3 DEF BeginShutdown
<1>9. CASE LockServer(i)
  <2>1. /\ UNCHANGED <<ready, mapped, pc, early>> /\ stage # "locked"
        /\ ~SomeAt("drain")
    BY <1>9 DEF LockServer, MutexFree, Draining, SomeAt, cassVars, helperVars,
       poolVars, callVars
  <2>2. CASE /\ HandlerRuns(i, "lock", "drain") /\ server = "up"
             /\ server' = "down" /\ isServing' = isServing
    <3>1. /\ HandlersTyped' /\ Alone("drain")' /\ Alone("clear")'
          /\ SomeAt("drain")' /\ SomeAt("lock")
          /\ SomeAt("close")' = SomeAt("close")
          /\ SomeAt("clear")' = SomeAt("clear")
          /\ SomeAt("done")' = SomeAt("done")
      BY <1>3, <2>1, <2>2, HandlerMoves DEF HandlerPlaces
    <3>2. HandlerInv'
      BY <1>1, <1>3, <2>1, <3>1 DEF HandlerInv, ServiceInv, LifePart
    <3> QED BY <1>1, <1>2, <1>4, <1>5, <1>6, <2>1, <2>2, <3>1, <3>2
            DEF ComingUp, Stopping, KeptWarm, Requests, Stages, Up
  <2>3. CASE /\ HandlerRuns(i, "lock", "close") /\ server = "down"
             /\ server' = server /\ isServing' = FALSE
    <3>1. /\ HandlersTyped' /\ Alone("drain")' /\ Alone("clear")'
          /\ ~SomeAt("drain")' /\ SomeAt("close")'
          /\ SomeAt("clear")' = SomeAt("clear")
          /\ SomeAt("done")' = SomeAt("done")
      BY <1>3, <2>1, <2>3, HandlerMoves DEF HandlerPlaces
    <3>2. HandlerInv'
      BY <1>1, <1>3, <2>1, <3>1 DEF HandlerInv, ServiceInv, LifePart
    <3> QED BY <1>1, <1>2, <1>4, <1>5, <1>6, <2>1, <2>3, <3>1, <3>2
            DEF ComingUp, Stopping, KeptWarm, Requests, Stages, Up
  <2> QED BY <1>9, <2>2, <2>3 DEF LockServer
<1>10. CASE Drained(i)
  <2>1. /\ UNCHANGED <<server, ready, mapped, pc, early>> /\ isServing' = FALSE
        /\ HandlerRuns(i, "drain", "close")
        /\ \A r \in Requests : pc[r] = "idle"
    BY <1>10 DEF Drained, lifeVars, cassVars, helperVars, poolVars, callVars
  <2>2. /\ HandlersTyped' /\ Alone("drain")' /\ Alone("clear")'
        /\ SomeAt("drain") /\ ~SomeAt("drain")' /\ SomeAt("close")'
        /\ SomeAt("clear")' = SomeAt("clear")
        /\ SomeAt("done")' = SomeAt("done")
    BY <1>3, <2>1, HandlerMoves DEF HandlerPlaces
  <2>3. HandlerInv'
    BY <1>1, <1>3, <2>1, <2>2 DEF HandlerInv, ServiceInv, LifePart
  <2>4. ~early' => server = "down" /\ Quiet
    BY <1>4, <2>1, <2>2 DEF ComingUp, Stopping, Quiet, Requests, Stages, Up
  <2> QED BY <1>1, <1>2, <1>4, <1>5, <1>6, <2>1, <2>2, <2>3, <2>4
          DEF ComingUp, Stopping, KeptWarm, Requests, Stages, Up
<1>11. CASE CloseDatabase(i)
  <2>1. UNCHANGED <<server, isServing, mapped, early>>
    BY <1>11 DEF CloseDatabase, Close, lifeVars, cassVars, poolVars
  <2>2. CASE Close /\ HandlerRuns(i, "close", "clear")
    <3>1. /\ pc[Owner] = "idle" /\ ready' = FALSE /\ pc'[Owner] = "clear"
      BY <1>3, <2>2 DEF Close
    <3>2. /\ HandlersTyped' /\ Alone("drain")' /\ Alone("clear")'
          /\ SomeAt("close")
          /\ SomeAt("drain")' = SomeAt("drain") /\ SomeAt("clear")'
          /\ SomeAt("done")' = SomeAt("done")
          /\ SomeAt("lock")' = SomeAt("lock")
      BY <1>3, <2>2, <3>1, HandlerMoves DEF HandlerPlaces
    <3>3. HandlerInv'
      BY <1>1, <1>3, <2>1, <3>1, <3>2 DEF HandlerInv, ServiceInv, LifePart
    <3> QED BY <1>1, <1>2, <1>4, <1>5, <1>6, <2>1, <3>1, <3>2, <3>3
            DEF ComingUp, Stopping, KeptWarm, Requests, Stages, Up
  <2>3. CASE ~ready /\ HandlerRuns(i, "close", "done") /\ UNCHANGED cassVars
    <3>1. UNCHANGED <<ready, pc>>
      BY <2>3 DEF cassVars, helperVars, callVars
    <3>2. /\ HandlersTyped' /\ Alone("drain")' /\ Alone("clear")'
          /\ SomeAt("close")
          /\ SomeAt("drain")' = SomeAt("drain")
          /\ SomeAt("clear")' = SomeAt("clear")
          /\ SomeAt("lock")' = SomeAt("lock")
      BY <1>3, <2>3, HandlerMoves DEF HandlerPlaces
    <3>3. HandlerInv'
      BY <1>1, <1>3, <2>1, <3>1, <3>2 DEF HandlerInv, ServiceInv, LifePart
    <3> QED BY <1>1, <1>2, <1>4, <1>5, <1>6, <2>1, <2>3, <3>1, <3>2, <3>3
            DEF ComingUp, Stopping, KeptWarm, Requests, Stages, Up
  <2> QED BY <1>11, <2>2, <2>3 DEF CloseDatabase
<1>12. CASE ClearMap(i)
  <2>1. UNCHANGED <<server, isServing, ready, early>>
    BY <1>12 DEF ClearMap, Clear, Cleared, InTheMap, lifeVars, helperVars
  <2>2. CASE Clear /\ HandlerRuns(i, "clear", "clear")
    <3>1. pc'[Owner] = "clearing" /\ mapped' = mapped
      BY <1>3, <2>2 DEF Clear, InTheMap
    <3>2. /\ HandlersTyped' /\ Alone("drain")' /\ Alone("clear")'
          /\ SomeAt("close")' = SomeAt("close")
          /\ SomeAt("drain")' = SomeAt("drain")
          /\ SomeAt("clear") /\ SomeAt("clear")'
          /\ SomeAt("done")' = SomeAt("done")
          /\ SomeAt("lock")' = SomeAt("lock")
      BY <1>3, <2>2, HandlerMoves DEF HandlerPlaces
    <3>3. HandlerInv'
      BY <1>1, <1>3, <2>1, <3>1, <3>2 DEF HandlerInv, ServiceInv, LifePart
    <3> QED BY <1>1, <1>2, <1>4, <1>5, <1>6, <2>1, <3>1, <3>2, <3>3
            DEF ComingUp, Stopping, KeptWarm, Requests, Stages, Up
  <2>3. CASE Cleared /\ HandlerRuns(i, "clear", "done")
    <3>1. pc'[Owner] = "idle" /\ mapped' = NoSession
      BY <1>3, <2>3 DEF Cleared
    <3>2. /\ HandlersTyped' /\ Alone("drain")' /\ Alone("clear")'
          /\ SomeAt("close")' = SomeAt("close")
          /\ SomeAt("drain")' = SomeAt("drain")
          /\ SomeAt("clear") /\ ~SomeAt("clear")'
          /\ SomeAt("lock")' = SomeAt("lock")
      BY <1>3, <2>3, HandlerMoves DEF HandlerPlaces
    <3>3. HandlerInv'
      BY <1>1, <1>3, <2>1, <3>1, <3>2 DEF HandlerInv, ServiceInv, LifePart
    <3> QED BY <1>1, <1>2, <1>4, <1>5, <2>1, <3>1, <3>2, <3>3
            DEF ComingUp, Stopping, KeptWarm, Requests, Stages, Up
  <2> QED BY <1>12, <2>2, <2>3 DEF ClearMap
<1> QED BY <1>8, <1>9, <1>10, <1>11, <1>12 DEF HandlerStep

\* main or a request begins a query.
LEMMA StartKeeps ==
  ASSUME ServiceInv, AccessRow \/ \E r \in Requests : Request(r)
  PROVE  LifePart'
<1>1. PICK t \in Threads :
        /\ Start(t, Query)
        /\ \/ t = Main /\ stage = "engines"
           \/ t \in Requests /\ server = "up"
  <2>1. CASE AccessRow
    BY <2>1, ServiceAssumption DEF AccessRow
  <2>2. ASSUME NEW r \in Requests, Request(r)
        PROVE  r \in Threads /\ Start(r, Query) /\ server = "up"
    BY <2>2 DEF Request, Requests
  <2> QED BY <2>1, <2>2
<1>2. /\ stage # "exited" /\ UNCHANGED <<stage, serviceShp, server, stopVars>>
      /\ engines' \in {engines, engines + 1}
  BY DEF AccessRow, Request, MainRuns, Running, lifeVars
<1>3. /\ \A p : SomeAt(p)' = SomeAt(p) /\ Alone(p)' = Alone(p)
      /\ HandlersTyped' = HandlersTyped
  BY <1>2 DEF SomeAt, Alone, HandlersTyped, stopVars
<1>4. /\ pc[t] = "idle" /\ UNCHANGED <<ready, mapped>>
      /\ \A u \in Threads \cup {Owner} : u # t => pc'[u] = pc[u]
      /\ pc'[t] \in {"gate", "idle"}
      /\ \A u \in Threads : u # t => result'[u] = result[u]
      /\ result'[t] = "notready" => ~ready
      /\ pc'[t] = "idle" => result'[t] = "notready"
  BY <1>1 DEF Start, Query, ServiceInv, CassPart, RestraintInv, PcTyped,
     InTheirPlaces, helperVars, poolVars
<1>5. Owner \notin Threads /\ Main \in Threads /\ Main \notin Requests
      /\ Requests \subseteq Threads
  BY OwnerAssumption, ServiceAssumption DEF Requests
<1>6. HandlerInv' /\ ExitInv'
  BY <1>2, <1>3, <1>4, <1>5 DEF ServiceInv, LifePart, HandlerInv, ExitInv,
     stopVars
<1>7. CASE early
  BY <1>2, <1>6, <1>7 DEF LifePart, LifeInv, ServedWithDatabase, stopVars
<1>8. CASE ~early
  <2>1. ComingUp /\ Stopping /\ KeptWarm
    BY <1>2, <1>8 DEF ServiceInv, LifePart, LifeInv
  <2>2. t \in Requests => ready /\ stage \in {"flag"} \cup Up
    BY <1>1, <1>5, <2>1 DEF ComingUp, Stages, Up
  <2>3. ServedWithDatabase'
    BY <1>1, <1>2, <1>4, <1>5, <1>8, <2>2
       DEF ServiceInv, LifePart, ServedWithDatabase, stopVars
  <2>4. ComingUp'
    BY <1>1, <1>2, <1>4, <1>5, <2>1, <2>2 DEF ComingUp, stopVars, Up
  <2>5. server # "down"
    BY <1>1, <2>1 DEF ComingUp
  <2>6. Stopping'
    BY <1>2, <1>3, <1>4, <2>1, <2>5 DEF Stopping, stopVars
  <2>7. KeptWarm'
    BY <1>1, <1>2, <1>3, <1>4, <1>5, <2>1, <2>2
       DEF KeptWarm, Filled, RowSaved, Up, stopVars
  <2> QED BY <1>6, <2>3, <2>4, <2>6, <2>7 DEF LifePart, LifeInv
<1> QED BY <1>7, <1>8 DEF ServiceInv, LifePart, HandlerInv

\* main's query only comes to "ok" with a session in the map.
LEMMA WorkFills ==
  ASSUME CassPart, Work(Main), Filled, UNCHANGED engines PROVE Filled'
<1>0. /\ pc \in [Threads \cup {Owner} -> Places \cup {"clear", "clearing"}]
      /\ call[Main].op = "execute" /\ Main \in Threads
      /\ result \in [Threads -> {"ok", "fail", "norecord", "notready"}]
      /\ pc[Main] \in AtWork \cup {"idle", "gate"}
  BY ServiceAssumption
     DEF CassPart, RestraintInv, PcTyped, OnlyQueries, InTheirPlaces
<1>1. ~Chunk(Main) /\ ~Poll(Main)
  BY <1>0 DEF Chunk, Poll, AtWork
<1>2. CASE Enter(Main) \/ Look(Main) \/ Connect(Main) \/ AppendSession(Main)
           \/ Appended(Main)
  <2>1. pc'[Main] \in {"look", "looking", "append", "appending"}
    BY <1>0, <1>2 DEF Enter, Look, Connect, AppendSession, Appended, InTheMap
  <2> QED BY <2>1 DEF Filled, RowSaved
<1>3. CASE Looked(Main)
  BY <1>0, <1>3 DEF Looked, Filled, RowSaved
<1>4. CASE ConnectFails(Main)
  BY <1>0, <1>4 DEF ConnectFails, Filled, RowSaved
<1>5. CASE Execute(Main)
  BY <1>0, <1>5 DEF Execute, Filled, RowSaved, poolVars
<1>6. CASE Leave(Main)
  BY <1>0, <1>6 DEF Leave, Filled, RowSaved, poolVars
<1> QED BY <1>1, <1>2, <1>3, <1>4, <1>5, <1>6 DEF Work

\* main or a request goes on with its query.
LEMMA WorkKeeps ==
  ASSUME ServiceInv, MainWorks \/ \E r \in Requests : RequestWorks(r)
  PROVE  LifePart'
<1>1. PICK t \in Threads : Work(t) /\ (t = Main \/ t \in Requests)
  BY ServiceAssumption DEF MainWorks, RequestWorks, Requests
<1>2. stage # "exited" /\ UNCHANGED <<lifeVars, stopVars>>
  BY DEF MainWorks, RequestWorks, MainRuns, Running
<1>3. /\ \A p : SomeAt(p)' = SomeAt(p) /\ Alone(p)' = Alone(p)
      /\ HandlersTyped' = HandlersTyped
  BY <1>2 DEF SomeAt, Alone, HandlersTyped, stopVars
<1>4. /\ pc[t] # "idle" /\ UNCHANGED ready
      /\ \A u \in Threads \cup {Owner} : u # t => pc'[u] = pc[u]
      /\ mapped # NoSession /\ pc[t] \notin {"connect", "append", "appending"}
           => pc'[t] \notin {"connect", "append", "appending"}
      /\ \A u \in Threads : u # t => result'[u] = result[u]
      /\ result'[t] = "notready" => result[t] = "notready"
      /\ pc[t] # "appending" => mapped' = mapped
  <2>1. CassPart
    BY DEF ServiceInv
  <2>2. /\ pc \in [Threads \cup {Owner} -> Places \cup {"clear", "clearing"}]
        /\ result \in [Threads -> {"ok", "fail", "norecord", "notready"}]
    BY <2>1 DEF CassPart, RestraintInv, PcTyped, InTheirPlaces
  <2> QED BY <1>1, <2>1, <2>2, WorkOfOne
<1>5. Owner \notin Threads /\ Main \in Threads /\ Main \notin Requests
      /\ Requests \subseteq Threads
  BY OwnerAssumption, ServiceAssumption DEF Requests
<1>6. HandlerInv' /\ ExitInv' /\ ServedWithDatabase'
  BY <1>2, <1>3, <1>4, <1>5 DEF ServiceInv, LifePart, HandlerInv, ExitInv,
     ServedWithDatabase, stopVars, lifeVars
<1>7. CASE early
  BY <1>2, <1>6, <1>7 DEF LifePart, LifeInv, stopVars
<1>8. CASE ~early
  <2>1. ComingUp /\ Stopping /\ KeptWarm
    BY <1>2, <1>8 DEF ServiceInv, LifePart, LifeInv
  <2>2. ~Quiet
    BY <1>4 DEF Quiet
  <2>3. t = Main => stage \in {"config", "log", "database", "engines"}
    BY <1>4, <2>1 DEF ComingUp, Stages, Up
  <2>4. t \in Requests => stage \in {"flag"} \cup Up
    BY <1>4, <2>1 DEF ComingUp, Stages, Up
  <2>5. ComingUp'
    BY <1>1, <1>2, <1>4, <1>5, <2>1, <2>3, <2>4
       DEF ComingUp, Up, stopVars, lifeVars
  <2>6. Stopping'
    BY <1>2, <1>3, <1>4, <2>1, <2>2 DEF Stopping, stopVars, lifeVars
  <2>7. CASE t = Main
    <3>1. Filled'
      BY <1>1, <1>2, <2>1, <2>3, <2>7, WorkFills
         DEF KeptWarm, lifeVars, ServiceInv
    <3> QED BY <1>2, <1>3, <1>4, <1>5, <1>6, <2>1, <2>3, <2>5, <2>6, <2>7, <3>1
            DEF KeptWarm, LifePart, LifeInv, Up, lifeVars
  <2>8. CASE t \in Requests
    <3>1. mapped # NoSession
      BY <2>1, <2>2, <2>4, <2>8 DEF KeptWarm, Stopping
    <3>2. mapped' = mapped
      BY <1>4, <2>1, <2>8 DEF KeptWarm
    <3>3. KeptWarm'
      BY <1>2, <1>3, <1>4, <1>5, <2>1, <2>4, <2>8, <3>1, <3>2
         DEF KeptWarm, Up, lifeVars
    <3> QED BY <1>6, <2>5, <2>6, <3>3 DEF LifePart, LifeInv
  <2> QED BY <1>1, <2>7, <2>8
<1> QED BY <1>7, <1>8 DEF ServiceInv, LifePart, HandlerInv

LEMMA ServiceKeeps == ServiceInv /\ [ServiceNext]_serviceVars => ServiceInv'
<1> SUFFICES ASSUME ServiceInv, [ServiceNext]_serviceVars PROVE ServiceInv'
  OBVIOUS
<1>1. CASE UNCHANGED serviceVars
  <2>1. UNCHANGED cassVars /\ UNCHANGED <<stage, engines, serviceShp, server,
                                         isServing, handlers, early>>
    BY <1>1 DEF serviceVars, lifeVars, stopVars
  <2>2. CassPart' /\ NoMapRace'
    BY <2>1 DEF ServiceInv, CassPart, RestraintInv, PcTyped, LimitsSet,
       RestraintHolds, RestraintCountsCalls, Holders, OnlyQueries,
       InTheirPlaces, NoMapRace, Undefined, cassVars, helperVars, restrainVars,
       poolVars, callVars, planVars, outVars
  <2>3. LifePart'
    BY <2>1 DEF ServiceInv, LifePart, HandlerInv, HandlersTyped, SomeAt, Alone,
       LifeInv, ComingUp, Stopping, KeptWarm, Filled, RowSaved, Quiet, ExitInv,
       ServedWithDatabase, cassVars, helperVars, poolVars, callVars, outVars
  <2> QED BY <2>2, <2>3 DEF ServiceInv
<1>2. CASE ServiceNext
  <2>1. ServiceCass /\ Running
    BY <1>2, StepsOfTheWrapper
  <2>2. CassPart'
    BY <2>1, CassPartKeeps DEF ServiceInv, Running
  <2>3. LifePart'
    BY <1>2, MainKeeps, SignalKeeps, HandlerKeeps, StartKeeps, WorkKeeps
       DEF ServiceNext, MainStep
  <2>4. NoMapRace'
    <3>0. (CassPart /\ HandlerInv /\ LifeInv /\ stage # "exited" => NoMapRace)'
      BY NobodyMeets, PTL
    <3>1. CASE stage' # "exited"
      BY <2>2, <2>3, <3>0, <3>1 DEF LifePart
    <3>2. CASE stage' = "exited"
      <4>1. UNCHANGED <<inMap>>
        <5>1. CASE MainStep
          BY <2>1, <3>2, <5>1 DEF MainStep, Configure, InitDatabase, AccessRow,
             EngineFails, MainWorks, MakeService, Build, RaiseFlag, LockWait,
             Waited, Proceed, MainRuns, Running, lifeVars, cassVars, poolVars
        <5>2. CASE Kill
          BY <5>2 DEF Kill, cassVars, poolVars
        <5>3. ~Signal /\ \A r \in Requests : ~Request(r) /\ ~RequestWorks(r)
          BY <2>1, <3>2 DEF Signal, Request, RequestWorks, lifeVars, Running
        <5>4. ASSUME NEW i \in 1 .. MaxSignals, HandlerStep(i) PROVE FALSE
          BY <2>1, <3>2, <5>4 DEF HandlerStep, BeginShutdown, LockServer,
             Drained, CloseDatabase, ClearMap, lifeVars, Running
        <5> QED BY <1>2, <5>1, <5>2, <5>3, <5>4 DEF ServiceNext
      <4>2. ~Undefined'
        BY <2>1, <4>1 DEF Running, Undefined
      <4> QED BY <4>2 DEF NoMapRace
    <3> QED BY <3>1, <3>2
  <2> QED BY <2>2, <2>3, <2>4 DEF ServiceInv
<1> QED BY <1>1, <1>2

LEMMA ServiceAlways == ServiceSpec => []ServiceInv
BY ServiceStart, ServiceKeeps, PTL DEF ServiceSpec

\* The process uses the wrapper as the wrapper's own specification lets any
\* threads use it: from opening to clearing, through early signals and kills,
\* every step of the process is one of CassHelper or leaves its state alone.
THEOREM ServiceImplementsWrapper ==
  ServiceSpec => CassInit /\ [][CassNext]_cassVars
<1>1. ServiceInit => CassInit
  BY DEF ServiceInit
<1>2. [ServiceNext]_serviceVars => [CassNext]_cassVars
  <2>1. ServiceCass /\ Running => [CassNext]_cassVars
    BY ServiceAssumption DEF ServiceCass, Running, CassNext
  <2>2. UNCHANGED serviceVars => UNCHANGED cassVars
    BY DEF serviceVars
  <2> QED BY <2>1, <2>2, StepsOfTheWrapper
<1> QED BY <1>1, <1>2, PTL DEF ServiceSpec

\* So what the wrapper promises to any users holds in the process as well.
THEOREM WrapperHoldsInService ==
  ServiceSpec => [](RestraintHolds /\ BatchInOrder)
BY ServiceImplementsWrapper, CallsAreCounted, PartsAreInOrder, PTL

\* No request finds the database closed unless a signal came before the service
\* was known to serve, for any threads, engines, signals and failures.
THEOREM RequestsFindTheDatabase == ServiceSpec => []ServedWithDatabase
BY ServiceAlways, PTL DEF ServiceInv, LifePart

\* No two threads are in the pool's map at once with one of them changing it,
\* unless a signal came before the service was known to serve: the engines fill
\* the pool before the server comes up, and a stop empties it after the drain.
THEOREM WarmPoolIsNotRaced == ServiceSpec => []NoMapRace
BY ServiceAlways, PTL DEF ServiceInv

\* A stop that was not early, and whose handlers have all come to their end,
\* leaves the database closed and nobody using it.
THEOREM StopLeavesNothing == ServiceSpec => []StoppedClean
<1>1. ServiceInv => StoppedClean
  <2> SUFFICES ASSUME ServiceInv, stage = "exited", server = "down", ~early,
                      \A i \in DOMAIN handlers : handlers[i].at = "done"
               PROVE  /\ ~ready /\ mapped = NoSession /\ concurrent = 0
                      /\ \A r \in Requests :
                           pc[r] = "idle" /\ held[r] = NoSession
    BY DEF StoppedClean
  <2>1. ~ready /\ mapped = NoSession /\ Quiet
    BY DEF ServiceInv, LifePart, ExitInv, SomeAt
  <2>2. \A r \in Requests : pc[r] = "idle" /\ held[r] = NoSession
    BY <2>1 DEF Quiet, Requests, ServiceInv, CassPart, InTheirPlaces
  <2>3. Holders = {}
    BY <2>1 DEF Holders, Quiet, AtWork
  <2>4. concurrent = 0
    BY <2>3, FS_EmptySet DEF ServiceInv, CassPart, RestraintInv,
       RestraintHolds, RestraintCountsCalls
  <2> QED BY <2>1, <2>2, <2>4
<1> QED BY <1>1, ServiceAlways, PTL
=============================================================================
