---------------------------- MODULE MongoHelper ----------------------------
(***************************************************************************)
(* The Mongo wrapper: CLctMongoHelper keeps one CLctMongoConnPool for each *)
(* server, made when it is first asked for, under a read-write lock; every *)
(* operation takes a connection from it, waits when all are in use, does   *)
(* its requests and gives the connection back when it returns.             *)
(*                                                                         *)
(* The operations are queryCollection and queryOnFilter (a count and a     *)
(* find), countCollection, the lists and createIndex2Collection (one       *)
(* request, "look"), add2Collection, update2Collection, whose documents    *)
(* are sent one by one, and removeFromCollection.  One collection stands   *)
(* for those of a server; its documents are named by keys.                 *)
(***************************************************************************)
EXTENDS Integers, Sequences, FiniteSets

CONSTANTS
  Users,        \* threads that call the helper
  Servers,      \* the servers, <<port, ip>>
  MongoCalls,   \* calls: [op, server, filters, docs, upsert]
  ConnCount,    \* m_connMaxCount
  MaxPools,     \* bound on the pools made
  MaxMongoCalls \* bound on the calls made

ASSUME MongoAssumption ==
  /\ ConnCount \in Nat /\ ConnCount >= 1
  /\ MaxPools \in Nat /\ MaxMongoCalls \in Nat
  /\ IsFiniteSet(Users) /\ MongoCalls # {}
  /\ \A c \in MongoCalls :
       /\ c.op \in {"look", "count", "add", "update", "remove"}
       /\ c.server \in Servers

NoPool == 0
Pools == 1 .. MaxPools

VARIABLES
  poolOf,  \* m_connPoolContainer: the pool of a server, or NoPool
  pools,   \* pools made so far; they are numbered
  free,    \* free connections of each pool
  docs,    \* documents of each server's collection
  work,    \* where each user is in its call
  asked,   \* the call it makes
  pool,    \* connPoolShp
  sent,    \* how many of its requests were carried out
  seen,    \* what its count came to
  reply,   \* what its last call returned
  calls    \* number of calls made

mapVars == <<poolOf, pools>>
userVars == <<work, asked, pool, sent, seen, reply, calls>>
mongoVars == <<mapVars, free, docs, userVars>>

MongoInit ==
  /\ poolOf = [s \in Servers |-> NoPool]
  /\ pools = 0
  /\ free = [p \in Pools |-> ConnCount]
  /\ docs = [s \in Servers |-> {}]
  /\ work = [u \in Users |-> "idle"]
  /\ asked = [u \in Users |-> CHOOSE c \in MongoCalls : TRUE]
  /\ pool = [u \in Users |-> NoPool]
  /\ sent = [u \in Users |-> 0]
  /\ seen = [u \in Users |-> 0]
  /\ reply = [u \in Users |-> "ok"]
  /\ calls = 0

Ask(u, c) ==
  /\ work[u] = "idle"
  /\ calls < MaxMongoCalls
  /\ calls' = calls + 1
  /\ work' = [work EXCEPT ![u] = "find"]
  /\ asked' = [asked EXCEPT ![u] = c]
  /\ sent' = [sent EXCEPT ![u] = 0]
  /\ UNCHANGED <<mapVars, free, docs, pool, seen, reply>>

Reply(u, code) ==
  /\ work' = [work EXCEPT ![u] = "idle"]
  /\ reply' = [reply EXCEPT ![u] = code]

Server(u) == asked[u].server

\* getMongoConnPool, before and after addMongoConnPool.
FindPool(u) ==
  /\ work[u] \in {"find", "again"}
  /\ pool' = [pool EXCEPT ![u] = poolOf[Server(u)]]
  /\ IF poolOf[Server(u)] = NoPool /\ work[u] = "again"
     THEN Reply(u, "empty")
     ELSE /\ work' = [work EXCEPT ![u] = IF poolOf[Server(u)] = NoPool
                                         THEN "make" ELSE "acquire"]
          /\ UNCHANGED reply
  /\ UNCHANGED <<mapVars, free, docs, asked, sent, seen, calls>>

MakePool(u) ==
  /\ pools < MaxPools
  /\ pools' = pools + 1
  /\ poolOf' = [poolOf EXCEPT ![Server(u)] = pools + 1]

\* Mutant: addMongoConnPool does not look again.
AddPoolBlindly(u) ==
  /\ work[u] = "make"
  /\ MakePool(u) \/ UNCHANGED mapVars
  /\ work' = [work EXCEPT ![u] = "again"]
  /\ UNCHANGED <<free, docs, asked, pool, sent, seen, reply, calls>>

\* addMongoConnPool: under the lock for writing it looks again; making the
\* pool may fail, and either way the caller only logs it.
AddPool(u) ==
  /\ work[u] = "make"
  /\ \/ poolOf[Server(u)] = NoPool /\ MakePool(u)
     \/ UNCHANGED mapVars
  /\ work' = [work EXCEPT ![u] = "again"]
  /\ UNCHANGED <<free, docs, asked, pool, sent, seen, reply, calls>>

\* getConnection: acquire waits for a connection, or fails.
Acquire(u) ==
  /\ work[u] = "acquire"
  /\ free[pool[u]] > 0
  /\ free' = [free EXCEPT ![pool[u]] = @ - 1]
  /\ work' = [work EXCEPT ![u] = asked[u].op]
  /\ UNCHANGED <<mapVars, docs, asked, pool, sent, seen, reply, calls>>

AcquireFails(u) ==
  /\ work[u] = "acquire"
  /\ Reply(u, "fail")
  /\ UNCHANGED <<mapVars, free, docs, asked, pool, sent, seen, calls>>

GiveBack(u) == free' = [free EXCEPT ![pool[u]] = @ + 1]

\* Mutant: a call that fails keeps its connection.
DoneKeeping(u, code) ==
  /\ IF code = "ok" THEN GiveBack(u) ELSE UNCHANGED free
  /\ Reply(u, code)
  /\ UNCHANGED <<mapVars, asked, pool, calls>>

\* The function returns, on whatever path, and its connection goes back.
Done(u, code) ==
  /\ GiveBack(u)
  /\ Reply(u, code)
  /\ UNCHANGED <<mapVars, asked, pool, calls>>

Ops == {"look", "count", "rows", "add", "update", "remove"}

\* The model does not deliver its documents, or the server refuses.
OperationFails(u) ==
  /\ work[u] \in Ops
  /\ Done(u, "fail")
  /\ UNCHANGED <<docs, sent, seen>>

LookUp(u) ==
  /\ work[u] = "look"
  /\ Done(u, "ok")
  /\ UNCHANGED <<docs, sent, seen>>

\* The two requests of a query, and the model that takes what they found.
Count(u) ==
  /\ work[u] = "count"
  /\ seen' = [seen EXCEPT ![u] = Cardinality(docs[Server(u)])]
  /\ work' = [work EXCEPT ![u] = "rows"]
  /\ UNCHANGED <<mapVars, free, docs, asked, pool, sent, reply, calls>>

Rows(u) ==
  /\ work[u] = "rows"
  /\ Done(u, "ok")
  /\ UNCHANGED <<docs, sent, seen>>

Keys(s) == {s[i] : i \in DOMAIN s}

\* insertOne, or insertBulk, which stops at the first document refused.
Insert(u) ==
  /\ work[u] = "add"
  /\ \E n \in 0 .. Len(asked[u].docs) :
       /\ sent' = [sent EXCEPT ![u] = n]
       /\ docs' = [docs EXCEPT ![Server(u)] =
                     @ \cup {asked[u].docs[i] : i \in 1 .. n}]
       /\ Done(u, IF n = Len(asked[u].docs) THEN "ok" ELSE "fail")
  /\ UNCHANGED seen

\* update2Collection sends as many updates as there are both filters and
\* documents; what has no partner is left out without a word.
Pairs(u) == IF Len(asked[u].filters) < Len(asked[u].docs)
            THEN Len(asked[u].filters) ELSE Len(asked[u].docs)

\* One update; with upsert a document that is not there is inserted.
Update(u) ==
  /\ work[u] = "update"
  /\ sent[u] < Pairs(u)
  /\ sent' = [sent EXCEPT ![u] = @ + 1]
  /\ docs' = [docs EXCEPT ![Server(u)] =
                IF asked[u].upsert
                THEN @ \cup {asked[u].filters[sent[u] + 1]} ELSE @]
  /\ UNCHANGED <<mapVars, free, work, asked, pool, seen, reply, calls>>

Updated(u) ==
  /\ work[u] = "update"
  /\ sent[u] = Pairs(u)
  /\ Done(u, "ok")
  /\ UNCHANGED <<docs, sent, seen>>

\* deleteOne and deleteMany; with no filter deleteAll empties the collection.
Delete(u) ==
  /\ work[u] = "remove"
  /\ docs' = [docs EXCEPT ![Server(u)] =
                IF asked[u].filters = <<>> THEN {}
                ELSE @ \ Keys(asked[u].filters)]
  /\ Done(u, "ok")
  /\ UNCHANGED <<sent, seen>>

\* Steps of a call that come if they can; an acquire that fails need not.
Proceeds(u) ==
  \/ FindPool(u) \/ AddPool(u) \/ Acquire(u) \/ OperationFails(u)
  \/ LookUp(u) \/ Count(u) \/ Rows(u) \/ Insert(u) \/ Update(u)
  \/ Updated(u) \/ Delete(u)

MongoStep(u) == Proceeds(u) \/ AcquireFails(u)

MongoNext == \E u \in Users : MongoStep(u) \/ \E c \in MongoCalls : Ask(u, c)

MongoFairness == \A u \in Users : WF_mongoVars(Proceeds(u))

MongoSpec == MongoInit /\ [][MongoNext]_mongoVars /\ MongoFairness
-----------------------------------------------------------------------------
InUse(p) == {u \in Users : work[u] \in Ops /\ pool[u] = p}

\* A server never has two pools, whatever threads ask for it at once, and of
\* the pool's connections each is free or in the hands of one call: no path
\* out of a call keeps one, and none gives one back twice.
PoolsAreShared ==
  /\ \A u \in Users :
       work[u] \in Ops \cup {"acquire"} => pool[u] = poolOf[Server(u)]
  /\ \A p \in Pools :
       free[p] + Cardinality(InUse(p)) = ConnCount

\* Every call returns, also when more threads call than there are connections.
MongoCallsReturn == \A u \in Users : work[u] # "idle" ~> work[u] = "idle"
=============================================================================
