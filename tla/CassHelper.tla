----------------------------- MODULE CassHelper -----------------------------
(***************************************************************************)
(* The Cassandra wrapper: CLctCassandraHelper (init, close, execute, the   *)
(* batches and the multi query), its connection pool CLctCassConnPool with *)
(* the read-write lock, and CCassRestrain, which bounds the number of      *)
(* calls that are at work.  The page queries are in CassPaging.            *)
(*                                                                         *)
(* All users pass one keyspace, so the session map holds one session or    *)
(* none.  Every section of the pool takes its lock for READING, those that *)
(* change the map too, so two of them can be in the map at once; inMap     *)
(* says who is in it and what for.  What a program does after a change of  *)
(* the map met another access is undefined: the model stops there.         *)
(***************************************************************************)
EXTENDS Integers, Sequences, FiniteSets

CONSTANTS
  Threads,      \* the threads that call the helper
  Owner,        \* the thread that closes it
  Calls,        \* calls they make: [op, sizes], sizes of the CQL statements
  ChunkSize,    \* m_batchExecChunkSize
  DefaultLimit, \* CASSANDRA_MAX_LIMIT_DEFAULT_SIZE
  Hosts,        \* number of hosts named in dbHost
  Limits,       \* values passed to setRequestMax
  MaxConnects,  \* bound on the sessions connected
  MaxCalls      \* bound on the calls made

ASSUME OwnerAssumption == Owner \notin Threads
ASSUME ThreadsAssumption == IsFiniteSet(Threads)
ASSUME LimitAssumption ==
  DefaultLimit \in Nat /\ Limits \subseteq Nat /\ Hosts \in Nat /\ Hosts >= 1
\* A CQL statement is not the empty string.  batchExec relies on it: to it, no
\* bytes collected means no statements collected.
ASSUME CallsAssumption ==
  /\ ChunkSize \in Nat
  /\ Calls \subseteq [op : {"execute", "create", "multi", "batch"},
                     sizes : Seq(Nat \ {0})]

NoSession == 0

VARIABLES
  ready,      \* m_ready
  opened,     \* m_connPool was made
  limit,      \* CCassRestrain::s_limit
  concurrent, \* CCassRestrain::s_concurrent
  mapped,     \* m_sessionMap: the session of the keyspace, or NoSession
  connects,   \* sessions connected so far; they are numbered
  inMap,      \* what a thread does in the map: "no", "reads" or "writes"
  pc,         \* where each thread is in its call
  made,       \* number of calls made so far
  call,       \* the call it makes
  next, upto, \* the statements next .. upto are executed together
  held,       \* the session it holds
  retried,    \* it has connected and looks for the second time
  result,     \* what its call or the part at work came to
  executed    \* ghost: statements of the call the server executed, in order

helperVars == <<ready, opened>>
restrainVars == <<limit, concurrent>>
poolVars == <<mapped, connects, inMap>>
planVars == <<made, call, next, upto>>
outVars == <<held, retried, result, executed>>
callVars == <<pc, planVars, outVars>>
cassVars == <<helperVars, restrainVars, poolVars, callVars>>

Undefined == \E t, u \in Threads \cup {Owner} :
               t # u /\ inMap[t] = "writes" /\ inMap[u] # "no"

CassInit ==
  /\ ready = FALSE
  /\ opened = FALSE
  /\ limit = DefaultLimit
  /\ concurrent = 0
  /\ mapped = NoSession
  /\ connects = 0
  /\ inMap = [t \in Threads \cup {Owner} |-> "no"]
  /\ pc = [t \in Threads \cup {Owner} |-> "idle"]
  /\ made = 0
  /\ call = [t \in Threads |-> [op |-> "execute", sizes |-> <<>>]]
  /\ next = [t \in Threads |-> 1]
  /\ upto = [t \in Threads |-> 0]
  /\ held = [t \in Threads |-> NoSession]
  /\ retried = [t \in Threads |-> FALSE]
  /\ result = [t \in Threads |-> "ok"]
  /\ executed = [t \in Threads |-> <<>>]

(***************************************************************************)
(* init: the pool, the flag and, for more than one host, a limit.  The     *)
(* code counts the separators between the hosts.                           *)
(***************************************************************************)
Open ==
  /\ ~opened
  /\ opened' = TRUE
  /\ ready' = TRUE
  /\ limit' = IF Hosts > 1 THEN DefaultLimit * (Hosts - 1) ELSE limit
  /\ UNCHANGED <<concurrent, poolVars, callVars>>

\* setRequestMax: without the mutex of the restraint, and nobody is notified.
SetRequestMax(n) ==
  /\ ready
  /\ limit' = n
  /\ UNCHANGED <<helperVars, concurrent, poolVars, callVars>>

\* close: the flag first; the map is cleared in two steps, in and out of it.
Close ==
  /\ pc[Owner] = "idle"
  /\ ready
  /\ ready' = FALSE
  /\ pc' = [pc EXCEPT ![Owner] = "clear"]
  /\ UNCHANGED <<opened, restrainVars, poolVars, planVars, outVars>>

\* A section of the pool: into the map, to read it or to change it.
InTheMap(t, from, to, what) ==
  /\ pc[t] = from
  /\ pc' = [pc EXCEPT ![t] = to]
  /\ inMap' = [inMap EXCEPT ![t] = what]
  /\ UNCHANGED <<helperVars, restrainVars, mapped, connects, planVars,
                 outVars>>

Clear == InTheMap(Owner, "clear", "clearing", "writes")

Cleared ==
  /\ pc[Owner] = "clearing"
  /\ pc' = [pc EXCEPT ![Owner] = "idle"]
  /\ inMap' = [inMap EXCEPT ![Owner] = "no"]
  /\ mapped' = NoSession
  /\ UNCHANGED <<helperVars, restrainVars, connects, planVars, outVars>>

-----------------------------------------------------------------------------
\* A call.  Only batchExec does not look at m_ready; its caller has seen init.
Start(t, c) ==
  /\ pc[t] = "idle"
  /\ made < MaxCalls
  /\ made' = made + 1
  /\ c.op = "batch" => opened
  /\ call' = [call EXCEPT ![t] = c]
  /\ next' = [next EXCEPT ![t] = 1]
  /\ upto' = [upto EXCEPT ![t] = IF c.op = "batch" THEN 0 ELSE Len(c.sizes)]
  /\ executed' = [executed EXCEPT ![t] = <<>>]
  /\ retried' = [retried EXCEPT ![t] = FALSE]
  /\ \/ /\ c.op = "batch"
        /\ pc' = [pc EXCEPT ![t] = "chunk"]
        /\ result' = [result EXCEPT ![t] = "ok"]
     \/ /\ c.op # "batch" /\ ready
        /\ pc' = [pc EXCEPT ![t] = "gate"]
        /\ result' = [result EXCEPT ![t] = "ok"]
     \/ /\ c.op # "batch" /\ ~ready
        /\ result' = [result EXCEPT ![t] = "notready"]
        /\ UNCHANGED pc
  /\ UNCHANGED <<helperVars, restrainVars, poolVars, held>>

Bytes(s, i, j) ==
  LET sum[k \in (i - 1) .. j] == IF k < i THEN 0 ELSE sum[k - 1] + s[k]
  IN  sum[j]

\* Mutant: the statement that no longer fits is still taken.
FillsOver(s, i) ==
  CHOOSE j \in i .. Len(s) :
    /\ \A k \in i .. (j - 1) : Bytes(s, i, k) < ChunkSize
    /\ j < Len(s) => Bytes(s, i, j) >= ChunkSize

\* The statements from i on that fill one batch: while their bytes stay below
\* the chunk size.  None, when the first alone reaches it.
FillsTo(s, i) ==
  CHOOSE j \in (i - 1) .. Len(s) :
    /\ \A k \in i .. j : Bytes(s, i, k) < ChunkSize
    /\ j < Len(s) => Bytes(s, i, j + 1) >= ChunkSize

\* batchExec, the loop: the next batch, a single insert, or the end.  The
\* insert is an execute, which does look at m_ready.
Chunk(t) ==
  /\ pc[t] = "chunk"
  /\ LET s == call[t].sizes
         j == FillsTo(s, next[t])
     IN  \/ /\ next[t] > Len(s)
            /\ pc' = [pc EXCEPT ![t] = "idle"]
            /\ UNCHANGED <<upto, retried, result>>
         \/ /\ next[t] <= Len(s)
            /\ j < next[t] /\ ~ready
            /\ pc' = [pc EXCEPT ![t] = "idle"]
            /\ result' = [result EXCEPT ![t] = "notready"]
            /\ UNCHANGED <<upto, retried>>
         \/ /\ next[t] <= Len(s)
            /\ j >= next[t] \/ ready
            /\ pc' = [pc EXCEPT ![t] = "gate"]
            /\ upto' = [upto EXCEPT ![t] = IF j < next[t] THEN next[t] ELSE j]
            /\ retried' = [retried EXCEPT ![t] = FALSE]
            /\ UNCHANGED result
  /\ UNCHANGED <<helperVars, restrainVars, poolVars, made, call, next, held,
                 executed>>

\* CassAutoFlowControl: the wait looks again after 30 seconds at the latest.
Enter(t) ==
  /\ pc[t] = "gate"
  /\ concurrent < limit
  /\ concurrent' = concurrent + 1
  /\ pc' = [pc EXCEPT ![t] = "look"]
  /\ UNCHANGED <<helperVars, limit, poolVars, planVars, outVars>>

\* session, retrieveSession: into the map and out with the session, if any.
Look(t) == InTheMap(t, "look", "looking", "reads")

Looked(t) ==
  /\ pc[t] = "looking"
  /\ inMap' = [inMap EXCEPT ![t] = "no"]
  /\ held' = [held EXCEPT ![t] = mapped]
  /\ \/ /\ mapped # NoSession
        /\ pc' = [pc EXCEPT ![t] = "run"]
        /\ UNCHANGED result
     \/ /\ mapped = NoSession /\ ~retried[t]
        /\ pc' = [pc EXCEPT ![t] = "connect"]
        /\ UNCHANGED result
     \/ /\ mapped = NoSession /\ retried[t]
        /\ pc' = [pc EXCEPT ![t] = "leave"]
        /\ result' = [result EXCEPT ![t] = "norecord"]
  /\ UNCHANGED <<helperVars, restrainVars, mapped, connects, planVars, retried,
                 executed>>

Connect(t) ==
  /\ pc[t] = "connect"
  /\ connects < MaxConnects
  /\ connects' = connects + 1
  /\ held' = [held EXCEPT ![t] = connects + 1]
  /\ pc' = [pc EXCEPT ![t] = "append"]
  /\ UNCHANGED <<helperVars, restrainVars, mapped, inMap, planVars, retried,
                 result, executed>>

\* Mutant: a connection that fails returns past the end of the restraint.
ConnectFailsAtWork(t) ==
  /\ pc[t] = "connect"
  /\ pc' = [pc EXCEPT ![t] = "idle"]
  /\ result' = [result EXCEPT ![t] = "fail"]
  /\ UNCHANGED <<helperVars, restrainVars, poolVars, planVars, held, retried,
                 executed>>

ConnectFails(t) ==
  /\ pc[t] = "connect"
  /\ pc' = [pc EXCEPT ![t] = "leave"]
  /\ result' = [result EXCEPT ![t] = "fail"]
  /\ UNCHANGED <<helperVars, restrainVars, poolVars, planVars, held, retried,
                 executed>>

\* connect, appendSession and appendCluster: under the lock for reading.
AppendSession(t) == InTheMap(t, "append", "appending", "writes")

Appended(t) ==
  /\ pc[t] = "appending"
  /\ pc' = [pc EXCEPT ![t] = "look"]
  /\ inMap' = [inMap EXCEPT ![t] = "no"]
  /\ mapped' = held[t]
  /\ held' = [held EXCEPT ![t] = NoSession]
  /\ retried' = [retried EXCEPT ![t] = TRUE]
  /\ UNCHANGED <<helperVars, restrainVars, connects, planVars, result,
                 executed>>

\* The server executes next .. upto, or refuses them; a multi query only
\* submits them here.
Part(t) == [i \in 1 .. (upto[t] - next[t] + 1) |-> next[t] + i - 1]

Execute(t) ==
  /\ pc[t] = "run"
  /\ pc' = [pc EXCEPT ![t] = "leave"]
  /\ \/ /\ call[t].op = "multi"
        /\ UNCHANGED <<executed, result>>
     \/ /\ call[t].op # "multi"
        /\ executed' = [executed EXCEPT ![t] = @ \o Part(t)]
        /\ UNCHANGED result
     \/ /\ call[t].op # "multi"
        /\ result' = [result EXCEPT ![t] = "fail"]
        /\ UNCHANGED executed
     \/ /\ call[t].op = "create"      \* exists already: not an error there
        /\ UNCHANGED <<executed, result>>
  /\ UNCHANGED <<helperVars, restrainVars, poolVars, planVars, held, retried>>

\* ~CCassRestrain at the end of the scope; the session is let go with it.
Leave(t) ==
  /\ pc[t] = "leave"
  /\ concurrent' = concurrent - 1
  /\ held' = [held EXCEPT ![t] = NoSession]
  /\ \/ /\ call[t].op = "batch" /\ result[t] = "ok"
        /\ pc' = [pc EXCEPT ![t] = "chunk"]
        /\ next' = [next EXCEPT ![t] = upto[t] + 1]
     \/ /\ call[t].op = "multi" /\ result[t] = "ok"
        /\ pc' = [pc EXCEPT ![t] = "futures"]
        /\ UNCHANGED next
     \/ /\ call[t].op \in {"batch", "multi"} => result[t] # "ok"
        /\ pc' = [pc EXCEPT ![t] = "idle"]
        /\ UNCHANGED next
  /\ UNCHANGED <<helperVars, limit, poolVars, made, call, upto, retried,
                 result, executed>>

\* multiQuery: one more future is ready, in whatever order; an error of its
\* statement is only logged, so the call comes to "ok" all the same.
Poll(t) ==
  /\ pc[t] = "futures"
  /\ \/ /\ next[t] > upto[t]
        /\ pc' = [pc EXCEPT ![t] = "idle"]
        /\ UNCHANGED next
     \/ /\ next[t] <= upto[t]
        /\ next' = [next EXCEPT ![t] = @ + 1]
        /\ UNCHANGED pc
  /\ UNCHANGED <<helperVars, restrainVars, poolVars, made, call, upto,
                 outVars>>

-----------------------------------------------------------------------------
Work(t) ==
  \/ Chunk(t) \/ Enter(t) \/ Look(t) \/ Looked(t) \/ Connect(t)
  \/ ConnectFails(t) \/ AppendSession(t) \/ Appended(t) \/ Execute(t)
  \/ Leave(t) \/ Poll(t)

CassNext ==
  /\ ~Undefined
  /\ \/ Open \/ Close \/ Clear \/ Cleared
     \/ \E n \in Limits : SetRequestMax(n)
     \/ \E t \in Threads : Work(t) \/ \E c \in Calls : Start(t, c)

CassFairness == \A t \in Threads : WF_cassVars(~Undefined /\ Work(t))

CassSpec == CassInit /\ [][CassNext]_cassVars /\ CassFairness

-----------------------------------------------------------------------------
AtWork == {"look", "looking", "connect", "append", "appending", "run", "leave"}
Places == AtWork \cup {"idle", "chunk", "gate", "futures"}

CassTypeOK ==
  /\ ready \in BOOLEAN /\ opened \in BOOLEAN
  /\ limit \in Nat /\ concurrent \in Nat
  /\ mapped \in 0 .. connects /\ connects \in 0 .. MaxConnects
  /\ inMap \in [Threads \cup {Owner} -> {"no", "reads", "writes"}]
  /\ pc \in [Threads \cup {Owner} -> Places \cup {"clear", "clearing"}]
  /\ held \in [Threads -> 0 .. connects]
  /\ retried \in [Threads -> BOOLEAN]
  /\ result \in [Threads -> {"ok", "fail", "norecord", "notready"}]

\* Calls at work, whatever way they end: the restraint counts exactly them, so
\* no failing path keeps a place and none gives one back twice.
Holders == {t \in Threads : pc[t] \in AtWork}
RestraintCountsCalls == concurrent = Cardinality(Holders)

\* And there are never more of them than one of the limits there have been.
LimitsSet == Limits \cup {DefaultLimit, DefaultLimit * (Hosts - 1)}
RestraintHolds ==
  RestraintCountsCalls /\ \E n \in LimitsSet : concurrent <= n

\* The statements of a call are executed in order and each once, in batches
\* that stay below the chunk size unless one statement alone does not, and a
\* call that reports success has had all of them executed.
BatchInOrder ==
  \A t \in Threads :
    /\ \A i \in DOMAIN executed[t] : executed[t][i] = i
    /\ pc[t] = "idle" /\ result[t] = "ok" /\ call[t].op \in {"execute", "batch"}
         => Len(executed[t]) = Len(call[t].sizes)
    /\ pc[t] = "run" /\ call[t].op = "batch" /\ upto[t] > next[t]
         => Bytes(call[t].sizes, next[t], upto[t]) < ChunkSize

\* Every call returns, with other calls at work, a limit that is lowered under
\* them, sessions that cannot be connected and a helper closed meanwhile.
CallsReturn ==
  \A t \in Threads : pc[t] # "idle" ~> (pc[t] = "idle" \/ Undefined)
=============================================================================
