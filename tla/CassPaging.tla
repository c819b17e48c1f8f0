----------------------------- MODULE CassPaging -----------------------------
(***************************************************************************)
(* pageQuery of the Cassandra wrapper and CLctCassPageStateVessel.  A      *)
(* reader asks for the first page of a statement and then for the rest,    *)
(* page by page; between the calls the vessel keeps the statement and its  *)
(* last result under the text of the statement, and forgets it a day       *)
(* later.  Nothing tells the reader that a page was the last one: the next *)
(* call finds no state and returns LCT_NOT_SUCH_RECORD.                    *)
(*                                                                         *)
(* retrieve removes what is out of date under the lock for READING, so two *)
(* readers may do so at once; the model stops there.  The restraint and    *)
(* the session of a call are in CassHelper: here a call may fail.          *)
(***************************************************************************)
EXTENDS Integers, Sequences

CONSTANTS
  Readers,     \* threads that read pages
  Cql,         \* Cql[r]: the statement reader r asks for
  Obsolete,    \* PAGE_STATE_OBSOLETE_DURATION, in units of the clock
  MaxPages,    \* bound on the pages of a reading
  MaxReadings, \* bound on the readings a reader begins
  MaxClock     \* bound on the clock

ASSUME PagingAssumption ==
  Obsolete \in Nat /\ MaxPages \in Nat /\ MaxReadings \in Nat /\ MaxClock \in Nat

VARIABLES
  clock,     \* LctCurrentDateTimeValue
  vessel,    \* m_pageStateMap
  inside,    \* readers inside retrieve
  rpc,       \* where each reader is in its call
  state,     \* the state its call goes on from
  readings,  \* how many readings it began
  got,       \* ghost: the pages of the current reading, as it got them
  answer,    \* what its last call returned
  stale,     \* ghost: statements whose state an earlier reading left behind
  lapsed     \* ghost: statements whose state was out of date and removed

placeVars == <<inside, rpc, state, readings>>
ghostVars == <<stale, lapsed>>
pagingVars == <<clock, vessel, placeVars, got, answer, ghostVars>>

Statements == {Cql[r] : r \in Readers}
NoState == [by |-> "nobody", reading |-> 0, page |-> 0, last |-> TRUE, at |-> 0]

Old(s) == s # NoState /\ clock - Obsolete > s.at
OldStatements == {c \in Statements : Old(vessel[c])}
Tidy == [c \in Statements |-> IF Old(vessel[c]) THEN NoState ELSE vessel[c]]

\* Two readers inside, and there is something to remove.
Raced ==
  /\ OldStatements # {}
  /\ \E r, s \in Readers : r # s /\ {r, s} \subseteq inside

PagingInit ==
  /\ clock = 0
  /\ vessel = [c \in Statements |-> NoState]
  /\ inside = {}
  /\ rpc = [r \in Readers |-> "idle"]
  /\ state = [r \in Readers |-> NoState]
  /\ readings = [r \in Readers |-> 0]
  /\ got = [r \in Readers |-> <<>>]
  /\ answer = [r \in Readers |-> "ok"]
  /\ stale = {}
  /\ lapsed = {}

PassTime ==
  /\ clock < MaxClock
  /\ clock' = clock + 1
  /\ UNCHANGED <<vessel, placeVars, got, answer, ghostVars>>

Answer(r, code) ==
  /\ rpc' = [rpc EXCEPT ![r] = "idle"]
  /\ answer' = [answer EXCEPT ![r] = code]

\* queryFirstPage.  A page size that is refused is answered with success.
FirstPage(r) ==
  /\ rpc[r] = "idle"
  /\ readings[r] < MaxReadings
  /\ readings' = [readings EXCEPT ![r] = @ + 1]
  /\ state' = [state EXCEPT ![r] = [by |-> r, reading |-> readings[r] + 1,
                                    page |-> 0, last |-> FALSE, at |-> 0]]
  /\ got' = [got EXCEPT ![r] = <<>>]
  /\ stale' = IF vessel[Cql[r]] # NoState THEN stale \cup {Cql[r]} ELSE stale
  /\ \/ Answer(r, "ok")
     \/ rpc' = [rpc EXCEPT ![r] = "first"] /\ UNCHANGED answer
  /\ UNCHANGED <<clock, vessel, inside, lapsed>>

\* queryRestPage: retrieve, into the map and out of it.
RestPage(r) ==
  /\ rpc[r] = "idle"
  /\ readings[r] > 0
  /\ rpc' = [rpc EXCEPT ![r] = "retrieve"]
  /\ inside' = inside \cup {r}
  /\ UNCHANGED <<clock, vessel, state, readings, got, answer, ghostVars>>

Retrieve(r) ==
  /\ rpc[r] = "retrieve"
  /\ inside' = inside \ {r}
  /\ vessel' = Tidy
  /\ lapsed' = lapsed \cup OldStatements
  /\ IF vessel'[Cql[r]] = NoState
     THEN Answer(r, "norecord") /\ UNCHANGED state
     ELSE /\ rpc' = [rpc EXCEPT ![r] = "rest"]
          /\ state' = [state EXCEPT ![r] = vessel'[Cql[r]]]
          /\ UNCHANGED answer
  /\ UNCHANGED <<clock, readings, got, stale>>

\* The call fails on its way to the server or there, or the function the rows
\* are passed to does not want them: the vessel stays as it is.
PageFails(r) ==
  /\ rpc[r] \in {"first", "rest"}
  /\ Answer(r, "fail")
  /\ UNCHANGED <<clock, vessel, inside, state, readings, got, ghostVars>>

\* The rows of the next page are passed on; the server says if there are more.
NextPage(r, last) ==
  /\ rpc[r] \in {"first", "rest"}
  /\ LET page == [state[r] EXCEPT !.page = @ + 1, !.last = last]
     IN  /\ page.page = MaxPages => last
         /\ state' = [state EXCEPT ![r] = page]
         /\ got' = [got EXCEPT ![r] = Append(@, page)]
  /\ IF last /\ rpc[r] = "first"
     THEN Answer(r, "ok")
     ELSE /\ rpc' = [rpc EXCEPT ![r] = IF last THEN "remove" ELSE "save"]
          /\ UNCHANGED answer
  /\ UNCHANGED <<clock, vessel, inside, readings, ghostVars>>

\* Mutant: save keeps a state that is there already.
SaveOnce(r) ==
  /\ rpc[r] = "save"
  /\ inside = {}
  /\ vessel' = [Tidy EXCEPT ![Cql[r]] =
                  IF @ = NoState THEN [state[r] EXCEPT !.at = clock] ELSE @]
  /\ stale' = IF state[r].reading = readings[r]
              THEN stale \ {Cql[r]} ELSE stale
  /\ lapsed' = (lapsed \cup OldStatements) \ {Cql[r]}
  /\ Answer(r, "ok")
  /\ UNCHANGED <<clock, inside, state, readings, got>>

\* save, under the lock for writing, tidies and replaces an older state.
Save(r) ==
  /\ rpc[r] = "save"
  /\ inside = {}
  /\ vessel' = [Tidy EXCEPT ![Cql[r]] = [state[r] EXCEPT !.at = clock]]
  /\ stale' = IF state[r].reading = readings[r]
              THEN stale \ {Cql[r]} ELSE stale
  /\ lapsed' = (lapsed \cup OldStatements) \ {Cql[r]}
  /\ Answer(r, "ok")
  /\ UNCHANGED <<clock, inside, state, readings, got>>

\* remove: another call's retrieve may have removed the state before.
RemoveState(r) ==
  /\ rpc[r] = "remove"
  /\ inside = {}
  /\ vessel' = [vessel EXCEPT ![Cql[r]] = NoState]
  /\ Answer(r, IF vessel[Cql[r]] = NoState THEN "norecord" ELSE "ok")
  /\ UNCHANGED <<clock, inside, state, readings, got, ghostVars>>

PagingNext ==
  /\ ~Raced
  /\ \/ PassTime
     \/ \E r \in Readers :
          \/ FirstPage(r) \/ RestPage(r) \/ Retrieve(r) \/ PageFails(r)
          \/ Save(r) \/ RemoveState(r)
          \/ \E last \in BOOLEAN : NextPage(r, last)

PagingSpec == PagingInit /\ [][PagingNext]_pagingVars

-----------------------------------------------------------------------------
\* A reader that has its statement to itself gets the pages of its reading in
\* order and each once, through failures and calls made again, and when it is
\* told that there are no more the last one it got was the last.  A state that
\* an earlier reading left there, or that was a day old, breaks this.
PagesInOrder ==
  \A r \in Readers :
    (\A s \in Readers \ {r} : Cql[s] # Cql[r]) /\ Cql[r] \notin stale =>
      /\ \A i \in DOMAIN got[r] :
           got[r][i].reading = readings[r] /\ got[r][i].page = i
      /\ answer[r] = "norecord" /\ rpc[r] = "idle" /\ got[r] # <<>>
           /\ Cql[r] \notin lapsed
         => got[r][Len(got[r])].last
=============================================================================
