----------------------------- MODULE MCLibrary -----------------------------
(***************************************************************************)
(* The parts of the library that do not share state, as one instance for   *)
(* TLC: a behaviour is one of the part it is about, and the others rest.   *)
(***************************************************************************)
EXTENDS CassHelper, CassPaging, MongoHelper, CircularBuffer, VersionFile,
        Calendar

VARIABLE part  \* the part the behaviour is of: never changes

CassRests     == UNCHANGED cassVars
PagingRests   == UNCHANGED pagingVars
MongoRests    == UNCHANGED mongoVars
BufferRests   == UNCHANGED bufferVars
VersionRests  == UNCHANGED versionVars
CalendarRests == UNCHANGED calendarVars

\* A part that rests has one initial state.
LibraryInit ==
  /\ part \in {"cassandra", "paging", "mongo", "buffer", "version", "calendar"}
  /\ CassInit /\ PagingInit /\ MongoInit /\ BufferInit /\ VersionInit
  /\ CalendarInit
  /\ part # "buffer" => kind = "objects" /\ size = 1
  /\ part # "calendar" => \A d \in FirstDates : begin <= d

LibraryNext ==
  /\ UNCHANGED part
  /\ \/ /\ part = "cassandra" /\ CassNext
        /\ PagingRests /\ MongoRests /\ BufferRests /\ VersionRests
        /\ CalendarRests
     \/ /\ part = "paging" /\ PagingNext
        /\ CassRests /\ MongoRests /\ BufferRests /\ VersionRests
        /\ CalendarRests
     \/ /\ part = "mongo" /\ MongoNext
        /\ CassRests /\ PagingRests /\ BufferRests /\ VersionRests
        /\ CalendarRests
     \/ /\ part = "buffer" /\ BufferNext
        /\ CassRests /\ PagingRests /\ MongoRests /\ VersionRests
        /\ CalendarRests
     \/ /\ part = "version" /\ VersionNext
        /\ CassRests /\ PagingRests /\ MongoRests /\ BufferRests
        /\ CalendarRests
     \/ /\ part = "calendar" /\ GetRangeDate
        /\ CassRests /\ PagingRests /\ MongoRests /\ BufferRests
        /\ VersionRests

LibrarySpec ==
  /\ LibraryInit
  /\ [][LibraryNext]_<<part, cassVars, pagingVars, mongoVars, bufferVars,
                       versionVars, calendarVars>>
  /\ CassFairness
  /\ MongoFairness

-----------------------------------------------------------------------------
MCCalls ==
  {[op |-> "execute", sizes |-> <<1>>], [op |-> "create", sizes |-> <<1>>],
   [op |-> "multi", sizes |-> <<1, 1>>],
   [op |-> "batch", sizes |-> <<1, 1, 3, 1>>]}

\* Each reader has its statement to itself.
MCCql == [r \in Readers |-> r]

MCMongoCalls ==
  [op : {"look", "count"}, server : {"s1"}, filters : {<<>>}, docs : {<<>>},
   upsert : {FALSE}]
  \cup {[op |-> "add", server |-> "s1", filters |-> <<>>, docs |-> <<1, 2>>,
         upsert |-> FALSE],
        [op |-> "update", server |-> "s1", filters |-> <<1, 2>>,
         docs |-> <<1>>, upsert |-> TRUE],
        [op |-> "remove", server |-> "s1", filters |-> <<1>>, docs |-> <<>>,
         upsert |-> FALSE],
        [op |-> "remove", server |-> "s2", filters |-> <<>>, docs |-> <<>>,
         upsert |-> FALSE]}

MCForced == {<<1, 0>>, <<1>>}

\* Ends of common and leap years, of February in both, and of centuries.
MCFirstDates == {18991230, 19991230, 20000227, 20240227, 20990227}
=============================================================================
