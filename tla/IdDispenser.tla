---------------------------- MODULE IdDispenser ----------------------------
(***************************************************************************)
(* What the id service promises its clients: every call that is granted    *)
(* returns a (date, uniqueId) nobody was given before, and the date never  *)
(* goes back.  How it does so, what it saves and how often it is restarted *)
(* is of no concern here.                                                  *)
(***************************************************************************)
EXTENDS Naturals

CONSTANTS Clients, Dates

VARIABLES
  busy,      \* the clients with a call in flight
  granted,   \* every <<date, id>> handed out
  outcome    \* how the last call of each client ended

dispenserVars == <<busy, granted, outcome>>

Codes == {"none", "LCT_SUCCESS", "LCT_FAIL", "DB_ERROR"}

DispenserInit ==
  /\ busy = {}
  /\ granted = {}
  /\ outcome = [c \in Clients |-> "none"]

Ask(c) ==
  /\ c \notin busy
  /\ busy' = busy \cup {c}
  /\ outcome' = [outcome EXCEPT ![c] = "none"]
  /\ UNCHANGED granted

\* A fresh id, of a day not before the day of any earlier one.
Grant(c) ==
  /\ c \in busy
  /\ busy' = busy \ {c}
  /\ outcome' = [outcome EXCEPT ![c] = "LCT_SUCCESS"]
  /\ \E fresh \in granted' \ granted :
        /\ granted' = granted \cup {fresh}
        /\ fresh[1] \in Dates
        /\ fresh[2] \in Nat
        /\ \A old \in granted : old[1] <= fresh[1]

Refuse(c) ==
  /\ c \in busy
  /\ busy' = busy \ {c}
  /\ \E code \in Codes \ {"none", "LCT_SUCCESS"} :
        outcome' = [outcome EXCEPT ![c] = code]
  /\ UNCHANGED granted

\* The process stops: the calls in flight are lost, the ids stay given.
Stop ==
  /\ busy' = {}
  /\ outcome' = [c \in Clients |-> "none"]
  /\ UNCHANGED granted

DispenserNext ==
  \/ \E c \in Clients : Ask(c) \/ Grant(c) \/ Refuse(c)
  \/ Stop

DispenserSpec == DispenserInit /\ [][DispenserNext]_dispenserVars

=============================================================================
