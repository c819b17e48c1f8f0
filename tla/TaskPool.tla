------------------------------ MODULE TaskPool ------------------------------
(***************************************************************************)
(* What a thread pool promises its users: a task that was accepted is      *)
(* begun at most once, a caller's tasks in the order it submitted them,    *)
(* and once the pool is closed nothing is running any more.  Tasks that    *)
(* were not begun when it closes are dropped.                              *)
(***************************************************************************)
EXTENDS Naturals

VARIABLES
  open,      \* may tasks be submitted?
  pending,   \* accepted and not begun: [from |-> caller, no |-> number]
  running,   \* begun and not finished
  finished   \* finished since the pool was opened

taskPoolVars == <<open, pending, running, finished>>

TaskPoolInit ==
  /\ open = FALSE
  /\ pending = {}
  /\ running = {}
  /\ finished = {}

Open ==
  /\ ~open
  /\ open' = TRUE
  /\ finished' = {}
  /\ UNCHANGED <<pending, running>>

Submit ==
  /\ open
  /\ \E t \in pending' \ pending :
        /\ pending' = pending \cup {t}
        /\ t \notin running \cup finished
  /\ UNCHANGED <<open, running, finished>>

Begin(t) ==
  /\ t \in pending
  /\ \A u \in pending : u.from = t.from => t.no <= u.no
  /\ pending' = pending \ {t}
  /\ running' = running \cup {t}
  /\ UNCHANGED <<open, finished>>

Finish(t) ==
  /\ t \in running
  /\ running' = running \ {t}
  /\ finished' = finished \cup {t}
  /\ UNCHANGED <<open, pending>>

Close ==
  /\ open
  /\ running = {}
  /\ open' = FALSE
  /\ pending' = {}
  /\ UNCHANGED <<running, finished>>

TaskPoolNext ==
  \/ Open
  \/ Submit
  \/ \E t \in pending : Begin(t)
  \/ \E t \in running : Finish(t)
  \/ Close

TaskPoolSpec == TaskPoolInit /\ [][TaskPoolNext]_taskPoolVars

=============================================================================
