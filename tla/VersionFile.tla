---------------------------- MODULE VersionFile ----------------------------
(***************************************************************************)
(* The version tool: CVersionParser reads the version lines of version.h,  *)
(* counts the last one up or sets them all, and writes the file anew: line *)
(* by line into a backup file beside it, then it removes the file and      *)
(* renames the backup.  A file is the values of its version lines, in      *)
(* order; the other lines are copied as they are.                          *)
(***************************************************************************)
EXTENDS Integers, Sequences

CONSTANTS
  Fields,       \* number of version lines
  Forced,       \* versions passed to force-version
  MaxBuild,     \* bound on the value of a line
  MaxFaults     \* bound on the file operations that fail

ASSUME VersionAssumption ==
  /\ Fields \in Nat /\ Fields >= 1 /\ MaxBuild \in Nat /\ MaxFaults \in Nat
  /\ Forced \subseteq Seq(Nat)

VARIABLES
  file,    \* version.h
  backup,  \* version.h-bakup
  at,      \* where the tool is
  memory,  \* m_versionMap
  before,  \* ghost: the version when persist began
  after,   \* ghost: the version it is writing
  faults   \* file operations that failed

diskVars == <<file, backup>>
toolVars == <<at, memory>>
versionVars == <<diskVars, toolVars, before, after, faults>>

NoFile == [there |-> FALSE, values |-> <<>>]
Holding(v) == [there |-> TRUE, values |-> v]

VersionInit ==
  /\ file = Holding([i \in 1 .. Fields |-> 0])
  /\ backup = NoFile
  /\ at = "idle"
  /\ memory = <<>>
  /\ before = file.values
  /\ after = file.values
  /\ faults = 0

\* init: a file that cannot be read ends the tool, whose memory goes with it.
Parse ==
  /\ at = "idle"
  /\ file.there
  /\ memory' = file.values
  /\ at' = "parsed"
  /\ UNCHANGED <<diskVars, before, after, faults>>

\* autoVersion and forceVersion begin to save what they made of it ...
Begin(v) ==
  /\ memory' = v
  /\ before' = file.values
  /\ after' = v
  /\ at' = "open"
  /\ UNCHANGED <<diskVars, faults>>

AutoVersion ==
  /\ at = "parsed"
  /\ memory # <<>>
  /\ memory[Len(memory)] < MaxBuild
  /\ Begin([memory EXCEPT ![Len(memory)] = @ + 1])

ForceVersion(v) ==
  /\ at = "parsed"
  /\ Len(v) = Len(memory)
  /\ Begin(v)

\* ... or refuse, or the version is only shown.
ShowOnly ==
  /\ at = "parsed"
  /\ at' = "idle"
  /\ memory' = <<>>
  /\ UNCHANGED <<diskVars, before, after, faults>>

\* persist: both files are opened, which empties the backup.
OpenFiles ==
  /\ at = "open"
  /\ backup' = Holding(<<>>)
  /\ at' = "copy"
  /\ UNCHANGED <<file, memory, before, after, faults>>

Fault == faults < MaxFaults /\ faults' = faults + 1

\* One of them cannot be opened: nothing is copied, but all the rest is done.
OpenFails ==
  /\ at = "open"
  /\ Fault
  /\ backup' \in {backup, Holding(<<>>)}
  /\ at' = "remove"
  /\ UNCHANGED <<file, memory, before, after>>

\* The next version line is written, until all of the file are.
Copy ==
  /\ at = "copy"
  /\ IF Len(backup.values) < Len(file.values)
     THEN /\ backup' = [backup EXCEPT !.values =
                          Append(@, memory[Len(@) + 1])]
          /\ UNCHANGED at
     ELSE at' = "remove" /\ UNCHANGED backup
  /\ UNCHANGED <<file, memory, before, after, faults>>

\* A write that fails is not noticed: the backup ends there.
WriteFails ==
  /\ at = "copy"
  /\ Fault
  /\ at' = "remove"
  /\ UNCHANGED <<diskVars, memory, before, after>>

Finish == at' = "idle" /\ memory' = <<>>

\* Mutant: the file is removed before the backup is complete.
RemoveEarly ==
  /\ at \in {"copy", "remove"}
  /\ file' = NoFile
  /\ at' = "rename"
  /\ UNCHANGED <<backup, memory, before, after, faults>>

RemoveFile ==
  /\ at = "remove"
  /\ file' = NoFile
  /\ at' = "rename"
  /\ UNCHANGED <<backup, memory, before, after, faults>>

RemoveFails ==
  /\ at = "remove"
  /\ Fault
  /\ Finish
  /\ UNCHANGED <<diskVars, before, after>>

Rename ==
  /\ at = "rename"
  /\ backup.there
  /\ file' = backup
  /\ backup' = NoFile
  /\ before' = after
  /\ Finish
  /\ UNCHANGED <<after, faults>>

RenameFails ==
  /\ at = "rename"
  /\ IF backup.there THEN Fault ELSE UNCHANGED faults
  /\ Finish
  /\ UNCHANGED <<diskVars, before, after>>

\* The tool is killed, or the machine stops.
Crash ==
  /\ at # "idle"
  /\ Finish
  /\ UNCHANGED <<diskVars, before, after, faults>>

VersionNext ==
  \/ Parse \/ AutoVersion \/ ShowOnly \/ OpenFiles \/ OpenFails \/ Copy
  \/ WriteFails \/ RemoveFile \/ RemoveFails \/ Rename \/ RenameFails \/ Crash
  \/ \E v \in Forced : ForceVersion(v)

VersionSpec == VersionInit /\ [][VersionNext]_versionVars

-----------------------------------------------------------------------------
\* Wherever the tool is killed the version is not lost: the file holds the old
\* or the new one, whole, or it is gone and the backup holds the new one.  For
\* this no file operation may fail: the tool goes on when one does.
VersionSurvives ==
  faults = 0 =>
    /\ file.there => file.values \in {before, after}
    /\ ~file.there => backup.there /\ backup.values = after
=============================================================================
