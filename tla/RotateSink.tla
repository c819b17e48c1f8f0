----------------------------- MODULE RotateSink -----------------------------
(***************************************************************************)
(* The file sink of the log, CDailyRotateFileSink, on the directory it     *)
(* shares with the script lct_log_rotate.sh.  A file is named by a day and *)
(* an index: 0 is the file of the day, 1..MaxFiles its older parts, shifted*)
(* up by one at every rotation.  Each name is made from the clock at the   *)
(* moment it is needed, so midnight may fall between any two of them.      *)
(*                                                                         *)
(* remove, rename, fopen and fwrite may fail, the process may be killed    *)
(* and restarted, and during the day the script takes yesterday's files    *)
(* away, whoever has them open.                                            *)
(*                                                                         *)
(* One process logs, on one thread (module AsyncLog); a message has size 1.*)
(* The rotation hour is the one CLctLogger passes, midnight.               *)
(***************************************************************************)
EXTENDS Integers, FiniteSets

CONSTANTS
  MaxFiles,     \* m_maxFiles
  MaxSize,      \* m_maxSize
  MaxDay,       \* bound: days
  MaxMessages,  \* bound: calls of log
  MaxFaults,    \* bound: failing calls of the file system
  MaxStops      \* bound: stops of the process

ASSUME SinkSizesAssumption ==
         /\ MaxFiles \in Nat /\ MaxFiles >= 1
         /\ MaxSize \in Nat /\ MaxSize >= 1
ASSUME SinkBoundsAssumption ==
         /\ MaxDay \in Nat /\ MaxDay >= 1 /\ MaxMessages \in Nat
         /\ MaxFaults \in Nat /\ MaxStops \in Nat

VARIABLES
  day,          \* the clock: the date
  late,         \* the clock: is it after 01:10, when cron starts the script?
  files,        \* the names that exist in the log directory
  text,         \* what is in each of them: the numbers of the messages
  fd,           \* m_fileHelper.m_fd: the name it was opened with, or NoFile
  orphan,       \* has the file behind m_fd been taken away?
  fileName,     \* m_fileHelper.m_fileName
  rotationTp,   \* m_rotationTp: the day that begins with it
  currentSize,  \* m_currentSize
  pc,           \* where the process is in the constructor or in sinkIt
  constructing, \* is rotateFile called by the constructor?
  index,        \* i in rotateFile
  source,       \* src in rotateFile
  messages,     \* how many messages were logged; the last is the current one
  faults,       \* history: how many calls of the file system failed
  cuts,         \* history: how many rotations a stop cut short
  stops,        \* history: how often the process stopped
  dropped,      \* history: how many messages log refused
  lost,         \* history: messages written to a file that had been taken away
  smooth        \* history: no midnight fell into a call or the constructor,
                \* and none found the sink still in the file of another day

diskVars  == <<files, text>>
clockVars == <<day, late>>
fdVars    == <<fd, orphan, fileName>>
history   == <<faults, cuts, stops, dropped, lost, smooth>>
vars == <<clockVars, diskVars, fdVars, rotationTp, currentSize, pc,
          constructing, index, source, messages, history>>

Days  == 1 .. MaxDay
Names == Days \X (0 .. MaxFiles)
NoFile == <<0, 0>>

Init ==
  /\ day = 1
  /\ late = FALSE
  /\ files = {}
  /\ text = [n \in Names |-> {}]
  /\ fd = NoFile
  /\ orphan = FALSE
  /\ fileName = NoFile
  /\ rotationTp = 0
  /\ currentSize = 0
  /\ pc = "down"
  /\ constructing = FALSE
  /\ index = 0
  /\ source = NoFile
  /\ messages = 0
  /\ faults = 0 /\ cuts = 0 /\ stops = 0 /\ dropped = 0 /\ lost = {}
  /\ smooth = TRUE

-----------------------------------------------------------------------------
(* The file helper.                                                         *)

CanFail == faults < MaxFaults

Fail == CanFail /\ faults' = faults + 1

\* open for appending, after a close.
Open(n) ==
  /\ fileName' = n
  /\ orphan' = FALSE
  /\ \/ /\ fd' = n
        /\ files' = files \cup {n}
        /\ UNCHANGED faults
     \/ /\ Fail
        /\ fd' = NoFile
        /\ UNCHANGED files
  /\ UNCHANGED text

Close ==
  /\ fd' = NoFile
  /\ orphan' = FALSE
  /\ UNCHANGED fileName

\* remove, of a file that may be there or not.
Removed(n) ==
  /\ files' = files \ {n}
  /\ text' = [text EXCEPT ![n] = {}]

-----------------------------------------------------------------------------
(* The clock, the script and the watchdog.                                  *)

\* No call and no constructor lasts from one day to 01:10 of the next.
TenPastOne ==
  /\ ~late
  /\ pc \in {"down", "idle"}
  /\ late' = TRUE
  /\ UNCHANGED <<day, diskVars, fdVars, rotationTp, currentSize, pc,
                 constructing, index, source, messages, history>>

Midnight ==
  /\ late
  /\ day < MaxDay
  /\ day' = day + 1
  /\ late' = FALSE
  /\ smooth' = IF pc = "down" \/ (pc = "idle" /\ day < rotationTp)
               THEN smooth ELSE FALSE
  /\ UNCHANGED <<diskVars, fdVars, rotationTp, currentSize, pc, constructing,
                 index, source, messages, faults, cuts, stops, dropped, lost>>

\* lct_log_rotate.sh packs one of yesterday's files and removes it.
Archive(n) ==
  /\ late
  /\ n \in files
  /\ n[1] = day - 1
  /\ Removed(n)
  /\ orphan' = (orphan \/ fd = n)
  /\ UNCHANGED <<clockVars, fd, fileName, rotationTp, currentSize, pc,
                 constructing, index, source, messages, history>>

\* The process is stopped or killed, wherever it is: in rotateFile also between
\* the remove and the rename, which the clock and the script do not tell apart
\* from one step.
Stop ==
  /\ pc # "down"
  /\ stops < MaxStops
  /\ stops' = stops + 1
  /\ cuts' = IF pc \in {"idle", "due", "grow", "write"} THEN cuts ELSE cuts + 1
  /\ pc' = "down"
  /\ fd' = NoFile
  /\ orphan' = FALSE
  /\ fileName' = NoFile
  /\ rotationTp' = 0
  /\ currentSize' = 0
  /\ constructing' = FALSE
  /\ index' = 0
  /\ source' = NoFile
  /\ UNCHANGED diskVars \/ (pc = "target" /\ Removed(<<day, index>>))
  /\ UNCHANGED <<clockVars, messages, faults, dropped, lost, smooth>>

-----------------------------------------------------------------------------
(* The constructor.                                                         *)

\* Mutant: the constructor's rotation begins one file too low.
ConstructShort ==
  /\ pc = "down"
  /\ fileName' = <<day, 0>>
  /\ constructing' = TRUE
  /\ IF <<day, 0>> \in files
     THEN pc' = "source" /\ index' = MaxFiles - 1
     ELSE pc' = "first" /\ UNCHANGED index
  /\ UNCHANGED <<clockVars, diskVars, fd, orphan, rotationTp, currentSize,
                 source, messages, history>>

Construct ==
  /\ pc = "down"
  /\ fileName' = <<day, 0>>
  /\ constructing' = TRUE
  /\ IF <<day, 0>> \in files
     THEN pc' = "source" /\ index' = MaxFiles
     ELSE pc' = "first" /\ UNCHANGED index
  /\ UNCHANGED <<clockVars, diskVars, fd, orphan, rotationTp, currentSize,
                 source, messages, history>>

\* firstRotationTp reads the clock again; the path is the one made before.
OpenFirst ==
  /\ pc = "first"
  /\ rotationTp' = day + 1
  /\ Open(fileName)
  /\ pc' = "idle"
  /\ constructing' = FALSE
  /\ UNCHANGED <<clockVars, currentSize, index, source, messages, cuts, stops,
                 dropped, lost, smooth>>

-----------------------------------------------------------------------------
(* sinkIt                                                                   *)

\* Mutant: the day is over only after its rotation time.
LogLate ==
  /\ pc = "idle"
  /\ messages < MaxMessages
  /\ messages' = messages + 1
  /\ pc' = IF day > rotationTp THEN "due" ELSE "grow"
  /\ UNCHANGED <<clockVars, diskVars, fdVars, rotationTp, currentSize,
                 constructing, index, source, history>>

\* now() >= m_rotationTp
Log ==
  /\ pc = "idle"
  /\ messages < MaxMessages
  /\ messages' = messages + 1
  /\ pc' = IF day >= rotationTp THEN "due" ELSE "grow"
  /\ UNCHANGED <<clockVars, diskVars, fdVars, rotationTp, currentSize,
                 constructing, index, source, history>>

\* A new day: its file is opened, whatever comes of it.
OpenOfDay ==
  /\ pc = "due"
  /\ Open(<<day, 0>>)
  /\ rotationTp' = rotationTp + 1
  /\ currentSize' = 0
  /\ pc' = "grow"
  /\ UNCHANGED <<clockVars, constructing, index, source, messages, cuts, stops,
                 dropped, lost, smooth>>

\* Mutant: only what reaches a file is counted.
GrowWhenOpen ==
  /\ pc = "grow"
  /\ currentSize' = IF fd = NoFile THEN currentSize ELSE currentSize + 1
  /\ IF currentSize' > MaxSize
     THEN pc' = "source" /\ index' = MaxFiles /\ Close
     ELSE pc' = "write" /\ UNCHANGED <<index, fdVars>>
  /\ UNCHANGED <<clockVars, diskVars, rotationTp, constructing, source,
                 messages, history>>

\* The message is counted before it is written; a file too large is closed
\* and rotated first.
Grow ==
  /\ pc = "grow"
  /\ currentSize' = currentSize + 1
  /\ IF currentSize + 1 > MaxSize
     THEN pc' = "source" /\ index' = MaxFiles /\ Close
     ELSE pc' = "write" /\ UNCHANGED <<index, fdVars>>
  /\ UNCHANGED <<clockVars, diskVars, rotationTp, constructing, source,
                 messages, history>>

\* rotateFile: the name to move from, by the clock.
MakeSource ==
  /\ pc = "source"
  /\ source' = <<day, index - 1>>
  /\ pc' = "target"
  /\ UNCHANGED <<clockVars, diskVars, fdVars, rotationTp, currentSize,
                 constructing, index, messages, history>>

\* The outcome of a failed rotation: sinkIt drops the message, the file stays
\* closed; the constructor goes on.
RotationFails ==
  IF constructing
  THEN pc' = "first" /\ UNCHANGED dropped
  ELSE pc' = "idle" /\ dropped' = dropped + 1

\* Mutant: the file is copied, and the copy's source kept.
Copied(target) ==
  /\ files' = IF source \in files THEN files \cup {target}
                                  ELSE files \ {target}
  /\ text'  = [text EXCEPT ![target] = IF source \in files THEN text[source]
                                                          ELSE {}]

\* The names left, and what they hold, when source has moved to target.
Moved(target) ==
  /\ files' = IF source \in files THEN (files \ {source}) \cup {target}
                                  ELSE files \ {target}
  /\ text'  = IF source \in files
              THEN [text EXCEPT ![target] = text[source], ![source] = {}]
              ELSE [text EXCEPT ![target] = {}]

\* rotateFile: the name to move to, again by the clock; an old file of that
\* name is removed and the source renamed.  Each of the two calls may fail.
Move ==
  LET target == <<day, index>> IN
  /\ pc = "target"
  /\ \/ /\ Moved(target)
        /\ index' = index - 1
        /\ pc' = IF index > 1 THEN "source"
                 ELSE IF constructing THEN "first" ELSE "reopen"
        /\ UNCHANGED <<faults, dropped>>
     \/ /\ Fail
        /\ RotationFails
        /\ \/ target \in files /\ UNCHANGED diskVars
           \/ source \in files /\ Removed(target)
        /\ UNCHANGED index
  /\ UNCHANGED <<clockVars, fdVars, rotationTp, currentSize, constructing,
                 source, messages, cuts, stops, lost, smooth>>

\* Mutant: the message that caused the rotation is not counted.
ReopenAtZero ==
  /\ pc = "reopen"
  /\ Open(fileName)
  /\ \/ /\ fd' # NoFile
        /\ currentSize' = 0
        /\ pc' = "write"
        /\ UNCHANGED dropped
     \/ /\ fd' = NoFile
        /\ dropped' = dropped + 1
        /\ pc' = "idle"
        /\ UNCHANGED currentSize
  /\ UNCHANGED <<clockVars, rotationTp, constructing, index, source, messages,
                 cuts, stops, lost, smooth>>

\* sizeRotate opens the file it had again.
Reopen ==
  /\ pc = "reopen"
  /\ Open(fileName)
  /\ \/ /\ fd' # NoFile
        /\ currentSize' = 1
        /\ pc' = "write"
        /\ UNCHANGED dropped
     \/ /\ fd' = NoFile
        /\ dropped' = dropped + 1
        /\ pc' = "idle"
        /\ UNCHANGED currentSize
  /\ UNCHANGED <<clockVars, rotationTp, constructing, index, source, messages,
                 cuts, stops, lost, smooth>>

\* The message is written and flushed, or refused.
Write ==
  /\ pc = "write"
  /\ pc' = "idle"
  /\ \/ /\ fd # NoFile /\ ~orphan
        /\ text' = [text EXCEPT ![fd] = @ \cup {messages}]
        /\ UNCHANGED <<faults, dropped, lost>>
     \/ /\ fd # NoFile /\ orphan
        /\ lost' = lost \cup {messages}
        /\ UNCHANGED <<text, faults, dropped>>
     \/ /\ \/ fd = NoFile /\ UNCHANGED faults
           \/ fd # NoFile /\ Fail
        /\ dropped' = dropped + 1
        /\ UNCHANGED <<text, lost>>
  /\ UNCHANGED <<clockVars, files, fdVars, rotationTp, currentSize,
                 constructing, index, source, messages, cuts, stops, smooth>>

-----------------------------------------------------------------------------

Next ==
  \/ TenPastOne \/ Midnight \/ Stop
  \/ \E n \in Names : Archive(n)
  \/ Construct \/ OpenFirst
  \/ Log \/ OpenOfDay \/ Grow
  \/ MakeSource \/ Move \/ Reopen \/ Write

Spec == Init /\ [][Next]_vars

-----------------------------------------------------------------------------
(* Properties.                                                              *)

\* Types of the variables.
TypeOK ==
  /\ day \in Days /\ late \in BOOLEAN
  /\ files \subseteq Names
  /\ text \in [Names -> SUBSET (1 .. messages)]
  /\ fd \in Names \cup {NoFile} /\ orphan \in BOOLEAN
  /\ fileName \in Names \cup {NoFile}
  /\ rotationTp \in 0 .. MaxDay + 1
  /\ currentSize \in Nat
  /\ pc \in {"down", "first", "idle", "due", "grow", "source", "target",
             "reopen", "write"}
  /\ constructing \in BOOLEAN
  /\ index \in 0 .. MaxFiles
  /\ source \in Names \cup {NoFile}
  /\ messages \in 0 .. MaxMessages
  /\ faults \in 0 .. MaxFaults /\ cuts \in Nat /\ stops \in 0 .. MaxStops
  /\ dropped \in Nat /\ lost \subseteq 1 .. messages /\ smooth \in BOOLEAN

\* A day's log, read from its highest index down to 0, is in the order the
\* messages were logged, whatever failed, stopped or passed midnight.
OlderInHigherIndex ==
  \A d \in Days : \A i, j \in 0 .. MaxFiles :
    i > j => \A a \in text[<<d, i>>], b \in text[<<d, j>>] : a < b

\* A call of the file system that fails costs at most MaxSize of messages: the
\* file a failure leaves closed is opened again by the next rotation.
DropsBounded == dropped <= MaxSize * faults

\* While midnight finds the sink at rest and in the file of the day: when a
\* message leaves the log directory other than by the script, MaxFiles newer
\* files of its day stay, but for one for each rotation that failed or was cut
\* short.
NewerFiles(n) == {m \in files : m[1] = n[1] /\ m[2] < n[2]}
RotationKeepsMaxFiles ==
  [][\A n \in Names :
       smooth /\ text[n] # {} /\ (\A m \in Names : ~ text[n] \subseteq text'[m])
         => \/ \E m \in Names : Archive(m)
            \/ Cardinality(NewerFiles(n)) >= MaxFiles - (faults + cuts)]_vars

\* ... no file grows beyond MaxSize, but for the restarts whose rotation
\* failed.
FilesBounded ==
  smooth => \A n \in Names : Cardinality(text[n]) <= MaxSize * (1 + faults)

\* ... and nothing is written to a file the script has taken away.
NothingLost == smooth => lost = {}

\* The log of a day is in the files of that day: 70 minutes after midnight, at
\* the latest, a message goes to a file of the day.
DailyFiles == pc = "write" /\ late /\ fd # NoFile => fd[1] = day

=============================================================================
