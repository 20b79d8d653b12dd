------------------------------ MODULE LogFiles ------------------------------
(***************************************************************************)
(* The log files of Log.cpp: log_write, called by every thread of the      *)
(* station, appends to the file of the day unless that is full; and        *)
(* checkLogFile removes all but the newest files.  checkLogFile takes for  *)
(* a log file whatever has eight digits from its fifth character on; the   *)
(* directory also holds the configuration and the program's other files.   *)
(* Nothing in the repository calls checkLogFile: it is modelled as the     *)
(* interface it is, on a thread of its own.                                *)
(***************************************************************************)
EXTENDS Integers, FiniteSets, FiniteSetsExt, Functions

CONSTANTS
  Loggers,         \* the threads that log
  MaxDay,          \* bound: the days, each with its log file
  Other,           \* the directory's other files
  DateOf,          \* what stands for a date in their names, or NoDate, Short
  NoDate, Short,   \* a name without a date, one of less than four characters
  Nowhere, Gone,   \* no open file, an open file that was removed
  maxLogFileSize, maxNumLogFiles,
  Line             \* the longest line

Days == 1 .. MaxDay
File == Days \cup Other

\* what the parameters have to be
LogFilesAssumption ==
  /\ MaxDay \in Nat \ {0}
  /\ DateOf \in [Other -> Days \cup {NoDate, Short}]
  /\ {Gone, Nowhere} \cap File = {}
  /\ IsFiniteSet(Loggers) /\ IsFiniteSet(Other)
  /\ maxLogFileSize \in Nat \ {0} /\ maxNumLogFiles \in Nat \ {0} /\ Line \in Nat \ {0}

VARIABLES
  day,        \* what localtime says
  files,      \* the files there are, with their sizes
  open,       \* the file a thread that passed the check has open
  doomed,     \* the files checkLogFile has still to remove
  removing,   \* ... while it is at it
  crashed,    \* std::out_of_range ended the process
  spared      \* history: files made, or not removed for an error, since the
              \* directory was read

vars == <<day, files, open, doomed, removing, crashed, spared>>

Init ==
  /\ day \in Days
  /\ \E D \in SUBSET Days, O \in SUBSET Other : files = [f \in D \cup O |-> 0]
  /\ open = [t \in Loggers |-> Nowhere]
  /\ doomed = {} /\ removing = FALSE
  /\ crashed = FALSE
  /\ spared = {}

\* midnight, or the clock is set
SetClock ==
  /\ day' \in Days
  /\ UNCHANGED <<files, open, doomed, removing, crashed, spared>>
-----------------------------------------------------------------------------
(* log_write                                                               *)

checkLogFileSize(size) == size < maxLogFileSize

\* opening the file makes it; a full one is left alone
OpenFile(t) ==
  /\ open[t] = Nowhere
  /\ LET size == IF day \in DOMAIN files THEN files[day] ELSE 0
     IN  /\ files' = [f \in DOMAIN files \cup {day} |->
                        IF f = day THEN size ELSE files[f]]
         /\ open' = [open EXCEPT ![t] = IF checkLogFileSize(size) THEN day ELSE Nowhere]
  /\ spared' = IF removing THEN spared \cup ({day} \ DOMAIN files) ELSE {}
  /\ UNCHANGED <<day, doomed, removing, crashed>>

\* appends, to a file that may have been removed since
Append(t) ==
  /\ open[t] # Nowhere
  /\ files' = IF open[t] = Gone THEN files ELSE [files EXCEPT ![open[t]] = @ + Line]
  /\ open' = [open EXCEPT ![t] = Nowhere]
  /\ UNCHANGED <<day, doomed, removing, crashed, spared>>
-----------------------------------------------------------------------------
(* checkLogFile                                                            *)

Date(f) == IF f \in Other THEN DateOf[f] ELSE f
Dated == {f \in DOMAIN files : Date(f) \notin {NoDate, Short}}

\* Plausible bugs: the files are sorted the wrong way, or one more is kept.
Oldest(S) ==
  \E K \in SUBSET Dated :
    /\ Cardinality(K) = Min({maxNumLogFiles, Cardinality(Dated)})
    /\ \A k \in K, f \in Dated \ K : Date(f) >= Date(k)
    /\ S = Dated \ K
\* all but the newest; files of one date in any order
TooOld(S) ==
  \E K \in SUBSET Dated :
    /\ Cardinality(K) = Min({maxNumLogFiles, Cardinality(Dated)})
    /\ \A k \in K, f \in Dated \ K : Date(f) <= Date(k)
    /\ S = Dated \ K

\* readdir; substr throws on a name of less than four characters
ReadDirectory ==
  /\ ~removing
  /\ spared' = {}
  /\ IF \E f \in DOMAIN files : Date(f) = Short
       THEN crashed' = TRUE /\ UNCHANGED <<doomed, removing>>
       ELSE /\ \E S \in SUBSET Dated : TooOld(S) /\ doomed' = S
            /\ removing' = TRUE
            /\ UNCHANGED crashed
  /\ UNCHANGED <<day, files, open>>

\* the newest of them first; an error is reported and passed over
Remove(f) ==
  /\ removing
  /\ f \in doomed /\ \A g \in doomed : Date(g) <= Date(f)
  /\ doomed' = doomed \ {f}
  /\ \/ /\ files' = Restrict(files, DOMAIN files \ {f})
        /\ open' = [t \in Loggers |-> IF open[t] = f THEN Gone ELSE open[t]]
        /\ UNCHANGED spared
     \/ /\ spared' = spared \cup {f}
        /\ UNCHANGED <<files, open>>
  /\ UNCHANGED <<day, removing, crashed>>

EndCheck ==
  /\ removing /\ doomed = {}
  /\ removing' = FALSE
  /\ UNCHANGED <<day, files, open, doomed, crashed, spared>>

Next ==
  /\ ~crashed
  /\ \/ SetClock
     \/ \E t \in Loggers : OpenFile(t) \/ Append(t)
     \/ ReadDirectory
     \/ \E f \in doomed : Remove(f)
     \/ EndCheck

Spec == Init /\ [][Next]_vars
-----------------------------------------------------------------------------
TypeOK ==
  /\ day \in Days
  /\ files \in [DOMAIN files -> Nat] /\ DOMAIN files \subseteq File
  /\ open \in [Loggers -> Days \cup {Nowhere, Gone}]
  /\ doomed \subseteq DOMAIN files
  /\ removing \in BOOLEAN /\ crashed \in BOOLEAN
  /\ spared \subseteq File

\* A file is removed only while maxNumLogFiles others, none of them older, are
\* there, even if logging made or found files meanwhile; so the newest log
\* outlives every check (Log.cpp:231-252).
KeepsNewest ==
  \A f \in DOMAIN files \ DOMAIN files' :
    Cardinality({g \in Dated \ {f} : Date(g) >= Date(f)}) >= maxNumLogFiles

\* When a check ends, at most maxNumLogFiles dated files are left, but for
\* those made since it read the directory and those it could not remove
\* (Log.cpp:234-252).
LeavesFew ==
  removing /\ ~removing' => Cardinality(Dated \ spared) <= maxNumLogFiles

\* The size is checked before the line is appended, and not under a lock: a
\* file outgrows its limit, by a line of each thread and no more, whatever the
\* clock does (Log.cpp:117-127).
SizeIsBounded ==
  \A f \in DOMAIN files : files[f] < maxLogFileSize + Cardinality(Loggers) * Line
-----------------------------------------------------------------------------
(* The inductive invariant.                                                *)

\* the threads that have still to append to a file
Appending(f) == {t \in Loggers : open[t] = f}

SizeInv ==
  \A f \in DOMAIN files :
    files[f] + Cardinality(Appending(f)) * Line
      < maxLogFileSize + Cardinality(Loggers) * Line

\* a check that has a file to remove leaves maxNumLogFiles that are not older
KeptInv ==
  doomed # {} =>
    \E K \in SUBSET (Dated \ doomed) :
      /\ Cardinality(K) = maxNumLogFiles
      /\ \A k \in K, f \in doomed : Date(f) <= Date(k)

FewInv ==
  /\ doomed \subseteq Dated
  /\ IF removing THEN Cardinality(Dated \ (spared \cup doomed)) <= maxNumLogFiles
     ELSE doomed = {}

\* What makes the properties above inductive.
IInv == TypeOK /\ SizeInv /\ KeptInv /\ FewInv
=============================================================================
