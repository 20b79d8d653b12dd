------------------------------- MODULE Config -------------------------------
(***************************************************************************)
(* The configuration file: Config.cpp.  ReadConfig reads it when the       *)
(* process starts; a setter reads it, changes one entry of the document    *)
(* and writes the whole file again, which truncates it first.  The process *)
(* may end at any moment and starts again.                                 *)
(*                                                                         *)
(* A file is a document or Broken: empty or incomplete, which the parser   *)
(* refuses with an exception.  A setter has no lock; calls may overlap.    *)
(***************************************************************************)
EXTENDS Integers, FiniteSets

CONSTANTS
  StrKeys,    \* host, client_id, username, password, mac_kb9
  IntKeys,    \* port; SetKeepAlive changes nothing
  Values,     \* of either type
  Default,    \* the value of a key that the file does not give
  NoFile, Broken, \* no document
  Callers,    \* threads that call a setter
  MaxCalls,   \* bound: calls of setters
  MaxExits    \* bound: ends of the process

Keys == StrKeys \cup IntKeys

\* what an entry may be: a value, of the wrong type, or not there
Wrong == "wrong"
Absent == "absent"
Entries == Values \cup {Wrong, Absent}

Documents == [Keys -> Entries]

ASSUME ConfigAssumption ==
  /\ StrKeys \cap IntKeys = {}
  /\ Default \notin Values \cup {Wrong, Absent}
  /\ {Wrong, Absent} \cap Values = {}
  /\ NoFile \notin Documents /\ Broken \notin Documents /\ NoFile # Broken
  /\ MaxCalls \in Nat /\ MaxExits \in Nat

VARIABLES
  file,
  shipped,  \* history: the file as it was at first
  memory,   \* the members of Config
  at,       \* the process: "start", "run" or "dead"
  pc,       \* each caller: "out", "open", "set", "truncate" or "write"
  call,     \* its key and value
  doc,      \* its jsonData
  told,     \* history: the last value of a key a setter returned true for
  written,  \* history: keys that others wrote since each setter read the file
  undone,     \* history: keys whose last value a write failed to bring, or undid
  overlap,  \* history: two setters were under way together
  torn,     \* history: a write did not come to its end
  calls, exits

vars ==
  <<file, shipped, memory, at, pc, call, doc, told, written, undone, overlap, torn,
    calls, exits>>
rest == <<shipped, memory, at, calls, exits>>

None == "none"
NoCall == [key |-> None, value |-> None]
Empty == [k \in Keys |-> Absent]

Init ==
  /\ file \in {NoFile} \cup Documents
  /\ shipped = file
  /\ memory = [k \in Keys |-> None]
  /\ at = "start"
  /\ pc = [c \in Callers |-> "out"]
  /\ call = [c \in Callers |-> NoCall]
  /\ doc = [c \in Callers |-> Empty]
  /\ told = [k \in Keys |-> None]
  /\ written = [c \in Callers |-> {}] /\ undone = {}
  /\ overlap = FALSE /\ torn = FALSE
  /\ calls = 0 /\ exits = 0

HasEntry(jsonData, key) == jsonData[key] \in Values

get_config_entry(jsonData, key) ==
  IF jsonData[key] \in Values THEN jsonData[key] ELSE Default

\* a plausible bug: set_str_config_entry written as set_int_config_entry is
set_str_copy(jsonData, key, value) == jsonData
set_str_config_entry(jsonData, key, value) == [jsonData EXCEPT ![key] = value]

\* set_int_config_entry changes a copy of the document
set_int_config_entry(jsonData, key, value) == jsonData

set_config_entry(jsonData, key, value) ==
  IF key \in IntKeys THEN set_int_config_entry(jsonData, key, value)
                     ELSE set_str_config_entry(jsonData, key, value)
-----------------------------------------------------------------------------
\* main: no file leaves an empty document, a broken one an exception that
\* nobody catches
ReadConfig ==
  /\ at = "start"
  /\ at' = IF file = Broken THEN "dead" ELSE "run"
  /\ LET jsonData == IF file \in {NoFile, Broken} THEN Empty ELSE file
     IN  memory' = IF file = Broken THEN memory
                   ELSE [k \in Keys |-> get_config_entry(jsonData, k)]
  /\ UNCHANGED <<file, shipped, pc, call, doc, told, written, undone, overlap, torn,
                 calls, exits>>

Goto(c, from, to) == pc[c] = from /\ pc' = [pc EXCEPT ![c] = to]

\* SetHost, SetPort, ...
Call(c) ==
  /\ at = "run"
  /\ calls < MaxCalls
  /\ calls' = calls + 1
  /\ Goto(c, "out", "open")
  /\ \E k \in Keys, v \in Values : call' = [call EXCEPT ![c] = [key |-> k, value |-> v]]
  /\ overlap' = (overlap \/ \E o \in Callers : pc[o] # "out")
  /\ UNCHANGED <<file, shipped, memory, at, doc, told, written, undone, torn, exits>>

\* OpenFile, and set_config_entry: the setter returns false if there is no
\* file, or the document has not the entry with the right type.  A broken
\* file ends the process.
Open(c, refused) ==
  /\ pc[c] = "open" /\ file # Broken
  /\ IF file # NoFile /\ HasEntry(file, call[c].key)
       THEN /\ Goto(c, "open", "truncate")
            /\ doc' = [doc EXCEPT ![c] =
                         set_config_entry(file, call[c].key, call[c].value)]
            /\ UNCHANGED <<file, call>>
       ELSE /\ Goto(c, "open", "out")
            /\ call' = [call EXCEPT ![c] = NoCall]
            /\ file' = refused
            /\ UNCHANGED doc
  /\ UNCHANGED <<told, written, undone, overlap, torn, rest>>

\* A plausible bug: the file is opened for writing before the entry is checked.
OpenToWrite(c) == Open(c, Broken)

OpenFile(c) == Open(c, file)

\* the setters that have read the file and not yet written it
Writers == {c \in Callers : pc[c] \in {"truncate", "write"}}

Return(c) ==
  /\ told' = [told EXCEPT ![call[c].key] = call[c].value]
  /\ call' = [call EXCEPT ![c] = NoCall]
  /\ doc' = [doc EXCEPT ![c] = Empty]

\* Write2File: the file is opened, which makes it empty, or cannot be opened;
\* the setter returns true all the same.
Truncate(c) ==
  /\ Goto(c, "truncate", "write")
  /\ file' = Broken
  /\ UNCHANGED <<call, doc, told, written, undone, overlap, torn, rest>>

NotWritable(c) ==
  /\ Goto(c, "truncate", "out")
  /\ undone' = undone \cup {call[c].key}
  /\ written' = [written EXCEPT ![c] = {}]
  /\ torn' = TRUE
  /\ Return(c)
  /\ UNCHANGED <<file, overlap, rest>>

\* The document is written, or only part of it: nobody looks.  It undoes what
\* others wrote since it was read.
Write(c) ==
  /\ Goto(c, "write", "out")
  /\ undone' = (undone \cup written[c]) \ {call[c].key}
  /\ written' = [o \in Callers |->
       IF o \in Writers \ {c} THEN written[o] \cup {call[c].key} ELSE {}]
  /\ \E whole \in BOOLEAN :
       /\ file' = IF whole THEN doc[c] ELSE Broken
       /\ torn' = (torn \/ ~whole)
  /\ Return(c)
  /\ UNCHANGED <<overlap, rest>>

\* the exception of a setter that reads a broken file
Throw(c) ==
  /\ pc[c] = "open" /\ file = Broken
  /\ at' = "dead"
  /\ pc' = [o \in Callers |-> "out"]
  /\ call' = [o \in Callers |-> NoCall]
  /\ doc' = [o \in Callers |-> Empty]
  /\ torn' = (torn \/ \E o \in Callers : pc[o] = "write")
  /\ written' = [o \in Callers |-> {}]
  /\ UNCHANGED <<file, shipped, memory, told, undone, overlap, calls, exits>>

\* the process ends and is started again
Exit ==
  /\ at \in {"run", "dead"}
  /\ exits < MaxExits
  /\ exits' = exits + 1
  /\ at' = "start"
  /\ memory' = [k \in Keys |-> None]
  /\ torn' = (torn \/ \E c \in Callers : pc[c] = "write")
  /\ pc' = [c \in Callers |-> "out"]
  /\ call' = [c \in Callers |-> NoCall]
  /\ doc' = [c \in Callers |-> Empty]
  /\ written' = [c \in Callers |-> {}]
  /\ UNCHANGED <<file, shipped, told, undone, overlap, calls>>

Next ==
  \/ ReadConfig
  \/ \E c \in Callers : Call(c)
  \/ \E c \in Callers : OpenFile(c)
  \/ \E c \in Callers : Truncate(c)
  \/ \E c \in Callers : NotWritable(c)
  \/ \E c \in Callers : Write(c)
  \/ \E c \in Callers : Throw(c)
  \/ Exit

Spec == Init /\ [][Next]_vars
-----------------------------------------------------------------------------
TypeOK ==
  /\ file \in {NoFile, Broken} \cup Documents
  /\ at \in {"start", "run", "dead"}
  /\ memory \in [Keys -> Values \cup {Default, None}]
  /\ pc \in [Callers -> {"out", "open", "truncate", "write"}]
  /\ call \in [Callers -> [key : Keys, value : Values] \cup {NoCall}]
  /\ doc \in [Callers -> Documents]
  /\ written \in [Callers -> SUBSET Keys] /\ undone \in SUBSET Keys
  /\ overlap \in BOOLEAN /\ torn \in BOOLEAN
  /\ calls \in 0 .. MaxCalls /\ exits \in 0 .. MaxExits

Quiet == \A c \in Callers : pc[c] = "out"

\* A setter of a string that returned true has changed the file, and its value
\* stays until a setter of that key changes it, whatever overlaps, fails or ends
\* the process.  It is lost only if its own write failed, or if a setter of
\* another key that had read the file before wrote its document back after it
\* (Config.cpp:86-98, 240-254).  SetPort is not among them (Config.cpp:58).
TrueMeansStored ==
  file \in Documents =>
    \A k \in StrKeys \ undone : told[k] # None => file[k] = told[k]

\* A start or a setter ends in an exception only after a write broke off, by
\* an exit or a full disk, or setters overlapped; then every later start does
\* (Config.cpp:86-98, 105-112).
DeadNeedsATornWrite == at = "dead" => torn \/ overlap

\* Whatever is written, whole or after overlapping calls: an entry the file was
\* delivered without, or with the wrong type, cannot be set, and no number ever
\* changes (Config.cpp:44-70).
OnlyStringsChange ==
  /\ shipped = NoFile => file = NoFile
  /\ file \in Documents => \A k \in Keys :
       (k \in IntKeys \/ shipped[k] \notin Values) => file[k] = shipped[k]
-----------------------------------------------------------------------------
(* The inductive invariant.                                                *)

\* what OnlyStringsChange says of a file, said of a document
Kept(d) ==
  /\ d \in Documents
  /\ \A k \in Keys : (k \in IntKeys \/ shipped[k] \notin Values) => d[k] = shipped[k]

ProcessInv == at # "run" => Quiet
CallInv ==
  /\ \A c \in Callers : pc[c] # "out" => call[c] \in [key : Keys, value : Values]
  /\ ~overlap => \A c, o \in Callers : (pc[c] # "out" /\ pc[o] # "out") => c = o
BrokenInv ==
  file = Broken => torn \/ overlap \/ \E c \in Callers : pc[c] = "write"
KeptInv ==
  /\ shipped \in {NoFile} \cup Documents
  /\ shipped = NoFile => file = NoFile
  /\ file \in Documents => Kept(file)
  /\ \A c \in Writers : shipped # NoFile /\ Kept(doc[c])
StoredInv ==
  \A c \in Writers : \A k \in StrKeys :
    /\ k = call[c].key => doc[c][k] = call[c].value
    /\ (k \notin {call[c].key} \cup written[c] \cup undone /\ told[k] # None) =>
         doc[c][k] = told[k]

\* What makes the properties above inductive: a setter holds the document
\* it read with its one entry changed, as old as the writes of others since
\* (Config.cpp:240-254).
IInv ==
  /\ TypeOK /\ told \in [Keys -> Values \cup {None}]
  /\ ProcessInv /\ CallInv /\ BrokenInv /\ KeptInv /\ StoredInv
  /\ TrueMeansStored /\ DeadNeedsATornWrite
=============================================================================
