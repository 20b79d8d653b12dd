----------------------------- MODULE PartsProofs -----------------------------
(***************************************************************************)
(* Machine-checked proofs about the parts of Parts that keep a state of    *)
(* their own.  Of the configuration: for any keys, values, callers and     *)
(* number of calls and exits.  Of the LEDs' locks: for any finite number   *)
(* of threads.  Of the LEDs and pins of the station: for any threads and   *)
(* number of messages, events, tests and exits.  Of the log: for any       *)
(* finite number of threads and files, and any limits.  Of the button: for *)
(* any number of presses and any bounds of the holds.                      *)
(***************************************************************************)
EXTENDS Parts, FiniteSetTheorems, SequenceTheorems, TLAPS

(* The configuration.                                                     *)

USE ConfigAssumption DEF rest

LEMMA EntriesAreTyped ==
  /\ Empty \in Documents
  /\ \A x \in Documents, k \in Keys : get_config_entry(x, k) \in Values \cup {Default}
  <1>1. Empty \in Documents
    BY DEF Empty, Documents, Entries
  <1>2. QED
    BY <1>1 DEF get_config_entry

\* What a setter makes of a document: another one, in which only a string with
\* a value may have changed.
LEMMA SettersKeepTheRest ==
  ASSUME NEW x \in Documents, NEW key \in Keys, NEW val \in Values
  PROVE  /\ set_config_entry(x, key, val) \in Documents
         /\ \A k \in Keys : (k \in IntKeys \/ k # key) => set_config_entry(x, key, val)[k] = x[k]
         /\ key \in StrKeys => set_config_entry(x, key, val)[key] = val
  BY DEF set_config_entry, set_int_config_entry, set_str_config_entry, Documents,
         Entries, Keys

LEMMA InitIInv == Init => IInv
  <1> SUFFICES ASSUME Init PROVE IInv
    OBVIOUS
  <1>1. TypeOK /\ told \in [Keys -> Values \cup {None}]
    <2>1. overlap \in BOOLEAN /\ torn \in BOOLEAN
      BY DEF Init
    <2>2. QED
      BY <2>1, EntriesAreTyped DEF Init, TypeOK
  <1>2. ProcessInv /\ CallInv /\ BrokenInv /\ DeadNeedsATornWrite
    BY DEF Init, ProcessInv, Quiet, CallInv, BrokenInv, DeadNeedsATornWrite
  <1>3. KeptInv
    BY DEF Init, KeptInv, Kept, Writers
  <1>4. StoredInv /\ TrueMeansStored
    BY DEF Init, StoredInv, TrueMeansStored, Writers, Keys
  <1>5. QED
    BY <1>1, <1>2, <1>3, <1>4 DEF IInv

LEMMA NextTypeOK ==
  ASSUME IInv, [Next]_vars
  PROVE  TypeOK' /\ (told \in [Keys -> Values \cup {None}])'
  <1> USE DEF TypeOK
  <1> /\ TypeOK /\ told \in [Keys -> Values \cup {None}] /\ CallInv
    BY DEF IInv
  <1>1. CASE ReadConfig
    <2>1. memory' \in [Keys -> Values \cup {Default, None}]
      BY <1>1, EntriesAreTyped DEF ReadConfig
    <2>2. QED
      BY <1>1, <2>1 DEF ReadConfig
  <1>2. CASE \E c \in Callers : Call(c)
    BY <1>2 DEF Call, Goto
  <1>3. ASSUME NEW c \in Callers, OpenFile(c)
        PROVE  TypeOK' /\ (told \in [Keys -> Values \cup {None}])'
    <2>1. call[c] \in [key : Keys, value : Values]
      BY <1>3 DEF OpenFile, Open, CallInv, Goto
    <2>2. CASE file # NoFile /\ HasEntry(file, call[c].key)
      <3>1. set_config_entry(file, call[c].key, call[c].value) \in Documents
        BY <1>3, <2>1, <2>2, SettersKeepTheRest DEF OpenFile, Open
      <3>2. QED
        BY <1>3, <2>2, <3>1 DEF OpenFile, Open, Goto
    <2>3. CASE ~(file # NoFile /\ HasEntry(file, call[c].key))
      BY <1>3, <2>3 DEF OpenFile, Open, Goto
    <2>4. QED
      BY <2>2, <2>3
  <1>4. CASE \E c \in Callers : Truncate(c)
    BY <1>4 DEF Truncate, Goto
  <1>5. CASE \E c \in Callers : NotWritable(c)
    BY <1>5, EntriesAreTyped DEF NotWritable, Goto, Return, CallInv
  <1>6. CASE \E c \in Callers : Write(c)
    BY <1>6, EntriesAreTyped DEF Write, Goto, Return, CallInv
  <1>7. CASE \E c \in Callers : Throw(c)
    BY <1>7, EntriesAreTyped DEF Throw
  <1>8. CASE Exit
    BY <1>8, EntriesAreTyped DEF Exit
  <1>9. CASE UNCHANGED vars
    BY <1>9 DEF vars
  <1>10. QED
    BY <1>1, <1>2, <1>3, <1>4, <1>5, <1>6, <1>7, <1>8, <1>9 DEF Next

LEMMA NextCallInv ==
  ASSUME IInv, [Next]_vars
  PROVE  ProcessInv' /\ CallInv'
  <1> USE DEF TypeOK, ProcessInv, Quiet, CallInv
  <1> TypeOK /\ ProcessInv /\ CallInv
    BY DEF IInv
  <1>1. CASE ReadConfig
    BY <1>1 DEF ReadConfig
  <1>2. CASE \E c \in Callers : Call(c)
    <2> PICK c \in Callers : Call(c)
      BY <1>2
    <2> PICK k \in Keys, v \in Values : call' = [call EXCEPT ![c] = [key |-> k, value |-> v]]
      BY DEF Call
    <2>1. ProcessInv'
      BY DEF Call, Goto
    <2>2. \A o \in Callers : pc'[o] # "out" => call'[o] \in [key : Keys, value : Values]
      BY DEF Call, Goto
    <2>3. CallInv'
      <3>1. ASSUME ~overlap', NEW o \in Callers, NEW p \in Callers,
                   pc'[o] # "out", pc'[p] # "out"
            PROVE  o = p
        <4>1. \A q \in Callers : pc[q] = "out"
          BY <3>1 DEF Call
        <4>2. QED
          BY <3>1, <4>1 DEF Call, Goto
      <3>2. QED
        BY <2>2, <3>1
    <2>4. QED
      BY <2>1, <2>3
  <1>3. CASE \E c \in Callers : OpenFile(c)
    BY <1>3 DEF OpenFile, Open, Goto
  <1>4. CASE \E c \in Callers : Truncate(c)
    BY <1>4 DEF Truncate, Goto
  <1>5. CASE \E c \in Callers : NotWritable(c)
    BY <1>5 DEF NotWritable, Goto, Return
  <1>6. CASE \E c \in Callers : Write(c)
    BY <1>6 DEF Write, Goto, Return
  <1>7. CASE \E c \in Callers : Throw(c)
    BY <1>7 DEF Throw
  <1>8. CASE Exit
    BY <1>8 DEF Exit
  <1>9. CASE UNCHANGED vars
    BY <1>9 DEF vars
  <1>10. QED
    BY <1>1, <1>2, <1>3, <1>4, <1>5, <1>6, <1>7, <1>8, <1>9 DEF Next

LEMMA NextBrokenInv ==
  ASSUME IInv, [Next]_vars
  PROVE  BrokenInv' /\ DeadNeedsATornWrite'
  <1> USE DEF TypeOK, ProcessInv, Quiet, CallInv, BrokenInv, DeadNeedsATornWrite
  <1> TypeOK /\ ProcessInv /\ CallInv /\ BrokenInv /\ DeadNeedsATornWrite /\ KeptInv
    BY DEF IInv
  <1>1. CASE ReadConfig
    BY <1>1 DEF ReadConfig
  <1>2. CASE \E c \in Callers : Call(c)
    BY <1>2 DEF Call, Goto
  <1>3. CASE \E c \in Callers : OpenFile(c)
    BY <1>3 DEF OpenFile, Open, Goto
  <1>4. CASE \E c \in Callers : Truncate(c)
    BY <1>4 DEF Truncate, Goto
  <1>5. CASE \E c \in Callers : NotWritable(c)
    BY <1>5 DEF NotWritable, Goto
  <1>6. CASE \E c \in Callers : Write(c)
    <2> PICK c \in Callers : Write(c)
      BY <1>6
    <2> PICK whole \in BOOLEAN : /\ file' = IF whole THEN doc[c] ELSE Broken
                                 /\ torn' = (torn \/ ~whole)
      BY DEF Write
    <2>1. CASE whole
      <3>1. file' = doc[c] /\ doc[c] \in Documents
        BY <2>1
      <3>2. file' # Broken /\ torn' = torn
        BY <2>1, <3>1
      <3>3. QED
        BY <3>2 DEF Write
    <2>2. CASE ~whole
      <3>1. torn' = TRUE
        BY <2>2
      <3>2. QED
        BY <3>1 DEF Write
    <2>3. QED
      BY <2>1, <2>2
  <1>7. CASE \E c \in Callers : Throw(c)
    <2> PICK c \in Callers : Throw(c)
      BY <1>7
    <2>1. pc[c] = "open" /\ file = Broken
      BY DEF Throw
    <2>2. torn' \/ overlap
      <3>1. CASE torn \/ overlap
        BY <3>1 DEF Throw
      <3>2. CASE ~(torn \/ overlap)
        <4>1. PICK o \in Callers : pc[o] = "write"
          BY <2>1, <3>2
        <4>2. QED
          BY <4>1 DEF Throw
      <3>3. QED
        BY <3>1, <3>2
    <2>3. QED
      BY <2>2 DEF Throw
  <1>8. CASE Exit
    BY <1>8 DEF Exit
  <1>9. CASE UNCHANGED vars
    BY <1>9 DEF vars
  <1>10. QED
    BY <1>1, <1>2, <1>3, <1>4, <1>5, <1>6, <1>7, <1>8, <1>9 DEF Next

LEMMA NextKeptInv ==
  ASSUME IInv, [Next]_vars
  PROVE  KeptInv'
  <1> USE DEF TypeOK, KeptInv, Kept, Writers
  <1> TypeOK /\ CallInv /\ KeptInv
    BY DEF IInv
  <1>1. CASE ReadConfig
    BY <1>1 DEF ReadConfig
  <1>2. CASE \E c \in Callers : Call(c)
    BY <1>2 DEF Call, Goto
  <1>3. ASSUME NEW c \in Callers, OpenFile(c)
        PROVE  KeptInv'
    <2>1. call[c] \in [key : Keys, value : Values]
      BY <1>3 DEF OpenFile, Open, CallInv, Goto
    <2>2. CASE file # NoFile /\ HasEntry(file, call[c].key)
      <3> DEFINE x == set_config_entry(file, call[c].key, call[c].value)
      <3>1. file \in Documents /\ shipped \in Documents
        BY <1>3, <2>2 DEF OpenFile, Open
      <3>2. x \in Documents
        BY <2>1, <3>1, SettersKeepTheRest
      <3>3. ASSUME NEW k \in Keys, k \in IntKeys \/ shipped[k] \notin Values
            PROVE  x[k] = shipped[k]
        BY <2>1, <2>2, <3>1, <3>3, SettersKeepTheRest DEF HasEntry
      <3>4. doc' = [doc EXCEPT ![c] = x] /\ UNCHANGED <<file, shipped>>
            /\ pc' = [pc EXCEPT ![c] = "truncate"]
        BY <1>3, <2>2 DEF OpenFile, Open, Goto
      <3> HIDE DEF x
      <3>5. QED
        BY <3>1, <3>2, <3>3, <3>4
    <2>3. CASE ~(file # NoFile /\ HasEntry(file, call[c].key))
      BY <1>3, <2>3 DEF OpenFile, Open, Goto
    <2>4. QED
      BY <2>2, <2>3
  <1>4. CASE \E c \in Callers : Truncate(c)
    BY <1>4 DEF Truncate, Goto
  <1>5. CASE \E c \in Callers : NotWritable(c)
    BY <1>5 DEF NotWritable, Goto, Return
  <1>6. CASE \E c \in Callers : Write(c)
    BY <1>6 DEF Write, Goto, Return
  <1>7. CASE \E c \in Callers : Throw(c)
    BY <1>7 DEF Throw
  <1>8. CASE Exit
    BY <1>8 DEF Exit
  <1>9. CASE UNCHANGED vars
    BY <1>9 DEF vars
  <1>10. QED
    BY <1>1, <1>2, <1>3, <1>4, <1>5, <1>6, <1>7, <1>8, <1>9 DEF Next

LEMMA NextStoredInv ==
  ASSUME IInv, [Next]_vars
  PROVE  StoredInv' /\ TrueMeansStored'
  <1> USE DEF TypeOK, StoredInv, TrueMeansStored, Writers
  <1> /\ TypeOK /\ told \in [Keys -> Values \cup {None}]
      /\ CallInv /\ StoredInv /\ TrueMeansStored
    BY DEF IInv
  <1>1. CASE ReadConfig
    BY <1>1 DEF ReadConfig
  <1>2. CASE \E c \in Callers : Call(c)
    BY <1>2 DEF Call, Goto
  <1>3. ASSUME NEW c \in Callers, OpenFile(c)
        PROVE  StoredInv' /\ TrueMeansStored'
    <2>1. call[c] \in [key : Keys, value : Values] /\ pc[c] = "open"
      BY <1>3 DEF OpenFile, Open, CallInv, Goto
    <2>2. CASE file # NoFile /\ HasEntry(file, call[c].key)
      <3> DEFINE x == set_config_entry(file, call[c].key, call[c].value)
      <3>1. file \in Documents
        BY <1>3, <2>2 DEF OpenFile, Open
      <3>2. /\ \A k \in StrKeys : k # call[c].key => x[k] = file[k]
            /\ call[c].key \in StrKeys => x[call[c].key] = call[c].value
        BY <2>1, <3>1, SettersKeepTheRest DEF Keys
      <3>3. /\ doc' = [doc EXCEPT ![c] = x]
            /\ UNCHANGED <<file, call, told, written, undone>>
            /\ pc' = [pc EXCEPT ![c] = "truncate"]
        BY <1>3, <2>2 DEF OpenFile, Open, Goto
      <3> HIDE DEF x
      <3>4. QED
        BY <2>1, <3>1, <3>2, <3>3
    <2>3. CASE ~(file # NoFile /\ HasEntry(file, call[c].key))
      BY <1>3, <2>3 DEF OpenFile, Open, Goto
    <2>4. QED
      BY <2>2, <2>3
  <1>4. CASE \E c \in Callers : Truncate(c)
    BY <1>4 DEF Truncate, Goto
  <1>5. ASSUME NEW c \in Callers, NotWritable(c)
        PROVE  StoredInv' /\ TrueMeansStored'
    <2>1. /\ pc' = [pc EXCEPT ![c] = "out"] /\ call' = [call EXCEPT ![c] = NoCall]
          /\ doc' = [doc EXCEPT ![c] = Empty] /\ written' = [written EXCEPT ![c] = {}]
          /\ undone' = undone \cup {call[c].key} /\ file' = file
          /\ told' = [told EXCEPT ![call[c].key] = call[c].value]
      BY <1>5 DEF NotWritable, Goto, Return
    <2>2. \A k \in StrKeys \ undone' : told'[k] = told[k] /\ k \notin undone
      BY <2>1 DEF Keys
    <2>3. QED
      BY <2>1, <2>2
  <1>6. ASSUME NEW c \in Callers, Write(c)
        PROVE  StoredInv' /\ TrueMeansStored'
    <2>1. /\ pc[c] = "write" /\ pc' = [pc EXCEPT ![c] = "out"]
          /\ call' = [call EXCEPT ![c] = NoCall] /\ doc' = [doc EXCEPT ![c] = Empty]
          /\ undone' = (undone \cup written[c]) \ {call[c].key}
          /\ written' = [o \in Callers |->
               IF o \in Writers \ {c} THEN written[o] \cup {call[c].key} ELSE {}]
          /\ file' = doc[c] \/ file' = Broken
          /\ told' = [told EXCEPT ![call[c].key] = call[c].value]
      BY <1>6 DEF Write, Goto, Return
    <2>2. call[c].key \in Keys
      BY <2>1 DEF CallInv
    <2>3. \A k \in StrKeys : IF k = call[c].key THEN told'[k] = call[c].value
                                               ELSE told'[k] = told[k]
      BY <2>1, <2>2 DEF Keys
    <2>4. TrueMeansStored'
      BY <2>1, <2>3
    <2>5. StoredInv'
      <3> SUFFICES ASSUME NEW o \in Writers', NEW k \in StrKeys
                   PROVE  /\ k = call'[o].key => doc'[o][k] = call'[o].value
                          /\ (/\ k \notin {call'[o].key} \cup written'[o] \cup undone'
                              /\ told'[k] # None) => doc'[o][k] = told'[k]
        OBVIOUS
      <3>1. /\ o \in Writers /\ o # c /\ call'[o] = call[o] /\ doc'[o] = doc[o]
            /\ written'[o] = written[o] \cup {call[c].key}
        BY <2>1
      <3>2. QED
        BY <2>1, <2>3, <3>1
    <2>6. QED
      BY <2>4, <2>5
  <1>7. CASE \E c \in Callers : Throw(c)
    <2> PICK c \in Callers : Throw(c)
      BY <1>7
    <2>1. UNCHANGED <<file, told, undone>> /\ \A o \in Callers : pc'[o] = "out"
      BY DEF Throw
    <2>2. QED
      BY <2>1
  <1>8. CASE Exit
    BY <1>8 DEF Exit
  <1>9. CASE UNCHANGED vars
    BY <1>9 DEF vars
  <1>10. QED
    BY <1>1, <1>2, <1>3, <1>4, <1>5, <1>6, <1>7, <1>8, <1>9 DEF Next

\* The inductive invariant: a setter holds the document it read with its one
\* entry changed, as old as the writes of others since (Config.cpp:240-254).
THEOREM Invariance == Spec => []IInv
  <1>1. Init => IInv
    BY InitIInv
  <1>2. IInv /\ [Next]_vars => IInv'
    BY NextTypeOK, NextCallInv, NextBrokenInv, NextKeptInv, NextStoredInv DEF IInv
  <1>3. QED
    BY <1>1, <1>2, PTL DEF Spec

\* Every variable keeps its type (Config.cpp).
THEOREM TypeCorrectness == Spec => []TypeOK
  <1>1. IInv => TypeOK
    BY DEF IInv
  <1>2. QED
    BY <1>1, Invariance, PTL

\* A setter of a string that returned true has stored its value, unless its
\* write failed or a setter of another key wrote an older document back
\* (Config.cpp:86-98, 240-254).
THEOREM SettersStore == Spec => []TrueMeansStored
  <1>1. IInv => TrueMeansStored
    BY DEF IInv
  <1>2. QED
    BY <1>1, Invariance, PTL

\* The process dies of its configuration only after a write broke off or
\* setters overlapped (Config.cpp:86-98, 105-112).
THEOREM DeathNeedsATornWrite == Spec => []DeadNeedsATornWrite
  <1>1. IInv => DeadNeedsATornWrite
    BY DEF IInv
  <1>2. QED
    BY <1>1, Invariance, PTL

\* Numbers and entries that are missing or of the wrong type never change
\* (Config.cpp:44-70).
THEOREM OnlyStringsAreSet == Spec => []OnlyStringsChange
  <1>1. IInv => OnlyStringsChange
    BY DEF IInv, KeptInv, Kept, OnlyStringsChange
  <1>2. QED
    BY <1>1, Invariance, PTL

HIDE ConfigAssumption DEF rest
-----------------------------------------------------------------------------
(* The service and the BLE LED.                                            *)

LEMMA LedConstants ==
  /\ IsFiniteSet(Handlers) /\ Reader \notin Handlers
  /\ MaxUses \in Nat /\ MaxRestores \in Nat
  BY PartsAssumption, Zenon
  DEF Led!ServiceLedAssumption, Led!IsFiniteSet, IsFiniteSet

LEMMA LedCardinality == \A S : Led!Cardinality(S) = Cardinality(S)
  BY DEF Led!Cardinality, Cardinality

USE LedConstants

\* The messages of finitely many threads are finitely many.
LEMMA LedFinite ==
  /\ Reader \in Led!Threads
  /\ MaxUses * Cardinality(Led!Threads) \in Nat
  /\ \A S \in SUBSET Led!Threads : IsFiniteSet(S) /\ Cardinality(S) \in Nat
  /\ \A S \in SUBSET Led!Messages :
       /\ IsFiniteSet(S) /\ Cardinality(S) \in Nat
       /\ Cardinality(S) <= MaxUses * Cardinality(Led!Threads)
  <1>1. Reader \in Led!Threads /\ IsFiniteSet(Led!Threads)
    BY FS_Singleton, FS_Union DEF Led!Threads
  <1>2. \A S \in SUBSET Led!Threads : IsFiniteSet(S) /\ Cardinality(S) \in Nat
    BY <1>1, FS_Subset, FS_CardinalityType
  <1>3. IsFiniteSet(1 .. MaxUses) /\ Cardinality(1 .. MaxUses) = MaxUses
    BY FS_Interval
  <1>4. /\ IsFiniteSet(Led!Messages)
        /\ Cardinality(Led!Messages) = Cardinality(Led!Threads) * MaxUses
    BY <1>1, <1>3, FS_Product DEF Led!Messages
  <1>5. \A S \in SUBSET Led!Messages :
          /\ IsFiniteSet(S) /\ Cardinality(S) \in Nat
          /\ Cardinality(S) <= Cardinality(Led!Messages)
    BY <1>4, FS_Subset, FS_CardinalityType
  <1>6. Cardinality(Led!Threads) \in Nat
    BY <1>2
  <1>7. /\ MaxUses * Cardinality(Led!Threads) \in Nat
        /\ Cardinality(Led!Threads) * MaxUses = MaxUses * Cardinality(Led!Threads)
    BY <1>6
  <1>8. QED
    BY <1>1, <1>2, <1>4, <1>5, <1>7

LEMMA LedSets ==
  /\ Led!Added \in SUBSET Led!Messages /\ Led!TakenAway \in SUBSET Led!Messages
  /\ Led!Added' \in SUBSET Led!Messages /\ Led!TakenAway' \in SUBSET Led!Messages
  /\ Led!Holders \in SUBSET Led!Threads /\ Led!Holders' \in SUBSET Led!Threads
  BY DEF Led!Added, Led!TakenAway, Led!Reached, Led!Holders, Led!Messages

\* TypeOK without the bounds of the count
LedShape ==
  /\ ledServiceCount \in Int /\ loaded \in [Led!Threads -> Int]
  /\ ledService \in BOOLEAN /\ ledBle \in BOOLEAN /\ started \in BOOLEAN
  /\ ledPc \in [Led!Threads -> Led!Places]
  /\ uses \in [Led!Threads -> 0 .. MaxUses]
  /\ restoring \in [led : {"none", "service", "ble"}, value : BOOLEAN]
  /\ restores \in 0 .. MaxRestores
  /\ lost \in BOOLEAN /\ ledCrossed \in BOOLEAN

LEMMA LedCounts == Led!Counts = -(MaxUses * Cardinality(Led!Threads)) .. MaxUses * Cardinality(Led!Threads)
  BY LedCardinality DEF Led!Counts

LEMMA LedShapeIs == Led!TypeOK => LedShape
  BY LedFinite, LedCounts DEF Led!TypeOK, LedShape

LEMMA LedInit == Led!Init => Led!IInv
  <1> SUFFICES ASSUME Led!Init PROVE Led!IInv
    OBVIOUS
  <1> USE DEF Led!Init
  <1>1. 0 \in -Cardinality(Led!TakenAway) .. Cardinality(Led!Added)
    BY LedFinite, LedSets
  <1>2. 0 \in Led!Counts
    BY LedFinite, LedCounts
  <1>3. Led!TypeOK /\ Led!UsesInv
    <2>1. restoring \in [led : {"none", "service", "ble"}, value : BOOLEAN]
      BY DEF Led!None
    <2>2. /\ loaded \in [Led!Threads -> Led!Counts]
          /\ uses \in [Led!Threads -> 0 .. MaxUses] /\ restores \in 0 .. MaxRestores
      BY <1>2
    <2>3. ledPc \in [Led!Threads -> Led!Places] /\ Led!UsesInv
      BY DEF Led!Places, Led!UsesInv
    <2>4. QED
      BY <1>2, <2>1, <2>2, <2>3 DEF Led!TypeOK
  <1>4. Led!CountInv
    BY <1>1, LedCardinality DEF Led!CountInv
  <1>5. Led!CountIsHolders
    <2>1. Led!Holders = {}
      BY DEF Led!Holders
    <2>2. QED
      BY <2>1, LedCardinality, FS_EmptySet DEF Led!CountIsHolders
  <1>6. Led!ServiceInv /\ Led!BleInv
    BY LedFinite DEF Led!ServiceInv, Led!BleInv, Led!Busy
  <1>7. QED
    BY <1>3, <1>4, <1>5, <1>6 DEF Led!IInv

LEMMA LedNextShape ==
  ASSUME Led!IInv, [Led!Next]_(Led!vars)
  PROVE  LedShape' /\ Led!UsesInv'
  <1> LedShape /\ Led!UsesInv
    BY LedShapeIs DEF Led!IInv
  <1> USE DEF LedShape, Led!UsesInv, Led!Places, Led!Goto, Led!Load, Led!Store,
              Led!button, Led!Counting
  <1>1. CASE \E t \in Led!Threads : Led!LockLoad(t)
    <2> PICK t \in Led!Threads : Led!LockLoad(t)
      BY <1>1
    <2>1. uses' \in [Led!Threads -> 0 .. MaxUses]
      <3>1. uses[t] + 1 \in 0 .. MaxUses /\ uses' = [uses EXCEPT ![t] = uses[t] + 1]
        BY DEF Led!LockLoad
      <3>2. QED
        BY <3>1
    <2>2. ledBle' \in BOOLEAN
      BY DEF Led!LockLoad
    <2>3. Led!UsesInv'
      <3>1. uses[t] + 1 > 0 /\ uses' = [uses EXCEPT ![t] = uses[t] + 1]
            /\ ledPc' = [ledPc EXCEPT ![t] = "lockStore"]
        BY DEF Led!LockLoad
      <3>2. ASSUME NEW u \in Led!Threads, ledPc'[u] # "out" PROVE uses'[u] > 0
        BY <3>1, <3>2
      <3>3. QED
        BY <3>2
    <2>4. QED
      BY <2>1, <2>2, <2>3 DEF Led!LockLoad
  <1>2. CASE \E t \in Led!Threads : Led!LockStore(t)
    BY <1>2 DEF Led!LockStore
  <1>3. CASE \E t \in Led!Threads : Led!LockTest(t)
    BY <1>3 DEF Led!LockTest
  <1>4. CASE \E t \in Led!Threads : Led!LockOff(t)
    BY <1>4 DEF Led!LockOff
  <1>5. CASE \E t \in Led!Threads : Led!UnlockLoad(t)
    BY <1>5 DEF Led!UnlockLoad
  <1>6. CASE \E t \in Led!Threads : Led!UnlockStore(t)
    BY <1>6 DEF Led!UnlockStore
  <1>7. CASE \E t \in Led!Threads : Led!UnlockTest(t)
    BY <1>7 DEF Led!UnlockTest
  <1>8. CASE \E t \in Led!Threads : Led!UnlockOn(t)
    BY <1>8 DEF Led!UnlockOn
  <1>9. CASE Led!MainOn
    BY <1>9 DEF Led!MainOn
  <1>10. CASE Led!RestoreRead
    BY <1>10 DEF Led!RestoreRead, Led!Value
  <1>11. CASE Led!RestoreWrite
    BY <1>11 DEF Led!RestoreWrite, Led!None
  <1>12. CASE UNCHANGED Led!vars
    BY <1>12 DEF Led!vars
  <1>13. QED
    BY <1>1, <1>2, <1>3, <1>4, <1>5, <1>6, <1>7, <1>8, <1>9, <1>10, <1>11, <1>12
    DEF Led!Next

\* One more message in a set of them.
LEMMA LedOneMore ==
  ASSUME NEW S \in SUBSET Led!Messages, NEW m \in Led!Messages, m \notin S
  PROVE  Cardinality(S \cup {m}) = Cardinality(S) + 1
  BY LedFinite, FS_AddElement

\* What a store adds to what is stored, and no other step.
LEMMA LedNextStored ==
  ASSUME Led!IInv, [Led!Next]_(Led!vars)
  PROVE  Led!CountInv'
  <1> LedShape /\ Led!UsesInv /\ Led!CountInv
    BY LedShapeIs DEF Led!IInv
  <1> DEFINE up == Cardinality(Led!Added)
             low == Cardinality(Led!TakenAway)
  <1>0. /\ up \in Nat /\ low \in Nat /\ up' \in Nat /\ low' \in Nat
    BY LedFinite, LedSets
  <1>1. /\ ledServiceCount \in -low .. up
        /\ \A t \in Led!Threads : loaded[t] \in -low .. up
    BY LedCardinality DEF Led!CountInv
  <1> DEFINE Goal == /\ ledServiceCount' \in -low' .. up'
                     /\ \A t \in Led!Threads : loaded'[t] \in -low' .. up'
  <1> SUFFICES Goal
    BY LedCardinality DEF Led!CountInv
  <1> USE DEF LedShape
  <1>3. ASSUME NEW t \in Led!Threads, Led!LockStore(t)
        PROVE  up' = up + 1 /\ low' = low
    <2>1. /\ ledPc[t] = "lockStore" /\ ledPc' = [ledPc EXCEPT ![t] = "lockTest"]
          /\ uses' = uses /\ uses[t] \in 1 .. MaxUses
      BY <1>3 DEF Led!LockStore, Led!Goto, Led!UsesInv
    <2>2. <<t, uses[t]>> \in Led!Messages /\ <<t, uses[t]>> \notin Led!Added
      BY <2>1 DEF Led!Messages, Led!Added, Led!Reached
    <2>3. Led!Added' = Led!Added \cup {<<t, uses[t]>>}
      BY <2>1 DEF Led!Messages, Led!Added, Led!Reached, Led!Places
    <2>4. Led!TakenAway' = Led!TakenAway
      BY <2>1 DEF Led!Messages, Led!TakenAway, Led!Reached
    <2>5. QED
      BY <2>2, <2>3, <2>4, LedOneMore, LedSets
  <1>4. ASSUME NEW t \in Led!Threads, Led!UnlockStore(t)
        PROVE  up' = up /\ low' = low + 1
    <2>1. /\ ledPc[t] = "unlockStore" /\ ledPc' = [ledPc EXCEPT ![t] = "unlockTest"]
          /\ uses' = uses /\ uses[t] \in 1 .. MaxUses
      BY <1>4 DEF Led!UnlockStore, Led!Goto, Led!UsesInv
    <2>2. <<t, uses[t]>> \in Led!Messages /\ <<t, uses[t]>> \notin Led!TakenAway
      BY <2>1 DEF Led!Messages, Led!TakenAway, Led!Reached
    <2>3. Led!TakenAway' = Led!TakenAway \cup {<<t, uses[t]>>}
      BY <2>1 DEF Led!Messages, Led!TakenAway, Led!Reached
    <2>4. Led!Added' = Led!Added
      BY <2>1 DEF Led!Messages, Led!Added, Led!Reached, Led!Places
    <2>5. QED
      BY <2>2, <2>3, <2>4, LedOneMore, LedSets
  <1>5. ASSUME NEW t \in Led!Threads, Led!LockLoad(t)
        PROVE  up' = up /\ low' = low
    <2>1. /\ ledPc[t] = "out" /\ ledPc' = [ledPc EXCEPT ![t] = "lockStore"]
          /\ uses' = [uses EXCEPT ![t] = uses[t] + 1]
      BY <1>5 DEF Led!LockLoad, Led!Goto
    <2>2. Led!Added' = Led!Added /\ Led!TakenAway' = Led!TakenAway
      BY <2>1 DEF Led!Messages, Led!Added, Led!TakenAway, Led!Reached, Led!Places
    <2>3. QED
      BY <2>2
  <1>6. ASSUME NEW t \in Led!Threads, NEW from, NEW to, Led!Goto(t, from, to), uses' = uses,
               \/ from \in {"lockTest", "lockOff", "in"} /\ to \in {"lockOff", "in", "unlockStore"}
               \/ from \in {"unlockTest", "unlockOn"} /\ to \in {"unlockOn", "out"}
        PROVE  up' = up /\ low' = low
    <2>1. Led!Added' = Led!Added /\ Led!TakenAway' = Led!TakenAway
      BY <1>6 DEF Led!Goto, Led!Messages, Led!Added, Led!TakenAway, Led!Reached, Led!Places
    <2>2. QED
      BY <2>1
  <1>7. UNCHANGED <<ledPc, uses>> => up' = up /\ low' = low
    BY DEF Led!Added, Led!TakenAway, Led!Reached
  <1> HIDE DEF up, low
  <1> USE DEF Led!Load, Led!Store, Led!Counting
  <1>11. CASE \E t \in Led!Threads : Led!LockLoad(t)
    <2> PICK t \in Led!Threads : Led!LockLoad(t)
      BY <1>11
    <2>1. up' = up /\ low' = low
      BY <1>5
    <2>2. QED
      BY <1>0, <1>1, <2>1 DEF Led!LockLoad
  <1>12. ASSUME NEW t \in Led!Threads, Led!LockStore(t)
         PROVE  Goal
    <2>1. up' = up + 1 /\ low' = low
      BY <1>3, <1>12
    <2>2. /\ ledServiceCount' = loaded[t] + 1
          /\ loaded' = [loaded EXCEPT ![t] = loaded[t] + 1]
      BY <1>12 DEF Led!LockStore
    <2>3. QED
      BY <1>0, <1>1, <2>1, <2>2
  <1>13. ASSUME NEW t \in Led!Threads, Led!LockTest(t)
         PROVE  Goal
    <2>1. up' = up /\ low' = low
      BY <1>6, <1>13 DEF Led!LockTest
    <2>2. QED
      BY <1>0, <1>1, <1>13, <2>1 DEF Led!LockTest
  <1>14. ASSUME NEW t \in Led!Threads, Led!LockOff(t)
         PROVE  Goal
    <2>1. up' = up /\ low' = low
      BY <1>6, <1>14 DEF Led!LockOff
    <2>2. QED
      BY <1>0, <1>1, <1>14, <2>1 DEF Led!LockOff
  <1>15. ASSUME NEW t \in Led!Threads, Led!UnlockLoad(t)
         PROVE  Goal
    <2>1. up' = up /\ low' = low
      BY <1>6, <1>15 DEF Led!UnlockLoad
    <2>2. QED
      BY <1>0, <1>1, <1>15, <2>1 DEF Led!UnlockLoad
  <1>16. ASSUME NEW t \in Led!Threads, Led!UnlockStore(t)
         PROVE  Goal
    <2>1. up' = up /\ low' = low + 1
      BY <1>4, <1>16
    <2>2. /\ ledServiceCount' = loaded[t] + (-1)
          /\ loaded' = [loaded EXCEPT ![t] = loaded[t] + (-1)]
      BY <1>16 DEF Led!UnlockStore
    <2>3. QED
      BY <1>0, <1>1, <2>1, <2>2
  <1>17. ASSUME NEW t \in Led!Threads, Led!UnlockTest(t)
         PROVE  Goal
    <2>1. up' = up /\ low' = low
      BY <1>6, <1>17 DEF Led!UnlockTest
    <2>2. QED
      BY <1>0, <1>1, <1>17, <2>1 DEF Led!UnlockTest
  <1>18. ASSUME NEW t \in Led!Threads, Led!UnlockOn(t)
         PROVE  Goal
    <2>1. up' = up /\ low' = low
      BY <1>6, <1>18 DEF Led!UnlockOn
    <2>2. QED
      BY <1>0, <1>1, <1>18, <2>1 DEF Led!UnlockOn
  <1>19. CASE Led!MainOn \/ Led!RestoreRead \/ Led!RestoreWrite \/ UNCHANGED Led!vars
    <2>1. UNCHANGED <<ledServiceCount, loaded, ledPc, uses>>
      BY <1>19 DEF Led!MainOn, Led!RestoreRead, Led!RestoreWrite, Led!vars
    <2>2. QED
      BY <1>0, <1>1, <1>7, <2>1
  <1>20. QED
    BY <1>11, <1>12, <1>13, <1>14, <1>15, <1>16, <1>17, <1>18, <1>19 DEF Led!Next

LEMMA LedNextTypeOK ==
  ASSUME Led!IInv, [Led!Next]_(Led!vars)
  PROVE  Led!TypeOK'
  <1> DEFINE most == MaxUses * Cardinality(Led!Threads)
  <1>1. /\ Cardinality(Led!Added)' \in 0 .. most
        /\ Cardinality(Led!TakenAway)' \in 0 .. most
        /\ most \in Nat
    BY LedFinite, LedSets
  <1>2. /\ ledServiceCount' \in -Cardinality(Led!TakenAway)' .. Cardinality(Led!Added)'
        /\ \A t \in Led!Threads :
             loaded'[t] \in -Cardinality(Led!TakenAway)' .. Cardinality(Led!Added)'
    BY LedNextStored, LedCardinality DEF Led!CountInv
  <1>3. LedShape'
    BY LedNextShape
  <1> HIDE DEF most
  <1>4. ledServiceCount' \in -most .. most /\ \A t \in Led!Threads : loaded'[t] \in -most .. most
    BY <1>1, <1>2
  <1>5. ledServiceCount' \in Led!Counts /\ loaded' \in [Led!Threads -> Led!Counts]
    BY <1>3, <1>4, LedCounts DEF LedShape, most
  <1>6. QED
    BY <1>3, <1>5 DEF LedShape, Led!TypeOK

LEMMA LedNextHolders ==
  ASSUME Led!IInv, [Led!Next]_(Led!vars)
  PROVE  Led!CountIsHolders'
  <1> SUFFICES ASSUME ~lost' PROVE ledServiceCount' = Cardinality(Led!Holders)'
    BY LedCardinality DEF Led!CountIsHolders
  <1> LedShape
    BY LedShapeIs DEF Led!IInv
  <1> USE DEF LedShape
  <1>0. ~lost => ledServiceCount = Cardinality(Led!Holders)
    BY LedCardinality DEF Led!CountIsHolders, Led!IInv
  <1>1. ASSUME NEW t \in Led!Threads, NEW from, NEW to, Led!Goto(t, from, to),
               UNCHANGED <<ledServiceCount, lost>>,
               from \in {"lockTest", "lockOff", "in", "unlockStore"}
                 <=> to \in {"lockTest", "lockOff", "in", "unlockStore"}
        PROVE  ledServiceCount' = Cardinality(Led!Holders)'
    <2>1. Led!Holders' = Led!Holders
      BY <1>1 DEF Led!Goto, Led!Holders
    <2>2. QED
      BY <1>0, <1>1, <2>1
  <1>2. CASE UNCHANGED <<ledPc, ledServiceCount, lost>>
    <2>1. Led!Holders' = Led!Holders
      BY <1>2 DEF Led!Holders
    <2>2. QED
      BY <1>0, <1>2, <2>1
  <1> USE DEF Led!Load, Led!Counting
  <1>11. CASE \E t \in Led!Threads : Led!LockLoad(t)
    BY <1>1, <1>11 DEF Led!LockLoad
  <1>12. ASSUME NEW t \in Led!Threads, Led!LockStore(t)
         PROVE  ledServiceCount' = Cardinality(Led!Holders)'
    <2>1. /\ ~lost /\ loaded[t] = ledServiceCount /\ ledServiceCount' = ledServiceCount + 1
          /\ ledPc[t] = "lockStore" /\ ledPc' = [ledPc EXCEPT ![t] = "lockTest"]
      BY <1>12 DEF Led!LockStore, Led!Goto, Led!Store
    <2>2. Led!Holders' = Led!Holders \cup {t} /\ t \notin Led!Holders
      BY <2>1 DEF Led!Holders
    <2>3. Cardinality(Led!Holders') = Cardinality(Led!Holders) + 1
      BY <2>2, LedFinite, LedSets, FS_AddElement
    <2>4. QED
      BY <1>0, <2>1, <2>3
  <1>13. CASE \E t \in Led!Threads : Led!LockTest(t)
    BY <1>1, <1>13 DEF Led!LockTest
  <1>14. CASE \E t \in Led!Threads : Led!LockOff(t)
    BY <1>1, <1>14 DEF Led!LockOff
  <1>15. CASE \E t \in Led!Threads : Led!UnlockLoad(t)
    BY <1>1, <1>15 DEF Led!UnlockLoad
  <1>16. ASSUME NEW t \in Led!Threads, Led!UnlockStore(t)
         PROVE  ledServiceCount' = Cardinality(Led!Holders)'
    <2>1. /\ ~lost /\ loaded[t] = ledServiceCount /\ ledServiceCount' = ledServiceCount + (-1)
          /\ ledPc[t] = "unlockStore" /\ ledPc' = [ledPc EXCEPT ![t] = "unlockTest"]
      BY <1>16 DEF Led!UnlockStore, Led!Goto, Led!Store
    <2>2. Led!Holders' = Led!Holders \ {t} /\ t \in Led!Holders
      BY <2>1 DEF Led!Holders
    <2>3. Cardinality(Led!Holders') = Cardinality(Led!Holders) - 1
      BY <2>2, LedFinite, LedSets, FS_RemoveElement
    <2>4. QED
      BY <1>0, <2>1, <2>3
  <1>17. CASE \E t \in Led!Threads : Led!UnlockTest(t)
    BY <1>1, <1>17 DEF Led!UnlockTest
  <1>18. CASE \E t \in Led!Threads : Led!UnlockOn(t)
    BY <1>1, <1>18 DEF Led!UnlockOn
  <1>19. CASE Led!MainOn \/ Led!RestoreRead \/ Led!RestoreWrite \/ UNCHANGED Led!vars
    BY <1>2, <1>19 DEF Led!MainOn, Led!RestoreRead, Led!RestoreWrite, Led!vars
  <1>20. QED
    BY <1>11, <1>12, <1>13, <1>14, <1>15, <1>16, <1>17, <1>18, <1>19 DEF Led!Next

LEMMA LedNextBle ==
  ASSUME Led!IInv, [Led!Next]_(Led!vars)
  PROVE  Led!BleInv'
  <1> LedShape /\ Led!BleInv
    BY LedShapeIs DEF Led!IInv
  <1> USE LedFinite DEF LedShape, Led!BleInv, Led!Goto, Led!button
  <1>1. CASE \E t \in Led!Threads : Led!LockLoad(t)
    BY <1>1 DEF Led!LockLoad
  <1>2. CASE \E t \in Led!Threads : Led!LockStore(t)
    BY <1>2 DEF Led!LockStore
  <1>3. CASE \E t \in Led!Threads : Led!LockTest(t)
    BY <1>3 DEF Led!LockTest
  <1>4. CASE \E t \in Led!Threads : Led!LockOff(t)
    BY <1>4 DEF Led!LockOff
  <1>5. CASE \E t \in Led!Threads : Led!UnlockLoad(t)
    BY <1>5 DEF Led!UnlockLoad
  <1>6. CASE \E t \in Led!Threads : Led!UnlockStore(t)
    BY <1>6 DEF Led!UnlockStore
  <1>7. CASE \E t \in Led!Threads : Led!UnlockTest(t)
    BY <1>7 DEF Led!UnlockTest
  <1>8. CASE \E t \in Led!Threads : Led!UnlockOn(t)
    BY <1>8 DEF Led!UnlockOn
  <1>9. CASE Led!MainOn \/ Led!RestoreRead
    BY <1>9 DEF Led!MainOn, Led!RestoreRead
  <1>11. CASE Led!RestoreWrite
    BY <1>11 DEF Led!RestoreWrite, Led!Value
  <1>12. CASE UNCHANGED Led!vars
    BY <1>12 DEF Led!vars
  <1>13. QED
    BY <1>1, <1>2, <1>3, <1>4, <1>5, <1>6, <1>7, <1>8, <1>9, <1>11, <1>12 DEF Led!Next

\* The last thread out of the lock has seen zero, or another one is in.
LEMMA LedNextService ==
  ASSUME Led!IInv, [Led!Next]_(Led!vars)
  PROVE  Led!ServiceInv'
  <1> SUFFICES ASSUME ~lost', ~ledCrossed', (started \/ Led!Busy # {})',
                      Led!Lighting' = {}
               PROVE  ledService'
    BY DEF Led!ServiceInv
  <1> LedShape /\ Led!ServiceInv
    BY LedShapeIs DEF Led!IInv
  <1>0. ledServiceCount = Cardinality(Led!Holders) \/ lost
    BY LedCardinality DEF Led!CountIsHolders, Led!IInv
  <1>1. Led!CountIsHolders' /\ LedShape'
    BY LedNextHolders, LedNextShape
  <1>2. \A t \in Led!Threads :
          /\ ledPc'[t] \in {"out", "unlockTest"}
          /\ ledPc'[t] = "unlockTest" => loaded'[t] # 0
    BY <1>1 DEF LedShape, Led!Places, Led!Lighting
  <1>3. Led!Holders' = {}
    BY <1>2 DEF Led!Holders
  <1>4. ledServiceCount' = 0
    BY <1>1, <1>3, LedCardinality, FS_EmptySet DEF Led!CountIsHolders
  <1> USE DEF LedShape
  <1>5. ASSUME ~lost, ~ledCrossed, UNCHANGED <<uses, started>>, Led!Lighting = {}
        PROVE  ledService
    BY <1>5 DEF Led!ServiceInv, Led!Busy
  <1>6. UNCHANGED <<ledPc, loaded>> => Led!Lighting = {}
    BY DEF Led!Lighting
  <1>11. CASE \E t \in Led!Threads : Led!LockLoad(t)
    BY <1>2, <1>11 DEF Led!LockLoad, Led!Goto
  <1>12. CASE \E t \in Led!Threads : Led!LockStore(t)
    BY <1>2, <1>12 DEF Led!LockStore, Led!Goto
  <1>13. CASE \E t \in Led!Threads : Led!LockTest(t)
    BY <1>2, <1>13 DEF Led!LockTest, Led!Goto
  <1>14. CASE \E t \in Led!Threads : Led!LockOff(t)
    BY <1>2, <1>14 DEF Led!LockOff, Led!Goto
  <1>15. CASE \E t \in Led!Threads : Led!UnlockLoad(t)
    BY <1>2, <1>15 DEF Led!UnlockLoad, Led!Goto
  <1>16. CASE \E t \in Led!Threads : Led!UnlockStore(t)
    <2> PICK t \in Led!Threads : Led!UnlockStore(t)
      BY <1>16
    <2>1. loaded'[t] = 0 /\ ledPc'[t] = "unlockTest"
      BY <1>4 DEF Led!UnlockStore, Led!Store, Led!Goto
    <2>2. QED
      BY <1>2, <2>1
  <1>17. ASSUME NEW t \in Led!Threads, Led!UnlockTest(t)
         PROVE  ledService'
    <2>1. PICK n \in Led!Seen(t) : Led!Goto(t, "unlockTest", IF n = 0 THEN "unlockOn" ELSE "out")
      BY <1>17 DEF Led!UnlockTest
    <2>2. ledPc[t] = "unlockTest" /\ n # 0 /\ ledPc' = [ledPc EXCEPT ![t] = "out"]
      BY <1>2, <2>1 DEF Led!Goto
    <2>3. /\ loaded' = [loaded EXCEPT ![t] = 0]
          /\ UNCHANGED <<ledServiceCount, lost, ledService, uses, started, ledCrossed>>
      BY <1>17 DEF Led!UnlockTest, Led!button
    <2>4. loaded[t] # 0
      BY <1>4, <2>2, <2>3 DEF Led!Seen
    <2>5. Led!Lighting = {}
      BY <1>2, <2>2, <2>3, <2>4 DEF Led!Lighting
    <2>6. QED
      BY <1>5, <2>3, <2>5
  <1>18. CASE (\E t \in Led!Threads : Led!UnlockOn(t)) \/ Led!MainOn
    BY <1>18 DEF Led!UnlockOn, Led!MainOn
  <1>19. CASE Led!RestoreRead \/ UNCHANGED Led!vars
    BY <1>5, <1>6, <1>19 DEF Led!RestoreRead, Led!vars, Led!Counting
  <1>20. CASE Led!RestoreWrite
    <2>1. /\ ~ledCrossed /\ Led!Value(restoring.led) = restoring.value
          /\ UNCHANGED <<lost, loaded, ledPc, uses, started>>
          /\ ledService' = IF restoring.led = "service" THEN restoring.value ELSE ledService
      BY <1>20 DEF Led!RestoreWrite, Led!Counting
    <2>2. ledService
      BY <1>5, <1>6, <2>1
    <2>3. QED
      BY <2>1, <2>2 DEF Led!Value
  <1>21. QED
    BY <1>11, <1>12, <1>13, <1>14, <1>15, <1>16, <1>17, <1>18, <1>19, <1>20 DEF Led!Next

\* What the run checks follows from the inductive invariant.
LEMMA LedKeeps ==
  Led!IInv => Led!TypeOK /\ Led!CountIsHolders /\ Led!ServiceOnAtRest /\ Led!BleOnAtRest
  <1> SUFFICES ASSUME Led!IInv
               PROVE  Led!ServiceOnAtRest /\ Led!BleOnAtRest
    BY DEF Led!IInv
  <1>1. Led!ServiceOnAtRest
    <2>1. Led!AtRest => Led!Lighting = {}
      BY DEF Led!AtRest, Led!Lighting
    <2>2. QED
      BY <2>1 DEF Led!IInv, Led!ServiceInv, Led!ServiceOnAtRest
  <1>2. Led!BleOnAtRest
    BY LedFinite DEF Led!IInv, Led!BleInv, Led!BleOnAtRest, Led!AtRest
  <1>3. QED
    BY <1>1, <1>2

\* The inductive invariant of the LEDs: the last thread out has seen the count
\* it stored, zero, or another thread is in (Util.cpp:421-434).
THEOREM LedInvariance == PartsSpec => [](part = "led" => Led!IInv)
  <1> DEFINE Inv == part = "led" => Led!IInv
  <1>1. PartsInit => Inv
    BY LedInit DEF PartsInit
  <1>2. Inv /\ [PartsNext]_partsVars => Inv'
    <2> SUFFICES ASSUME Led!IInv, part' = part, [PartsNext]_partsVars, part = "led"
                 PROVE  Led!IInv'
      BY DEF PartsNext, partsVars
    <2>1. [Led!Next]_(Led!vars)
      BY DEF PartsNext, partsVars, ledVars, Led!vars
    <2>2. QED
      BY <2>1, LedNextTypeOK, LedNextShape, LedNextStored, LedNextHolders, LedNextService,
         LedNextBle DEF Led!IInv
  <1>3. QED
    BY <1>1, <1>2, PTL DEF PartsSpec

\* The service and the BLE LED are lit at rest, whatever the threads and their
\* number, unless two updates of the count overlapped or a restore wrote back
\* an old value (Util.cpp:413-434).
THEOREM LedsOnAtRestAlways == PartsSpec => []LedsOnAtRest
  <1>1. (part = "led" => Led!IInv) => LedsOnAtRest
    BY LedKeeps DEF LedsOnAtRest
  <1>2. QED
    BY <1>1, LedInvariance, PTL


HIDE LedConstants

-----------------------------------------------------------------------------
(* The LEDs and pins of the station.                                       *)

LEMMA PinConstants ==
  /\ "main" \notin Handlers /\ "test" \notin Handlers
  /\ MaxHandled \in Nat /\ MaxTests \in Nat /\ MaxRestarts \in Nat
  BY PartsAssumption DEF Station!StationPinsAssumption

PinAssignments == Station!Places \X BOOLEAN

\* the assignments of a program
Writes(s) == {s[i] : i \in 1 .. Len(s)}

LEMMA PairAndPair ==
  ASSUME NEW S, NEW a \in S, NEW b \in S, NEW c \in S, NEW x \in S
  PROVE  <<a, b>> \o <<c, x>> = <<a, b, c, x>>
  <1>1. /\ <<a, b>> \o <<c, x>> \in Seq(S) /\ <<a, b, c, x>> \in Seq(S)
        /\ Len(<<a, b>> \o <<c, x>>) = 4 /\ Len(<<a, b, c, x>>) = 4
    BY ConcatProperties
  <1>2. \A i \in 1 .. 4 : (<<a, b>> \o <<c, x>>)[i] = <<a, b, c, x>>[i]
    BY ConcatProperties
  <1>3. QED
    BY <1>1, <1>2, SeqEqual

LEMMA PairAndFour ==
  \A a, b, c, x, e, f \in PinAssignments : <<a, b>> \o <<c, x, e, f>> = <<a, b, c, x, e, f>>
  <1> DEFINE S == PinAssignments
  <1> SUFFICES ASSUME NEW a \in S, NEW b \in S, NEW c \in S, NEW x \in S, NEW e \in S, NEW f \in S
               PROVE  <<a, b>> \o <<c, x, e, f>> = <<a, b, c, x, e, f>>
    OBVIOUS
  <1> HIDE DEF S
  <1>1. /\ <<a, b>> \o <<c, x, e, f>> \in Seq(S) /\ <<a, b, c, x, e, f>> \in Seq(S)
        /\ Len(<<a, b>> \o <<c, x, e, f>>) = 6 /\ Len(<<a, b, c, x, e, f>>) = 6
    BY ConcatProperties
  <1>2. \A i \in 1 .. 6 : (<<a, b>> \o <<c, x, e, f>>)[i] = <<a, b, c, x, e, f>>[i]
    BY ConcatProperties
  <1>3. QED
    BY <1>1, <1>2, SeqEqual

LEMMA OneAndPairAndOne ==
  ASSUME NEW S, NEW a \in S, NEW b \in S, NEW c \in S, NEW x \in S
  PROVE  (<<a>> \o <<b, c>>) \o <<x>> = <<a, b, c, x>>
  <1>1. /\ <<a>> \o <<b, c>> \in Seq(S) /\ Len(<<a>> \o <<b, c>>) = 3
        /\ <<a, b, c>> \in Seq(S) /\ Len(<<a, b, c>>) = 3
        /\ \A i \in 1 .. 3 : (<<a>> \o <<b, c>>)[i] = <<a, b, c>>[i]
    BY ConcatProperties
  <1>2. <<a>> \o <<b, c>> = <<a, b, c>>
    BY <1>1, SeqEqual
  <1>3. /\ <<a, b, c>> \o <<x>> \in Seq(S) /\ <<a, b, c, x>> \in Seq(S)
        /\ Len(<<a, b, c>> \o <<x>>) = 4 /\ Len(<<a, b, c, x>>) = 4
    BY ConcatProperties
  <1>4. \A i \in 1 .. 4 : (<<a, b, c>> \o <<x>>)[i] = <<a, b, c, x>>[i]
    BY ConcatProperties
  <1>5. QED
    BY <1>2, <1>3, <1>4, SeqEqual

\* A rest of a program: its head, its tail and its assignments.
LEMMA RestOf ==
  ASSUME NEW S, NEW p \in Seq(S), NEW s \in Station!Rests(p)
  PROVE  /\ s \in Seq(S) /\ Len(s) <= Len(p)
         /\ <<>> \in Station!Rests(p) /\ p \in Station!Rests(p)
         /\ s # <<>> =>
              \E i \in 1 .. Len(p) :
                /\ Len(s) = Len(p) - i + 1 /\ s[Len(s)] = p[Len(p)] /\ Head(s) = p[i]
                /\ Tail(s) \in Station!Rests(p) /\ Len(Tail(s)) = Len(p) - i
                /\ Writes(s) = {p[j] : j \in i .. Len(p)}
                /\ Writes(Tail(s)) = {p[j] : j \in i + 1 .. Len(p)}
                /\ i < Len(p) => Tail(s) # <<>> /\ Tail(s)[Len(Tail(s))] = p[Len(p)]
                /\ i = Len(p) => Tail(s) = <<>>
  <1>1. Len(p) \in Nat /\ \A j \in 1 .. Len(p) : p[j] \in S
    OBVIOUS
  <1>2. ASSUME NEW i \in 1 .. Len(p) + 1
        PROVE  /\ SubSeq(p, i, Len(p)) \in Seq(S)
               /\ Len(SubSeq(p, i, Len(p))) = Len(p) - i + 1
               /\ \A j \in 1 .. Len(p) - i + 1 : SubSeq(p, i, Len(p))[j] = p[i + j - 1]
    <2>1. \A j \in i .. Len(p) : p[j] \in S
      BY <1>1
    <2>2. /\ SubSeq(p, i, Len(p)) \in Seq(S)
          /\ Len(SubSeq(p, i, Len(p))) = (IF i <= Len(p) THEN Len(p) - i + 1 ELSE 0)
          /\ \A j \in 1 .. Len(p) - i + 1 : SubSeq(p, i, Len(p))[j] = p[i + j - 1]
      BY <1>1, <2>1, SubSeqProperties
    <2>3. QED
      BY <1>1, <2>2
  <1>3. PICK i \in 1 .. Len(p) + 1 : s = SubSeq(p, i, Len(p))
    BY DEF Station!Rests
  <1>4. SubSeq(p, Len(p) + 1, Len(p)) = <<>>
    BY <1>1, SubSeqEmpty
  <1>5. <<>> \in Station!Rests(p) /\ p \in Station!Rests(p)
    <2>1. SubSeq(p, 1, Len(p)) = p /\ 1 \in 1 .. Len(p) + 1 /\ Len(p) + 1 \in 1 .. Len(p) + 1
      BY <1>1, SubSeqFull
    <2>2. QED
      BY <1>4, <2>1 DEF Station!Rests
  <1>6. ASSUME s # <<>>
        PROVE  /\ i \in 1 .. Len(p)
               /\ Head(s) = p[i] /\ Tail(s) = SubSeq(p, i + 1, Len(p))
    <2>1. i \in 1 .. Len(p)
      BY <1>1, <1>3, <1>4, <1>6
    <2>2. QED
      BY <1>1, <1>3, <2>1, HeadTailOfSubSeq
  <1>7. ASSUME NEW k \in 1 .. Len(p) + 1
        PROVE  Writes(SubSeq(p, k, Len(p))) = {p[j] : j \in k .. Len(p)}
    <2> DEFINE q == SubSeq(p, k, Len(p))
    <2>1. Len(q) = Len(p) - k + 1 /\ \A j \in 1 .. Len(p) - k + 1 : q[j] = p[k + j - 1]
      BY <1>2
    <2>2. \A j \in k .. Len(p) : p[j] = q[j - k + 1] /\ j - k + 1 \in 1 .. Len(q)
      BY <1>1, <2>1
    <2>3. \A j \in 1 .. Len(q) : q[j] = p[k + j - 1] /\ k + j - 1 \in k .. Len(p)
      BY <1>1, <2>1
    <2> HIDE DEF q
    <2>4. Writes(q) \subseteq {p[j] : j \in k .. Len(p)}
      BY <2>3 DEF Writes
    <2>5. {p[j] : j \in k .. Len(p)} \subseteq Writes(q)
      BY <2>2 DEF Writes
    <2>6. QED
      BY <2>4, <2>5 DEF q
  <1>8. ASSUME s # <<>>
        PROVE  /\ Len(s) = Len(p) - i + 1 /\ s[Len(s)] = p[Len(p)]
               /\ Tail(s) \in Station!Rests(p) /\ Len(Tail(s)) = Len(p) - i
               /\ Writes(s) = {p[j] : j \in i .. Len(p)}
               /\ Writes(Tail(s)) = {p[j] : j \in i + 1 .. Len(p)}
               /\ i < Len(p) => Tail(s) # <<>> /\ Tail(s)[Len(Tail(s))] = p[Len(p)]
               /\ i = Len(p) => Tail(s) = <<>>
    <2>1. i \in 1 .. Len(p) /\ i + 1 \in 1 .. Len(p) + 1 /\ Tail(s) = SubSeq(p, i + 1, Len(p))
      BY <1>1, <1>6, <1>8
    <2>2. /\ Len(s) = Len(p) - i + 1 /\ \A j \in 1 .. Len(p) - i + 1 : s[j] = p[i + j - 1]
          /\ Len(Tail(s)) = Len(p) - i
          /\ \A j \in 1 .. Len(p) - i : Tail(s)[j] = p[i + j]
      <3>1. /\ Len(Tail(s)) = Len(p) - (i + 1) + 1
            /\ \A j \in 1 .. Len(p) - (i + 1) + 1 : Tail(s)[j] = p[(i + 1) + j - 1]
        BY <1>2, <2>1
      <3>2. /\ Len(p) - (i + 1) + 1 = Len(p) - i
            /\ \A j \in 1 .. Len(p) - i : (i + 1) + j - 1 = i + j
        BY <1>1, <2>1
      <3>3. /\ Len(s) = Len(p) - i + 1
            /\ \A j \in 1 .. Len(p) - i + 1 : s[j] = p[i + j - 1]
        BY <1>2, <1>3
      <3>4. QED
        BY <3>1, <3>2, <3>3
    <2>3. /\ s[Len(s)] = p[Len(p)] /\ Tail(s) \in Station!Rests(p)
          /\ i < Len(p) => Tail(s) # <<>> /\ Tail(s)[Len(Tail(s))] = p[Len(p)]
      <3>1. s[Len(s)] = p[Len(p)]
        <4>1. Len(p) - i + 1 \in 1 .. Len(p) - i + 1 /\ i + (Len(p) - i + 1) - 1 = Len(p)
          BY <1>1, <2>1
        <4>2. QED
          BY <2>2, <4>1
      <3>2. ASSUME i < Len(p) PROVE Tail(s) # <<>> /\ Tail(s)[Len(Tail(s))] = p[Len(p)]
        <4>1. Len(p) - i \in 1 .. Len(p) - i /\ i + (Len(p) - i) = Len(p) /\ Len(p) - i # 0
          BY <1>1, <2>1, <3>2
        <4>2. Tail(s)[Len(Tail(s))] = p[Len(p)]
          BY <2>2, <4>1
        <4>3. Len(Tail(s)) # 0
          BY <2>2, <4>1
        <4>4. Tail(s) # <<>>
          BY <4>3, EmptySeq
        <4>5. QED
          BY <4>2, <4>4
      <3>3. Tail(s) \in Station!Rests(p)
        BY <2>1 DEF Station!Rests
      <3>4. QED
        BY <3>1, <3>2, <3>3
    <2>4. i = Len(p) => Tail(s) = <<>>
      BY <1>4, <2>1
    <2>5. Writes(s) = {p[j] : j \in i .. Len(p)} /\ Writes(Tail(s)) = {p[j] : j \in i + 1 .. Len(p)}
      BY <1>3, <1>7, <2>1
    <2>6. QED
      BY <2>2, <2>3, <2>4, <2>5
  <1>9. s \in Seq(S) /\ Len(s) <= Len(p)
    BY <1>1, <1>2, <1>3
  <1>10. QED
    BY <1>5, <1>6, <1>8, <1>9

\* The programs, assignment by assignment.
MessageLine == <<<<"ledInternet", FALSE>>, <<"internet", FALSE>>,
                 <<"ledInternet", TRUE>>, <<"internet", TRUE>>>>
ConnectLine(c) == <<<<"check_connect_cloud", c>>, <<"ledInternet", c>>, <<"internet", c>>,
                    <<"service", c>>>>
LedLine(v) == <<<<"ledInternet", v>>, <<"internet", v>>>>
StartLine == <<<<"ledInternet", FALSE>>, <<"internet", FALSE>>, <<"success", FALSE>>,
               <<"power", FALSE>>, <<"dongle", FALSE>>, <<"dongle", TRUE>>>>

LEMMA PlacesTyped ==
  \A v \in BOOLEAN :
    /\ <<"check_connect_cloud", v>> \in PinAssignments /\ <<"ledInternet", v>> \in PinAssignments
    /\ <<"internet", v>> \in PinAssignments /\ <<"service", v>> \in PinAssignments
    /\ <<"success", v>> \in PinAssignments /\ <<"power", v>> \in PinAssignments
    /\ <<"dongle", v>> \in PinAssignments
    /\ <<"ble1", v>> \in PinAssignments /\ <<"ble2", v>> \in PinAssignments
  BY DEF PinAssignments, Station!Places, Station!Files, Station!Variables

LEMMA PinPrograms ==
  /\ Station!Message = MessageLine /\ Station!Start = StartLine
  /\ \A c \in BOOLEAN : Station!OnCloudConnect(c) = ConnectLine(c)
  /\ \A v \in BOOLEAN : Station!LedInternet(v) = LedLine(v)
  <1>1. ASSUME NEW v \in BOOLEAN
        PROVE  Station!LedInternet(v) = LedLine(v)
    BY DEF Station!LedInternet, Station!Set, LedLine
  <1>2. Station!Message = MessageLine
    <2>1. Station!Message = LedLine(FALSE) \o LedLine(TRUE)
      BY <1>1 DEF Station!Message
    <2>2. LedLine(FALSE) \o LedLine(TRUE) = MessageLine
      <3>1. /\ <<"ledInternet", FALSE>> \in PinAssignments /\ <<"internet", FALSE>> \in PinAssignments
            /\ <<"ledInternet", TRUE>> \in PinAssignments /\ <<"internet", TRUE>> \in PinAssignments
        BY PlacesTyped
      <3>2. QED
        BY <3>1, PairAndPair, Zenon DEF LedLine, MessageLine
    <2>3. QED
      BY <2>1, <2>2
  <1>3. ASSUME NEW c \in BOOLEAN
        PROVE  Station!OnCloudConnect(c) = ConnectLine(c)
    <2>1. Station!set_led_warning(~c) = <<<<"service", c>>>>
      <3>1. ~(~c) = c
        OBVIOUS
      <3>2. QED
        BY <3>1 DEF Station!set_led_warning, Station!Set
    <2>2. Station!OnCloudConnect(c) =
            (<<<<"check_connect_cloud", c>>>> \o LedLine(c)) \o <<<<"service", c>>>>
      BY <1>1, <2>1 DEF Station!OnCloudConnect, Station!Set
    <2>3. (<<<<"check_connect_cloud", c>>>> \o LedLine(c)) \o <<<<"service", c>>>> = ConnectLine(c)
      <3>1. /\ <<"check_connect_cloud", c>> \in PinAssignments /\ <<"ledInternet", c>> \in PinAssignments
            /\ <<"internet", c>> \in PinAssignments /\ <<"service", c>> \in PinAssignments
        BY PlacesTyped
      <3>2. QED
        BY <3>1, OneAndPairAndOne, Zenon DEF LedLine, ConnectLine
    <2>4. QED
      BY <2>2, <2>3
  <1>4. Station!Start = StartLine
    <2>1. Station!Start =
            LedLine(FALSE) \o <<<<"success", FALSE>>, <<"power", FALSE>>, <<"dongle", FALSE>>,
                                <<"dongle", TRUE>>>>
      BY <1>1 DEF Station!Start, Station!gpio_init, Station!Set
    <2>2. LedLine(FALSE) \o <<<<"success", FALSE>>, <<"power", FALSE>>, <<"dongle", FALSE>>,
                             <<"dongle", TRUE>>>> = StartLine
      <3>1. PICK a \in PinAssignments : a = <<"ledInternet", FALSE>>
        BY PlacesTyped
      <3>2. PICK b \in PinAssignments : b = <<"internet", FALSE>>
        BY PlacesTyped
      <3>3. PICK c \in PinAssignments : c = <<"success", FALSE>>
        BY PlacesTyped
      <3>4. PICK x \in PinAssignments : x = <<"power", FALSE>>
        BY PlacesTyped
      <3>5. PICK e \in PinAssignments : e = <<"dongle", FALSE>>
        BY PlacesTyped
      <3>6. PICK f \in PinAssignments : f = <<"dongle", TRUE>>
        BY PlacesTyped
      <3>7. <<a, b>> \o <<c, x, e, f>> = <<a, b, c, x, e, f>>
        BY PairAndFour
      <3>8. QED
        BY <3>1, <3>2, <3>3, <3>4, <3>5, <3>6, <3>7, Zenon DEF LedLine, StartLine
    <2>3. QED
      BY <2>1, <2>2
  <1>5. QED
    BY <1>1, <1>2, <1>3, <1>4

LEMMA PinProgramsTyped ==
  /\ MessageLine \in Seq(PinAssignments) /\ Len(MessageLine) = 4
  /\ StartLine \in Seq(PinAssignments) /\ Len(StartLine) = 6
  /\ \A c \in BOOLEAN : ConnectLine(c) \in Seq(PinAssignments) /\ Len(ConnectLine(c)) = 4
  /\ \A v \in BOOLEAN : LedLine(v) \in Seq(PinAssignments) /\ Len(LedLine(v)) = 2
  <1>1. MessageLine \in Seq(PinAssignments) /\ Len(MessageLine) = 4
    <2>1. /\ <<"ledInternet", FALSE>> \in PinAssignments /\ <<"internet", FALSE>> \in PinAssignments
          /\ <<"ledInternet", TRUE>> \in PinAssignments /\ <<"internet", TRUE>> \in PinAssignments
      BY PlacesTyped
    <2>2. QED
      BY <2>1 DEF MessageLine
  <1>2. StartLine \in Seq(PinAssignments) /\ Len(StartLine) = 6
    <2>1. /\ <<"ledInternet", FALSE>> \in PinAssignments /\ <<"internet", FALSE>> \in PinAssignments
          /\ <<"success", FALSE>> \in PinAssignments /\ <<"power", FALSE>> \in PinAssignments
          /\ <<"dongle", FALSE>> \in PinAssignments /\ <<"dongle", TRUE>> \in PinAssignments
      BY PlacesTyped
    <2>2. QED
      BY <2>1 DEF StartLine
  <1>3. ASSUME NEW c \in BOOLEAN
        PROVE  /\ ConnectLine(c) \in Seq(PinAssignments) /\ Len(ConnectLine(c)) = 4
               /\ LedLine(c) \in Seq(PinAssignments) /\ Len(LedLine(c)) = 2
    <2>1. /\ <<"check_connect_cloud", c>> \in PinAssignments /\ <<"ledInternet", c>> \in PinAssignments
          /\ <<"internet", c>> \in PinAssignments /\ <<"service", c>> \in PinAssignments
      BY PlacesTyped
    <2>2. QED
      BY <2>1 DEF ConnectLine, LedLine
  <1>4. QED
    BY <1>1, <1>2, <1>3

\* One assignment h of a handler, those that come later, and the value l that
\* the handler leaves.
HandlerLine(h, later, l) ==
  /\ l \in BOOLEAN
  /\ h \in {"check_connect_cloud", "ledInternet", "internet", "service"} \X BOOLEAN
  /\ \A w \in {h} \cup later : w[2] => l
  /\ \A v \in BOOLEAN : <<"check_connect_cloud", v>> \in {h} \cup later =>
       l = v /\ <<"service", v>> \in later
  /\ \A v \in BOOLEAN : <<"service", v>> \in {h} \cup later => l = v
  /\ h[1] = "service" => later = {}
  /\ (h[1] = "check_connect_cloud" /\ l) =>
       <<"ledInternet", TRUE>> \in later /\ <<"internet", TRUE>> \in later
  /\ (h[1] = "ledInternet" /\ l /\ ~h[2]) => <<"ledInternet", TRUE>> \in later
  /\ (h[1] = "internet" /\ l /\ ~h[2]) => <<"internet", TRUE>> \in later

\* The assignments of a message, of a connection event and of the button, one
\* by one.
LEMMA MessageLines ==
  /\ HandlerLine(<<"ledInternet", FALSE>>,
                 {<<"internet", FALSE>>, <<"ledInternet", TRUE>>, <<"internet", TRUE>>}, TRUE)
  /\ HandlerLine(<<"internet", FALSE>>, {<<"ledInternet", TRUE>>, <<"internet", TRUE>>}, TRUE)
  /\ HandlerLine(<<"ledInternet", TRUE>>, {<<"internet", TRUE>>}, TRUE)
  /\ HandlerLine(<<"internet", TRUE>>, {}, TRUE)
  <1>1. HandlerLine(<<"ledInternet", FALSE>>,
                 {<<"internet", FALSE>>, <<"ledInternet", TRUE>>, <<"internet", TRUE>>}, TRUE)
    BY DEF HandlerLine
  <1>2. HandlerLine(<<"internet", FALSE>>, {<<"ledInternet", TRUE>>, <<"internet", TRUE>>}, TRUE)
    BY DEF HandlerLine
  <1>3. HandlerLine(<<"ledInternet", TRUE>>, {<<"internet", TRUE>>}, TRUE)
    BY DEF HandlerLine
  <1>4. HandlerLine(<<"internet", TRUE>>, {}, TRUE)
    BY DEF HandlerLine
  <1>5. QED
    BY <1>1, <1>2, <1>3, <1>4

LEMMA ConnectLines ==
  ASSUME NEW c \in BOOLEAN
  PROVE  /\ HandlerLine(<<"check_connect_cloud", c>>,
                        {<<"ledInternet", c>>, <<"internet", c>>, <<"service", c>>}, c)
         /\ HandlerLine(<<"ledInternet", c>>, {<<"internet", c>>, <<"service", c>>}, c)
         /\ HandlerLine(<<"internet", c>>, {<<"service", c>>}, c)
         /\ HandlerLine(<<"service", c>>, {}, c)
  <1>1. ASSUME NEW h, NEW later, h = <<"check_connect_cloud", c>>,
               later = {<<"ledInternet", c>>, <<"internet", c>>, <<"service", c>>}
        PROVE  HandlerLine(h, later, c)
    <2>1. h \in {"check_connect_cloud", "ledInternet", "internet", "service"} \X BOOLEAN
      BY <1>1
    <2>2. \A w \in {h} \cup later : w[2] => c
      BY <1>1
    <2>3. \A v \in BOOLEAN : <<"check_connect_cloud", v>> \in {h} \cup later =>
            c = v /\ <<"service", v>> \in later
      BY <1>1
    <2>4. \A v \in BOOLEAN : <<"service", v>> \in {h} \cup later => c = v
      BY <1>1
    <2>5. h[1] = "check_connect_cloud"
      BY <1>1
    <2>6. c => <<"ledInternet", TRUE>> \in later /\ <<"internet", TRUE>> \in later
      BY <1>1
    <2>7. QED
      BY <2>1, <2>2, <2>3, <2>4, <2>5, <2>6 DEF HandlerLine
  <1>2. HandlerLine(<<"ledInternet", c>>, {<<"internet", c>>, <<"service", c>>}, c)
    BY DEF HandlerLine
  <1>3. HandlerLine(<<"internet", c>>, {<<"service", c>>}, c)
    BY DEF HandlerLine
  <1>4. HandlerLine(<<"service", c>>, {}, c)
    BY DEF HandlerLine
  <1>5. QED
    BY <1>1, <1>2, <1>3, <1>4

LEMMA LedLines ==
  ASSUME NEW v \in BOOLEAN
  PROVE  /\ HandlerLine(<<"ledInternet", v>>, {<<"internet", v>>}, v)
         /\ HandlerLine(<<"internet", v>>, {}, v)
  <1>1. HandlerLine(<<"ledInternet", v>>, {<<"internet", v>>}, v)
    BY DEF HandlerLine
  <1>2. HandlerLine(<<"internet", v>>, {}, v)
    BY DEF HandlerLine
  <1>3. QED
    BY <1>1, <1>2

\* The same by position in the program.
LEMMA FourLines ==
  ASSUME NEW a, NEW b, NEW c, NEW x, NEW l,
         HandlerLine(a, {b, c, x}, l), HandlerLine(b, {c, x}, l),
         HandlerLine(c, {x}, l), HandlerLine(x, {}, l)
  PROVE  LET p == <<a, b, c, x>>
         IN  \A i \in 1 .. 4 : HandlerLine(p[i], {p[j] : j \in i + 1 .. 4}, l)
  <1> DEFINE p == <<a, b, c, x>>
  <1>1. p[1] = a /\ p[2] = b /\ p[3] = c /\ p[4] = x
    OBVIOUS
  <1> HIDE DEF p
  <1>2. /\ {p[j] : j \in 1 + 1 .. 4} = {b, c, x} /\ {p[j] : j \in 2 + 1 .. 4} = {c, x}
        /\ {p[j] : j \in 3 + 1 .. 4} = {x} /\ {p[j] : j \in 4 + 1 .. 4} = {}
    BY <1>1
  <1>3. ASSUME NEW i \in 1 .. 4
        PROVE  HandlerLine(p[i], {p[j] : j \in i + 1 .. 4}, l)
    <2>1. i = 1 \/ i = 2 \/ i = 3 \/ i = 4
      OBVIOUS
    <2>2. CASE i = 1
      BY <1>1, <1>2, <2>2
    <2>3. CASE i = 2
      BY <1>1, <1>2, <2>3
    <2>4. CASE i = 3
      BY <1>1, <1>2, <2>4
    <2>5. CASE i = 4
      BY <1>1, <1>2, <2>5
    <2>6. QED
      BY <2>1, <2>2, <2>3, <2>4, <2>5
  <1>4. QED
    BY <1>3 DEF p

LEMMA TwoLines ==
  ASSUME NEW a, NEW b, NEW l, HandlerLine(a, {b}, l), HandlerLine(b, {}, l)
  PROVE  LET p == <<a, b>>
         IN  \A i \in 1 .. 2 : HandlerLine(p[i], {p[j] : j \in i + 1 .. 2}, l)
  <1> DEFINE p == <<a, b>>
  <1>1. p[1] = a /\ p[2] = b
    OBVIOUS
  <1> HIDE DEF p
  <1>2. {p[j] : j \in 1 + 1 .. 2} = {b} /\ {p[j] : j \in 2 + 1 .. 2} = {}
    BY <1>1
  <1>3. ASSUME NEW i \in 1 .. 2
        PROVE  HandlerLine(p[i], {p[j] : j \in i + 1 .. 2}, l)
    <2>1. i = 1 \/ i = 2
      OBVIOUS
    <2>2. CASE i = 1
      BY <1>1, <1>2, <2>2
    <2>3. CASE i = 2
      BY <1>1, <1>2, <2>3
    <2>4. QED
      BY <2>1, <2>2, <2>3
  <1>4. QED
    BY <1>3 DEF p

LEMMA HandlerLines ==
  ASSUME NEW p \in Station!HandlerPrograms
  PROVE  /\ p \in Seq(PinAssignments) /\ Len(p) \in {2, 4}
         /\ \A i \in 1 .. Len(p) :
              HandlerLine(p[i], {p[j] : j \in i + 1 .. Len(p)}, p[Len(p)][2])
  <1>1. ASSUME p = MessageLine
        PROVE  \A i \in 1 .. 4 : HandlerLine(p[i], {p[j] : j \in i + 1 .. 4}, TRUE)
    BY <1>1, MessageLines, FourLines DEF MessageLine
  <1>2. ASSUME NEW c \in BOOLEAN, p = ConnectLine(c)
        PROVE  \A i \in 1 .. 4 : HandlerLine(p[i], {p[j] : j \in i + 1 .. 4}, c)
    BY <1>2, ConnectLines, FourLines DEF ConnectLine
  <1>3. ASSUME NEW v \in BOOLEAN, p = LedLine(v)
        PROVE  \A i \in 1 .. 2 : HandlerLine(p[i], {p[j] : j \in i + 1 .. 2}, v)
    BY <1>3, LedLines, TwoLines DEF LedLine
  <1>4. MessageLine[4][2] = TRUE /\ \A c \in BOOLEAN : ConnectLine(c)[4][2] = c /\ LedLine(c)[2][2] = c
    BY DEF MessageLine, ConnectLine, LedLine
  <1>5. CASE p = MessageLine
    BY <1>1, <1>4, <1>5, PinProgramsTyped
  <1>6. ASSUME NEW c \in BOOLEAN, p = ConnectLine(c)
        PROVE  /\ p \in Seq(PinAssignments) /\ Len(p) = 4 /\ p[4][2] = c
    BY <1>4, <1>6, PinProgramsTyped
  <1>7. ASSUME NEW v \in BOOLEAN, p = LedLine(v)
        PROVE  /\ p \in Seq(PinAssignments) /\ Len(p) = 2 /\ p[2][2] = v
    BY <1>4, <1>7, PinProgramsTyped
  <1>8. \/ p = MessageLine \/ \E c \in BOOLEAN : p = ConnectLine(c)
        \/ \E v \in BOOLEAN : p = LedLine(v)
    BY PinPrograms DEF Station!HandlerPrograms
  <1>9. CASE \E c \in BOOLEAN : p = ConnectLine(c)
    <2>1. PICK c \in BOOLEAN : p = ConnectLine(c)
      BY <1>9
    <2>2. QED
      BY <1>2, <1>6, <2>1
  <1>10. CASE \E v \in BOOLEAN : p = LedLine(v)
    <2>1. PICK v \in BOOLEAN : p = LedLine(v)
      BY <1>10
    <2>2. QED
      BY <1>3, <1>7, <2>1
  <1>11. QED
    BY <1>5, <1>8, <1>9, <1>10

\* An assignment of a handler: what comes after it, what the handler leaves.
LEMMA HandlerStep ==
  ASSUME NEW p \in Station!HandlerPrograms, NEW s \in Station!Rests(p), s # <<>>
  PROVE  /\ Tail(s) \in Station!Rests(p)
         /\ Writes(s) = {Head(s)} \cup Writes(Tail(s))
         /\ HandlerLine(Head(s), Writes(Tail(s)), Station!Leaves(s))
         /\ Tail(s) = <<>> => Writes(Tail(s)) = {}
         /\ Tail(s) # <<>> => Station!Leaves(Tail(s)) = Station!Leaves(s)
  <1>1. p \in Seq(PinAssignments) /\ Len(p) \in {2, 4}
    BY HandlerLines
  <1>2. PICK i \in 1 .. Len(p) :
          /\ Len(s) = Len(p) - i + 1 /\ s[Len(s)] = p[Len(p)] /\ Head(s) = p[i]
          /\ Tail(s) \in Station!Rests(p) /\ Len(Tail(s)) = Len(p) - i
          /\ Writes(s) = {p[j] : j \in i .. Len(p)}
          /\ Writes(Tail(s)) = {p[j] : j \in i + 1 .. Len(p)}
          /\ i < Len(p) => Tail(s) # <<>> /\ Tail(s)[Len(Tail(s))] = p[Len(p)]
          /\ i = Len(p) => Tail(s) = <<>>
    BY <1>1, RestOf
  <1>3. HandlerLine(p[i], {p[j] : j \in i + 1 .. Len(p)}, p[Len(p)][2])
    BY HandlerLines
  <1>4. {p[j] : j \in i .. Len(p)} = {p[i]} \cup {p[j] : j \in i + 1 .. Len(p)}
    <2>1. i .. Len(p) = {i} \cup (i + 1 .. Len(p))
      BY <1>1
    <2>2. QED
      BY <2>1
  <1>5. Tail(s) = <<>> => Writes(Tail(s)) = {}
    BY DEF Writes
  <1>6. Tail(s) # <<>> => Tail(s)[Len(Tail(s))] = s[Len(s)]
    BY <1>1, <1>2
  <1>7. QED
    BY <1>2, <1>3, <1>4, <1>5, <1>6 DEF Station!Leaves

\* The same of any program.
LEMMA RestStep ==
  ASSUME NEW p \in Seq(PinAssignments), NEW s \in Station!Rests(p), s # <<>>
  PROVE  /\ Tail(s) \in Station!Rests(p) /\ Len(Tail(s)) = Len(s) - 1
         /\ Writes(s) = {Head(s)} \cup Writes(Tail(s))
         /\ \E i \in 1 .. Len(p) :
              /\ Head(s) = p[i] /\ Len(s) = Len(p) - i + 1
              /\ Writes(Tail(s)) = {p[j] : j \in i + 1 .. Len(p)}
  <1>1. PICK i \in 1 .. Len(p) :
          /\ Len(s) = Len(p) - i + 1 /\ Head(s) = p[i]
          /\ Tail(s) \in Station!Rests(p) /\ Len(Tail(s)) = Len(p) - i
          /\ Writes(s) = {p[j] : j \in i .. Len(p)}
          /\ Writes(Tail(s)) = {p[j] : j \in i + 1 .. Len(p)}
    BY RestOf
  <1>2. Len(p) \in Nat
    OBVIOUS
  <1>3. {p[j] : j \in i .. Len(p)} = {p[i]} \cup {p[j] : j \in i + 1 .. Len(p)}
    <2>1. i .. Len(p) = {i} \cup (i + 1 .. Len(p))
      BY <1>2
    <2>2. QED
      BY <2>1
  <1>4. Len(Tail(s)) = Len(s) - 1
    BY <1>1, <1>2
  <1>5. QED
    BY <1>1, <1>3, <1>4

\* An assignment h that gives the remote control power or holds the dongle in
\* reset, and those that come later.
PinLine(h, later) ==
  /\ (h[1] = "power" /\ h[2]) => <<"power", FALSE>> \in later
  /\ (h[1] = "dongle" /\ ~h[2]) => <<"dongle", TRUE>> \in later

LEMMA StartStep ==
  ASSUME NEW s \in Station!Rests(Station!Start), s # <<>>
  PROVE  /\ Tail(s) \in Station!Rests(Station!Start)
         /\ Writes(s) = {Head(s)} \cup Writes(Tail(s))
         /\ PinLine(Head(s), Writes(Tail(s)))
         /\ \E p \in Station!Places \ {"check_connect_cloud"}, v \in BOOLEAN : Head(s) = <<p, v>>
  <1> DEFINE p == StartLine
  <1>1. p \in Seq(PinAssignments) /\ Len(p) = 6 /\ Station!Start = p
    BY PinPrograms, PinProgramsTyped
  <1>2. /\ p[1] = <<"ledInternet", FALSE>> /\ p[2] = <<"internet", FALSE>>
        /\ p[3] = <<"success", FALSE>> /\ p[4] = <<"power", FALSE>>
        /\ p[5] = <<"dongle", FALSE>> /\ p[6] = <<"dongle", TRUE>>
    BY DEF StartLine
  <1> HIDE DEF p
  <1>3. /\ Tail(s) \in Station!Rests(p)
        /\ Writes(s) = {Head(s)} \cup Writes(Tail(s))
    BY <1>1, RestStep
  <1>4. PICK i \in 1 .. 6 : Head(s) = p[i] /\ Writes(Tail(s)) = {p[j] : j \in i + 1 .. 6}
    BY <1>1, RestStep
  <1>5. i = 1 \/ i = 2 \/ i = 3 \/ i = 4 \/ i = 5 \/ i = 6
    OBVIOUS
  <1>6. PinLine(Head(s), Writes(Tail(s)))
    <2> DEFINE h == Head(s)
    <2>0. h = p[i]
      BY <1>4
    <2>a. /\ p[1][1] = "ledInternet" /\ p[2][1] = "internet" /\ p[3][1] = "success"
          /\ p[4][1] = "power" /\ ~p[4][2] /\ p[5][1] = "dongle" /\ p[6][1] = "dongle" /\ p[6][2]
      BY <1>2
    <2> HIDE DEF h
    <2>1. ~(h[1] = "power" /\ h[2])
      BY <1>5, <2>0, <2>a
    <2>2. ASSUME h[1] = "dongle", ~h[2] PROVE i = 5
      BY <1>5, <2>0, <2>2, <2>a
    <2>3. i = 5 => p[6] \in {p[j] : j \in i + 1 .. 6}
      OBVIOUS
    <2>4. QED
      BY <1>2, <1>4, <2>1, <2>2, <2>3 DEF PinLine, h
  <1>7. \E q \in Station!Places \ {"check_connect_cloud"}, v \in BOOLEAN : Head(s) = <<q, v>>
    <2>1. \A q \in {"ledInternet", "internet", "success", "power", "dongle"} :
            q \in Station!Places \ {"check_connect_cloud"}
      BY DEF Station!Places, Station!Files, Station!Variables
    <2>2. QED
      BY <1>2, <1>4, <1>5, <2>1
  <1>8. QED
    BY <1>1, <1>3, <1>6, <1>7

LEMMA StartWrites ==
  /\ <<"power", FALSE>> \in Writes(Station!Start) /\ <<"dongle", TRUE>> \in Writes(Station!Start)
  <1>1. Station!Start = StartLine /\ Len(StartLine) = 6
    BY PinPrograms, PinProgramsTyped
  <1>2. StartLine[4] = <<"power", FALSE>> /\ StartLine[6] = <<"dongle", TRUE>>
    BY DEF StartLine
  <1>3. StartLine[4] \in {StartLine[i] : i \in 1 .. 6} /\ StartLine[6] \in {StartLine[i] : i \in 1 .. 6}
    OBVIOUS
  <1>4. QED
    BY <1>1, <1>2, <1>3 DEF Writes

\* The assignments of the test thread.
PulseLine == <<<<"power", TRUE>>, <<"ble1", TRUE>>, <<"ble2", FALSE>>, <<"ble2", TRUE>>,
               <<"ble1", FALSE>>, <<"ble1", TRUE>>, <<"power", FALSE>>>>

LEMMA TestPrograms ==
  /\ Station!reset_led_in_proc = <<<<"internet", TRUE>>, <<"success", FALSE>>>>
  /\ Station!set_led_success = <<<<"internet", TRUE>>, <<"success", TRUE>>>>
  /\ Station!set_led_fail = <<<<"internet", FALSE>>, <<"success", FALSE>>>>
  /\ Station!RestartBleGw = <<<<"dongle", FALSE>>, <<"dongle", TRUE>>>>
  /\ Station!gpio_supply_power_k9b = PulseLine
  BY DEF Station!reset_led_in_proc, Station!set_led_success, Station!set_led_fail,
         Station!RestartBleGw, Station!gpio_supply_power_k9b, Station!Set, PulseLine

LEMMA PairTyped ==
  ASSUME NEW a \in PinAssignments, NEW b \in PinAssignments
  PROVE  <<a, b>> \in Seq(PinAssignments) /\ Len(<<a, b>>) = 2
  OBVIOUS

LEMMA PairStep ==
  ASSUME NEW a \in PinAssignments, NEW b \in PinAssignments,
         NEW s \in Station!Rests(<<a, b>>), s # <<>>
  PROVE  /\ Tail(s) \in Station!Rests(<<a, b>>) /\ Len(Tail(s)) = Len(s) - 1
         /\ Writes(s) = {Head(s)} \cup Writes(Tail(s))
         /\ \/ Head(s) = a /\ Len(s) = 2 /\ Writes(Tail(s)) = {b}
            \/ Head(s) = b /\ Len(s) = 1 /\ Writes(Tail(s)) = {}
  <1> DEFINE p == <<a, b>>
  <1>1. p \in Seq(PinAssignments) /\ Len(p) = 2 /\ p[1] = a /\ p[2] = b
    BY PairTyped
  <1> HIDE DEF p
  <1>2. /\ Tail(s) \in Station!Rests(p) /\ Len(Tail(s)) = Len(s) - 1
        /\ Writes(s) = {Head(s)} \cup Writes(Tail(s))
    BY <1>1, RestStep DEF p
  <1>3. PICK i \in 1 .. 2 : /\ Head(s) = p[i] /\ Len(s) = 2 - i + 1
                            /\ Writes(Tail(s)) = {p[j] : j \in i + 1 .. 2}
    BY <1>1, RestStep DEF p
  <1>4. {p[j] : j \in 1 + 1 .. 2} = {p[2]} /\ {p[j] : j \in 2 + 1 .. 2} = {}
    OBVIOUS
  <1>5. \/ Head(s) = a /\ Len(s) = 2 /\ Writes(Tail(s)) = {b}
        \/ Head(s) = b /\ Len(s) = 1 /\ Writes(Tail(s)) = {}
    <2>1. i = 1 \/ i = 2
      OBVIOUS
    <2>2. CASE i = 1
      BY <1>1, <1>3, <1>4, <2>2
    <2>3. CASE i = 2
      BY <1>1, <1>3, <1>4, <2>3
    <2>4. QED
      BY <2>1, <2>2, <2>3
  <1>6. QED
    BY <1>2, <1>5 DEF p

LEMMA PulseStep ==
  ASSUME NEW s \in Station!Rests(PulseLine), s # <<>>
  PROVE  /\ Tail(s) \in Station!Rests(PulseLine)
         /\ Writes(s) = {Head(s)} \cup Writes(Tail(s))
         /\ Head(s) \in PinAssignments /\ Head(s)[1] \in {"power", "ble1", "ble2"}
         /\ PinLine(Head(s), Writes(Tail(s)))
  <1> DEFINE p == PulseLine
  <1>1. /\ <<"power", TRUE>> \in PinAssignments /\ <<"power", FALSE>> \in PinAssignments
        /\ <<"ble1", TRUE>> \in PinAssignments /\ <<"ble1", FALSE>> \in PinAssignments
        /\ <<"ble2", TRUE>> \in PinAssignments /\ <<"ble2", FALSE>> \in PinAssignments
    BY PlacesTyped
  <1>2. p \in Seq(PinAssignments) /\ Len(p) = 7
    BY <1>1 DEF PulseLine
  <1>3. /\ p[1] = <<"power", TRUE>> /\ p[2] = <<"ble1", TRUE>> /\ p[3] = <<"ble2", FALSE>>
        /\ p[4] = <<"ble2", TRUE>> /\ p[5] = <<"ble1", FALSE>> /\ p[6] = <<"ble1", TRUE>>
        /\ p[7] = <<"power", FALSE>>
    BY DEF PulseLine
  <1> HIDE DEF p
  <1>4. /\ Tail(s) \in Station!Rests(p)
        /\ Writes(s) = {Head(s)} \cup Writes(Tail(s))
    BY <1>2, RestStep DEF p
  <1>5. PICK i \in 1 .. 7 : Head(s) = p[i] /\ Writes(Tail(s)) = {p[j] : j \in i + 1 .. 7}
    BY <1>2, RestStep DEF p
  <1>6. i = 1 \/ i = 2 \/ i = 3 \/ i = 4 \/ i = 5 \/ i = 6 \/ i = 7
    OBVIOUS
  <1>7. /\ p[1][1] = "power" /\ p[2][1] = "ble1" /\ p[3][1] = "ble2" /\ p[4][1] = "ble2"
        /\ p[5][1] = "ble1" /\ p[6][1] = "ble1" /\ p[7][1] = "power" /\ ~p[7][2]
    BY <1>3
  <1> DEFINE h == Head(s)
  <1>8. h = p[i] /\ h \in PinAssignments
    BY <1>2, <1>5
  <1> HIDE DEF h
  <1>9. h[1] \in {"power", "ble1", "ble2"}
    BY <1>6, <1>7, <1>8
  <1>10. h[1] # "dongle"
    BY <1>9
  <1>11. ASSUME h[1] = "power", h[2] PROVE i = 1
    BY <1>6, <1>7, <1>8, <1>11
  <1>12. i = 1 => p[7] \in {p[j] : j \in i + 1 .. 7}
    OBVIOUS
  <1>13. QED
    BY <1>3, <1>4, <1>5, <1>8, <1>9, <1>10, <1>11, <1>12 DEF p, h, PinLine

LEMMA TestStep ==
  ASSUME Station!TypeOK, NEW s \in Station!Rests(Station!TestProgram), s # <<>>
  PROVE  /\ Tail(s) \in Station!Rests(Station!TestProgram)
         /\ Writes(s) = {Head(s)} \cup Writes(Tail(s))
         /\ Head(s) \in PinAssignments /\ PinLine(Head(s), Writes(Tail(s)))
         /\ test \in {"test", "pulse", "verdict", "rest"}
         /\ test = "test" => \/ Head(s)[1] = "internet" /\ Head(s)[2]
                             \/ Head(s)[1] = "success"
         /\ test = "pulse" => Head(s)[1] \in {"power", "ble1", "ble2"}
         /\ test = "verdict" =>
              \/ Head(s)[1] = "internet" /\ (Head(s)[2] <=> passed) /\ Len(s) = 2
              \/ Head(s)[1] = "success" /\ (Head(s)[2] <=> passed) /\ Len(s) = 1
         /\ test = "rest" => Head(s)[1] = "dongle"
  <1>1. test \in {"none", "test", "pulse", "verdict", "rest"} /\ passed \in BOOLEAN
    BY DEF Station!TypeOK
  <1>2. test # "none"
    <2>1. <<>> \in Seq(PinAssignments) /\ Len(<<>>) = 0
      OBVIOUS
    <2>2. s \in Station!Rests(<<>>) => \E i \in 1 .. 0 : TRUE
      BY <2>1, RestStep
    <2>3. QED
      BY <2>2 DEF Station!TestProgram
  <1>3. CASE test = "test"
    <2> DEFINE a == <<"internet", TRUE>>
               b == <<"success", FALSE>>
    <2>1. Station!TestProgram = <<a, b>> /\ a \in PinAssignments /\ b \in PinAssignments
      BY <1>3, TestPrograms, PlacesTyped DEF Station!TestProgram
    <2>2. /\ a[1] = "internet" /\ a[2] /\ b[1] = "success"
          /\ PinLine(a, {b}) /\ PinLine(b, {})
      BY DEF PinLine
    <2> HIDE DEF a, b
    <2>3. /\ Tail(s) \in Station!Rests(<<a, b>>)
          /\ Writes(s) = {Head(s)} \cup Writes(Tail(s))
          /\ \/ Head(s) = a /\ Len(s) = 2 /\ Writes(Tail(s)) = {b}
             \/ Head(s) = b /\ Len(s) = 1 /\ Writes(Tail(s)) = {}
      BY <2>1, PairStep
    <2>4. QED
      BY <1>3, <2>1, <2>2, <2>3
  <1>4. CASE test = "pulse"
    <2>1. Station!TestProgram = PulseLine
      BY <1>4, TestPrograms DEF Station!TestProgram
    <2>2. QED
      BY <1>4, <2>1, PulseStep
  <1>5. CASE test = "verdict"
    <2> DEFINE a == <<"internet", passed>>
               b == <<"success", passed>>
    <2>1. Station!TestProgram = <<a, b>>
      <3>1. CASE passed
        <4>1. passed = TRUE
          BY <1>1, <3>1
        <4>2. QED
          BY <1>5, <4>1, TestPrograms DEF Station!TestProgram
      <3>2. CASE ~passed
        <4>1. passed = FALSE
          BY <1>1, <3>2
        <4>2. QED
          BY <1>5, <4>1, TestPrograms DEF Station!TestProgram
      <3>3. QED
        BY <3>1, <3>2
    <2>2. a \in PinAssignments /\ b \in PinAssignments
      BY <1>1, PlacesTyped
    <2>3. /\ a[1] = "internet" /\ (a[2] <=> passed) /\ b[1] = "success" /\ (b[2] <=> passed)
          /\ PinLine(a, {b}) /\ PinLine(b, {})
      BY DEF PinLine
    <2> HIDE DEF a, b
    <2>4. /\ Tail(s) \in Station!Rests(<<a, b>>)
          /\ Writes(s) = {Head(s)} \cup Writes(Tail(s))
          /\ \/ Head(s) = a /\ Len(s) = 2 /\ Writes(Tail(s)) = {b}
             \/ Head(s) = b /\ Len(s) = 1 /\ Writes(Tail(s)) = {}
      BY <2>1, <2>2, PairStep
    <2>5. QED
      BY <1>5, <2>1, <2>2, <2>3, <2>4
  <1>6. CASE test = "rest"
    <2> DEFINE a == <<"dongle", FALSE>>
               b == <<"dongle", TRUE>>
    <2>1. Station!TestProgram = <<a, b>> /\ a \in PinAssignments /\ b \in PinAssignments
      BY <1>6, TestPrograms, PlacesTyped DEF Station!TestProgram
    <2>2. /\ a[1] = "dongle" /\ b[1] = "dongle"
          /\ PinLine(a, {b}) /\ PinLine(b, {})
      BY DEF PinLine
    <2> HIDE DEF a, b
    <2>3. /\ Tail(s) \in Station!Rests(<<a, b>>)
          /\ Writes(s) = {Head(s)} \cup Writes(Tail(s))
          /\ \/ Head(s) = a /\ Len(s) = 2 /\ Writes(Tail(s)) = {b}
             \/ Head(s) = b /\ Len(s) = 1 /\ Writes(Tail(s)) = {}
      BY <2>1, PairStep
    <2>4. QED
      BY <1>6, <2>1, <2>2, <2>3
  <1>7. QED
    BY <1>1, <1>2, <1>3, <1>4, <1>5, <1>6

LEMMA PinThreads ==
  /\ Station!Threads = Handlers \cup {"main", "test"}
  /\ "main" \notin Handlers /\ "test" \notin Handlers
  /\ Station!Places = {"internet", "service", "ble1", "ble2", "success", "power", "dongle",
                       "ledInternet", "check_connect_cloud"}
  BY PinConstants DEF Station!Threads, Station!Places, Station!Files, Station!Variables

\* What a handler has left to write tells what it leaves.
LEMMA HandlerKnows ==
  ASSUME NEW p \in Station!HandlerPrograms, NEW s \in Station!Rests(p), s # <<>>
  PROVE  /\ Station!Leaves(s) \in BOOLEAN
         /\ \A w \in Writes(s) : w[2] => Station!Leaves(s)
         /\ \A v \in BOOLEAN : <<"service", v>> \in Writes(s) => Station!Leaves(s) = v
         /\ \A v \in BOOLEAN : <<"check_connect_cloud", v>> \in Writes(s) =>
              Station!Leaves(s) = v /\ <<"service", v>> \in Writes(s)
  <1> DEFINE h == Head(s)
             later == Writes(Tail(s))
             l == Station!Leaves(s)
  <1>1. HandlerLine(h, later, l) /\ Writes(s) = {h} \cup later
    BY HandlerStep
  <1> HIDE DEF h, later, l
  <1>2. l \in BOOLEAN /\ \A w \in Writes(s) : w[2] => l
    BY <1>1 DEF HandlerLine
  <1>3. \A v \in BOOLEAN : <<"service", v>> \in Writes(s) => l = v
    BY <1>1 DEF HandlerLine
  <1>4. \A v \in BOOLEAN : <<"check_connect_cloud", v>> \in Writes(s) =>
          l = v /\ <<"service", v>> \in Writes(s)
    BY <1>1 DEF HandlerLine
  <1>5. QED
    BY <1>2, <1>3, <1>4 DEF l

\* A step of a handler.
HandlerMove(t, h, l) ==
  /\ todo[t] # <<>> /\ l = Station!Leaves(todo[t])
  /\ HandlerLine(h, Writes(todo'[t]), l)
  /\ Writes(todo[t]) = {h} \cup Writes(todo'[t])
  /\ todo'[t] # <<>> => Station!Leaves(todo'[t]) = l

\* A step of any thread.
Move(t, h) ==
  /\ todo[t] # <<>> /\ h[1] \in Station!Places /\ h[2] \in BOOLEAN
  /\ Writes(todo[t]) = {h} \cup Writes(todo'[t])
  /\ Len(todo'[t]) = Len(todo[t]) - 1
  /\ value' = [value EXCEPT ![h[1]] = h[2]]
  /\ todo' = [todo EXCEPT ![t] = todo'[t]]
  /\ since' <=> IF h[1] = "internet" THEN t \in Handlers ELSE since
  /\ UNCHANGED <<running, test, passed, heard, crossed, handled, tests, pinExits>>

LEMMA HandlerMoves ==
  ASSUME Station!TypeOK, Station!ProgramInv, NEW t \in Handlers, Station!Step(t)
  PROVE  \E h, l : /\ Move(t, h) /\ HandlerMove(t, h, l)
                   /\ \E p \in Station!HandlerPrograms : todo'[t] \in Station!Rests(p)
  <1> DEFINE s == todo[t]
             h == Head(s)
             l == Station!Leaves(s)
  <1>1. PICK p \in Station!HandlerPrograms : s \in Station!Rests(p)
    BY DEF Station!ProgramInv
  <1>2. s # <<>> /\ t \in Station!Threads /\ todo \in [Station!Threads -> Seq(PinAssignments)]
    BY PinThreads DEF Station!Step, Station!TypeOK, PinAssignments
  <1>3. todo' = [todo EXCEPT ![t] = Tail(s)]
    BY DEF Station!Step
  <1>4. todo'[t] = Tail(s)
    BY <1>2, <1>3
  <1>5. /\ Tail(s) \in Station!Rests(p)
        /\ Writes(s) = {h} \cup Writes(Tail(s))
        /\ HandlerLine(h, Writes(Tail(s)), l)
        /\ Tail(s) # <<>> => Station!Leaves(Tail(s)) = l
    BY <1>1, <1>2, HandlerStep
  <1>6. p \in Seq(PinAssignments)
    BY HandlerLines
  <1>7. Len(Tail(s)) = Len(s) - 1
    BY <1>1, <1>2, <1>6, RestStep
  <1>8. h \in PinAssignments
    BY <1>2
  <1>9. h[1] \in Station!Places /\ h[2] \in BOOLEAN
    BY <1>8 DEF PinAssignments
  <1>10. value' = [value EXCEPT ![h[1]] = h[2]]
    BY DEF Station!Step
  <1>11. since' <=> IF h[1] = "internet" THEN t \in Handlers ELSE since
    BY DEF Station!Step
  <1>12. UNCHANGED <<running, test, passed, heard, crossed, handled, tests, pinExits>>
    BY DEF Station!Step
  <1> HIDE DEF s, h, l
  <1>13. Move(t, h)
    BY <1>2, <1>3, <1>4, <1>5, <1>7, <1>9, <1>10, <1>11, <1>12 DEF Move, s
  <1>14. HandlerMove(t, h, l)
    BY <1>2, <1>4, <1>5 DEF HandlerMove, s, l
  <1>15. QED
    BY <1>4, <1>5, <1>13, <1>14

LEMMA MainMoves ==
  ASSUME Station!TypeOK, Station!ProgramInv, Station!Step("main")
  PROVE  \E h : /\ Move("main", h) /\ PinLine(h, Writes(todo'["main"]))
                /\ h[1] # "check_connect_cloud"
                /\ todo'["main"] \in Station!Rests(Station!Start)
  <1> DEFINE t == "main"
             s == todo[t]
             h == Head(s)
  <1>1. s # <<>> /\ t \in Station!Threads /\ todo \in [Station!Threads -> Seq(PinAssignments)]
    BY PinThreads DEF Station!Step, Station!TypeOK, PinAssignments
  <1>2. todo' = [todo EXCEPT ![t] = Tail(s)]
    BY DEF Station!Step
  <1>3. todo'[t] = Tail(s)
    BY <1>1, <1>2
  <1>4. s \in Station!Rests(Station!Start)
    BY DEF Station!ProgramInv
  <1>5. /\ Tail(s) \in Station!Rests(Station!Start)
        /\ Writes(s) = {h} \cup Writes(Tail(s))
        /\ PinLine(h, Writes(Tail(s)))
        /\ \E p \in Station!Places \ {"check_connect_cloud"}, v \in BOOLEAN : h = <<p, v>>
    BY <1>1, <1>4, StartStep
  <1>6. h[1] \in Station!Places \ {"check_connect_cloud"} /\ h[2] \in BOOLEAN
    BY <1>5
  <1>7. Len(Tail(s)) = Len(s) - 1
    BY <1>1, <1>4, RestStep, PinPrograms, PinProgramsTyped
  <1>8. value' = [value EXCEPT ![h[1]] = h[2]]
    BY DEF Station!Step
  <1>9. since' <=> IF h[1] = "internet" THEN t \in Handlers ELSE since
    BY DEF Station!Step
  <1>10. UNCHANGED <<running, test, passed, heard, crossed, handled, tests, pinExits>>
    BY DEF Station!Step
  <1> HIDE DEF s, h
  <1>11. Move(t, h)
    BY <1>1, <1>2, <1>3, <1>5, <1>6, <1>7, <1>8, <1>9, <1>10 DEF Move, s
  <1>12. QED
    BY <1>3, <1>5, <1>6, <1>11

LEMMA TestMoves ==
  ASSUME Station!TypeOK, Station!ProgramInv, Station!Step("test")
  PROVE  \E h : /\ Move("test", h) /\ PinLine(h, Writes(todo'["test"]))
                /\ test \in {"test", "pulse", "verdict", "rest"}
                /\ h[1] \notin {"check_connect_cloud", "ledInternet", "service"}
                /\ test = "test" => h[1] \in {"internet", "success"} /\ (h[1] = "internet" => h[2])
                /\ test = "pulse" => h[1] \in {"power", "ble1", "ble2"}
                /\ test = "verdict" =>
                     \/ h[1] = "internet" /\ (h[2] <=> passed) /\ Len(todo["test"]) = 2
                     \/ h[1] = "success" /\ (h[2] <=> passed) /\ Len(todo["test"]) = 1
                /\ test = "rest" => h[1] = "dongle"
                /\ todo'["test"] \in Station!Rests(Station!TestProgram)
  <1> DEFINE t == "test"
             s == todo[t]
             h == Head(s)
  <1>1. s # <<>> /\ t \in Station!Threads /\ todo \in [Station!Threads -> Seq(PinAssignments)]
    BY PinThreads DEF Station!Step, Station!TypeOK, PinAssignments
  <1>2. todo' = [todo EXCEPT ![t] = Tail(s)]
    BY DEF Station!Step
  <1>3. todo'[t] = Tail(s)
    BY <1>1, <1>2
  <1>4. s \in Station!Rests(Station!TestProgram)
    BY DEF Station!ProgramInv
  <1>5. /\ Tail(s) \in Station!Rests(Station!TestProgram)
        /\ Writes(s) = {h} \cup Writes(Tail(s))
        /\ h \in PinAssignments /\ PinLine(h, Writes(Tail(s)))
        /\ test \in {"test", "pulse", "verdict", "rest"}
        /\ test = "test" => \/ h[1] = "internet" /\ h[2]
                            \/ h[1] = "success"
        /\ test = "pulse" => h[1] \in {"power", "ble1", "ble2"}
        /\ test = "verdict" =>
             \/ h[1] = "internet" /\ (h[2] <=> passed) /\ Len(s) = 2
             \/ h[1] = "success" /\ (h[2] <=> passed) /\ Len(s) = 1
        /\ test = "rest" => h[1] = "dongle"
    BY <1>1, <1>4, TestStep
  <1>6. h[1] \in Station!Places /\ h[2] \in BOOLEAN
    BY <1>5 DEF PinAssignments
  <1>7. Len(Tail(s)) = Len(s) - 1
    BY <1>1
  <1>8. value' = [value EXCEPT ![h[1]] = h[2]]
    BY DEF Station!Step
  <1>9. since' <=> IF h[1] = "internet" THEN t \in Handlers ELSE since
    BY DEF Station!Step
  <1>10. UNCHANGED <<running, test, passed, heard, crossed, handled, tests, pinExits>>
    BY DEF Station!Step
  <1> HIDE DEF s, h
  <1>11. Move(t, h)
    BY <1>1, <1>2, <1>3, <1>5, <1>6, <1>7, <1>8, <1>9, <1>10 DEF Move, s
  <1>12. QED
    BY <1>3, <1>5, <1>11 DEF s

LEMMA EmptyRest ==
  /\ <<>> \in Station!Rests(<<>>) /\ Writes(<<>>) = {}
  /\ \A p \in Seq(PinAssignments) : <<>> \in Station!Rests(p) /\ p \in Station!Rests(p)
  <1>1. ASSUME NEW p \in Seq(PinAssignments)
        PROVE  <<>> \in Station!Rests(p) /\ p \in Station!Rests(p)
    <2>1. SubSeq(p, 1, Len(p)) \in Station!Rests(p)
      BY DEF Station!Rests
    <2>2. QED
      BY <2>1, RestOf
  <1>2. <<>> \in Seq(PinAssignments)
    OBVIOUS
  <1>3. Writes(<<>>) = {}
    BY DEF Writes
  <1>4. QED
    BY <1>1, <1>2, <1>3

\* The programs of the test thread and what they write.
LEMMA TestProgramsTyped ==
  /\ Station!reset_led_in_proc \in Seq(PinAssignments) /\ Len(Station!reset_led_in_proc) = 2
  /\ Station!set_led_success \in Seq(PinAssignments) /\ Len(Station!set_led_success) = 2
  /\ Station!set_led_fail \in Seq(PinAssignments) /\ Len(Station!set_led_fail) = 2
  /\ Station!RestartBleGw \in Seq(PinAssignments) /\ Len(Station!RestartBleGw) = 2
  /\ Station!gpio_supply_power_k9b \in Seq(PinAssignments) /\ Len(Station!gpio_supply_power_k9b) = 7
  /\ <<"internet", TRUE>> \in Writes(Station!reset_led_in_proc)
  <1>1. /\ <<"internet", TRUE>> \in PinAssignments /\ <<"internet", FALSE>> \in PinAssignments
        /\ <<"success", TRUE>> \in PinAssignments /\ <<"success", FALSE>> \in PinAssignments
        /\ <<"dongle", TRUE>> \in PinAssignments /\ <<"dongle", FALSE>> \in PinAssignments
    BY PlacesTyped
  <1>2. /\ <<"power", TRUE>> \in PinAssignments /\ <<"power", FALSE>> \in PinAssignments
        /\ <<"ble1", TRUE>> \in PinAssignments /\ <<"ble1", FALSE>> \in PinAssignments
        /\ <<"ble2", TRUE>> \in PinAssignments /\ <<"ble2", FALSE>> \in PinAssignments
    BY PlacesTyped
  <1>3. PulseLine \in Seq(PinAssignments) /\ Len(PulseLine) = 7
    BY <1>2 DEF PulseLine
  <1>4. <<"internet", TRUE>> \in Writes(Station!reset_led_in_proc)
    <2> DEFINE p == <<<<"internet", TRUE>>, <<"success", FALSE>>>>
    <2>1. p[1] = <<"internet", TRUE>>
      OBVIOUS
    <2>0. Len(p) = 2
      BY <1>1, PairTyped
    <2> HIDE DEF p
    <2>a. p[1] \in Writes(p)
      BY <2>0 DEF Writes
    <2>2. <<"internet", TRUE>> \in Writes(p)
      BY <2>1, <2>a, Zenon
    <2>3. QED
      BY <2>2, TestPrograms DEF p
  <1>5. QED
    BY <1>1, <1>3, <1>4, TestPrograms, PairTyped

\* What a handler begins.
LEMMA Programs ==
  /\ Station!Message \in Station!HandlerPrograms
  /\ Station!Message # <<>> /\ Station!Leaves(Station!Message) = TRUE
  /\ \A c \in BOOLEAN :
       /\ Station!OnCloudConnect(c) \in Station!HandlerPrograms
       /\ Station!OnCloudConnect(c) # <<>> /\ Station!Leaves(Station!OnCloudConnect(c)) = c
       /\ \A p \in {"check_connect_cloud", "ledInternet", "internet", "service"} :
            <<p, c>> \in Writes(Station!OnCloudConnect(c))
  /\ \A v \in BOOLEAN :
       /\ Station!LedInternet(v) \in Station!HandlerPrograms
       /\ Station!LedInternet(v) # <<>> /\ Station!Leaves(Station!LedInternet(v)) = v
  <1>1. /\ Station!Message \in Station!HandlerPrograms
        /\ \A c \in BOOLEAN : /\ Station!OnCloudConnect(c) \in Station!HandlerPrograms
                              /\ Station!LedInternet(c) \in Station!HandlerPrograms
    BY DEF Station!HandlerPrograms
  <1>2. MessageLine # <<>> /\ Station!Leaves(MessageLine) = TRUE
    <2>1. Len(MessageLine) = 4 /\ MessageLine[4][2] = TRUE
      BY PinProgramsTyped DEF MessageLine
    <2>2. QED
      BY <2>1 DEF Station!Leaves
  <1>3. ASSUME NEW c \in BOOLEAN
        PROVE  /\ ConnectLine(c) # <<>> /\ Station!Leaves(ConnectLine(c)) = c
               /\ \A p \in {"check_connect_cloud", "ledInternet", "internet", "service"} :
                    <<p, c>> \in Writes(ConnectLine(c))
               /\ LedLine(c) # <<>> /\ Station!Leaves(LedLine(c)) = c
    <2> DEFINE p == ConnectLine(c)
               q == LedLine(c)
    <2>1. Len(p) = 4 /\ p[4][2] = c /\ Len(q) = 2 /\ q[2][2] = c
      BY PinProgramsTyped DEF ConnectLine, LedLine
    <2>2. /\ p[1] = <<"check_connect_cloud", c>> /\ p[2] = <<"ledInternet", c>>
          /\ p[3] = <<"internet", c>> /\ p[4] = <<"service", c>>
      BY DEF ConnectLine
    <2> HIDE DEF p, q
    <2>3. \A i \in 1 .. 4 : p[i] \in Writes(p)
      BY <2>1 DEF Writes
    <2>4. p[1] \in Writes(p) /\ p[2] \in Writes(p) /\ p[3] \in Writes(p) /\ p[4] \in Writes(p)
      BY <2>3
    <2>5. p # <<>> /\ q # <<>>
      BY <2>1
    <2>6. Station!Leaves(p) = c /\ Station!Leaves(q) = c
      BY <2>1 DEF Station!Leaves
    <2>7. QED
      BY <2>2, <2>4, <2>5, <2>6 DEF p, q
  <1>4. QED
    BY <1>1, <1>2, <1>3, PinPrograms

LEMMA PinInit == Station!Init => Station!IInv
  <1> SUFFICES ASSUME Station!Init PROVE Station!IInv
    OBVIOUS
  <1>1. /\ Station!Start \in Seq(PinAssignments) /\ Len(Station!Start) = 6
        /\ <<>> \in Seq(PinAssignments) /\ Len(<<>>) = 0
    BY PinPrograms, PinProgramsTyped
  <1>2. /\ todo = [t \in Station!Threads |-> IF t = "main" THEN Station!Start ELSE <<>>]
        /\ running = FALSE /\ test = "none" /\ passed = TRUE
        /\ since = FALSE /\ heard = FALSE /\ crossed = FALSE
        /\ handled = 0 /\ tests = 0 /\ pinExits = 0
        /\ value \in [Station!Places -> BOOLEAN]
        /\ ~value["check_connect_cloud"]
    BY PinThreads DEF Station!Init
  <1>3. /\ todo["main"] = Station!Start /\ todo["test"] = <<>>
        /\ \A t \in Handlers : todo[t] = <<>>
    BY <1>2, PinThreads
  <1>4. Station!TypeOK
    <2>1. todo \in [Station!Threads -> Seq(PinAssignments)]
      BY <1>1, <1>2
    <2>2. ASSUME NEW t \in Station!Threads PROVE Len(todo[t]) <= 7
      <3>1. todo[t] = Station!Start \/ todo[t] = <<>>
        BY <1>2
      <3> DEFINE n == Len(todo[t])
      <3>2. n = 6 \/ n = 0
        BY <1>1, <3>1, Zenon
      <3> HIDE DEF n
      <3>3. n <= 7
        BY <3>2
      <3>4. QED
        BY <3>3 DEF n
    <2>3. handled \in 0 .. MaxHandled /\ tests \in 0 .. MaxTests /\ pinExits \in 0 .. MaxRestarts
      BY <1>2, PinConstants
    <2>4. QED
      BY <1>2, <2>1, <2>2, <2>3 DEF Station!TypeOK, PinAssignments
  <1>5. Station!ProgramInv
    <2>1. Station!Message \in Seq(PinAssignments)
      BY PinPrograms, PinProgramsTyped
    <2>2. QED
      BY <1>1, <1>2, <1>3, <2>1, EmptyRest, Programs DEF Station!ProgramInv, Station!TestProgram
  <1>6. Station!ProcessInv /\ Station!AgreeInv /\ Station!OfflineInv /\ Station!DarkInv
    BY <1>2, <1>3 DEF Station!ProcessInv, Station!AgreeInv, Station!OfflineInv, Station!DarkInv,
       Station!Idle
  <1>7. Station!VerdictInv
    BY <1>2 DEF Station!VerdictInv
  <1>8. Station!WarningInv
    <2>1. \A t \in Handlers : Station!Coming(t) = {}
      BY <1>3 DEF Station!Coming
    <2>2. QED
      BY <1>2, <2>1 DEF Station!WarningInv, Station!Comes
  <1>9. Station!PinInv
    <2>1. Station!Coming("main") = Writes(Station!Start)
      BY <1>3 DEF Station!Coming, Writes
    <2>2. QED
      BY <2>1, StartWrites DEF Station!PinInv, Station!Set
  <1>10. QED
    BY <1>4, <1>5, <1>6, <1>7, <1>8, <1>9 DEF Station!IInv

\* A handler begins.
LEMMA PinBegins ==
  ASSUME Station!TypeOK, NEW t \in Handlers,
         Station!Connect(t) \/ Station!Receive(t) \/ Station!Restore(t)
  PROVE  \E p \in Station!HandlerPrograms, e \in BOOLEAN :
           /\ Station!Handle(t, p, e) /\ p # <<>>
           /\ \/ e /\ \E c \in BOOLEAN : p = Station!OnCloudConnect(c)
              \/ ~e /\ p = Station!Message
              \/ ~e /\ p = Station!LedInternet(value["ledInternet"])
  <1>1. value["ledInternet"] \in BOOLEAN
    BY PinThreads DEF Station!TypeOK
  <1>2. CASE Station!Connect(t)
    BY <1>2, Programs DEF Station!Connect
  <1>3. CASE Station!Receive(t)
    BY <1>3, Programs DEF Station!Receive
  <1>4. CASE Station!Restore(t)
    <2>1. Station!Handle(t, Station!LedInternet(value["ledInternet"]), FALSE)
      BY <1>4 DEF Station!Restore, Station!LedRestoreLastValue
    <2>2. QED
      BY <1>1, <2>1, Programs
  <1>5. QED
    BY <1>2, <1>3, <1>4

\* What the test thread begins: only while the process runs, when it has
\* nothing left to write.
TestBegin(p) ==
  /\ running /\ todo["test"] = <<>> /\ todo' = [todo EXCEPT !["test"] = p]
  /\ p \in Seq(PinAssignments) /\ Len(p) <= 7
  /\ test' \in {"none", "test", "pulse", "verdict", "rest"}
  /\ passed' \in BOOLEAN /\ tests' \in 0 .. MaxTests
  /\ UNCHANGED <<value, running, since, heard, crossed, handled, pinExits>>

LEMMA TestBegins ==
  ASSUME Station!TypeOK,
         \/ Station!StartProcess \/ Station!Pulse \/ Station!Verdict
         \/ Station!Restart \/ Station!EndTest
  PROVE  \E p : /\ TestBegin(p) /\ p \in Station!Rests(Station!TestProgram')
                /\ \/ test = "none" /\ test' = "test" /\ passed' = passed
                      /\ p = Station!reset_led_in_proc
                   \/ test = "test" /\ test' = "pulse" /\ passed' = passed
                   \/ test \in {"test", "pulse"} /\ test' = "verdict" /\ Len(p) = 2
                   \/ test = "verdict" /\ test' = "rest" /\ passed' = passed
                   \/ test = "rest" /\ test' = "none" /\ passed' = passed
  <1>1. tests \in 0 .. MaxTests /\ passed \in BOOLEAN /\ MaxTests \in Nat
    BY PinConstants DEF Station!TypeOK
  <1>2. CASE Station!StartProcess
    <2>1. /\ test = "none" /\ test' = "test" /\ passed' = passed /\ tests' = tests + 1
          /\ tests < MaxTests
          /\ running /\ todo["test"] = <<>>
          /\ todo' = [todo EXCEPT !["test"] = Station!reset_led_in_proc]
          /\ UNCHANGED <<value, running, since, heard, crossed, handled, pinExits>>
      BY <1>2 DEF Station!StartProcess, Station!Test, Station!Begin
    <2>2. Station!TestProgram' = Station!reset_led_in_proc
      BY <2>1 DEF Station!TestProgram, Station!reset_led_in_proc, Station!Set
    <2>3. TestBegin(Station!reset_led_in_proc)
      BY <1>1, <2>1, TestProgramsTyped DEF TestBegin
    <2>4. Station!reset_led_in_proc \in Station!Rests(Station!TestProgram')
      BY <2>2, EmptyRest, TestProgramsTyped
    <2>5. QED
      BY <2>1, <2>3, <2>4, Zenon
  <1>3. CASE Station!Pulse
    <2>1. /\ test = "test" /\ test' = "pulse" /\ UNCHANGED <<passed, tests>>
          /\ running /\ todo["test"] = <<>>
          /\ todo' = [todo EXCEPT !["test"] = Station!gpio_supply_power_k9b]
          /\ UNCHANGED <<value, running, since, heard, crossed, handled, pinExits>>
      BY <1>3 DEF Station!Pulse, Station!Test, Station!Begin
    <2>2. Station!TestProgram' = Station!gpio_supply_power_k9b
      BY <2>1 DEF Station!TestProgram, Station!gpio_supply_power_k9b, Station!Set
    <2>3. TestBegin(Station!gpio_supply_power_k9b)
      BY <1>1, <2>1, TestProgramsTyped DEF TestBegin
    <2>4. Station!gpio_supply_power_k9b \in Station!Rests(Station!TestProgram')
      BY <2>2, EmptyRest, TestProgramsTyped
    <2>5. QED
      BY <2>1, <2>3, <2>4, Zenon
  <1>4. CASE Station!Verdict
    <2> DEFINE p == IF passed' THEN Station!set_led_success ELSE Station!set_led_fail
    <2>1. /\ test \in {"test", "pulse"} /\ test' = "verdict" /\ passed' \in BOOLEAN
          /\ tests' = tests
          /\ running /\ todo["test"] = <<>>
          /\ todo' = [todo EXCEPT !["test"] = p]
          /\ UNCHANGED <<value, running, since, heard, crossed, handled, pinExits>>
      BY <1>4 DEF Station!Verdict, Station!Test, Station!Begin
    <2>2. Station!TestProgram' = p
      BY <2>1 DEF Station!TestProgram, Station!set_led_success, Station!set_led_fail, Station!Set
    <2>3. p \in Seq(PinAssignments) /\ Len(p) = 2
      BY TestProgramsTyped
    <2> HIDE DEF p
    <2>4. TestBegin(p)
      BY <1>1, <2>1, <2>3 DEF TestBegin
    <2>5. p \in Station!Rests(Station!TestProgram')
      BY <2>2, <2>3, EmptyRest
    <2>6. QED
      BY <2>1, <2>3, <2>4, <2>5, Zenon
  <1>5. CASE Station!Restart
    <2>1. /\ test = "verdict" /\ test' = "rest" /\ UNCHANGED <<passed, tests>>
          /\ running /\ todo["test"] = <<>>
          /\ todo' = [todo EXCEPT !["test"] = Station!RestartBleGw]
          /\ UNCHANGED <<value, running, since, heard, crossed, handled, pinExits>>
      BY <1>5 DEF Station!Restart, Station!Test, Station!Begin
    <2>2. Station!TestProgram' = Station!RestartBleGw
      BY <2>1 DEF Station!TestProgram, Station!RestartBleGw, Station!Set
    <2>3. TestBegin(Station!RestartBleGw)
      BY <1>1, <2>1, TestProgramsTyped DEF TestBegin
    <2>4. Station!RestartBleGw \in Station!Rests(Station!TestProgram')
      BY <2>2, EmptyRest, TestProgramsTyped
    <2>5. QED
      BY <2>1, <2>3, <2>4, Zenon
  <1>6. CASE Station!EndTest
    <2>1. /\ test = "rest" /\ test' = "none" /\ UNCHANGED <<passed, tests>>
          /\ running /\ todo["test"] = <<>>
          /\ todo' = [todo EXCEPT !["test"] = <<>>]
          /\ UNCHANGED <<value, running, since, heard, crossed, handled, pinExits>>
      BY <1>6 DEF Station!EndTest, Station!Test, Station!Begin
    <2>2. Station!TestProgram' = <<>>
      BY <2>1 DEF Station!TestProgram
    <2>3. <<>> \in Seq(PinAssignments) /\ Len(<<>>) = 0
      OBVIOUS
    <2>4. TestBegin(<<>>)
      BY <1>1, <2>1, <2>3 DEF TestBegin
    <2>5. <<>> \in Station!Rests(Station!TestProgram')
      BY <2>2, EmptyRest
    <2>6. QED
      BY <2>1, <2>4, <2>5, Zenon
  <1>7. QED
    BY <1>2, <1>3, <1>4, <1>5, <1>6

\* The steps of the part.
PinStep ==
  \/ \E t \in Handlers : Station!Step(t)
  \/ Station!Step("main")
  \/ Station!Step("test")
  \/ \E t \in Handlers : Station!Connect(t) \/ Station!Receive(t) \/ Station!Restore(t)
  \/ Station!Run
  \/ \/ Station!StartProcess \/ Station!Pulse \/ Station!Verdict
     \/ Station!Restart \/ Station!EndTest
  \/ Station!Exit
  \/ UNCHANGED Station!vars

LEMMA PinSteps == [Station!Next]_(Station!vars) => PinStep
  BY PinThreads DEF Station!Next, PinStep

LEMMA SinceTyped ==
  ASSUME Station!TypeOK, NEW t, Station!Step(t)
  PROVE  since' \in BOOLEAN
  <1>1. CASE Head(todo[t])[1] = "internet"
    <2>1. since' = (t \in Handlers)
      BY <1>1 DEF Station!Step
    <2>2. QED
      BY <2>1
  <1>2. CASE Head(todo[t])[1] # "internet"
    <2>1. since' = since /\ since \in BOOLEAN
      BY <1>2 DEF Station!Step, Station!TypeOK
    <2>2. QED
      BY <2>1
  <1>3. QED
    BY <1>1, <1>2

LEMMA PinNextTypeOK ==
  ASSUME Station!IInv, PinStep
  PROVE  Station!TypeOK'
  <1>1. /\ Station!TypeOK /\ Station!ProgramInv
        /\ todo \in [Station!Threads -> Seq(PinAssignments)]
        /\ value \in [Station!Places -> BOOLEAN]
        /\ \A t \in Station!Threads : Len(todo[t]) <= 7
    BY DEF Station!IInv, Station!TypeOK, PinAssignments
  <1>2. ASSUME NEW t \in Station!Threads, NEW h, Move(t, h), todo'[t] \in Seq(PinAssignments),
               since' \in BOOLEAN
        PROVE  Station!TypeOK'
    <2>1. value' \in [Station!Places -> BOOLEAN]
      BY <1>1, <1>2 DEF Move
    <2>2. todo' \in [Station!Threads -> Seq(PinAssignments)]
      BY <1>1, <1>2 DEF Move
    <2>3. ASSUME NEW o \in Station!Threads PROVE Len(todo'[o]) <= 7
      <3>1. Len(todo[o]) <= 7 /\ Len(todo[t]) <= 7 /\ Len(todo[t]) \in Nat
        BY <1>1
      <3>2. CASE o = t
        BY <1>2, <3>1, <3>2 DEF Move
      <3>3. CASE o # t
        <4>1. todo'[o] = todo[o]
          BY <1>1, <1>2, <3>3 DEF Move
        <4>2. QED
          BY <3>1, <4>1
      <3>4. QED
        BY <3>2, <3>3
    <2>5. UNCHANGED <<running, test, passed, heard, crossed, handled, tests, pinExits>>
      BY <1>2 DEF Move
    <2>6. QED
      BY <1>1, <1>2, <2>1, <2>2, <2>3, <2>5 DEF Station!TypeOK, PinAssignments
  <1>3. ASSUME NEW t \in Station!Threads, NEW p \in Seq(PinAssignments), Len(p) <= 7,
               todo' = [todo EXCEPT ![t] = p]
        PROVE  /\ todo' \in [Station!Threads -> Seq(PinAssignments)]
               /\ \A o \in Station!Threads : Len(todo'[o]) <= 7
    <2>1. todo' \in [Station!Threads -> Seq(PinAssignments)]
      BY <1>1, <1>3
    <2>2. ASSUME NEW o \in Station!Threads PROVE Len(todo'[o]) <= 7
      <3>1. CASE o = t
        <4>1. todo'[o] = p
          BY <1>1, <1>3, <3>1
        <4>2. QED
          BY <1>3, <4>1
      <3>2. CASE o # t
        <4>1. todo'[o] = todo[o]
          BY <1>1, <1>3, <3>2
        <4>2. QED
          BY <1>1, <4>1
      <3>3. QED
        BY <3>1, <3>2
    <2>3. QED
      BY <2>1, <2>2
  <1>4. CASE \E t \in Handlers : Station!Step(t)
    <2>1. PICK t \in Handlers : Station!Step(t)
      BY <1>4
    <2>2. PICK h, l : Move(t, h) /\ \E p \in Station!HandlerPrograms : todo'[t] \in Station!Rests(p)
      BY <1>1, <2>1, HandlerMoves
    <2>3. todo'[t] \in Seq(PinAssignments)
      BY <2>2, HandlerLines, RestOf
    <2>4. QED
      BY <1>1, <1>2, <2>1, <2>2, <2>3, PinThreads, SinceTyped
  <1>5. CASE Station!Step("main")
    <2>1. PICK h : Move("main", h) /\ todo'["main"] \in Station!Rests(Station!Start)
      BY <1>1, <1>5, MainMoves
    <2>2. todo'["main"] \in Seq(PinAssignments)
      BY <2>1, PinPrograms, PinProgramsTyped, RestOf
    <2>3. QED
      BY <1>1, <1>2, <1>5, <2>1, <2>2, PinThreads, SinceTyped
  <1>6. CASE Station!Step("test")
    <2>1. PICK h : Move("test", h)
      BY <1>1, <1>6, TestMoves
    <2>2. todo'["test"] = Tail(todo["test"]) /\ todo["test"] # <<>>
      BY <1>1, <1>6, PinThreads DEF Station!Step
    <2>3. todo'["test"] \in Seq(PinAssignments)
      BY <1>1, <2>2, PinThreads
    <2>4. QED
      BY <1>1, <1>2, <1>6, <2>1, <2>3, PinThreads, SinceTyped
  <1>7. CASE \E t \in Handlers : Station!Connect(t) \/ Station!Receive(t) \/ Station!Restore(t)
    <2>1. PICK t \in Handlers : Station!Connect(t) \/ Station!Receive(t) \/ Station!Restore(t)
      BY <1>7
    <2>2. PICK p \in Station!HandlerPrograms, e \in BOOLEAN : Station!Handle(t, p, e)
      BY <1>1, <2>1, PinBegins
    <2>3. p \in Seq(PinAssignments) /\ Len(p) <= 7
      <3> DEFINE n == Len(p)
      <3>1. p \in Seq(PinAssignments) /\ n \in {2, 4}
        BY HandlerLines
      <3> HIDE DEF n
      <3>2. n <= 7
        BY <3>1
      <3>3. QED
        BY <3>1, <3>2 DEF n
    <2>4. todo' = [todo EXCEPT ![t] = p]
      BY <2>2 DEF Station!Handle, Station!Begin
    <2>5. /\ todo' \in [Station!Threads -> Seq(PinAssignments)]
          /\ \A o \in Station!Threads : Len(todo'[o]) <= 7
      BY <1>3, <2>3, <2>4, PinThreads
    <2>6. heard' \in BOOLEAN /\ crossed' \in BOOLEAN
      BY <1>1, <2>2 DEF Station!Handle, Station!TypeOK
    <2>7. /\ handled < MaxHandled /\ handled' = handled + 1
          /\ UNCHANGED <<value, running, test, passed, since, tests, pinExits>>
      BY <2>2 DEF Station!Handle
    <2>8. handled' \in 0 .. MaxHandled
      BY <1>1, <2>7, PinConstants DEF Station!TypeOK
    <2>9. QED
      BY <1>1, <2>5, <2>6, <2>7, <2>8 DEF Station!TypeOK, PinAssignments
  <1>8. CASE Station!Run
    BY <1>1, <1>8 DEF Station!Run, Station!TypeOK
  <1>9. CASE \/ Station!StartProcess \/ Station!Pulse \/ Station!Verdict
             \/ Station!Restart \/ Station!EndTest
    <2>1. PICK p : TestBegin(p)
      BY <1>1, <1>9, TestBegins
    <2>2. /\ todo' \in [Station!Threads -> Seq(PinAssignments)]
          /\ \A o \in Station!Threads : Len(todo'[o]) <= 7
      BY <1>3, <2>1, PinThreads DEF TestBegin
    <2>3. QED
      BY <1>1, <2>1, <2>2 DEF Station!TypeOK, PinAssignments, TestBegin
  <1>10. CASE Station!Exit
    <2>1. /\ todo' = [t \in Station!Threads |-> IF t = "main" THEN Station!Start ELSE <<>>]
          /\ running' = FALSE /\ test' = "none" /\ passed' = TRUE
          /\ since' = FALSE /\ heard' = FALSE /\ crossed' = FALSE
          /\ pinExits < MaxRestarts /\ pinExits' = pinExits + 1
          /\ UNCHANGED <<handled, tests>>
      BY <1>10 DEF Station!Exit
    <2>2. value' \in [Station!Places -> BOOLEAN]
      BY <1>1, <1>10 DEF Station!Exit
    <2>3. /\ Station!Start \in Seq(PinAssignments) /\ Len(Station!Start) = 6
          /\ <<>> \in Seq(PinAssignments) /\ Len(<<>>) = 0
      BY PinPrograms, PinProgramsTyped
    <2>4. todo' \in [Station!Threads -> Seq(PinAssignments)]
      BY <2>1, <2>3
    <2>5. ASSUME NEW t \in Station!Threads PROVE Len(todo'[t]) <= 7
      <3> DEFINE n == Len(todo'[t])
      <3>1. todo'[t] = Station!Start \/ todo'[t] = <<>>
        BY <2>1
      <3>2. n = 6 \/ n = 0
        BY <2>3, <3>1, Zenon
      <3> HIDE DEF n
      <3>3. n <= 7
        BY <3>2
      <3>4. QED
        BY <3>3 DEF n
    <2>6. pinExits' \in 0 .. MaxRestarts
      BY <1>1, <2>1, PinConstants DEF Station!TypeOK
    <2>7. QED
      BY <1>1, <2>1, <2>2, <2>4, <2>5, <2>6 DEF Station!TypeOK, PinAssignments
  <1>11. CASE UNCHANGED Station!vars
    BY <1>1, <1>11 DEF Station!TypeOK, Station!vars
  <1>12. QED
    BY <1>4, <1>5, <1>6, <1>7, <1>8, <1>9, <1>10, <1>11 DEF PinStep

LEMMA PinNextProgram ==
  ASSUME Station!IInv, PinStep
  PROVE  Station!ProgramInv'
  <1>1. /\ Station!TypeOK /\ Station!ProgramInv
        /\ todo \in [Station!Threads -> Seq(PinAssignments)]
    BY DEF Station!IInv, Station!TypeOK, PinAssignments
  <1>2. ASSUME NEW t \in Station!Threads, todo' = [todo EXCEPT ![t] = todo'[t]]
        PROVE  \A o \in Station!Threads \ {t} : todo'[o] = todo[o]
    BY <1>1, <1>2
  <1>3. ASSUME UNCHANGED <<test, passed>> PROVE Station!TestProgram' = Station!TestProgram
    BY <1>3 DEF Station!TestProgram, Station!reset_led_in_proc, Station!gpio_supply_power_k9b,
       Station!set_led_success, Station!set_led_fail, Station!RestartBleGw, Station!Set
  <1>4. CASE \E t \in Handlers : Station!Step(t)
    <2>1. PICK t \in Handlers : Station!Step(t)
      BY <1>4
    <2>2. PICK h, l : Move(t, h) /\ \E p \in Station!HandlerPrograms : todo'[t] \in Station!Rests(p)
      BY <1>1, <2>1, HandlerMoves
    <2>3. \A o \in Station!Threads \ {t} : todo'[o] = todo[o]
      BY <1>2, <2>2, PinThreads DEF Move
    <2>4. QED
      BY <1>1, <1>3, <2>2, <2>3, PinThreads DEF Station!ProgramInv, Move
  <1>5. CASE Station!Step("main")
    <2>1. PICK h : Move("main", h) /\ todo'["main"] \in Station!Rests(Station!Start)
      BY <1>1, <1>5, MainMoves
    <2>2. \A o \in Station!Threads \ {"main"} : todo'[o] = todo[o]
      BY <1>2, <2>1, PinThreads DEF Move
    <2>3. QED
      BY <1>1, <1>3, <2>1, <2>2, PinThreads DEF Station!ProgramInv, Move
  <1>6. CASE Station!Step("test")
    <2>1. PICK h : Move("test", h) /\ todo'["test"] \in Station!Rests(Station!TestProgram)
      BY <1>1, <1>6, TestMoves
    <2>2. \A o \in Station!Threads \ {"test"} : todo'[o] = todo[o]
      BY <1>2, <2>1, PinThreads DEF Move
    <2>3. QED
      BY <1>1, <1>3, <2>1, <2>2, PinThreads DEF Station!ProgramInv, Move
  <1>7. CASE \E t \in Handlers : Station!Connect(t) \/ Station!Receive(t) \/ Station!Restore(t)
    <2>1. PICK t \in Handlers : Station!Connect(t) \/ Station!Receive(t) \/ Station!Restore(t)
      BY <1>7
    <2>2. PICK p \in Station!HandlerPrograms, e \in BOOLEAN : Station!Handle(t, p, e)
      BY <1>1, <2>1, PinBegins
    <2>3. p \in Station!Rests(p)
      BY HandlerLines, EmptyRest
    <2>4. todo' = [todo EXCEPT ![t] = p] /\ UNCHANGED <<test, passed>>
      BY <2>2 DEF Station!Handle, Station!Begin
    <2>5. todo'[t] = p /\ \A o \in Station!Threads \ {t} : todo'[o] = todo[o]
      BY <1>1, <2>4, PinThreads
    <2>6. QED
      BY <1>1, <1>3, <2>3, <2>4, <2>5, PinThreads DEF Station!ProgramInv
  <1>8. CASE Station!Run \/ UNCHANGED Station!vars
    <2>1. UNCHANGED <<todo, test, passed>>
      BY <1>8 DEF Station!Run, Station!vars
    <2>2. QED
      BY <1>1, <1>3, <2>1 DEF Station!ProgramInv
  <1>9. CASE \/ Station!StartProcess \/ Station!Pulse \/ Station!Verdict
             \/ Station!Restart \/ Station!EndTest
    <2>1. PICK p : TestBegin(p) /\ p \in Station!Rests(Station!TestProgram')
      BY <1>1, <1>9, TestBegins
    <2>2. todo'["test"] = p /\ \A o \in Station!Threads \ {"test"} : todo'[o] = todo[o]
      BY <1>1, <2>1, PinThreads DEF TestBegin
    <2>3. QED
      BY <1>1, <2>1, <2>2, PinThreads DEF Station!ProgramInv
  <1>10. CASE Station!Exit
    <2>1. /\ todo' = [t \in Station!Threads |-> IF t = "main" THEN Station!Start ELSE <<>>]
          /\ test' = "none"
      BY <1>10 DEF Station!Exit
    <2>2. Station!TestProgram' = <<>>
      BY <2>1 DEF Station!TestProgram
    <2>3. Station!Start \in Seq(PinAssignments) /\ Station!Message \in Seq(PinAssignments)
      BY PinPrograms, PinProgramsTyped
    <2>4. /\ todo'["main"] = Station!Start /\ todo'["test"] = <<>>
          /\ \A t \in Handlers : todo'[t] = <<>>
      BY <2>1, PinThreads
    <2>5. QED
      BY <2>2, <2>3, <2>4, EmptyRest, Programs DEF Station!ProgramInv
  <1>11. QED
    BY <1>4, <1>5, <1>6, <1>7, <1>8, <1>9, <1>10 DEF PinStep

LEMMA PinNextProcess ==
  ASSUME Station!IInv, PinStep
  PROVE  Station!ProcessInv'
  <1>1. /\ Station!TypeOK /\ Station!ProgramInv /\ Station!ProcessInv
        /\ todo \in [Station!Threads -> Seq(PinAssignments)]
        /\ value \in [Station!Places -> BOOLEAN]
    BY DEF Station!IInv, Station!TypeOK, PinAssignments
  <1>2. ASSUME NEW t \in Station!Threads, todo' = [todo EXCEPT ![t] = todo'[t]]
        PROVE  \A o \in Station!Threads \ {t} : todo'[o] = todo[o]
    BY <1>1, <1>2
  <1>3. CASE \E t \in Handlers : Station!Step(t)
    <2>1. PICK t \in Handlers : Station!Step(t)
      BY <1>3
    <2>2. PICK h, l : Move(t, h)
      BY <1>1, <2>1, HandlerMoves
    <2>3. todo["main"] = <<>> /\ running /\ running' = running
      BY <1>1, <2>2 DEF Move, Station!ProcessInv, Station!Idle
    <2>4. todo'["main"] = todo["main"]
      BY <1>2, <2>2, PinThreads DEF Move
    <2>5. QED
      BY <2>3, <2>4 DEF Station!ProcessInv
  <1>4. CASE Station!Step("main")
    <2>1. PICK h : Move("main", h) /\ h[1] # "check_connect_cloud"
      BY <1>1, <1>4, MainMoves
    <2>2. ~running /\ UNCHANGED <<running, test, heard, crossed>>
      BY <1>1, <2>1 DEF Move, Station!ProcessInv
    <2>3. \A o \in Handlers : todo'[o] = todo[o]
      BY <1>2, <2>1, PinThreads DEF Move
    <2>4. value'["check_connect_cloud"] = value["check_connect_cloud"]
      BY <1>1, <2>1, PinThreads DEF Move
    <2>5. QED
      BY <1>1, <2>2, <2>3, <2>4 DEF Station!ProcessInv, Station!Idle
  <1>5. CASE Station!Step("test")
    <2>1. PICK h : Move("test", h) /\ test \in {"test", "pulse", "verdict", "rest"}
      BY <1>1, <1>5, TestMoves
    <2>2. todo["main"] = <<>> /\ running /\ running' = running
      BY <1>1, <2>1 DEF Move, Station!ProcessInv
    <2>3. todo'["main"] = todo["main"]
      BY <1>2, <2>1, PinThreads DEF Move
    <2>4. QED
      BY <2>2, <2>3 DEF Station!ProcessInv
  <1>6. CASE \E t \in Handlers : Station!Connect(t) \/ Station!Receive(t) \/ Station!Restore(t)
    <2>1. PICK t \in Handlers : Station!Connect(t) \/ Station!Receive(t) \/ Station!Restore(t)
      BY <1>6
    <2>2. PICK p \in Station!HandlerPrograms, e \in BOOLEAN : Station!Handle(t, p, e)
      BY <1>1, <2>1, PinBegins
    <2>3. running /\ running' = running /\ todo' = [todo EXCEPT ![t] = p]
      BY <2>2 DEF Station!Handle, Station!Begin
    <2>4. todo'["main"] = todo["main"]
      BY <1>1, <2>3, PinThreads
    <2>5. QED
      BY <1>1, <2>3, <2>4 DEF Station!ProcessInv
  <1>7. CASE Station!Run
    BY <1>7 DEF Station!Run, Station!ProcessInv
  <1>8. CASE \/ Station!StartProcess \/ Station!Pulse \/ Station!Verdict
             \/ Station!Restart \/ Station!EndTest
    <2>1. PICK p : TestBegin(p)
      BY <1>1, <1>8, TestBegins
    <2>2. todo'["main"] = todo["main"]
      BY <1>1, <2>1, PinThreads DEF TestBegin
    <2>3. QED
      BY <1>1, <2>1, <2>2 DEF Station!ProcessInv, TestBegin
  <1>9. CASE Station!Exit
    <2>1. /\ running' = FALSE /\ test' = "none" /\ heard' = FALSE /\ crossed' = FALSE
          /\ \A t \in Handlers : todo'[t] = <<>>
          /\ ~value'["check_connect_cloud"]
      BY <1>9, PinThreads DEF Station!Exit, Station!Variables
    <2>2. QED
      BY <2>1 DEF Station!ProcessInv, Station!Idle
  <1>10. CASE UNCHANGED Station!vars
    BY <1>1, <1>10 DEF Station!ProcessInv, Station!Idle, Station!vars
  <1>11. QED
    BY <1>3, <1>4, <1>5, <1>6, <1>7, <1>8, <1>9, <1>10 DEF PinStep

\* The other threads, and the other places, are not touched.
LEMMA MoveKeeps ==
  ASSUME Station!TypeOK, NEW t \in Station!Threads, NEW h, Move(t, h)
  PROVE  /\ \A o \in Station!Threads \ {t} : todo'[o] = todo[o]
         /\ \A p \in Station!Places : value'[p] = IF p = h[1] THEN h[2] ELSE value[p]
  <1>1. /\ todo \in [Station!Threads -> Seq(PinAssignments)]
        /\ value \in [Station!Places -> BOOLEAN]
    BY DEF Station!TypeOK, PinAssignments
  <1>2. todo' = [todo EXCEPT ![t] = todo'[t]] /\ value' = [value EXCEPT ![h[1]] = h[2]]
    BY DEF Move
  <1>3. \A o \in Station!Threads \ {t} : todo'[o] = todo[o]
    BY <1>1, <1>2
  <1>4. \A p \in Station!Places : value'[p] = IF p = h[1] THEN h[2] ELSE value[p]
    BY <1>1, <1>2
  <1>5. QED
    BY <1>3, <1>4

\* A handler begins: it crosses nothing only if it is alone and handles an
\* event, or if the others leave what it leaves.
HandlerBegin(t, p, e) ==
  /\ p \in Station!HandlerPrograms /\ p # <<>>
  /\ running /\ todo[t] = <<>> /\ todo'[t] = p
  /\ \A o \in Station!Threads \ {t} : todo'[o] = todo[o]
  /\ heard' <=> (heard \/ e)
  /\ ~crossed' =>
       \/ e /\ \A o \in Handlers : todo[o] = <<>>
       \/ /\ ~crossed
          /\ \A o \in Handlers : todo[o] # <<>> => Station!Leaves(todo[o]) = Station!Leaves(p)
  /\ UNCHANGED <<value, running, test, passed, since>>
  /\ \/ e /\ \E c \in BOOLEAN : p = Station!OnCloudConnect(c)
     \/ ~e /\ p = Station!Message
     \/ ~e /\ p = Station!LedInternet(value["ledInternet"])

LEMMA HandlerBegins ==
  ASSUME Station!TypeOK, NEW t \in Handlers,
         Station!Connect(t) \/ Station!Receive(t) \/ Station!Restore(t)
  PROVE  \E p, e : HandlerBegin(t, p, e)
  <1>1. PICK p \in Station!HandlerPrograms, e \in BOOLEAN :
           /\ Station!Handle(t, p, e) /\ p # <<>>
           /\ \/ e /\ \E c \in BOOLEAN : p = Station!OnCloudConnect(c)
              \/ ~e /\ p = Station!Message
              \/ ~e /\ p = Station!LedInternet(value["ledInternet"])
    BY PinBegins
  <1>2. /\ todo \in [Station!Threads -> Seq(PinAssignments)] /\ t \in Station!Threads
    BY PinThreads DEF Station!TypeOK, PinAssignments
  <1>3. todo' = [todo EXCEPT ![t] = p] /\ todo[t] = <<>>
    BY <1>1 DEF Station!Handle, Station!Begin
  <1>4. todo'[t] = p /\ \A o \in Station!Threads \ {t} : todo'[o] = todo[o]
    BY <1>2, <1>3
  <1>5. /\ running /\ UNCHANGED <<value, running, test, passed, since>>
        /\ heard' <=> (heard \/ e)
    BY <1>1 DEF Station!Handle
  <1>6. ASSUME ~crossed'
        PROVE  \/ e /\ \A o \in Handlers : todo[o] = <<>>
               \/ /\ ~crossed
                  /\ \A o \in Handlers :
                       todo[o] # <<>> => Station!Leaves(todo[o]) = Station!Leaves(p)
    <2>1. CASE e /\ Station!Idle
      BY <2>1 DEF Station!Idle
    <2>2. CASE ~(e /\ Station!Idle)
      <3>1. crossed' <=> \/ crossed
                         \/ \E o \in Handlers :
                              todo[o] # <<>> /\ Station!Leaves(todo[o]) # Station!Leaves(p)
        BY <1>1, <2>2 DEF Station!Handle
      <3>2. QED
        BY <1>6, <3>1
    <2>3. QED
      BY <2>1, <2>2
  <1>7. QED
    BY <1>1, <1>3, <1>4, <1>5, <1>6 DEF HandlerBegin

\* A handler steps, a handler begins, the process ends, or the handlers and
\* what they write in memory stay as they are.
LEMMA PinKinds ==
  ASSUME Station!IInv, PinStep
  PROVE  \/ \E t \in Handlers : \E h, l : Move(t, h) /\ HandlerMove(t, h, l)
         \/ \E t \in Handlers : \E p, e : HandlerBegin(t, p, e)
         \/ /\ ~running' /\ ~crossed' /\ ~heard' /\ \A o \in Handlers : todo'[o] = <<>>
         \/ /\ \A o \in Handlers : todo'[o] = todo[o]
            /\ (crossed' <=> crossed) /\ (heard' <=> heard) /\ (running => running')
            /\ value'["check_connect_cloud"] = value["check_connect_cloud"]
            /\ running => /\ value'["ledInternet"] = value["ledInternet"]
                          /\ value'["service"] = value["service"]
            /\ running' /\ ~running => Station!Run
  <1>1. /\ Station!TypeOK /\ Station!ProgramInv /\ Station!ProcessInv
        /\ todo \in [Station!Threads -> Seq(PinAssignments)]
    BY DEF Station!IInv, Station!TypeOK, PinAssignments
  <1>2. CASE \E t \in Handlers : Station!Step(t)
    BY <1>1, <1>2, HandlerMoves
  <1>3. CASE Station!Step("main")
    <2>1. PICK h : Move("main", h) /\ h[1] # "check_connect_cloud"
      BY <1>1, <1>3, MainMoves
    <2>2. /\ \A o \in Handlers : todo'[o] = todo[o]
          /\ value'["check_connect_cloud"] = value["check_connect_cloud"]
      BY <1>1, <2>1, MoveKeeps, PinThreads
    <2>3. ~running /\ UNCHANGED <<running, heard, crossed>>
      BY <1>1, <2>1 DEF Move, Station!ProcessInv
    <2>4. QED
      BY <2>2, <2>3
  <1>4. CASE Station!Step("test")
    <2>1. PICK h : /\ Move("test", h)
                   /\ h[1] \notin {"check_connect_cloud", "ledInternet", "service"}
      BY <1>1, <1>4, TestMoves
    <2>2. /\ \A o \in Handlers : todo'[o] = todo[o]
          /\ value'["check_connect_cloud"] = value["check_connect_cloud"]
          /\ value'["ledInternet"] = value["ledInternet"]
          /\ value'["service"] = value["service"]
      BY <1>1, <2>1, MoveKeeps, PinThreads
    <2>3. UNCHANGED <<running, heard, crossed>>
      BY <2>1 DEF Move
    <2>4. QED
      BY <2>2, <2>3
  <1>5. CASE \E t \in Handlers : Station!Connect(t) \/ Station!Receive(t) \/ Station!Restore(t)
    BY <1>1, <1>5, HandlerBegins
  <1>6. CASE Station!Run
    BY <1>6 DEF Station!Run
  <1>7. CASE \/ Station!StartProcess \/ Station!Pulse \/ Station!Verdict
             \/ Station!Restart \/ Station!EndTest
    <2>1. PICK p : TestBegin(p)
      BY <1>1, <1>7, TestBegins
    <2>2. \A o \in Handlers : todo'[o] = todo[o]
      BY <1>1, <2>1, PinThreads DEF TestBegin
    <2>3. UNCHANGED <<value, running, heard, crossed>>
      BY <2>1 DEF TestBegin
    <2>4. QED
      BY <2>2, <2>3
  <1>8. CASE Station!Exit
    <2>1. running' = FALSE /\ heard' = FALSE /\ crossed' = FALSE
      BY <1>8 DEF Station!Exit
    <2>2. \A o \in Handlers : todo'[o] = <<>>
      BY <1>8, PinThreads DEF Station!Exit
    <2>3. QED
      BY <2>1, <2>2
  <1>9. CASE UNCHANGED Station!vars
    BY <1>9 DEF Station!vars
  <1>10. QED
    BY <1>2, <1>3, <1>4, <1>5, <1>6, <1>7, <1>8, <1>9 DEF PinStep

LEMMA PinNextAgree ==
  ASSUME Station!IInv, PinStep
  PROVE  Station!AgreeInv'
  <1>1. Station!TypeOK /\ Station!AgreeInv
    BY DEF Station!IInv
  <1> SUFFICES ASSUME ~crossed', NEW a \in Handlers, NEW b \in Handlers,
                      todo'[a] # <<>>, todo'[b] # <<>>
               PROVE  Station!Leaves(todo'[a]) = Station!Leaves(todo'[b])
    BY DEF Station!AgreeInv, Station!Leaves
  <1>2. ASSUME NEW t \in Handlers, NEW h, NEW l, Move(t, h), HandlerMove(t, h, l)
        PROVE  Station!Leaves(todo'[a]) = Station!Leaves(todo'[b])
    <2>1. ASSUME NEW o \in Handlers, todo'[o] # <<>>
          PROVE  todo[o] # <<>> /\ Station!Leaves(todo'[o]) = Station!Leaves(todo[o])
      <3>1. CASE o = t
        BY <1>2, <2>1, <3>1 DEF HandlerMove
      <3>2. CASE o # t
        BY <1>1, <1>2, <2>1, <3>2, MoveKeeps, PinThreads
      <3>3. QED
        BY <3>1, <3>2
    <2>2. ~crossed
      BY <1>2 DEF Move
    <2>3. QED
      BY <1>1, <2>1, <2>2 DEF Station!AgreeInv
  <1>3. ASSUME NEW t \in Handlers, NEW p, NEW e, HandlerBegin(t, p, e)
        PROVE  Station!Leaves(todo'[a]) = Station!Leaves(todo'[b])
    <2>1. todo'[t] = p /\ \A o \in Handlers \ {t} : todo'[o] = todo[o]
      BY <1>3, PinThreads DEF HandlerBegin
    <2>2. \/ \A o \in Handlers : todo[o] = <<>>
          \/ /\ ~crossed
             /\ \A o \in Handlers : todo[o] # <<>> => Station!Leaves(todo[o]) = Station!Leaves(p)
      BY <1>3 DEF HandlerBegin
    <2>3. QED
      BY <2>1, <2>2
  <1>4. QED
    BY <1>1, <1>2, <1>3, PinKinds DEF Station!AgreeInv

\* What the handlers have to write, before and after a step.
LEMMA ComesIs ==
  \A place, v :
    /\ Station!Comes(place, v) <=> \E t \in Handlers : <<place, v>> \in Writes(todo[t])
    /\ Station!Comes(place, v)' <=> \E t \in Handlers : <<place, v>> \in Writes(todo'[t])
  BY DEF Station!Comes, Station!Coming, Station!Set, Writes

LEMMA ComesMove ==
  ASSUME Station!TypeOK, NEW t \in Handlers, NEW h, NEW l, Move(t, h), HandlerMove(t, h, l),
         NEW place, NEW v
  PROVE  /\ Station!Comes(place, v) => Station!Comes(place, v)' \/ (h[1] = place /\ h[2] = v)
         /\ Station!Comes(place, v)' => Station!Comes(place, v)
         /\ <<place, v>> \in Writes(todo'[t]) => Station!Comes(place, v)'
  <1>0. Writes(todo[t]) = {h} \cup Writes(todo'[t])
    BY DEF Move
  <1>1. \A o \in Handlers \ {t} : todo'[o] = todo[o]
    BY MoveKeeps, PinThreads
  <1>2. h = <<place, v>> => h[1] = place /\ h[2] = v
    OBVIOUS
  <1>3. \A o \in Handlers : <<place, v>> \in Writes(todo[o]) =>
          <<place, v>> \in Writes(todo'[o]) \/ h = <<place, v>>
    BY <1>0, <1>1
  <1>4. \A o \in Handlers : <<place, v>> \in Writes(todo'[o]) => <<place, v>> \in Writes(todo[o])
    BY <1>0, <1>1
  <1>5. QED
    BY <1>2, <1>3, <1>4, ComesIs

LEMMA ComesBegin ==
  ASSUME NEW t \in Handlers, NEW p, NEW e, HandlerBegin(t, p, e), NEW place, NEW v
  PROVE  /\ Station!Comes(place, v) => Station!Comes(place, v)'
         /\ Station!Comes(place, v)' => Station!Comes(place, v) \/ <<place, v>> \in Writes(p)
         /\ <<place, v>> \in Writes(p) => Station!Comes(place, v)'
  <1>1. /\ todo[t] = <<>> /\ todo'[t] = p
        /\ \A o \in Handlers \ {t} : todo'[o] = todo[o]
    BY PinThreads DEF HandlerBegin
  <1>2. Writes(todo[t]) = {}
    BY <1>1, EmptyRest
  <1>3. QED
    BY <1>1, <1>2, ComesIs

LEMMA ComesKnows ==
  ASSUME Station!ProgramInv
  PROVE  /\ \A o \in Handlers : todo[o] # <<>> => Station!Leaves(todo[o]) \in BOOLEAN
         /\ \A place : Station!Comes(place, TRUE) =>
              \E o \in Handlers : todo[o] # <<>> /\ Station!Leaves(todo[o])
         /\ \A v \in BOOLEAN : Station!Comes("service", v) =>
              \E o \in Handlers : todo[o] # <<>> /\ Station!Leaves(todo[o]) = v
         /\ \A v \in BOOLEAN, o \in Handlers : <<"check_connect_cloud", v>> \in Writes(todo[o]) =>
              /\ todo[o] # <<>> /\ Station!Leaves(todo[o]) = v
              /\ <<"service", v>> \in Writes(todo[o])
  <1>1. ASSUME NEW o \in Handlers, todo[o] # <<>>
        PROVE  /\ Station!Leaves(todo[o]) \in BOOLEAN
               /\ \A w \in Writes(todo[o]) : w[2] => Station!Leaves(todo[o])
               /\ \A v \in BOOLEAN : <<"service", v>> \in Writes(todo[o]) =>
                    Station!Leaves(todo[o]) = v
               /\ \A v \in BOOLEAN : <<"check_connect_cloud", v>> \in Writes(todo[o]) =>
                    Station!Leaves(todo[o]) = v /\ <<"service", v>> \in Writes(todo[o])
    <2>1. PICK p \in Station!HandlerPrograms : todo[o] \in Station!Rests(p)
      BY DEF Station!ProgramInv
    <2>2. QED
      BY <1>1, <2>1, HandlerKnows
  <1>2. \A o \in Handlers : \A w : w \in Writes(todo[o]) => todo[o] # <<>>
    BY EmptyRest
  <1>3. ASSUME NEW place, Station!Comes(place, TRUE)
        PROVE  \E o \in Handlers : todo[o] # <<>> /\ Station!Leaves(todo[o])
    <2>1. PICK o \in Handlers : <<place, TRUE>> \in Writes(todo[o])
      BY <1>3, ComesIs
    <2>2. <<place, TRUE>>[2] = TRUE
      OBVIOUS
    <2>3. QED
      BY <1>1, <1>2, <2>1, <2>2
  <1>4. ASSUME NEW v \in BOOLEAN, Station!Comes("service", v)
        PROVE  \E o \in Handlers : todo[o] # <<>> /\ Station!Leaves(todo[o]) = v
    BY <1>1, <1>2, <1>4, ComesIs
  <1>5. QED
    BY <1>1, <1>2, <1>3, <1>4

\* Once the flag is or comes to be false, only an assignment of TRUE changes it.
LEMMA OfflineStays ==
  ASSUME Station!TypeOK, NEW t \in Handlers, NEW h, NEW l, Move(t, h), HandlerMove(t, h, l),
         Station!Offline, ~(h[1] = "check_connect_cloud" /\ h[2])
  PROVE  Station!Offline'
  <1>1. h[2] \in BOOLEAN
    BY DEF Move
  <1>2. value'["check_connect_cloud"] =
          IF h[1] = "check_connect_cloud" THEN h[2] ELSE value["check_connect_cloud"]
    BY MoveKeeps, PinThreads
  <1>3. CASE h[1] = "check_connect_cloud"
    BY <1>2, <1>3 DEF Station!Offline
  <1>4. CASE h[1] # "check_connect_cloud"
    <2>1. value'["check_connect_cloud"] = value["check_connect_cloud"]
      BY <1>2, <1>4
    <2>2. Station!Comes("check_connect_cloud", FALSE) => Station!Comes("check_connect_cloud", FALSE)'
      BY <1>4, ComesMove
    <2>3. QED
      BY <2>1, <2>2 DEF Station!Offline
  <1>5. QED
    BY <1>3, <1>4

LEMMA OfflineBegin ==
  ASSUME NEW t \in Handlers, NEW p, NEW e, HandlerBegin(t, p, e)
  PROVE  /\ Station!Offline => Station!Offline'
         /\ p = Station!OnCloudConnect(FALSE) => Station!Offline'
  <1>1. value' = value
    BY DEF HandlerBegin
  <1>2. Station!Comes("check_connect_cloud", FALSE) => Station!Comes("check_connect_cloud", FALSE)'
    BY ComesBegin
  <1>3. p = Station!OnCloudConnect(FALSE) => Station!Comes("check_connect_cloud", FALSE)'
    BY ComesBegin, Programs
  <1>4. QED
    BY <1>1, <1>2, <1>3 DEF Station!Offline

LEMMA PinNextOffline ==
  ASSUME Station!IInv, PinStep
  PROVE  Station!OfflineInv'
  <1>1. /\ Station!TypeOK /\ Station!ProgramInv /\ Station!ProcessInv /\ Station!AgreeInv
        /\ Station!OfflineInv
    BY DEF Station!IInv
  <1> DEFINE Dark == Station!Offline \/ value["ledInternet"] \/ Station!Comes("ledInternet", TRUE)
  <1> SUFFICES ASSUME running', ~crossed'
               PROVE  /\ \A o \in Handlers :
                           (todo'[o] # <<>> /\ ~Station!Leaves(todo'[o])) => Station!Offline'
                      /\ Dark'
    BY DEF Station!OfflineInv, Station!Leaves
  <1>2. ASSUME NEW t \in Handlers, NEW h, NEW l, Move(t, h), HandlerMove(t, h, l)
        PROVE  /\ \A o \in Handlers :
                    (todo'[o] # <<>> /\ ~Station!Leaves(todo'[o])) => Station!Offline'
               /\ Dark'
    <2>1. running /\ ~crossed /\ h[2] \in BOOLEAN
      BY <1>2 DEF Move
    <2>2. /\ \A o \in Handlers : (todo[o] # <<>> /\ ~Station!Leaves(todo[o])) => Station!Offline
          /\ Dark
          /\ \A a, o \in Handlers : (todo[a] # <<>> /\ todo[o] # <<>>) =>
               Station!Leaves(todo[a]) = Station!Leaves(todo[o])
      BY <1>1, <2>1 DEF Station!OfflineInv, Station!AgreeInv
    <2>3. \A o \in Handlers : todo'[o] # <<>> =>
            todo[o] # <<>> /\ Station!Leaves(todo'[o]) = Station!Leaves(todo[o])
      BY <1>1, <1>2, MoveKeeps, PinThreads DEF HandlerMove
    <2>4. /\ todo[t] # <<>> /\ l = Station!Leaves(todo[t])
          /\ (h[1] = "check_connect_cloud" /\ l) => <<"ledInternet", TRUE>> \in Writes(todo'[t])
          /\ (h[1] = "ledInternet" /\ l /\ ~h[2]) => <<"ledInternet", TRUE>> \in Writes(todo'[t])
          /\ h[2] => l
      BY <1>2 DEF HandlerMove, HandlerLine
    <2>5. CASE h[1] = "check_connect_cloud" /\ h[2]
      <3>1. Station!Comes("ledInternet", TRUE)'
        BY <1>1, <1>2, <2>4, <2>5, ComesMove
      <3>2. \A o \in Handlers : todo'[o] # <<>> => Station!Leaves(todo'[o])
        BY <2>2, <2>3, <2>4, <2>5
      <3>3. QED
        BY <3>1, <3>2
    <2>6. CASE ~(h[1] = "check_connect_cloud" /\ h[2])
      <3>1. Station!Offline => Station!Offline'
        BY <1>1, <1>2, <2>6, OfflineStays
      <3>2. Dark'
        <4>1. CASE Station!Offline
          BY <3>1, <4>1
        <4>2. CASE ~Station!Offline
          <5>1. l
            BY <2>2, <2>4, <4>2
          <5>2. CASE h[1] = "ledInternet"
            <6>1. CASE h[2]
              BY <1>1, <1>2, <5>2, <6>1, MoveKeeps, PinThreads
            <6>2. CASE ~h[2]
              BY <1>1, <1>2, <2>4, <5>1, <5>2, <6>2, ComesMove
            <6>3. QED
              BY <6>1, <6>2
          <5>3. CASE h[1] # "ledInternet"
            <6>1. value'["ledInternet"] = value["ledInternet"]
              BY <1>1, <1>2, <5>3, MoveKeeps, PinThreads
            <6>2. Station!Comes("ledInternet", TRUE) => Station!Comes("ledInternet", TRUE)'
              BY <1>1, <1>2, <5>3, ComesMove
            <6>3. QED
              BY <2>2, <4>2, <6>1, <6>2
          <5>4. QED
            BY <5>2, <5>3
        <4>3. QED
          BY <4>1, <4>2
      <3>3. QED
        BY <2>2, <2>3, <3>1, <3>2
    <2>7. QED
      BY <2>5, <2>6
  <1>3. ASSUME NEW t \in Handlers, NEW p, NEW e, HandlerBegin(t, p, e)
        PROVE  /\ \A o \in Handlers :
                    (todo'[o] # <<>> /\ ~Station!Leaves(todo'[o])) => Station!Offline'
               /\ Dark'
    <2>1. /\ running /\ todo'[t] = p /\ p # <<>> /\ value' = value
          /\ \A o \in Handlers \ {t} : todo'[o] = todo[o]
      BY <1>3, PinThreads DEF HandlerBegin
    <2>2. CASE e /\ \A o \in Handlers : todo[o] = <<>>
      <3>1. PICK c \in BOOLEAN : p = Station!OnCloudConnect(c)
        BY <1>3, <2>2 DEF HandlerBegin
      <3>2. CASE c = TRUE
        <4>1. Station!Leaves(p) = TRUE /\ <<"ledInternet", TRUE>> \in Writes(p)
          BY <3>1, <3>2, Programs
        <4>2. Station!Comes("ledInternet", TRUE)'
          BY <1>3, <4>1, ComesBegin
        <4>3. QED
          BY <2>1, <2>2, <4>1, <4>2
      <3>3. CASE c = FALSE
        BY <1>3, <3>1, <3>3, OfflineBegin
      <3>4. QED
        BY <3>2, <3>3
    <2>3. CASE /\ ~crossed
               /\ \A o \in Handlers : todo[o] # <<>> => Station!Leaves(todo[o]) = Station!Leaves(p)
      <3>1. /\ \A o \in Handlers : (todo[o] # <<>> /\ ~Station!Leaves(todo[o])) => Station!Offline
            /\ Dark
        BY <1>1, <2>1, <2>3 DEF Station!OfflineInv
      <3>2. Station!Offline => Station!Offline'
        BY <1>3, OfflineBegin
      <3>3. Station!Comes("ledInternet", TRUE) => Station!Comes("ledInternet", TRUE)'
        BY <1>3, ComesBegin
      <3>4. Dark'
        BY <2>1, <3>1, <3>2, <3>3
      <3>5. ~Station!Leaves(p) => Station!Offline'
        <4>1. CASE \E c \in BOOLEAN : p = Station!OnCloudConnect(c)
          BY <1>3, <4>1, OfflineBegin, Programs
        <4>2. CASE p = Station!Message
          BY <4>2, Programs
        <4>3. CASE p = Station!LedInternet(value["ledInternet"])
          <5>1. value["ledInternet"] \in BOOLEAN
            BY <1>1, PinThreads DEF Station!TypeOK
          <5>2. Station!Leaves(p) = value["ledInternet"]
            BY <4>3, <5>1, Programs
          <5>3. ~Station!Leaves(p) => ~Station!Comes("ledInternet", TRUE)
            BY <1>1, <2>3, ComesKnows
          <5>4. QED
            BY <3>1, <3>2, <5>2, <5>3
        <4>4. QED
          BY <1>3, <4>1, <4>2, <4>3 DEF HandlerBegin
      <3>6. QED
        BY <2>1, <3>1, <3>2, <3>4, <3>5
    <2>4. QED
      BY <1>3, <2>2, <2>3 DEF HandlerBegin
  <1>4. ASSUME /\ \A o \in Handlers : todo'[o] = todo[o]
               /\ (crossed' <=> crossed) /\ (running => running')
               /\ value'["check_connect_cloud"] = value["check_connect_cloud"]
               /\ running => value'["ledInternet"] = value["ledInternet"]
        PROVE  /\ \A o \in Handlers :
                    (todo'[o] # <<>> /\ ~Station!Leaves(todo'[o])) => Station!Offline'
               /\ Dark'
    <2>1. \A place, v : Station!Comes(place, v)' <=> Station!Comes(place, v)
      BY <1>4, ComesIs
    <2>2. Station!Offline' <=> Station!Offline
      BY <1>4, <2>1 DEF Station!Offline
    <2>3. CASE running
      BY <1>1, <1>4, <2>1, <2>2, <2>3 DEF Station!OfflineInv
    <2>4. CASE ~running
      BY <1>1, <2>2, <2>4 DEF Station!ProcessInv, Station!Offline
    <2>5. QED
      BY <2>3, <2>4
  <1>5. QED
    BY <1>2, <1>3, <1>4, PinKinds

LEMMA PinNextDark ==
  ASSUME Station!IInv, PinStep
  PROVE  Station!DarkInv'
  <1>1. /\ Station!TypeOK /\ Station!ProgramInv /\ Station!ProcessInv
        /\ Station!OfflineInv /\ Station!DarkInv
        /\ todo \in [Station!Threads -> Seq(PinAssignments)]
    BY DEF Station!IInv, Station!TypeOK, PinAssignments
  <1> DEFINE Right == \/ Station!Offline \/ value["internet"]
                      \/ Station!Comes("internet", TRUE) \/ Station!Failed
  <1> SUFFICES ASSUME running', ~crossed' PROVE Right'
    BY DEF Station!DarkInv
  <1>2. ASSUME NEW t \in Handlers, NEW h, NEW l, Move(t, h), HandlerMove(t, h, l)
        PROVE  Right'
    <2>1. running /\ ~crossed /\ h[2] \in BOOLEAN /\ UNCHANGED <<test, passed>>
      BY <1>2 DEF Move
    <2>2. /\ \A o \in Handlers : (todo[o] # <<>> /\ ~Station!Leaves(todo[o])) => Station!Offline
          /\ Right
      BY <1>1, <2>1 DEF Station!OfflineInv, Station!DarkInv
    <2>3. /\ todo[t] # <<>> /\ l = Station!Leaves(todo[t])
          /\ (h[1] = "check_connect_cloud" /\ l) => <<"internet", TRUE>> \in Writes(todo'[t])
          /\ (h[1] = "internet" /\ l /\ ~h[2]) => <<"internet", TRUE>> \in Writes(todo'[t])
          /\ h[2] => l
      BY <1>2 DEF HandlerMove, HandlerLine
    <2>4. CASE h[1] = "check_connect_cloud" /\ h[2]
      BY <1>1, <1>2, <2>3, <2>4, ComesMove
    <2>5. CASE ~(h[1] = "check_connect_cloud" /\ h[2])
      <3>1. Station!Offline => Station!Offline'
        BY <1>1, <1>2, <2>5, OfflineStays
      <3>2. CASE Station!Offline
        BY <3>1, <3>2
      <3>3. CASE ~Station!Offline
        <4>1. l
          BY <2>2, <2>3, <3>3
        <4>2. CASE h[1] = "internet"
          <5>1. CASE h[2]
            BY <1>1, <1>2, <4>2, <5>1, MoveKeeps, PinThreads
          <5>2. CASE ~h[2]
            BY <1>1, <1>2, <2>3, <4>1, <4>2, <5>2, ComesMove
          <5>3. QED
            BY <5>1, <5>2
        <4>3. CASE h[1] # "internet"
          <5>1. value'["internet"] = value["internet"]
            BY <1>1, <1>2, <4>3, MoveKeeps, PinThreads
          <5>2. Station!Comes("internet", TRUE) => Station!Comes("internet", TRUE)'
            BY <1>1, <1>2, <4>3, ComesMove
          <5>3. Station!Failed => Station!Failed'
            <6>1. todo'["test"] = todo["test"]
              BY <1>1, <1>2, MoveKeeps, PinThreads
            <6>2. QED
              BY <2>1, <6>1 DEF Station!Failed, Station!Coming, Station!Set
          <5>4. QED
            BY <2>2, <3>3, <5>1, <5>2, <5>3
        <4>4. QED
          BY <4>2, <4>3
      <3>4. QED
        BY <3>2, <3>3
    <2>6. QED
      BY <2>4, <2>5
  <1>3. ASSUME NEW t \in Handlers, NEW p, NEW e, HandlerBegin(t, p, e)
        PROVE  Right'
    <2>1. /\ running /\ value' = value /\ UNCHANGED <<test, passed>>
          /\ todo'["test"] = todo["test"]
      BY <1>3, PinThreads DEF HandlerBegin
    <2>2. CASE e /\ \A o \in Handlers : todo[o] = <<>>
      <3>1. PICK c \in BOOLEAN : p = Station!OnCloudConnect(c)
        BY <1>3, <2>2 DEF HandlerBegin
      <3>2. CASE c = TRUE
        <4>1. <<"internet", TRUE>> \in Writes(p)
          BY <3>1, <3>2, Programs
        <4>2. QED
          BY <1>3, <4>1, ComesBegin
      <3>3. CASE c = FALSE
        BY <1>3, <3>1, <3>3, OfflineBegin
      <3>4. QED
        BY <3>2, <3>3
    <2>3. CASE ~crossed
      <3>1. Right
        BY <1>1, <2>1, <2>3 DEF Station!DarkInv
      <3>2. Station!Offline => Station!Offline'
        BY <1>3, OfflineBegin
      <3>3. Station!Comes("internet", TRUE) => Station!Comes("internet", TRUE)'
        BY <1>3, ComesBegin
      <3>4. Station!Failed => Station!Failed'
        BY <2>1 DEF Station!Failed, Station!Coming, Station!Set
      <3>5. QED
        BY <2>1, <3>1, <3>2, <3>3, <3>4
    <2>4. QED
      BY <1>3, <2>2, <2>3 DEF HandlerBegin
  <1>4. ASSUME \A o \in Handlers : todo'[o] = todo[o],
               value'["check_connect_cloud"] = value["check_connect_cloud"]
        PROVE  /\ \A place, v : Station!Comes(place, v)' <=> Station!Comes(place, v)
               /\ Station!Offline' <=> Station!Offline
    <2>1. \A place, v : Station!Comes(place, v)' <=> Station!Comes(place, v)
      BY <1>4, ComesIs
    <2>2. QED
      BY <1>4, <2>1 DEF Station!Offline
  <1>5. CASE Station!Run \/ UNCHANGED Station!vars
    <2>1. UNCHANGED <<todo, value, test, passed, crossed>>
      BY <1>5 DEF Station!Run, Station!vars
    <2>2. Station!Offline' <=> Station!Offline
      BY <1>4, <2>1
    <2>3. Station!Failed' <=> Station!Failed
      BY <2>1 DEF Station!Failed, Station!Coming, Station!Set
    <2>4. CASE running
      <3>1. Station!Comes("internet", TRUE)' <=> Station!Comes("internet", TRUE)
        BY <1>4, <2>1
      <3>2. QED
        BY <1>1, <2>1, <2>2, <2>3, <2>4, <3>1 DEF Station!DarkInv
    <2>5. CASE ~running
      BY <1>1, <2>2, <2>5 DEF Station!ProcessInv, Station!Offline
    <2>6. QED
      BY <2>4, <2>5
  <1>6. CASE Station!Step("main")
    <2>1. PICK h : Move("main", h)
      BY <1>1, <1>6, MainMoves
    <2>2. running /\ todo["main"] # <<>>
      BY <2>1 DEF Move
    <2>3. QED
      BY <1>1, <2>2 DEF Station!ProcessInv
  <1>7. CASE Station!Step("test")
    <2>1. PICK h : /\ Move("test", h)
                   /\ test \in {"test", "pulse", "verdict", "rest"}
                   /\ h[1] \notin {"check_connect_cloud", "ledInternet", "service"}
                   /\ test = "test" => h[1] \in {"internet", "success"} /\ (h[1] = "internet" => h[2])
                   /\ test = "pulse" => h[1] \in {"power", "ble1", "ble2"}
                   /\ test = "verdict" =>
                        \/ h[1] = "internet" /\ (h[2] <=> passed) /\ Len(todo["test"]) = 2
                        \/ h[1] = "success" /\ (h[2] <=> passed) /\ Len(todo["test"]) = 1
                   /\ test = "rest" => h[1] = "dongle"
      BY <1>1, <1>7, TestMoves
    <2>2. /\ running /\ ~crossed /\ h[2] \in BOOLEAN /\ UNCHANGED <<test, passed>>
          /\ Writes(todo["test"]) = {h} \cup Writes(todo'["test"])
      BY <2>1 DEF Move
    <2>3. Right
      BY <1>1, <2>2 DEF Station!DarkInv
    <2>4. /\ \A o \in Handlers : todo'[o] = todo[o]
          /\ value'["check_connect_cloud"] = value["check_connect_cloud"]
          /\ h[1] # "internet" => value'["internet"] = value["internet"]
          /\ h[1] = "internet" => value'["internet"] = h[2]
      BY <1>1, <2>1, MoveKeeps, PinThreads
    <2>5. /\ Station!Offline' <=> Station!Offline
          /\ Station!Comes("internet", TRUE)' <=> Station!Comes("internet", TRUE)
      BY <1>4, <2>4
    <2>6. /\ Station!Failed <=> ~passed /\ (test \notin {"test", "pulse"} \/ <<"internet", TRUE>> \in Writes(todo["test"]))
          /\ Station!Failed' <=> ~passed' /\ (test' \notin {"test", "pulse"} \/ <<"internet", TRUE>> \in Writes(todo'["test"]))
      BY DEF Station!Failed, Station!Coming, Station!Set, Writes
    <2>7. CASE h[1] = "internet"
      <3>1. CASE h[2]
        BY <2>4, <2>7, <3>1
      <3>2. CASE ~h[2]
        BY <2>1, <2>2, <2>6, <2>7, <3>2
      <3>3. QED
        BY <3>1, <3>2
    <2>8. CASE h[1] # "internet"
      <3>1. h # <<"internet", TRUE>>
        <4>1. <<"internet", TRUE>>[1] = "internet"
          OBVIOUS
        <4>2. QED
          BY <2>8, <4>1
      <3>2. Station!Failed => Station!Failed'
        BY <2>2, <2>6, <3>1
      <3>3. QED
        BY <2>3, <2>4, <2>5, <2>8, <3>2
    <2>9. QED
      BY <2>7, <2>8
  <1>8. CASE \/ Station!StartProcess \/ Station!Pulse \/ Station!Verdict
             \/ Station!Restart \/ Station!EndTest
    <2>1. PICK p : /\ TestBegin(p)
                   /\ \/ test = "none" /\ test' = "test" /\ passed' = passed
                         /\ p = Station!reset_led_in_proc
                      \/ test = "test" /\ test' = "pulse" /\ passed' = passed
                      \/ test \in {"test", "pulse"} /\ test' = "verdict" /\ Len(p) = 2
                      \/ test = "verdict" /\ test' = "rest" /\ passed' = passed
                      \/ test = "rest" /\ test' = "none" /\ passed' = passed
      BY <1>1, <1>8, TestBegins
    <2>2. /\ running /\ UNCHANGED <<value, crossed>>
          /\ todo["test"] = <<>> /\ todo'["test"] = p
          /\ \A o \in Handlers : todo'[o] = todo[o]
      BY <1>1, <2>1, PinThreads DEF TestBegin
    <2>3. Right
      BY <1>1, <2>2 DEF Station!DarkInv
    <2>4. /\ Station!Offline' <=> Station!Offline
          /\ Station!Comes("internet", TRUE)' <=> Station!Comes("internet", TRUE)
      BY <1>4, <2>2
    <2>5. /\ Station!Failed <=> ~passed /\ (test \notin {"test", "pulse"} \/ <<"internet", TRUE>> \in Writes(todo["test"]))
          /\ Station!Failed' <=> ~passed' /\ (test' \notin {"test", "pulse"} \/ <<"internet", TRUE>> \in Writes(todo'["test"]))
      BY DEF Station!Failed, Station!Coming, Station!Set, Writes
    <2>6. Writes(todo["test"]) = {}
      BY <2>2, EmptyRest
    <2>7. Station!Failed => Station!Failed'
      BY <2>1, <2>2, <2>5, <2>6, TestProgramsTyped
    <2>8. QED
      BY <2>2, <2>3, <2>4, <2>7
  <1>9. CASE Station!Exit
    BY <1>9 DEF Station!Exit
  <1>10. CASE \E t \in Handlers : Station!Step(t)
    BY <1>1, <1>2, <1>10, HandlerMoves
  <1>11. CASE \E t \in Handlers : Station!Connect(t) \/ Station!Receive(t) \/ Station!Restore(t)
    BY <1>1, <1>3, <1>11, HandlerBegins
  <1>12. QED
    BY <1>5, <1>6, <1>7, <1>8, <1>9, <1>10, <1>11 DEF PinStep

\* Neither a message nor the button writes the service LED.
LEMMA NoWarning ==
  /\ \A v \in BOOLEAN : <<"service", v>> \notin Writes(Station!Message)
  /\ \A c, v \in BOOLEAN : <<"service", v>> \notin Writes(Station!LedInternet(c))
  <1>1. ASSUME NEW v \in BOOLEAN
        PROVE  <<"service", v>> \notin Writes(MessageLine)
    <2> DEFINE p == MessageLine
    <2>1. Len(p) = 4
      BY PinProgramsTyped
    <2>2. /\ p[1][1] = "ledInternet" /\ p[2][1] = "internet"
          /\ p[3][1] = "ledInternet" /\ p[4][1] = "internet"
      BY DEF MessageLine
    <2>3. <<"service", v>>[1] = "service"
      OBVIOUS
    <2> HIDE DEF p
    <2>4. \A i \in 1 .. 4 : p[i][1] # "service"
      BY <2>2
    <2>5. QED
      BY <2>1, <2>3, <2>4 DEF Writes, p
  <1>2. ASSUME NEW c \in BOOLEAN, NEW v \in BOOLEAN
        PROVE  <<"service", v>> \notin Writes(LedLine(c))
    <2> DEFINE p == LedLine(c)
    <2>1. Len(p) = 2
      BY PinProgramsTyped
    <2>2. p[1][1] = "ledInternet" /\ p[2][1] = "internet"
      BY DEF LedLine
    <2>3. <<"service", v>>[1] = "service"
      OBVIOUS
    <2> HIDE DEF p
    <2>4. \A i \in 1 .. 2 : p[i][1] # "service"
      BY <2>2
    <2>5. QED
      BY <2>1, <2>3, <2>4 DEF Writes, p
  <1>3. QED
    BY <1>1, <1>2, PinPrograms

LEMMA PinNextWarning ==
  ASSUME Station!IInv, PinStep
  PROVE  Station!WarningInv'
  <1>1. /\ Station!TypeOK /\ Station!ProgramInv /\ Station!ProcessInv /\ Station!AgreeInv
        /\ Station!WarningInv
        /\ \A p \in Station!Places : value[p] \in BOOLEAN
    BY DEF Station!IInv, Station!TypeOK
  <1> DEFINE Ordered == \A c \in BOOLEAN : Station!Comes("service", c) =>
               (value["check_connect_cloud"] <=> c) \/ Station!Comes("check_connect_cloud", c)
             Told == heard => \/ value["service"] <=> value["check_connect_cloud"]
                              \/ \E c \in BOOLEAN : Station!Comes("service", c)
  <1> SUFFICES ASSUME ~crossed' PROVE Ordered' /\ Told'
    BY DEF Station!WarningInv
  <1>2. ASSUME NEW t \in Handlers, NEW h, NEW l, Move(t, h), HandlerMove(t, h, l)
        PROVE  Ordered' /\ Told'
    <2>1. ~crossed /\ heard' = heard /\ h[2] \in BOOLEAN
      BY <1>2 DEF Move
    <2>2. /\ Ordered /\ Told
          /\ \A a, o \in Handlers : (todo[a] # <<>> /\ todo[o] # <<>>) =>
               Station!Leaves(todo[a]) = Station!Leaves(todo[o])
      BY <1>1, <2>1 DEF Station!WarningInv, Station!AgreeInv
    <2>3. /\ todo[t] # <<>> /\ l = Station!Leaves(todo[t]) /\ l \in BOOLEAN
          /\ h \in {"check_connect_cloud", "ledInternet", "internet", "service"} \X BOOLEAN
          /\ \A v \in BOOLEAN : <<"check_connect_cloud", v>> \in {h} \cup Writes(todo'[t]) =>
               l = v /\ <<"service", v>> \in Writes(todo'[t])
          /\ \A v \in BOOLEAN : <<"service", v>> \in {h} \cup Writes(todo'[t]) => l = v
          /\ h[1] = "service" => Writes(todo'[t]) = {}
      BY <1>2 DEF HandlerMove, HandlerLine
    <2>4. h = <<h[1], h[2]>>
      BY <2>3
    <2>5. /\ value'["check_connect_cloud"] =
               IF h[1] = "check_connect_cloud" THEN h[2] ELSE value["check_connect_cloud"]
          /\ value'["service"] = IF h[1] = "service" THEN h[2] ELSE value["service"]
      BY <1>1, <1>2, MoveKeeps, PinThreads
    <2>6. CASE h[1] = "check_connect_cloud"
      <3>1. l = h[2] /\ <<"service", h[2]>> \in Writes(todo'[t])
        BY <2>1, <2>3, <2>4, <2>6
      <3>2. Station!Comes("service", h[2])'
        BY <1>1, <1>2, <3>1, ComesMove
      <3>3. ASSUME NEW c \in BOOLEAN, Station!Comes("service", c)' PROVE c = h[2]
        <4>1. Station!Comes("service", c)
          BY <1>1, <1>2, <3>3, ComesMove
        <4>2. PICK o \in Handlers : todo[o] # <<>> /\ Station!Leaves(todo[o]) = c
          BY <1>1, <4>1, ComesKnows
        <4>3. QED
          BY <2>2, <2>3, <3>1, <4>2
      <3>4. value'["check_connect_cloud"] = h[2]
        BY <2>5, <2>6
      <3>5. Told'
        BY <2>1, <3>2
      <3>6. ASSUME NEW c \in BOOLEAN, Station!Comes("service", c)'
            PROVE  value'["check_connect_cloud"] <=> c
        BY <3>3, <3>4, <3>6
      <3>7. QED
        BY <3>5, <3>6
    <2>7. CASE h[1] = "service"
      <3>1. l = h[2] /\ Writes(todo[t]) = {h} /\ Writes(todo'[t]) = {}
        BY <1>2, <2>1, <2>3, <2>4, <2>7 DEF HandlerMove
      <3>2. /\ value'["check_connect_cloud"] = value["check_connect_cloud"]
            /\ value'["service"] = h[2]
        BY <2>5, <2>7
      <3>3. Station!Comes("service", h[2])
        <4>1. <<"service", h[2]>> \in Writes(todo[t])
          BY <2>4, <2>7, <3>1
        <4>2. QED
          BY <4>1, ComesIs
      <3>4. (value["check_connect_cloud"] <=> h[2]) \/ Station!Comes("service", h[2])'
        <4>1. CASE value["check_connect_cloud"] <=> h[2]
          BY <4>1
        <4>2. CASE Station!Comes("check_connect_cloud", h[2])
          <5>1. PICK o \in Handlers : <<"check_connect_cloud", h[2]>> \in Writes(todo[o])
            BY <4>2, ComesIs
          <5>2. <<"service", h[2]>> \in Writes(todo[o])
            BY <1>1, <2>1, <5>1, ComesKnows
          <5>3. o # t
            <6>1. <<"check_connect_cloud", h[2]>>[1] = "check_connect_cloud"
              OBVIOUS
            <6>2. <<"check_connect_cloud", h[2]>> # h
              BY <2>7, <6>1
            <6>3. QED
              BY <3>1, <5>1, <6>2
          <5>4. todo'[o] = todo[o]
            BY <1>1, <1>2, <5>3, MoveKeeps, PinThreads
          <5>5. QED
            BY <5>2, <5>4, ComesIs
        <4>3. QED
          BY <2>1, <2>2, <3>3, <4>1, <4>2
      <3>5. Told'
        <4>1. CASE value["check_connect_cloud"] <=> h[2]
          BY <3>2, <4>1
        <4>2. CASE Station!Comes("service", h[2])'
          BY <2>1, <4>2
        <4>3. QED
          BY <3>4, <4>1, <4>2
      <3>6. ASSUME NEW c \in BOOLEAN, Station!Comes("service", c)'
            PROVE  \/ value'["check_connect_cloud"] <=> c
                   \/ Station!Comes("check_connect_cloud", c)'
        <4>1. Station!Comes("service", c)
          BY <1>1, <1>2, <3>6, ComesMove
        <4>2. CASE value["check_connect_cloud"] <=> c
          BY <3>2, <4>2
        <4>3. CASE Station!Comes("check_connect_cloud", c)
          BY <1>1, <1>2, <2>7, <4>3, ComesMove
        <4>4. QED
          BY <2>2, <4>1, <4>2, <4>3
      <3>7. QED
        BY <3>5, <3>6
    <2>8. CASE h[1] \notin {"check_connect_cloud", "service"}
      <3>1. /\ value'["check_connect_cloud"] = value["check_connect_cloud"]
            /\ value'["service"] = value["service"]
        BY <2>5, <2>8
      <3>2. \A c \in BOOLEAN :
              /\ Station!Comes("service", c)' <=> Station!Comes("service", c)
              /\ Station!Comes("check_connect_cloud", c) => Station!Comes("check_connect_cloud", c)'
        BY <1>1, <1>2, <2>8, ComesMove
      <3>3. QED
        BY <2>1, <2>2, <3>1, <3>2
    <2>9. QED
      BY <2>6, <2>7, <2>8
  <1>3. ASSUME NEW t \in Handlers, NEW p, NEW e, HandlerBegin(t, p, e)
        PROVE  Ordered' /\ Told'
    <2>1. value' = value /\ p \in Station!HandlerPrograms /\ p # <<>>
      BY <1>3 DEF HandlerBegin
    <2>2. \A v \in BOOLEAN : <<"service", v>> \in Writes(p) => Station!Leaves(p) = v
      <3>1. p \in Station!Rests(p)
        BY <2>1, HandlerLines, EmptyRest
      <3>2. QED
        BY <2>1, <3>1, HandlerKnows
    <2>3. CASE e
      <3>1. PICK c \in BOOLEAN : p = Station!OnCloudConnect(c)
        BY <1>3, <2>3 DEF HandlerBegin
      <3>2. /\ Station!Leaves(p) = c
            /\ <<"service", c>> \in Writes(p) /\ <<"check_connect_cloud", c>> \in Writes(p)
        BY <3>1, Programs
      <3>3. Station!Comes("service", c)' /\ Station!Comes("check_connect_cloud", c)'
        BY <1>3, <3>2, ComesBegin
      <3>4. ASSUME NEW v \in BOOLEAN, Station!Comes("service", v)'
            PROVE  \/ value'["check_connect_cloud"] <=> v
                   \/ Station!Comes("check_connect_cloud", v)'
        <4>1. CASE <<"service", v>> \in Writes(p)
          BY <2>2, <3>2, <3>3, <4>1
        <4>2. CASE Station!Comes("service", v)
          <5>1. PICK o \in Handlers : todo[o] # <<>> /\ Station!Leaves(todo[o]) = v
            BY <1>1, <4>2, ComesKnows
          <5>2. Station!Leaves(todo[o]) = Station!Leaves(p)
            BY <1>3, <5>1 DEF HandlerBegin
          <5>3. QED
            BY <3>2, <3>3, <5>1, <5>2
        <4>3. QED
          BY <1>3, <3>4, <4>1, <4>2, ComesBegin
      <3>5. QED
        BY <3>3, <3>4
    <2>4. CASE ~e
      <3>1. ~crossed /\ (heard' <=> heard)
        BY <1>3, <2>4 DEF HandlerBegin
      <3>2. Ordered /\ Told
        BY <1>1, <3>1 DEF Station!WarningInv
      <3>3. \A v \in BOOLEAN : <<"service", v>> \notin Writes(p)
        BY <1>1, <1>3, <2>4, NoWarning, PinThreads DEF HandlerBegin
      <3>4. \A c \in BOOLEAN :
              /\ Station!Comes("service", c)' <=> Station!Comes("service", c)
              /\ Station!Comes("check_connect_cloud", c) => Station!Comes("check_connect_cloud", c)'
        BY <1>3, <3>3, ComesBegin
      <3>5. QED
        BY <2>1, <3>1, <3>2, <3>4
    <2>5. QED
      BY <2>3, <2>4
  <1>4. CASE ~heard' /\ \A o \in Handlers : todo'[o] = <<>>
    <2>0. \A o \in Handlers : Writes(todo'[o]) = {}
      BY <1>4, EmptyRest
    <2>1. \A v : ~Station!Comes("service", v)'
      BY <2>0, ComesIs
    <2>2. QED
      BY <1>4, <2>1
  <1>5. CASE /\ \A o \in Handlers : todo'[o] = todo[o]
             /\ (crossed' <=> crossed) /\ (heard' <=> heard) /\ (running => running')
             /\ value'["check_connect_cloud"] = value["check_connect_cloud"]
             /\ running => value'["service"] = value["service"]
    <2>1. \A place, v : Station!Comes(place, v)' <=> Station!Comes(place, v)
      BY <1>5, ComesIs
    <2>2. Ordered /\ Told
      BY <1>1, <1>5 DEF Station!WarningInv
    <2>3. CASE running
      BY <1>5, <2>1, <2>2, <2>3
    <2>4. CASE ~running
      <3>1. ~heard
        BY <1>1, <2>4 DEF Station!ProcessInv
      <3>2. QED
        BY <1>5, <2>1, <2>2, <3>1
    <2>5. QED
      BY <2>3, <2>4
  <1>6. QED
    BY <1>2, <1>3, <1>4, <1>5, PinKinds

LEMMA PinNextPins ==
  ASSUME Station!IInv, PinStep
  PROVE  Station!PinInv'
  <1>1. /\ Station!TypeOK /\ Station!ProgramInv /\ Station!ProcessInv /\ Station!PinInv
        /\ todo \in [Station!Threads -> Seq(PinAssignments)]
        /\ \A p \in Station!Places : value[p] \in BOOLEAN
    BY DEF Station!IInv, Station!TypeOK, PinAssignments
  <1> DEFINE comes == Writes(todo["main"]) \cup Writes(todo["test"])
             Right == /\ ~value["power"] \/ <<"power", FALSE>> \in comes
                      /\ value["dongle"] \/ <<"dongle", TRUE>> \in comes
  <1>2. Station!PinInv <=> Right
    BY DEF Station!PinInv, Station!Coming, Station!Set, Writes
  <1>3. Station!PinInv' <=> Right'
    BY DEF Station!PinInv, Station!Coming, Station!Set, Writes
  <1>4. ASSUME NEW t \in {"main", "test"}, NEW h, Move(t, h), PinLine(h, Writes(todo'[t]))
        PROVE  Right'
    <2>1. t \in Station!Threads /\ h[2] \in BOOLEAN
      BY <1>4, PinThreads DEF Move
    <2>2. Writes(todo[t]) = {h} \cup Writes(todo'[t])
      BY <1>4 DEF Move
    <2>3. /\ \A o \in Station!Threads \ {t} : todo'[o] = todo[o]
          /\ value'["power"] = IF h[1] = "power" THEN h[2] ELSE value["power"]
          /\ value'["dongle"] = IF h[1] = "dongle" THEN h[2] ELSE value["dongle"]
      BY <1>1, <1>4, <2>1, MoveKeeps, PinThreads
    <2>4. \A w : w \in comes => w \in comes' \/ w = h
      BY <2>2, <2>3, PinThreads
    <2>5. Writes(todo'[t]) \subseteq comes'
      OBVIOUS
    <2>6. <<"power", FALSE>>[1] = "power" /\ <<"dongle", TRUE>>[1] = "dongle"
      OBVIOUS
    <2> HIDE DEF comes
    <2>7. ~value'["power"] \/ <<"power", FALSE>> \in comes'
      <3>1. CASE h[1] = "power" /\ h[2]
        BY <1>4, <2>5, <3>1 DEF PinLine
      <3>2. CASE h[1] = "power" /\ ~h[2]
        BY <2>3, <3>2
      <3>3. CASE h[1] # "power"
        BY <1>1, <1>2, <2>3, <2>4, <2>6, <3>3
      <3>4. QED
        BY <3>1, <3>2, <3>3
    <2>8. value'["dongle"] \/ <<"dongle", TRUE>> \in comes'
      <3>1. CASE h[1] = "dongle" /\ ~h[2]
        BY <1>4, <2>5, <3>1 DEF PinLine
      <3>2. CASE h[1] = "dongle" /\ h[2]
        BY <2>3, <3>2
      <3>3. CASE h[1] # "dongle"
        BY <1>1, <1>2, <2>3, <2>4, <2>6, <3>3
      <3>4. QED
        BY <3>1, <3>2, <3>3
    <2>9. QED
      BY <2>7, <2>8
  <1>5. ASSUME todo'["main"] = todo["main"],
               todo'["test"] = todo["test"] \/ todo["test"] = <<>>,
               value'["power"] = value["power"], value'["dongle"] = value["dongle"]
        PROVE  Right'
    <2>1. comes \subseteq comes'
      BY <1>5, EmptyRest
    <2> HIDE DEF comes
    <2>2. QED
      BY <1>1, <1>2, <1>5, <2>1
  <1>6. CASE \E t \in Handlers : Station!Step(t)
    <2>1. PICK t \in Handlers : Station!Step(t)
      BY <1>6
    <2>2. PICK h, l : Move(t, h) /\ HandlerMove(t, h, l)
      BY <1>1, <2>1, HandlerMoves
    <2>3. h[1] \in {"check_connect_cloud", "ledInternet", "internet", "service"}
      BY <2>2 DEF HandlerMove, HandlerLine
    <2>4. /\ value'["power"] = value["power"] /\ value'["dongle"] = value["dongle"]
          /\ todo'["main"] = todo["main"] /\ todo'["test"] = todo["test"]
      BY <1>1, <2>2, <2>3, MoveKeeps, PinThreads
    <2>5. QED
      BY <1>3, <1>5, <2>4
  <1>7. CASE Station!Step("main")
    BY <1>1, <1>3, <1>4, <1>7, MainMoves
  <1>8. CASE Station!Step("test")
    <2>1. PICK h : Move("test", h) /\ PinLine(h, Writes(todo'["test"]))
      BY <1>1, <1>8, TestMoves
    <2>2. QED
      BY <1>3, <1>4, <2>1
  <1>9. CASE \E t \in Handlers : Station!Connect(t) \/ Station!Receive(t) \/ Station!Restore(t)
    <2>1. PICK t \in Handlers : \E p, e : HandlerBegin(t, p, e)
      BY <1>1, <1>9, HandlerBegins
    <2>2. value' = value /\ todo'["main"] = todo["main"] /\ todo'["test"] = todo["test"]
      BY <2>1, PinThreads DEF HandlerBegin
    <2>3. QED
      BY <1>3, <1>5, <2>2
  <1>10. CASE Station!Run \/ UNCHANGED Station!vars
    <2>1. UNCHANGED <<value, todo>>
      BY <1>10 DEF Station!Run, Station!vars
    <2>2. QED
      BY <1>3, <1>5, <2>1
  <1>11. CASE \/ Station!StartProcess \/ Station!Pulse \/ Station!Verdict
              \/ Station!Restart \/ Station!EndTest
    <2>1. PICK p : TestBegin(p)
      BY <1>1, <1>11, TestBegins
    <2>2. value' = value /\ todo'["main"] = todo["main"] /\ todo["test"] = <<>>
      BY <1>1, <2>1, PinThreads DEF TestBegin
    <2>3. QED
      BY <1>3, <1>5, <2>2
  <1>12. CASE Station!Exit
    <2>1. todo'["main"] = Station!Start
      BY <1>12, PinThreads DEF Station!Exit
    <2>2. QED
      BY <1>3, <2>1, StartWrites
  <1>13. QED
    BY <1>6, <1>7, <1>8, <1>9, <1>10, <1>11, <1>12 DEF PinStep

LEMMA PinNextVerdict ==
  ASSUME Station!IInv, PinStep
  PROVE  Station!VerdictInv'
  <1>1. /\ Station!TypeOK /\ Station!ProgramInv /\ Station!ProcessInv /\ Station!VerdictInv
        /\ todo \in [Station!Threads -> Seq(PinAssignments)]
        /\ \A p \in Station!Places : value[p] \in BOOLEAN
    BY DEF Station!IInv, Station!TypeOK, PinAssignments
  <1>2. CASE \E t \in Handlers : Station!Step(t)
    <2>1. PICK t \in Handlers : Station!Step(t)
      BY <1>2
    <2>2. PICK h, l : Move(t, h) /\ HandlerMove(t, h, l)
      BY <1>1, <2>1, HandlerMoves
    <2>3. h[1] \in {"check_connect_cloud", "ledInternet", "internet", "service"}
      BY <2>2 DEF HandlerMove, HandlerLine
    <2>4. /\ value'["success"] = value["success"] /\ todo'["test"] = todo["test"]
          /\ h[1] # "internet" => value'["internet"] = value["internet"]
      BY <1>1, <2>2, <2>3, MoveKeeps, PinThreads
    <2>5. /\ h[1] = "internet" => since'
          /\ h[1] # "internet" => (since' <=> since)
          /\ UNCHANGED <<test, passed>>
      BY <2>1, <2>2 DEF Move
    <2>6. QED
      BY <1>1, <2>4, <2>5 DEF Station!VerdictInv
  <1>3. CASE Station!Step("main")
    <2>1. PICK h : Move("main", h)
      BY <1>1, <1>3, MainMoves
    <2>2. test = "none" /\ test' = test
      BY <1>1, <2>1 DEF Move, Station!ProcessInv
    <2>3. QED
      BY <2>2 DEF Station!VerdictInv
  <1>4. CASE Station!Step("test")
    <2>1. PICK h : /\ Move("test", h)
                   /\ test = "verdict" =>
                        \/ h[1] = "internet" /\ (h[2] <=> passed) /\ Len(todo["test"]) = 2
                        \/ h[1] = "success" /\ (h[2] <=> passed) /\ Len(todo["test"]) = 1
                   /\ test = "rest" => h[1] = "dongle"
      BY <1>1, <1>4, TestMoves
    <2>2. /\ UNCHANGED <<test, passed>> /\ Len(todo'["test"]) = Len(todo["test"]) - 1
          /\ h[1] # "internet" => (since' <=> since)
      BY <2>1 DEF Move
    <2>3. /\ value'["internet"] = IF h[1] = "internet" THEN h[2] ELSE value["internet"]
          /\ value'["success"] = IF h[1] = "success" THEN h[2] ELSE value["success"]
      BY <1>1, <2>1, MoveKeeps, PinThreads
    <2>4. todo'["test"] = <<>> => Len(todo'["test"]) = 0
      OBVIOUS
    <2>5. CASE test = "verdict" /\ h[1] = "internet"
      <3>1. (h[2] <=> passed) /\ Len(todo'["test"]) = 1
        BY <2>1, <2>2, <2>5
      <3>2. todo'["test"] # <<>>
        BY <2>4, <3>1
      <3>3. QED
        BY <2>2, <2>3, <2>5, <3>1, <3>2 DEF Station!VerdictInv
    <2>6. CASE test = "verdict" /\ h[1] = "success"
      <3>1. (h[2] <=> passed) /\ Len(todo["test"]) = 1
        BY <2>1, <2>6
      <3>2. since \/ (value["internet"] <=> passed)
        BY <1>1, <2>6, <3>1 DEF Station!VerdictInv
      <3>3. QED
        BY <2>2, <2>3, <2>6, <3>1, <3>2 DEF Station!VerdictInv
    <2>7. CASE test = "rest"
      BY <1>1, <2>1, <2>2, <2>3, <2>7 DEF Station!VerdictInv
    <2>8. CASE test \notin {"verdict", "rest"}
      BY <2>2, <2>8 DEF Station!VerdictInv
    <2>9. QED
      BY <2>1, <2>5, <2>6, <2>7, <2>8
  <1>5. CASE \E t \in Handlers : Station!Connect(t) \/ Station!Receive(t) \/ Station!Restore(t)
    <2>1. PICK t \in Handlers : \E p, e : HandlerBegin(t, p, e)
      BY <1>1, <1>5, HandlerBegins
    <2>2. UNCHANGED <<value, test, passed, since>> /\ todo'["test"] = todo["test"]
      BY <2>1, PinThreads DEF HandlerBegin
    <2>3. QED
      BY <1>1, <2>2 DEF Station!VerdictInv
  <1>6. CASE Station!Run \/ UNCHANGED Station!vars
    <2>1. UNCHANGED <<value, todo, test, passed, since>>
      BY <1>6 DEF Station!Run, Station!vars
    <2>2. QED
      BY <1>1, <2>1 DEF Station!VerdictInv
  <1>7. CASE \/ Station!StartProcess \/ Station!Pulse \/ Station!Verdict
             \/ Station!Restart \/ Station!EndTest
    <2>1. PICK p : /\ TestBegin(p)
                   /\ \/ test = "none" /\ test' = "test" /\ passed' = passed
                         /\ p = Station!reset_led_in_proc
                      \/ test = "test" /\ test' = "pulse" /\ passed' = passed
                      \/ test \in {"test", "pulse"} /\ test' = "verdict" /\ Len(p) = 2
                      \/ test = "verdict" /\ test' = "rest" /\ passed' = passed
                      \/ test = "rest" /\ test' = "none" /\ passed' = passed
      BY <1>1, <1>7, TestBegins
    <2>2. /\ UNCHANGED <<value, since>> /\ todo["test"] = <<>> /\ todo'["test"] = p
      BY <1>1, <2>1, PinThreads DEF TestBegin
    <2>3. CASE test = "verdict"
      <3>1. Len(todo["test"]) = 0
        BY <2>2
      <3>2. QED
        BY <1>1, <2>1, <2>2, <2>3, <3>1 DEF Station!VerdictInv
    <2>4. CASE test' = "verdict"
      <3>1. Len(todo'["test"]) = 2 /\ test' # "rest"
        BY <2>1, <2>2, <2>4
      <3>2. todo'["test"] # <<>>
        BY <3>1
      <3>3. QED
        BY <3>1, <3>2 DEF Station!VerdictInv
    <2>5. CASE test' \notin {"verdict", "rest"}
      BY <2>5 DEF Station!VerdictInv
    <2>6. QED
      BY <2>1, <2>3, <2>4, <2>5
  <1>8. CASE Station!Exit
    BY <1>8 DEF Station!Exit, Station!VerdictInv
  <1>9. QED
    BY <1>2, <1>3, <1>4, <1>5, <1>6, <1>7, <1>8 DEF PinStep

\* What the run checks follows from the inductive invariant.
LEMMA PinKeeps ==
  Station!IInv => /\ Station!TypeOK /\ Station!DarkMeansFail /\ Station!VerdictShown
                  /\ Station!WarningTellsTheFlag /\ Station!PinsAtRest
  <1> SUFFICES ASSUME Station!IInv
               PROVE  /\ Station!TypeOK /\ Station!DarkMeansFail /\ Station!VerdictShown
                      /\ Station!WarningTellsTheFlag /\ Station!PinsAtRest
    OBVIOUS
  <1>1. /\ Station!TypeOK /\ Station!ProcessInv /\ Station!DarkInv
        /\ Station!VerdictInv /\ Station!WarningInv /\ Station!PinInv
        /\ \A p \in Station!Places : value[p] \in BOOLEAN
        /\ passed \in BOOLEAN
    BY DEF Station!IInv, Station!TypeOK
  <1>2. Station!Idle => \A place, v : ~Station!Comes(place, v)
    <2>1. Station!Idle => \A o \in Handlers : Writes(todo[o]) = {}
      BY EmptyRest DEF Station!Idle
    <2>2. QED
      BY <2>1, ComesIs
  <1>3. Station!DarkMeansFail
    BY <1>1, <1>2 DEF Station!DarkMeansFail, Station!DarkInv, Station!Offline, Station!Failed
  <1>4. Station!VerdictShown
    <2>1. ASSUME test = "rest" \/ (test = "verdict" /\ todo["test"] = <<>>)
          PROVE  value["success"] = passed /\ (since \/ value["internet"] = passed)
      <3>1. todo["test"] = <<>> => Len(todo["test"]) < 2
        OBVIOUS
      <3>2. (value["success"] <=> passed) /\ (since \/ (value["internet"] <=> passed))
        BY <1>1, <2>1, <3>1 DEF Station!VerdictInv
      <3>3. value["success"] \in BOOLEAN /\ value["internet"] \in BOOLEAN
        BY <1>1, PinThreads
      <3>4. value["success"] = passed
        BY <1>1, <3>2, <3>3
      <3>5. since \/ value["internet"] = passed
        BY <1>1, <3>2, <3>3
      <3>6. QED
        BY <3>4, <3>5
    <2>2. QED
      BY <2>1 DEF Station!VerdictShown
  <1>5. Station!WarningTellsTheFlag
    <2>1. ASSUME Station!Idle, heard, ~crossed
          PROVE  value["service"] = value["check_connect_cloud"]
      <3>1. value["service"] <=> value["check_connect_cloud"]
        BY <1>1, <1>2, <2>1 DEF Station!WarningInv
      <3>2. value["service"] \in BOOLEAN /\ value["check_connect_cloud"] \in BOOLEAN
        BY <1>1, PinThreads
      <3>3. QED
        BY <3>1, <3>2
    <2>2. QED
      BY <2>1 DEF Station!WarningTellsTheFlag
  <1>6. Station!PinsAtRest
    <2>1. ASSUME running, todo["test"] = <<>> PROVE ~value["power"] /\ value["dongle"]
      <3>1. todo["main"] = <<>>
        BY <1>1, <2>1 DEF Station!ProcessInv
      <3>2. Station!Coming("main") = {} /\ Station!Coming("test") = {}
        BY <2>1, <3>1 DEF Station!Coming
      <3>3. QED
        BY <1>1, <3>2 DEF Station!PinInv
    <2>2. QED
      BY <2>1 DEF Station!PinsAtRest
  <1>7. QED
    BY <1>1, <1>3, <1>4, <1>5, <1>6

\* The inductive invariant of the LEDs and pins: whatever is wrong now, a
\* thread has an assignment left that puts it right (Gateway.cpp:90-161,
\* gpioProtocol.cpp:172-259).
THEOREM PinInvariance == PartsSpec => [](part = "pins" => Station!IInv)
  <1> DEFINE Inv == part = "pins" => Station!IInv
  <1>1. PartsInit => Inv
    BY PinInit DEF PartsInit
  <1>2. Inv /\ [PartsNext]_partsVars => Inv'
    <2> SUFFICES ASSUME Station!IInv, part' = part, [PartsNext]_partsVars, part = "pins"
                 PROVE  Station!IInv'
      BY DEF PartsNext, partsVars
    <2>1. [Station!Next]_(Station!vars)
      BY DEF PartsNext, partsVars, pinVars, Station!vars
    <2>2. PinStep
      BY <2>1, PinSteps
    <2>3. QED
      BY <2>2, PinNextTypeOK, PinNextProgram, PinNextProcess, PinNextAgree, PinNextOffline,
         PinNextDark, PinNextVerdict, PinNextWarning, PinNextPins DEF Station!IInv
  <1>3. QED
    BY <1>1, <1>2, PTL DEF PartsSpec

\* The LEDs show verdict and connection, and the pins are at rest, whatever
\* messages, events, tests and exits met, and however many threads handled
\* them (Gateway.cpp:90-161, gpioProtocol.cpp:172-259).
THEOREM PinsShowTheStateAlways == PartsSpec => []PinsShowTheState
  <1>1. (part = "pins" => Station!IInv) => PinsShowTheState
    BY PinKeeps DEF PinsShowTheState
  <1>2. QED
    BY <1>1, PinInvariance, PTL

-----------------------------------------------------------------------------
(* The log files.                                                          *)

LEMMA LogConstants ==
  /\ MaxDay \in Nat \ {0}
  /\ DateOf \in [Other -> Log!Days \cup {NoDate, Short}]
  /\ Gone \notin Log!File /\ Nowhere \notin Log!File
  /\ IsFiniteSet(Loggers) /\ IsFiniteSet(Other)
  /\ maxLogFileSize \in Nat \ {0} /\ maxNumLogFiles \in Nat \ {0} /\ Line \in Nat \ {0}
  BY PartsAssumption, Zenon
  DEF Log!LogFilesAssumption, Log!IsFiniteSet, IsFiniteSet

LEMMA LogCardinality == \A S : Log!Cardinality(S) = Cardinality(S)
  BY DEF Log!Cardinality, Cardinality

USE LogConstants

\* The files and the threads are finitely many.
LEMMA LogFinite ==
  /\ \A S \in SUBSET Log!File : IsFiniteSet(S) /\ Cardinality(S) \in Nat
  /\ \A S \in SUBSET Loggers :
       /\ IsFiniteSet(S) /\ Cardinality(S) \in Nat
       /\ Cardinality(S) <= Cardinality(Loggers)
  /\ Cardinality(Loggers) \in Nat
  <1>1. IsFiniteSet(Log!Days)
    BY FS_Interval DEF Log!Days
  <1>2. IsFiniteSet(Log!File)
    BY <1>1, FS_Union DEF Log!File
  <1>3. QED
    BY <1>2, FS_Subset, FS_CardinalityType

LEMMA LogMin ==
  ASSUME NEW a \in Nat, NEW b \in Nat
  PROVE  /\ Log!Min({a, b}) \in {a, b}
         /\ Log!Min({a, b}) <= a /\ Log!Min({a, b}) <= b
  <1>1. \E x \in {a, b} : \A y \in {a, b} : x <= y
    <2>1. CASE a <= b
      BY <2>1
    <2>2. CASE b <= a
      BY <2>2
    <2>3. QED
      BY <2>1, <2>2
  <1>2. /\ Log!Min({a, b}) \in {a, b}
        /\ \A y \in {a, b} : Log!Min({a, b}) <= y
    BY <1>1 DEF Log!Min
  <1>3. QED
    BY <1>2

LEMMA LogTimes ==
  ASSUME NEW a \in Nat, NEW b \in Nat
  PROVE  /\ a * Line \in Nat /\ a <= b => a * Line <= b * Line
         /\ (a + 1) * Line = a * Line + Line
  OBVIOUS

\* A file with a date has one of the days.
LEMMA LogDates ==
  ASSUME Log!TypeOK
  PROVE  /\ Log!Dated \in SUBSET DOMAIN files /\ Log!Dated \in SUBSET Log!File
         /\ \A f \in Log!Dated : Log!Date(f) \in Log!Days /\ Log!Date(f) \in Nat
  <1>1. \A f \in Log!File : Log!Date(f) \in Log!Days \cup {NoDate, Short}
    BY DEF Log!Date, Log!File
  <1>2. Log!Days \subseteq Nat
    BY DEF Log!Days
  <1>3. QED
    BY <1>1, <1>2 DEF Log!Dated, Log!TypeOK

LEMMA LogInit == Log!Init => Log!IInv
  <1> SUFFICES ASSUME Log!Init PROVE Log!IInv
    OBVIOUS
  <1> USE DEF Log!Init
  <1>1. Log!TypeOK
    <2>1. PICK D \in SUBSET Log!Days, O \in SUBSET Other : files = [f \in D \cup O |-> 0]
      OBVIOUS
    <2>2. files \in [DOMAIN files -> Nat] /\ DOMAIN files \subseteq Log!File
      BY <2>1 DEF Log!File
    <2>3. QED
      BY <2>2 DEF Log!TypeOK
  <1>2. Log!SizeInv
    <2>1. ASSUME NEW f \in DOMAIN files
          PROVE  files[f] + Cardinality(Log!Appending(f)) * Line
                   < maxLogFileSize + Cardinality(Loggers) * Line
      <3>1. f # Nowhere
        BY <1>1 DEF Log!TypeOK
      <3>2. Log!Appending(f) = {}
        BY <3>1 DEF Log!Appending
      <3>3. Cardinality(Log!Appending(f)) = 0
        BY <3>2, FS_EmptySet
      <3>4. files[f] = 0 /\ 0 * Line = 0 /\ Cardinality(Loggers) * Line \in Nat
        BY LogFinite, LogTimes
      <3>5. QED
        BY <3>3, <3>4
    <2>2. QED
      BY <2>1, LogCardinality DEF Log!SizeInv
  <1>3. Log!KeptInv /\ Log!FewInv
    BY DEF Log!KeptInv, Log!FewInv
  <1>4. QED
    BY <1>1, <1>2, <1>3 DEF Log!IInv

LEMMA LogNextTypeOK ==
  ASSUME Log!TypeOK, [Log!Next]_(Log!vars)
  PROVE  Log!TypeOK'
  <1> USE DEF Log!TypeOK
  <1>1. CASE Log!SetClock
    BY <1>1 DEF Log!SetClock
  <1>2. ASSUME NEW t \in Loggers, Log!OpenFile(t)
        PROVE  Log!TypeOK'
    <2> DEFINE size == IF day \in DOMAIN files THEN files[day] ELSE 0
    <2>1. size \in Nat
      OBVIOUS
    <2>2. /\ files' = [f \in DOMAIN files \cup {day} |-> IF f = day THEN size ELSE files[f]]
          /\ open' = [open EXCEPT ![t] = IF Log!checkLogFileSize(size) THEN day ELSE Nowhere]
      BY <1>2 DEF Log!OpenFile
    <2>3. DOMAIN files' = DOMAIN files \cup {day} /\ day \in Log!File
      BY <2>2 DEF Log!File
    <2>4. files' \in [DOMAIN files' -> Nat]
      BY <2>1, <2>2, <2>3
    <2>5. open' \in [Loggers -> Log!Days \cup {Nowhere, Gone}]
      BY <2>2
    <2>6. /\ spared' \in SUBSET Log!File /\ doomed' \subseteq DOMAIN files'
          /\ UNCHANGED <<day, removing, crashed>>
      BY <1>2, <2>3 DEF Log!OpenFile
    <2>7. QED
      BY <2>3, <2>4, <2>5, <2>6
  <1>3. ASSUME NEW t \in Loggers, Log!Append(t)
        PROVE  Log!TypeOK'
    <2>1. files' \in [DOMAIN files -> Nat] /\ DOMAIN files' = DOMAIN files
      <3>1. CASE open[t] = Gone
        BY <1>3, <3>1 DEF Log!Append
      <3>2. CASE open[t] # Gone
        <4> DEFINE S == DOMAIN files
                   g == open[t]
        <4>1. files' = [files EXCEPT ![g] = files[g] + Line]
          BY <1>3, <3>2 DEF Log!Append
        <4>2. files \in [S -> Nat]
          OBVIOUS
        <4> HIDE DEF S, g
        <4>3. DOMAIN files' = S /\ \A f \in S : files'[f] \in Nat
          BY <4>1, <4>2
        <4>4. files' = [f \in S |-> files'[f]]
          BY <4>1, <4>2
        <4>5. QED
          BY <4>3, <4>4 DEF S
      <3>3. QED
        BY <3>1, <3>2
    <2>2. open' \in [Loggers -> Log!Days \cup {Nowhere, Gone}]
      BY <1>3 DEF Log!Append
    <2>3. UNCHANGED <<day, doomed, removing, crashed, spared>>
      BY <1>3 DEF Log!Append
    <2>4. QED
      BY <2>1, <2>2, <2>3
  <1>4. CASE Log!ReadDirectory
    BY <1>4, LogDates DEF Log!ReadDirectory
  <1>5. ASSUME NEW f \in doomed, Log!Remove(f)
        PROVE  Log!TypeOK'
    <2>1. /\ files' \in [DOMAIN files' -> Nat] /\ DOMAIN files' \subseteq Log!File
          /\ doomed' \subseteq DOMAIN files'
          /\ open' \in [Loggers -> Log!Days \cup {Nowhere, Gone}]
          /\ spared' \subseteq Log!File
      <3>1. CASE /\ files' = Log!Restrict(files, DOMAIN files \ {f})
                 /\ open' = [t \in Loggers |-> IF open[t] = f THEN Gone ELSE open[t]]
                 /\ UNCHANGED spared
        BY <1>5, <3>1 DEF Log!Restrict, Log!Remove
      <3>2. CASE spared' = spared \cup {f} /\ UNCHANGED <<files, open>>
        BY <1>5, <3>2 DEF Log!Remove
      <3>3. QED
        BY <1>5, <3>1, <3>2 DEF Log!Remove
    <2>2. QED
      BY <1>5, <2>1 DEF Log!Remove
  <1>6. CASE Log!EndCheck
    BY <1>6 DEF Log!EndCheck
  <1>7. CASE UNCHANGED Log!vars
    BY <1>7 DEF Log!vars
  <1>8. QED
    BY <1>1, <1>2, <1>3, <1>4, <1>5, <1>6, <1>7 DEF Log!Next

\* What a file has still to grow never gets more (Log.cpp:117-127).
LEMMA LogNextSize ==
  ASSUME Log!TypeOK, Log!SizeInv, Log!TypeOK', [Log!Next]_(Log!vars)
  PROVE  Log!SizeInv'
  <1> DEFINE Most == maxLogFileSize + Cardinality(Loggers) * Line
             C(S) == Cardinality(S) * Line
  <1>1. /\ \A f : Log!Appending(f) \in SUBSET Loggers /\ Log!Appending(f)' \in SUBSET Loggers
        /\ \A S \in SUBSET Loggers : C(S) \in Nat /\ C(S) <= C(Loggers)
        /\ Most \in Nat
    BY LogFinite, LogTimes DEF Log!Appending
  <1>2. \A f \in DOMAIN files : files[f] \in Nat /\ files[f] + C(Log!Appending(f)) < Most
    BY LogCardinality DEF Log!SizeInv, Log!TypeOK
  <1>3. ASSUME NEW S \in SUBSET Loggers, NEW T \in SUBSET S
        PROVE  C(T) <= C(S)
    <2>1. Cardinality(T) \in Nat /\ Cardinality(S) \in Nat /\ Cardinality(T) <= Cardinality(S)
      BY LogFinite, FS_Subset
    <2>2. QED
      BY <2>1, LogTimes
  <1>4. SUFFICES \A f \in DOMAIN files' : files'[f] + C(Log!Appending(f)') < Most
    BY LogCardinality DEF Log!SizeInv
  <1> HIDE DEF Most, C
  <1>5. ASSUME \A f \in DOMAIN files' :
                 f \in DOMAIN files /\ files'[f] = files[f] /\ Log!Appending(f)' \subseteq Log!Appending(f)
        PROVE  \A f \in DOMAIN files' : files'[f] + C(Log!Appending(f)') < Most
    <2> SUFFICES ASSUME NEW f \in DOMAIN files'
                 PROVE  files'[f] + C(Log!Appending(f)') < Most
      OBVIOUS
    <2>1. C(Log!Appending(f)') <= C(Log!Appending(f)) /\ files'[f] = files[f] /\ f \in DOMAIN files
      BY <1>1, <1>3, <1>5
    <2>2. C(Log!Appending(f)') \in Nat /\ C(Log!Appending(f)) \in Nat
      BY <1>1
    <2>3. QED
      BY <1>1, <1>2, <2>1, <2>2
  <1>6. ASSUME UNCHANGED <<files, open>>
        PROVE  \A f \in DOMAIN files' : files'[f] + C(Log!Appending(f)') < Most
    BY <1>5, <1>6 DEF Log!Appending
  <1>7. ASSUME NEW t \in Loggers, Log!OpenFile(t)
        PROVE  \A f \in DOMAIN files' : files'[f] + C(Log!Appending(f)') < Most
    <2> DEFINE size == IF day \in DOMAIN files THEN files[day] ELSE 0
    <2>1. /\ files' = [f \in DOMAIN files \cup {day} |-> IF f = day THEN size ELSE files[f]]
          /\ open' = [open EXCEPT ![t] = IF size < maxLogFileSize THEN day ELSE Nowhere]
      BY <1>7 DEF Log!OpenFile, Log!checkLogFileSize
    <2>2. size \in Nat /\ (day \in DOMAIN files => files[day] = size)
      BY DEF Log!TypeOK
    <2> HIDE DEF size
    <2> SUFFICES ASSUME NEW f \in DOMAIN files'
                 PROVE  files'[f] + C(Log!Appending(f)') < Most
      OBVIOUS
    <2>3. /\ f \in DOMAIN files \cup {day}
          /\ files'[f] = IF f = day THEN size ELSE files[f]
          /\ f # Nowhere
      BY <2>1 DEF Log!TypeOK
    <2>4. CASE f = day /\ size < maxLogFileSize
      BY <1>1, <2>2, <2>3, <2>4 DEF Most, C
    <2>5. CASE f # day \/ ~(size < maxLogFileSize)
      <3>1. Log!Appending(f)' \subseteq Log!Appending(f)
        BY <2>1, <2>3, <2>5 DEF Log!Appending, Log!TypeOK
      <3>2. CASE f \in DOMAIN files
        <4>1. files'[f] = files[f]
          BY <2>2, <2>3, <3>2
        <4>2. C(Log!Appending(f)') \in Nat /\ C(Log!Appending(f)) \in Nat
              /\ C(Log!Appending(f)') <= C(Log!Appending(f))
          BY <1>1, <1>3, <3>1
        <4>3. QED
          BY <1>1, <1>2, <3>2, <4>1, <4>2
      <3>3. CASE f \notin DOMAIN files
        BY <2>2, <2>3, <2>5, <3>3 DEF size
      <3>4. QED
        BY <3>2, <3>3
    <2>6. QED
      BY <2>4, <2>5
  <1>8. ASSUME NEW t \in Loggers, Log!Append(t)
        PROVE  \A f \in DOMAIN files' : files'[f] + C(Log!Appending(f)') < Most
    <2>1. /\ open[t] # Nowhere /\ open' = [open EXCEPT ![t] = Nowhere]
          /\ files' = IF open[t] = Gone THEN files ELSE [files EXCEPT ![open[t]] = @ + Line]
      BY <1>8 DEF Log!Append
    <2> SUFFICES ASSUME NEW f \in DOMAIN files'
                 PROVE  files'[f] + C(Log!Appending(f)') < Most
      OBVIOUS
    <2>2. f \in DOMAIN files /\ f # Nowhere /\ f # Gone
      BY <2>1 DEF Log!TypeOK
    <2>3. CASE open[t] = f
      <3>1. files'[f] = files[f] + Line
        BY <2>1, <2>2, <2>3
      <3>2. Log!Appending(f)' = Log!Appending(f) \ {t} /\ t \in Log!Appending(f)
        BY <2>1, <2>2, <2>3 DEF Log!Appending, Log!TypeOK
      <3>3. /\ Cardinality(Log!Appending(f)') \in Nat
            /\ Cardinality(Log!Appending(f)) = Cardinality(Log!Appending(f)') + 1
        BY <1>1, <3>2, LogFinite, FS_RemoveElement
      <3>4. C(Log!Appending(f)) = C(Log!Appending(f)') + Line
        BY <3>3, LogTimes DEF C
      <3>5. C(Log!Appending(f)') \in Nat
        BY <1>1
      <3>6. QED
        BY <1>1, <1>2, <2>2, <3>1, <3>4, <3>5
    <2>4. CASE open[t] # f
      <3>1. files'[f] = files[f] /\ Log!Appending(f)' \subseteq Log!Appending(f)
        BY <2>1, <2>2, <2>4 DEF Log!Appending, Log!TypeOK
      <3>2. C(Log!Appending(f)') \in Nat /\ C(Log!Appending(f)) \in Nat
            /\ C(Log!Appending(f)') <= C(Log!Appending(f))
        BY <1>1, <1>3, <3>1
      <3>3. QED
        BY <1>1, <1>2, <2>2, <3>1, <3>2
    <2>5. QED
      BY <2>3, <2>4
  <1>9. ASSUME NEW g \in doomed, Log!Remove(g)
        PROVE  \A f \in DOMAIN files' : files'[f] + C(Log!Appending(f)') < Most
    <2>1. CASE UNCHANGED <<files, open>>
      BY <1>6, <2>1
    <2>2. CASE /\ files' = Log!Restrict(files, DOMAIN files \ {g})
               /\ open' = [t \in Loggers |-> IF open[t] = g THEN Gone ELSE open[t]]
      <3>1. ASSUME NEW f \in DOMAIN files'
            PROVE  /\ f \in DOMAIN files /\ files'[f] = files[f]
                   /\ Log!Appending(f)' \subseteq Log!Appending(f)
        <4>1. f \in DOMAIN files /\ f # g /\ files'[f] = files[f] /\ f # Gone
          BY <2>2 DEF Log!Restrict, Log!TypeOK
        <4>2. QED
          BY <2>2, <4>1 DEF Log!Appending
      <3>2. QED
        BY <1>5, <3>1
    <2>3. QED
      BY <1>9, <2>1, <2>2 DEF Log!Remove
  <1>10. QED
    BY <1>6, <1>7, <1>8, <1>9
    DEF Log!Next, Log!vars, Log!SetClock, Log!ReadDirectory, Log!EndCheck

\* The newest are taken out of the files with a date (Log.cpp:231-252).
LEMMA LogTooOld ==
  ASSUME Log!TypeOK, NEW S \in SUBSET Log!Dated, Log!TooOld(S)
  PROVE  \E K \in SUBSET (Log!Dated \ S) :
           /\ Cardinality(K) <= maxNumLogFiles
           /\ S # {} => Cardinality(K) = maxNumLogFiles
           /\ S = Log!Dated \ K
           /\ \A k \in K, f \in S : Log!Date(f) <= Log!Date(k)
  <1> DEFINE n == Cardinality(Log!Dated)
  <1>1. IsFiniteSet(Log!Dated) /\ n \in Nat
    BY LogDates, LogFinite
  <1>2. PICK K \in SUBSET Log!Dated :
          /\ Cardinality(K) = Log!Min({maxNumLogFiles, n})
          /\ \A k \in K, f \in Log!Dated \ K : Log!Date(f) <= Log!Date(k)
          /\ S = Log!Dated \ K
    BY LogCardinality DEF Log!TooOld
  <1>3. Cardinality(K) \in {maxNumLogFiles, n} /\ Cardinality(K) <= maxNumLogFiles
    BY <1>1, <1>2, LogMin
  <1>4. Cardinality(K) = n => K = Log!Dated
    BY <1>1, FS_Subset
  <1>5. S # {} => Cardinality(K) = maxNumLogFiles
    BY <1>2, <1>3, <1>4
  <1>6. K \in SUBSET (Log!Dated \ S)
    BY <1>2
  <1>7. QED
    BY <1>2, <1>3, <1>5, <1>6

\* How a step changes the files with a date.
LEMMA LogNextDated ==
  ASSUME Log!TypeOK, [Log!Next]_(Log!vars)
  PROVE  \/ /\ Log!Dated \subseteq Log!Dated' /\ Log!Dated' \subseteq Log!Dated \cup (DOMAIN files' \ DOMAIN files)
            /\ DOMAIN files \subseteq DOMAIN files'
         \/ \E f \in doomed :
              /\ Log!Remove(f) /\ Log!Dated' = Log!Dated \ {f}
              /\ DOMAIN files' = DOMAIN files \ {f} /\ spared' = spared
  <1>1. ASSUME DOMAIN files \subseteq DOMAIN files'
        PROVE  /\ Log!Dated \subseteq Log!Dated'
               /\ Log!Dated' \subseteq Log!Dated \cup (DOMAIN files' \ DOMAIN files)
    BY <1>1 DEF Log!Dated, Log!Date
  <1>2. ASSUME NEW t \in Loggers, Log!OpenFile(t)
        PROVE  DOMAIN files \subseteq DOMAIN files'
    BY <1>2 DEF Log!OpenFile
  <1>3. ASSUME NEW t \in Loggers, Log!Append(t)
        PROVE  DOMAIN files \subseteq DOMAIN files'
    BY <1>3 DEF Log!Append
  <1>4. ASSUME NEW f \in doomed, Log!Remove(f)
        PROVE  \/ DOMAIN files \subseteq DOMAIN files'
               \/ /\ Log!Dated' = Log!Dated \ {f} /\ DOMAIN files' = DOMAIN files \ {f}
                  /\ spared' = spared
    <2>1. CASE files' = files
      BY <2>1
    <2>2. CASE files' = Log!Restrict(files, DOMAIN files \ {f}) /\ spared' = spared
      <3>1. DOMAIN files' = DOMAIN files \ {f}
        BY <2>2 DEF Log!Restrict
      <3>2. QED
        BY <2>2, <3>1 DEF Log!Dated, Log!Date
    <2>3. QED
      BY <1>4, <2>1, <2>2 DEF Log!Remove
  <1>5. CASE UNCHANGED files
    BY <1>1, <1>5
  <1>6. QED
    BY <1>1, <1>2, <1>3, <1>4, <1>5
    DEF Log!Next, Log!vars, Log!SetClock, Log!ReadDirectory, Log!EndCheck

LEMMA LogDate == \A f : Log!Date(f)' = Log!Date(f)
  BY DEF Log!Date

\* How a step changes the files that are to be removed.
LEMMA LogNextDoomed ==
  ASSUME [Log!Next]_(Log!vars)
  PROVE  \/ doomed' = doomed /\ (removing' <=> removing)
         \/ Log!ReadDirectory
         \/ \E f \in doomed : Log!Remove(f)
         \/ Log!EndCheck
  BY DEF Log!Next, Log!vars, Log!SetClock, Log!OpenFile, Log!Append

LEMMA LogNextKept ==
  ASSUME Log!TypeOK, Log!TypeOK', Log!KeptInv, Log!FewInv, [Log!Next]_(Log!vars)
  PROVE  Log!KeptInv'
  <1> SUFFICES ASSUME doomed' # {}
               PROVE  \E K \in SUBSET (Log!Dated' \ doomed') :
                        /\ Cardinality(K) = maxNumLogFiles
                        /\ \A k \in K, f \in doomed' : Log!Date(f) <= Log!Date(k)
    BY LogCardinality, LogDate DEF Log!KeptInv
  <1>1. ASSUME doomed # {}, doomed' \subseteq doomed, Log!Dated \ doomed \subseteq Log!Dated'
        PROVE  \E K \in SUBSET (Log!Dated' \ doomed') :
                 /\ Cardinality(K) = maxNumLogFiles
                 /\ \A k \in K, f \in doomed' : Log!Date(f) <= Log!Date(k)
    <2>1. PICK K \in SUBSET (Log!Dated \ doomed) :
                 /\ Cardinality(K) = maxNumLogFiles
                 /\ \A k \in K, f \in doomed : Log!Date(f) <= Log!Date(k)
      BY <1>1, LogCardinality DEF Log!KeptInv
    <2>2. K \in SUBSET (Log!Dated' \ doomed')
      BY <1>1
    <2>3. QED
      BY <1>1, <2>1, <2>2
  <1>2. CASE Log!ReadDirectory /\ ~(doomed' = doomed)
    <2>1. Log!Dated' = Log!Dated
      BY <1>2 DEF Log!ReadDirectory, Log!Dated, Log!Date
    <2>2. doomed' \in SUBSET Log!Dated /\ Log!TooOld(doomed')
      BY <1>2 DEF Log!ReadDirectory
    <2>3. QED
      BY <2>1, <2>2, LogTooOld
  <1>3. ASSUME NEW f \in doomed, Log!Remove(f)
        PROVE  doomed # {} /\ doomed' \subseteq doomed /\ Log!Dated \ doomed \subseteq Log!Dated'
    <2>1. Log!Dated' = Log!Dated \ {f} \/ Log!Dated \subseteq Log!Dated'
      <3>1. doomed' = doomed \ {f} /\ doomed # {}
        BY <1>3 DEF Log!Remove
      <3>2. ASSUME NEW g \in doomed, Log!Remove(g) PROVE g = f
        BY <1>3, <3>1, <3>2 DEF Log!Remove
      <3>3. QED
        BY LogNextDated, <3>2
    <2>2. QED
      BY <1>3, <2>1 DEF Log!Remove
  <1>4. CASE doomed' = doomed /\ ~(\E f \in doomed : Log!Remove(f))
    <2>1. Log!Dated \subseteq Log!Dated'
      BY <1>4, LogNextDated
    <2>2. QED
      BY <1>1, <1>4, <2>1
  <1>5. CASE Log!EndCheck
    BY <1>5 DEF Log!EndCheck
  <1>6. CASE \E f \in doomed : Log!Remove(f)
    BY <1>1, <1>3, <1>6
  <1>7. QED
    BY <1>2, <1>4, <1>5, <1>6, LogNextDoomed

LEMMA LogNextFew ==
  ASSUME Log!TypeOK, Log!TypeOK', Log!FewInv, [Log!Next]_(Log!vars)
  PROVE  Log!FewInv'
  <1> DEFINE Left == Log!Dated \ (spared \cup doomed)
  <1>1. ASSUME removing', removing, Left' \subseteq Left
        PROVE  Cardinality(Left') <= maxNumLogFiles
    <2>1. Cardinality(Left) <= maxNumLogFiles
      BY <1>1, LogCardinality DEF Log!FewInv
    <2>2. Left \in SUBSET Log!File
      BY LogDates
    <2>3. /\ IsFiniteSet(Left) /\ Cardinality(Left) \in Nat
          /\ Cardinality(Left') \in Nat /\ Cardinality(Left') <= Cardinality(Left)
      BY <1>1, <2>2, LogFinite, FS_Subset
    <2>4. QED
      BY <2>1, <2>3
  <1>2. SUFFICES /\ doomed' \subseteq Log!Dated'
                 /\ removing' => Cardinality(Left') <= maxNumLogFiles
                 /\ ~removing' => doomed' = {}
    BY LogCardinality DEF Log!FewInv, Log!TypeOK
  <1>3. /\ doomed \subseteq Log!Dated
        /\ ~removing => doomed = {}
    BY DEF Log!FewInv
  <1>4. CASE /\ doomed' = doomed /\ (removing' <=> removing)
             /\ ~(\E f \in doomed : Log!Remove(f)) /\ ~Log!ReadDirectory /\ ~Log!EndCheck
    <2>1. /\ Log!Dated \subseteq Log!Dated'
          /\ Log!Dated' \subseteq Log!Dated \cup (DOMAIN files' \ DOMAIN files)
      BY <1>4, LogNextDated
    <2>2. ASSUME removing
          PROVE  DOMAIN files' \ DOMAIN files \subseteq spared' /\ spared \subseteq spared'
      <3>1. ASSUME NEW t \in Loggers, Log!OpenFile(t)
            PROVE  DOMAIN files' \ DOMAIN files \subseteq spared' /\ spared \subseteq spared'
        BY <2>2, <3>1 DEF Log!OpenFile
      <3>2. ASSUME NEW t \in Loggers, Log!Append(t)
            PROVE  DOMAIN files' \ DOMAIN files \subseteq spared' /\ spared \subseteq spared'
        BY <3>2 DEF Log!Append
      <3>3. CASE UNCHANGED <<files, spared>>
        BY <3>3
      <3>4. QED
        BY <1>4, <3>1, <3>2, <3>3 DEF Log!Next, Log!vars, Log!SetClock
    <2>3. ASSUME removing PROVE Left' \subseteq Left
      BY <1>4, <2>1, <2>2, <2>3
    <2>4. QED
      BY <1>1, <1>3, <1>4, <2>1, <2>3
  <1>5. CASE Log!ReadDirectory
    <2>1. Log!Dated' = Log!Dated /\ spared' = {} /\ ~removing
      BY <1>5 DEF Log!ReadDirectory, Log!Dated, Log!Date
    <2>2. CASE UNCHANGED <<doomed, removing>>
      BY <1>3, <2>1, <2>2
    <2>3. CASE removing' /\ doomed' \in SUBSET Log!Dated /\ Log!TooOld(doomed')
      <3>1. PICK K \in SUBSET (Log!Dated \ doomed') :
               Cardinality(K) <= maxNumLogFiles /\ doomed' = Log!Dated \ K
        BY <2>3, LogTooOld
      <3>2. Left' = K
        BY <2>1, <3>1
      <3>3. QED
        BY <2>1, <2>3, <3>1, <3>2
    <2>4. QED
      BY <1>5, <2>2, <2>3 DEF Log!ReadDirectory
  <1>6. ASSUME NEW f \in doomed, Log!Remove(f)
        PROVE  /\ doomed' \subseteq Log!Dated' /\ removing /\ removing'
               /\ Left' \subseteq Left
    <2>1. removing /\ (removing' <=> removing) /\ doomed' = doomed \ {f}
      BY <1>6 DEF Log!Remove
    <2>2. ASSUME NEW g \in doomed, Log!Remove(g) PROVE g = f
      BY <2>1, <2>2 DEF Log!Remove
    <2>3. CASE UNCHANGED files /\ spared' = spared \cup {f}
      <3>1. Log!Dated' = Log!Dated
        BY <2>3 DEF Log!Dated, Log!Date
      <3>2. QED
        BY <1>3, <2>1, <2>3, <3>1
    <2>4. CASE files' = Log!Restrict(files, DOMAIN files \ {f}) /\ spared' = spared
      <3>1. Log!Dated' = Log!Dated \ {f}
        BY <2>4 DEF Log!Dated, Log!Date, Log!Restrict
      <3>2. QED
        BY <1>3, <2>1, <2>4, <3>1
    <2>5. QED
      BY <1>6, <2>3, <2>4 DEF Log!Remove
  <1>7. CASE Log!EndCheck
    BY <1>7 DEF Log!EndCheck
  <1>8. CASE \E f \in doomed : Log!Remove(f)
    BY <1>1, <1>6, <1>8
  <1>9. QED
    BY <1>4, <1>5, <1>7, <1>8, LogNextDoomed

LEMMA LogNext ==
  ASSUME Log!IInv, [Log!Next]_(Log!vars)
  PROVE  Log!IInv'
  BY LogNextTypeOK, LogNextSize, LogNextKept, LogNextFew DEF Log!IInv

\* No log outgrows its limit by more than a line of each thread.
LEMMA LogSize == Log!IInv => Log!SizeIsBounded
  <1> SUFFICES ASSUME Log!IInv, NEW f \in DOMAIN files
               PROVE  files[f] < maxLogFileSize + Cardinality(Loggers) * Line
    BY LogCardinality DEF Log!SizeIsBounded
  <1> DEFINE n == Cardinality(Log!Appending(f)) * Line
             Most == maxLogFileSize + Cardinality(Loggers) * Line
  <1>1. n \in Nat /\ Most \in Nat
    BY LogFinite, LogTimes DEF Log!Appending
  <1>2. files[f] \in Nat /\ files[f] + n < Most
    BY LogCardinality DEF Log!IInv, Log!TypeOK, Log!SizeInv
  <1> HIDE DEF n, Most
  <1>3. files[f] < Most
    BY <1>1, <1>2
  <1>4. QED
    BY <1>3 DEF Most

\* A file is removed while maxNumLogFiles that are not older are left.
LEMMA LogKeeps ==
  ASSUME Log!IInv, [Log!Next]_(Log!vars)
  PROVE  Log!KeepsNewest
  <1> USE DEF Log!IInv
  <1> SUFFICES ASSUME NEW f \in DOMAIN files \ DOMAIN files'
               PROVE  Cardinality({g \in Log!Dated \ {f} : Log!Date(g) >= Log!Date(f)})
                        >= maxNumLogFiles
    BY LogCardinality DEF Log!KeepsNewest
  <1> DEFINE Newer == {g \in Log!Dated \ {f} : Log!Date(g) >= Log!Date(f)}
  <1>1. f \in doomed
    BY LogNextDated
  <1>2. PICK K \in SUBSET (Log!Dated \ doomed) :
          /\ Cardinality(K) = maxNumLogFiles
          /\ \A k \in K, g \in doomed : Log!Date(g) <= Log!Date(k)
    BY <1>1, LogCardinality DEF Log!KeptInv
  <1>3. \A g \in Log!Dated : Log!Date(g) \in Nat
    BY LogDates
  <1>4. f \in Log!Dated
    BY <1>1 DEF Log!FewInv
  <1>5. K \subseteq Newer
    BY <1>1, <1>2, <1>3, <1>4
  <1>6. IsFiniteSet(Newer) /\ Cardinality(Newer) \in Nat
    BY LogDates, LogFinite
  <1>7. Cardinality(K) \in Nat /\ Cardinality(K) <= Cardinality(Newer)
    BY <1>5, <1>6, FS_Subset, FS_CardinalityType
  <1>8. QED
    BY <1>2, <1>6, <1>7

\* When a check ends, no more than maxNumLogFiles are left.
LEMMA LogLeaves ==
  ASSUME Log!IInv, [Log!Next]_(Log!vars)
  PROVE  Log!LeavesFew
  <1> SUFFICES ASSUME removing, ~removing'
               PROVE  Cardinality(Log!Dated \ spared) <= maxNumLogFiles
    BY LogCardinality DEF Log!LeavesFew
  <1>1. Log!EndCheck
    <2>1. ASSUME NEW f \in doomed, Log!Remove(f) PROVE FALSE
      BY <2>1 DEF Log!Remove
    <2>2. ~Log!ReadDirectory
      BY DEF Log!ReadDirectory
    <2>3. QED
      BY <2>1, <2>2, LogNextDoomed
  <1>2. doomed = {} /\ Cardinality(Log!Dated \ (spared \cup doomed)) <= maxNumLogFiles
    BY <1>1, LogCardinality DEF Log!EndCheck, Log!IInv, Log!FewInv
  <1>3. spared \cup doomed = spared
    BY <1>2
  <1>4. QED
    BY <1>2, <1>3

\* The inductive invariant of the log: what the threads have still to append
\* fits, a check that has something to remove keeps enough, and the files made
\* or spared since are all it leaves beyond them (Log.cpp:117-127, 231-252).
THEOREM LogInvariance == PartsSpec => [](part = "log" => Log!IInv)
  <1> DEFINE Inv == part = "log" => Log!IInv
  <1>1. PartsInit => Inv
    BY LogInit DEF PartsInit
  <1>2. Inv /\ [PartsNext]_partsVars => Inv'
    <2> SUFFICES ASSUME Log!IInv, part' = part, [PartsNext]_partsVars, part = "log"
                 PROVE  Log!IInv'
      BY DEF PartsNext, partsVars
    <2>1. [Log!Next]_(Log!vars)
      BY DEF PartsNext, partsVars, logVars, Log!vars
    <2>2. QED
      BY <2>1, LogNext
  <1>3. QED
    BY <1>1, <1>2, PTL DEF PartsSpec

\* A check of the log directory keeps the newest logs and leaves no more than
\* it should, and no log outgrows its limit by more than a line of each thread,
\* for any threads, days, files and limits (Log.cpp:117-127, 231-252).
THEOREM LogsAreTrimmedAlways == PartsSpec => LogsAreTrimmed
  <1> DEFINE Inv == part = "log" => Log!IInv
             Step == part = "log" =>
                       /\ Log!TypeOK /\ Log!SizeIsBounded
                       /\ Log!KeepsNewest /\ Log!LeavesFew
  <1>1. Inv /\ [PartsNext]_partsVars => [Step]_partsVars
    <2> SUFFICES ASSUME Log!IInv, [PartsNext]_partsVars, part = "log"
                 PROVE  Step
      OBVIOUS
    <2>1. [Log!Next]_(Log!vars)
      BY DEF PartsNext, partsVars, logVars, Log!vars
    <2>2. QED
      BY <2>1, LogSize, LogKeeps, LogLeaves DEF Log!IInv
  <1>2. QED
    BY <1>1, LogInvariance, PTL DEF PartsSpec, LogsAreTrimmed

HIDE LogConstants

-----------------------------------------------------------------------------
(* The button.                                                             *)

LEMMA BtnConstants ==
  /\ DOUBLE_CLICK_TIME \in Nat /\ MaxTime \in Nat /\ MaxPresses \in Nat
  /\ Hold \in [Button!Acts -> [from : Nat, to : Nat]]
  /\ \A a \in Button!Acts :
       Hold[a].from < Hold[a].to /\ DOUBLE_CLICK_TIME <= Hold[a].from
  /\ Never \in Int
  BY PartsAssumption DEF Button!ButtonSignalAssumption

\* What holds of the stacks.
BtnStacks ==
  /\ stack \in [Button!Threads -> Seq(Button!Frame)]
  /\ \A t \in Button!Threads : Len(stack[t]) <= 2
  /\ \A t \in Button!Threads : \A i, j \in 1 .. Len(stack[t]) :
       stack[t][i].sig = stack[t][j].sig => i = j

BtnSigOf(f) == f.sig
BtnFrame(sig, place) == [sig |-> sig, at |-> place]

LEMMA BtnAFrame ==
  ASSUME NEW f \in Button!Frame
  PROVE  /\ f = BtnFrame(f.sig, f.at)
         /\ f.sig \in Button!Signals /\ f.at # "none"
         /\ f.sig = "SIGUSR1" => f.at \in Button!Presses
         /\ f.sig = "SIGUSR2" => f.at \in Button!Releases
  BY DEF Button!Frame, BtnFrame, Button!Signals, Button!Presses, Button!Releases

\* A stack holds its frames, at most one of each signal.
LEMMA BtnFrames ==
  ASSUME BtnStacks, NEW t \in Button!Threads
  PROVE  /\ Button!Frames(t) \subseteq Button!Frame
         /\ stack[t] = <<>> <=> Button!Frames(t) = {}
         /\ stack[t] # <<>> =>
              /\ Button!Top(t) \in Button!Frames(t) /\ Len(stack[t]) \in 1 .. 2
              /\ Button!Top(t) = stack[t][Len(stack[t])]
         /\ \A f, g \in Button!Frames(t) : f.sig = g.sig => f = g
  <1> DEFINE s == stack[t]
  <1>1. s \in Seq(Button!Frame) /\ Len(s) \in Nat /\ Len(s) <= 2
    BY DEF BtnStacks
  <1>2. \A i, j \in 1 .. Len(s) : s[i].sig = s[j].sig => i = j
    BY DEF BtnStacks
  <1>3. Button!Frames(t) = {s[i] : i \in 1 .. Len(s)} /\ Button!Top(t) = s[Len(s)]
    BY DEF Button!Frames, Button!Top
  <1> HIDE DEF s
  <1>4. \A i \in 1 .. Len(s) : s[i] \in Button!Frame
    BY <1>1
  <1>5. s = <<>> <=> Len(s) = 0
    BY <1>1
  <1>6. s # <<>> => Len(s) \in 1 .. Len(s) /\ Len(s) \in 1 .. 2
    <2> DEFINE n == Len(s)
    <2>1. n \in Nat /\ n <= 2 /\ (s = <<>> <=> n = 0)
      BY <1>1, <1>5
    <2> HIDE DEF n
    <2>2. s # <<>> => n \in 1 .. n /\ n \in 1 .. 2
      BY <2>1
    <2>3. QED
      BY <2>2 DEF n
  <1>7. Button!Frames(t) = {} <=> Len(s) = 0
    BY <1>1, <1>3
  <1>8. QED
    BY <1>2, <1>3, <1>4, <1>5, <1>6, <1>7 DEF s

LEMMA BtnPush ==
  ASSUME BtnStacks, NEW t \in Button!Threads, NEW f \in Button!Frame,
         ~Button!Handles(t, f.sig), stack' = [stack EXCEPT ![t] = Append(@, f)]
  PROVE  /\ BtnStacks'
         /\ Button!Frames(t)' = Button!Frames(t) \cup {f}
         /\ \A u \in Button!Threads : u # t => Button!Frames(u)' = Button!Frames(u)
  <1> DEFINE s == stack[t]
             q == Append(s, f)
  <1>1. s \in Seq(Button!Frame) /\ Len(s) \in Nat /\ Len(s) <= 2
    BY DEF BtnStacks
  <1>2. \A i, j \in 1 .. Len(s) : s[i].sig = s[j].sig => i = j
    BY DEF BtnStacks
  <1>3. /\ stack'[t] = q
        /\ \A u \in Button!Threads : u # t => stack'[u] = stack[u]
    BY DEF BtnStacks
  <1>4. \A i \in 1 .. Len(s) : s[i].sig # f.sig
    BY DEF Button!Handles, Button!Frames
  <1>5. \A i \in 1 .. Len(s) : s[i] \in Button!Frame
    BY <1>1
  <1>6. Button!Frames(t) = {s[i] : i \in 1 .. Len(s)}
    BY DEF Button!Frames
  <1>7. Button!Frames(t)' = {q[i] : i \in 1 .. Len(q)}
    BY <1>3 DEF Button!Frames
  <1>8. stack' \in [Button!Threads -> Seq(Button!Frame)]
    BY <1>1 DEF BtnStacks
  <1> HIDE DEF s
  <1>9. /\ q \in Seq(Button!Frame) /\ Len(q) = Len(s) + 1 /\ q[Len(s) + 1] = f
        /\ \A i \in 1 .. Len(s) : q[i] = s[i]
    BY <1>1, AppendProperties
  <1> HIDE DEF q
  <1>10. Len(q) <= 2
    <2>1. CASE Len(s) = 2
      <3>1. /\ s[1].sig # s[2].sig /\ s[1].sig # f.sig /\ s[2].sig # f.sig
            /\ s[1] \in Button!Frame /\ s[2] \in Button!Frame
        BY <1>2, <1>4, <1>5, <2>1
      <3>2. s[1].sig \in Button!Signals /\ s[2].sig \in Button!Signals /\ f.sig \in Button!Signals
        BY <3>1, BtnAFrame
      <3>3. QED
        BY <3>1, <3>2 DEF Button!Signals
    <2>2. CASE Len(s) # 2
      <3> DEFINE n == Len(s)
                 m == Len(q)
      <3>1. n \in Nat /\ n <= 2 /\ m = n + 1 /\ n # 2
        BY <1>1, <1>9, <2>2
      <3> HIDE DEF n, m
      <3>2. m <= 2
        BY <3>1
      <3>3. QED
        BY <3>2 DEF m
    <2>3. QED
      BY <2>1, <2>2
  <1>11. \A i, j \in 1 .. Len(q) : q[i].sig = q[j].sig => i = j
    <2> SUFFICES ASSUME NEW i \in 1 .. Len(q), NEW j \in 1 .. Len(q), q[i].sig = q[j].sig
                 PROVE  i = j
      OBVIOUS
    <2>1. CASE i \in 1 .. Len(s) /\ j \in 1 .. Len(s)
      BY <1>2, <1>9, <2>1
    <2>2. CASE i = Len(s) + 1 /\ j \in 1 .. Len(s)
      BY <1>4, <1>9, <2>2
    <2>3. CASE j = Len(s) + 1 /\ i \in 1 .. Len(s)
      BY <1>4, <1>9, <2>3
    <2>4. QED
      BY <1>1, <1>9, <2>1, <2>2, <2>3
  <1>12. Button!Frames(t)' = Button!Frames(t) \cup {f}
    <2>1. Button!Frames(t)' \subseteq Button!Frames(t) \cup {f}
      <3> SUFFICES ASSUME NEW i \in 1 .. Len(q) PROVE q[i] \in Button!Frames(t) \cup {f}
        BY <1>7
      <3>1. CASE i \in 1 .. Len(s)
        BY <1>6, <1>9, <3>1
      <3>2. CASE i = Len(s) + 1
        BY <1>9, <3>2
      <3>3. QED
        BY <1>1, <1>9, <3>1, <3>2
    <2>2. f \in Button!Frames(t)'
      <3>1. Len(s) + 1 \in 1 .. Len(q) /\ q[Len(s) + 1] = f
        BY <1>1, <1>9
      <3>2. QED
        BY <1>7, <3>1
    <2>3. Button!Frames(t) \subseteq Button!Frames(t)'
      <3> SUFFICES ASSUME NEW i \in 1 .. Len(s) PROVE s[i] \in Button!Frames(t)'
        BY <1>6
      <3>1. i \in 1 .. Len(q) /\ q[i] = s[i]
        BY <1>1, <1>9
      <3>2. QED
        BY <1>7, <3>1
    <2>4. QED
      BY <2>1, <2>2, <2>3
  <1>13. \A u \in Button!Threads : u # t => Button!Frames(u)' = Button!Frames(u)
    BY <1>3 DEF Button!Frames
  <1>14. BtnStacks'
    BY <1>3, <1>8, <1>10, <1>11 DEF BtnStacks
  <1>15. QED
    BY <1>12, <1>13, <1>14

LEMMA BtnMove ==
  ASSUME BtnStacks, NEW t \in Button!Threads, stack[t] # <<>>, NEW place,
         BtnFrame(Button!Top(t).sig, place) \in Button!Frame, Button!Moves(t, place)
  PROVE  /\ BtnStacks'
         /\ Button!Frames(t)' =
              {f \in Button!Frames(t) : f.sig # Button!Top(t).sig}
                \cup {BtnFrame(Button!Top(t).sig, place)}
         /\ \A u \in Button!Threads : u # t => Button!Frames(u)' = Button!Frames(u)
  <1> DEFINE s == stack[t]
             n == Len(s)
             g == BtnFrame(s[n].sig, place)
             q == stack'[t]
  <1>1. s \in Seq(Button!Frame) /\ n \in Nat /\ n <= 2
    BY DEF BtnStacks
  <1>2. /\ \A i, j \in 1 .. n : s[i].sig = s[j].sig => i = j
        /\ \A i \in 1 .. n : s[i] \in Button!Frame
    BY <1>1 DEF BtnStacks
  <1>3. n \in 1 .. n /\ Button!Top(t) = s[n]
    BY BtnFrames
  <1>4. [s[n] EXCEPT !.at = place] = g /\ g \in Button!Frame
    <2>1. s[n] \in Button!Frame
      BY <1>2, <1>3
    <2>2. s[n] = BtnFrame(s[n].sig, s[n].at)
      BY <2>1, BtnAFrame
    <2> DEFINE a == s[n].sig
               b == s[n].at
    <2>3. s[n] = [sig |-> a, at |-> b]
      BY <2>2 DEF BtnFrame
    <2> HIDE DEF a, b
    <2>4. [s[n] EXCEPT !.at = place] = [sig |-> a, at |-> place]
      BY <2>3
    <2>5. QED
      BY <1>3, <2>4 DEF a, BtnFrame
  <1>5. stack' = [stack EXCEPT ![t] = [s EXCEPT ![n] = g]]
    BY <1>3, <1>4 DEF Button!Moves
  <1>6. /\ q = [s EXCEPT ![n] = g]
        /\ \A u \in Button!Threads : u # t => stack'[u] = stack[u]
        /\ stack' = [u \in Button!Threads |-> stack'[u]]
    BY <1>5 DEF BtnStacks
  <1>7. Button!Frames(t) = {s[i] : i \in 1 .. n} /\ Button!Frames(t)' = {q[i] : i \in 1 .. Len(q)}
    BY DEF Button!Frames
  <1>8. \A u \in Button!Threads : u # t => Button!Frames(u)' = Button!Frames(u)
    BY <1>6 DEF Button!Frames
  <1> HIDE DEF s, g
  <1>9. /\ q \in Seq(Button!Frame) /\ Len(q) = n
        /\ \A i \in 1 .. n : q[i] = IF i = n THEN g ELSE s[i]
    BY <1>1, <1>3, <1>4, <1>6, ExceptSeq
  <1>10. g.sig = s[n].sig
    BY DEF g, BtnFrame
  <1> HIDE DEF n, q
  <1>11. \A i \in 1 .. n : q[i].sig = s[i].sig
    BY <1>9, <1>10
  <1>12. BtnStacks'
    <2>1. stack' \in [Button!Threads -> Seq(Button!Frame)]
      BY <1>6, <1>9 DEF BtnStacks, q
    <2>2. Len(stack'[t]) <= 2 /\ \A i, j \in 1 .. Len(q) : q[i].sig = q[j].sig => i = j
      BY <1>1, <1>2, <1>9, <1>11 DEF q
    <2>3. QED
      BY <1>6, <2>1, <2>2 DEF BtnStacks, q
  <1>13. Button!Frames(t)' = {f \in Button!Frames(t) : f.sig # s[n].sig} \cup {g}
    <2>1. Button!Frames(t)' \subseteq {f \in Button!Frames(t) : f.sig # s[n].sig} \cup {g}
      <3> SUFFICES ASSUME NEW i \in 1 .. n
                   PROVE  q[i] \in {f \in Button!Frames(t) : f.sig # s[n].sig} \cup {g}
        BY <1>7, <1>9
      <3>1. CASE i = n
        BY <1>9, <3>1
      <3>2. CASE i # n
        <4>1. q[i] = s[i] /\ s[i].sig # s[n].sig /\ s[i] \in Button!Frames(t)
          BY <1>2, <1>3, <1>7, <1>9, <3>2
        <4>2. QED
          BY <4>1
      <3>3. QED
        BY <3>1, <3>2
    <2>2. g \in Button!Frames(t)'
      <3>1. q[n] = g /\ n \in 1 .. Len(q)
        BY <1>3, <1>9
      <3>2. QED
        BY <1>7, <3>1
    <2>3. {f \in Button!Frames(t) : f.sig # s[n].sig} \subseteq Button!Frames(t)'
      <3> SUFFICES ASSUME NEW i \in 1 .. n, s[i].sig # s[n].sig
                   PROVE  s[i] \in Button!Frames(t)'
        BY <1>7
      <3>1. i # n /\ q[i] = s[i] /\ i \in 1 .. Len(q)
        BY <1>9
      <3>2. QED
        BY <1>7, <3>1
    <2>4. QED
      BY <2>1, <2>2, <2>3
  <1>14. QED
    BY <1>3, <1>8, <1>12, <1>13 DEF g

LEMMA BtnPop ==
  ASSUME BtnStacks, NEW t \in Button!Threads, stack[t] # <<>>, Button!Pops(t)
  PROVE  /\ BtnStacks'
         /\ Button!Frames(t)' = {f \in Button!Frames(t) : f.sig # Button!Top(t).sig}
         /\ \A u \in Button!Threads : u # t => Button!Frames(u)' = Button!Frames(u)
  <1> DEFINE s == stack[t]
             n == Len(s)
             q == stack'[t]
  <1>1. s \in Seq(Button!Frame) /\ n \in Nat /\ n <= 2
    BY DEF BtnStacks
  <1>2. /\ \A i, j \in 1 .. n : s[i].sig = s[j].sig => i = j
        /\ \A i \in 1 .. n : s[i] \in Button!Frame
    BY <1>1 DEF BtnStacks
  <1>3. n \in 1 .. n /\ Button!Top(t) = s[n]
    BY BtnFrames
  <1>4. stack' = [stack EXCEPT ![t] = SubSeq(s, 1, n - 1)]
    BY DEF Button!Pops
  <1>5. /\ q = SubSeq(s, 1, n - 1)
        /\ \A u \in Button!Threads : u # t => stack'[u] = stack[u]
        /\ stack' = [u \in Button!Threads |-> stack'[u]]
    BY <1>4 DEF BtnStacks
  <1>6. Button!Frames(t) = {s[i] : i \in 1 .. n} /\ Button!Frames(t)' = {q[i] : i \in 1 .. Len(q)}
    BY DEF Button!Frames
  <1>7. \A u \in Button!Threads : u # t => Button!Frames(u)' = Button!Frames(u)
    BY <1>5 DEF Button!Frames
  <1> HIDE DEF s
  <1>8. /\ q \in Seq(Button!Frame) /\ Len(q) = n - 1
        /\ \A i \in 1 .. n - 1 : q[i] = s[i]
    <2>1. \A i \in 1 .. n - 1 : s[i] \in Button!Frame
      BY <1>1, <1>2
    <2>2. n - 1 \in Int /\ 1 \in Int /\ (n - 1) - 1 + 1 = n - 1 /\ (1 <= n - 1 \/ n - 1 = 0)
      <3> HIDE DEF n
      <3>1. QED
        BY <1>1, <1>3
    <2>3. /\ q \in Seq(Button!Frame)
          /\ Len(q) = (IF 1 <= n - 1 THEN (n - 1) - 1 + 1 ELSE 0)
          /\ \A i \in 1 .. (n - 1) - 1 + 1 : q[i] = s[1 + i - 1]
      BY <1>5, <2>1, <2>2, SubSeqProperties
    <2>4. QED
      BY <1>1, <1>3, <2>2, <2>3
  <1> HIDE DEF n, q
  <1>9. BtnStacks'
    <2>1. stack' \in [Button!Threads -> Seq(Button!Frame)]
      BY <1>5, <1>8 DEF BtnStacks, q
    <2>2. Len(stack'[t]) <= 2 /\ \A i, j \in 1 .. Len(q) : q[i].sig = q[j].sig => i = j
      BY <1>1, <1>2, <1>8 DEF q
    <2>3. QED
      BY <1>5, <2>1, <2>2 DEF BtnStacks, q
  <1>10. Button!Frames(t)' = {f \in Button!Frames(t) : f.sig # s[n].sig}
    <2>1. Button!Frames(t)' \subseteq {f \in Button!Frames(t) : f.sig # s[n].sig}
      <3> SUFFICES ASSUME NEW i \in 1 .. n - 1
                   PROVE  q[i] \in {f \in Button!Frames(t) : f.sig # s[n].sig}
        BY <1>6, <1>8
      <3>1. i \in 1 .. n /\ i # n
        BY <1>1
      <3>2. q[i] = s[i] /\ s[i].sig # s[n].sig /\ s[i] \in Button!Frames(t)
        BY <1>2, <1>3, <1>6, <1>8, <3>1
      <3>3. QED
        BY <3>2
    <2>2. {f \in Button!Frames(t) : f.sig # s[n].sig} \subseteq Button!Frames(t)'
      <3> SUFFICES ASSUME NEW i \in 1 .. n, s[i].sig # s[n].sig
                   PROVE  s[i] \in Button!Frames(t)'
        BY <1>6
      <3>1. i \in 1 .. n - 1
        BY <1>1
      <3>2. q[i] = s[i] /\ i \in 1 .. Len(q)
        BY <1>8, <3>1
      <3>3. QED
        BY <1>6, <3>2
    <2>3. QED
      BY <2>1, <2>2
  <1>11. QED
    BY <1>3, <1>7, <1>9, <1>10

\* Place finds the frame of a signal.
LEMMA BtnPlaceIs ==
  ASSUME NEW S \in SUBSET Button!Frame, \A f, g \in S : f.sig = g.sig => f = g,
         NEW sig \in Button!Signals
  PROVE  LET p == IF \E f \in S : f.sig = sig THEN (CHOOSE f \in S : f.sig = sig).at ELSE "none"
         IN  /\ \A f \in S : f.sig = sig => f.at = p /\ p # "none"
             /\ p # "none" => \E f \in S : f.sig = sig /\ f.at = p
             /\ sig = "SIGUSR1" => p \in Button!Presses \cup {"none"}
             /\ sig = "SIGUSR2" => p \in Button!Releases \cup {"none"}
  <1>1. \A f \in S : /\ f.at # "none"
                     /\ f.sig = "SIGUSR1" => f.at \in Button!Presses
                     /\ f.sig = "SIGUSR2" => f.at \in Button!Releases
    BY BtnAFrame
  <1>2. CASE \E f \in S : f.sig = sig
    <2> DEFINE c == CHOOSE f \in S : f.sig = sig
    <2>1. c \in S /\ c.sig = sig
      BY <1>2
    <2>2. \A f \in S : f.sig = sig => f = c
      BY <2>1
    <2> HIDE DEF c
    <2>3. /\ \A f \in S : f.sig = sig => f.at = c.at
          /\ c.at # "none"
          /\ sig = "SIGUSR1" => c.at \in Button!Presses
          /\ sig = "SIGUSR2" => c.at \in Button!Releases
      BY <1>1, <2>1, <2>2
    <2>4. QED
      BY <1>2, <2>1, <2>3 DEF c
  <1>3. CASE ~\E f \in S : f.sig = sig
    BY <1>3
  <1>4. QED
    BY <1>2, <1>3

LEMMA BtnPlace ==
  ASSUME BtnStacks, NEW t \in Button!Threads, NEW sig \in Button!Signals
  PROVE  LET p == Button!Place(t, sig)
         IN  /\ \A f \in Button!Frames(t) : f.sig = sig => f.at = p /\ p # "none"
             /\ p # "none" => \E f \in Button!Frames(t) : f.sig = sig /\ f.at = p
             /\ sig = "SIGUSR1" => p \in Button!Presses \cup {"none"}
             /\ sig = "SIGUSR2" => p \in Button!Releases \cup {"none"}
  BY BtnFrames, BtnPlaceIs DEF Button!Place, Button!Handles

LEMMA BtnPlaceNext ==
  ASSUME BtnStacks', NEW t \in Button!Threads, NEW sig \in Button!Signals
  PROVE  LET p == Button!Place(t, sig)'
         IN  /\ \A f \in Button!Frames(t)' : f.sig = sig => f.at = p /\ p # "none"
             /\ p # "none" => \E f \in Button!Frames(t)' : f.sig = sig /\ f.at = p
  <1>1. /\ Button!Frames(t)' \subseteq Button!Frame
        /\ \A f, g \in Button!Frames(t)' : f.sig = g.sig => f = g
    <2> DEFINE s == stack'[t]
    <2>1. /\ s \in Seq(Button!Frame)
          /\ \A i, j \in 1 .. Len(s) : s[i].sig = s[j].sig => i = j
      BY DEF BtnStacks
    <2>2. Button!Frames(t)' = {s[i] : i \in 1 .. Len(s)}
      BY DEF Button!Frames
    <2> HIDE DEF s
    <2>3. \A i \in 1 .. Len(s) : s[i] \in Button!Frame
      BY <2>1
    <2>4. QED
      BY <2>1, <2>2, <2>3
  <1>2. QED
    BY <1>1, BtnPlaceIs DEF Button!Place, Button!Handles

\* A thread goes with one signal from a place to another.
BtnGoes(t, sig, from, to) ==
  /\ Button!Place(t, sig) = from /\ Button!Place(t, sig)' = to
  /\ \A u \in Button!Threads, s \in Button!Signals :
       u # t \/ s # sig => Button!Place(u, s)' = Button!Place(u, s)

\* What becomes of the places when a frame is put, moved or taken away.
LEMMA BtnFramesGo ==
  ASSUME BtnStacks, BtnStacks', NEW t \in Button!Threads, NEW sig \in Button!Signals, NEW place,
         \A u \in Button!Threads : u # t => Button!Frames(u)' = Button!Frames(u)
  PROVE  /\ place # "none"
            /\ Button!Frames(t)' =
                 {f \in Button!Frames(t) : f.sig # sig} \cup {BtnFrame(sig, place)}
              => BtnGoes(t, sig, Button!Place(t, sig), place)
         /\ Button!Frames(t)' = {f \in Button!Frames(t) : f.sig # sig}
              => BtnGoes(t, sig, Button!Place(t, sig), "none")
  <1> DEFINE F(u) == Button!Frames(u)
  <1>1. BtnFrame(sig, place).sig = sig /\ BtnFrame(sig, place).at = place
    BY DEF BtnFrame
  <1>2. ASSUME NEW u \in Button!Threads, NEW s \in Button!Signals,
               \A f : f.sig = s => (f \in F(u)' <=> f \in F(u))
        PROVE  Button!Place(u, s)' = Button!Place(u, s)
    <2>1. CASE Button!Place(u, s) # "none"
      BY <1>2, <2>1, BtnPlace, BtnPlaceNext
    <2>2. CASE Button!Place(u, s)' # "none"
      BY <1>2, <2>2, BtnPlace, BtnPlaceNext
    <2>3. QED
      BY <2>1, <2>2
  <1>3. ASSUME NEW b, F(t)' = {f \in F(t) : f.sig # sig} \/ F(t)' = {f \in F(t) : f.sig # sig} \cup {BtnFrame(sig, place)},
               Button!Place(t, sig)' = b
        PROVE  BtnGoes(t, sig, Button!Place(t, sig), b)
    <2> SUFFICES ASSUME NEW u \in Button!Threads, NEW s \in Button!Signals, u # t \/ s # sig
                 PROVE  Button!Place(u, s)' = Button!Place(u, s)
      BY <1>3 DEF BtnGoes
    <2>1. \A f : f.sig = s => (f \in F(u)' <=> f \in F(u))
      <3>1. CASE u # t
        BY <3>1
      <3>2. CASE u = t /\ s # sig
        BY <1>1, <1>3, <3>2
      <3>3. QED
        BY <3>1, <3>2
    <2>2. QED
      BY <1>2, <2>1
  <1>4. ASSUME place # "none", F(t)' = {f \in F(t) : f.sig # sig} \cup {BtnFrame(sig, place)}
        PROVE  Button!Place(t, sig)' = place
    BY <1>1, <1>4, BtnPlaceNext
  <1>5. ASSUME F(t)' = {f \in F(t) : f.sig # sig}
        PROVE  Button!Place(t, sig)' = "none"
    BY <1>5, BtnPlaceNext
  <1>6. QED
    BY <1>3, <1>4, <1>5

LEMMA BtnAt ==
  ASSUME BtnStacks, NEW t \in Button!Threads, NEW from, Button!At(t, from)
  PROVE  /\ stack[t] # <<>>
         /\ Button!Top(t).sig \in Button!Signals
         /\ Button!Place(t, Button!Top(t).sig) = from
         /\ from \in {"blink", "loop"} => Button!Top(t).sig = "SIGUSR1"
         /\ from \in Button!Releases \ {"read"} => Button!Top(t).sig = "SIGUSR2"
  <1> DEFINE g == Button!Top(t)
  <1>1. stack[t] # <<>> /\ g \in Button!Frames(t) /\ g \in Button!Frame /\ g.at = from
    BY BtnFrames DEF Button!At
  <1> HIDE DEF g
  <1>2. g.sig \in Button!Signals /\ Button!Place(t, g.sig) = from
    BY <1>1, BtnAFrame, BtnPlace
  <1>3. /\ from \in {"blink", "loop"} => g.sig = "SIGUSR1"
        /\ from \in Button!Releases \ {"read"} => g.sig = "SIGUSR2"
    BY <1>1 DEF Button!Frame, Button!Releases, Button!Presses
  <1>4. QED
    BY <1>1, <1>2, <1>3 DEF g

LEMMA BtnMoves ==
  ASSUME BtnStacks, NEW t \in Button!Threads, NEW from, Button!At(t, from),
         NEW to, BtnFrame(Button!Top(t).sig, to) \in Button!Frame, Button!Moves(t, to)
  PROVE  BtnStacks' /\ BtnGoes(t, Button!Top(t).sig, from, to)
  <1> DEFINE sig == Button!Top(t).sig
  <1>1. stack[t] # <<>> /\ sig \in Button!Signals /\ Button!Place(t, sig) = from
    BY BtnAt
  <1>2. /\ BtnStacks'
        /\ Button!Frames(t)' = {f \in Button!Frames(t) : f.sig # sig} \cup {BtnFrame(sig, to)}
        /\ \A u \in Button!Threads : u # t => Button!Frames(u)' = Button!Frames(u)
    BY <1>1, BtnMove
  <1>3. to # "none"
    BY BtnAFrame DEF BtnFrame
  <1> HIDE DEF sig
  <1>4. BtnGoes(t, sig, Button!Place(t, sig), to)
    BY <1>1, <1>2, <1>3, BtnFramesGo
  <1>5. QED
    BY <1>1, <1>2, <1>4 DEF sig

LEMMA BtnPops ==
  ASSUME BtnStacks, NEW t \in Button!Threads, NEW from, Button!At(t, from), Button!Pops(t)
  PROVE  BtnStacks' /\ BtnGoes(t, Button!Top(t).sig, from, "none")
  <1> DEFINE sig == Button!Top(t).sig
  <1>1. stack[t] # <<>> /\ sig \in Button!Signals /\ Button!Place(t, sig) = from
    BY BtnAt
  <1>2. /\ BtnStacks'
        /\ Button!Frames(t)' = {f \in Button!Frames(t) : f.sig # sig}
        /\ \A u \in Button!Threads : u # t => Button!Frames(u)' = Button!Frames(u)
    BY <1>1, BtnPop
  <1> HIDE DEF sig
  <1>3. BtnGoes(t, sig, Button!Place(t, sig), "none")
    BY <1>1, <1>2, BtnFramesGo
  <1>4. QED
    BY <1>1, <1>2, <1>3 DEF sig

BtnStays ==
  \A u \in Button!Threads, s \in Button!Signals : Button!Place(u, s)' = Button!Place(u, s)

BtnHandler ==
  \E t \in Button!Threads, sig \in Button!Signals :
    /\ Button!signal_handler(sig)
    /\ BtnGoes(t, sig, "none", IF sig = "SIGUSR1" THEN "read" ELSE "dark")
    /\ t = "test" => Button!Place("main", sig) # "none"

BtnOnPress(t) ==
  \/ Button!OnPressRead(t) /\ BtnGoes(t, "SIGUSR1", "read", "blink")
  \/ Button!OnPressBlink(t) /\ BtnGoes(t, "SIGUSR1", "blink", "loop")
  \/ Button!OnPressEnd(t) /\ BtnGoes(t, "SIGUSR1", "loop", "none")

BtnOnRelease(t) ==
  \/ Button!OnReleaseDark(t) /\ BtnGoes(t, "SIGUSR2", "dark", "read")
  \/ Button!OnReleaseRead(t) /\ BtnGoes(t, "SIGUSR2", "read", "act")
  \/ \E to \in {"lock", "lockToExit", "none"} :
       Button!OnReleaseAct(t) /\ BtnGoes(t, "SIGUSR2", "act", to)
  \/ \E from \in {"lock", "lockToExit"}, to \in {"sending", "sendingToExit"} :
       Button!OnReleaseLock(t) /\ BtnGoes(t, "SIGUSR2", from, to)
  \/ \E from \in {"sending", "sendingToExit"} :
       Button!OnReleaseSent(t) /\ BtnGoes(t, "SIGUSR2", from, "none")

\* A step, and what it does to the places.
BtnStep ==
  \/ BtnStays /\ (Button!Tick \/ Button!Press \/ Button!Release)
  \/ BtnHandler
  \/ \E t \in Button!Threads : BtnOnPress(t)
  \/ \E t \in Button!Threads : BtnOnRelease(t)
  \/ BtnStays /\ (Button!main \/ Button!init \/ Button!SendMessage \/ UNCHANGED Button!vars)

LEMMA BtnFrameIn ==
  /\ \A place \in Button!Presses : BtnFrame("SIGUSR1", place) \in Button!Frame
  /\ \A place \in Button!Releases : BtnFrame("SIGUSR2", place) \in Button!Frame
  BY DEF BtnFrame, Button!Frame

LEMMA BtnSteps ==
  ASSUME BtnStacks, [Button!Next]_(Button!vars)
  PROVE  BtnStacks' /\ BtnStep
  <1>1. ASSUME stack' = stack PROVE BtnStacks' /\ BtnStays
    BY <1>1 DEF BtnStacks, BtnStays, Button!Place, Button!Handles, Button!Frames
  <1>2. ASSUME NEW sig \in Button!Signals, Button!signal_handler(sig)
        PROVE  BtnStacks' /\ BtnHandler
    <2> DEFINE place == IF sig = "SIGUSR1" THEN "read" ELSE "dark"
    <2>1. PICK t \in Button!Target(sig) : stack' = [stack EXCEPT ![t] = Append(@, BtnFrame(sig, place))]
      BY <1>2 DEF Button!signal_handler, BtnFrame
    <2>2. /\ t \in Button!Threads /\ ~Button!Handles(t, sig)
          /\ t = "test" => Button!Handles("main", sig)
      BY DEF Button!Target, Button!Threads
    <2>3. BtnFrame(sig, place) \in Button!Frame /\ BtnFrame(sig, place).sig = sig
      BY DEF BtnFrame, Button!Frame, Button!Signals, Button!Presses, Button!Releases
    <2>4. place # "none"
      OBVIOUS
    <2> HIDE DEF place
    <2>5. /\ BtnStacks' /\ Button!Frames(t)' = Button!Frames(t) \cup {BtnFrame(sig, place)}
          /\ \A u \in Button!Threads : u # t => Button!Frames(u)' = Button!Frames(u)
      BY <2>1, <2>2, <2>3, BtnPush
    <2>6. Button!Frames(t) = {f \in Button!Frames(t) : f.sig # sig}
      BY <2>2 DEF Button!Handles
    <2>7. BtnGoes(t, sig, Button!Place(t, sig), place)
      BY <2>2, <2>4, <2>5, <2>6, BtnFramesGo
    <2>8. Button!Place(t, sig) = "none"
      BY <2>2, BtnPlace DEF Button!Handles
    <2>9. t = "test" => Button!Place("main", sig) # "none"
      BY <2>2, BtnPlace DEF Button!Handles, Button!Threads
    <2>10. QED
      BY <1>2, <2>2, <2>5, <2>7, <2>8, <2>9 DEF BtnHandler, place
  <1>3. ASSUME NEW t \in Button!Threads,
               Button!OnPressRead(t) \/ Button!OnPressBlink(t) \/ Button!OnPressEnd(t)
        PROVE  BtnStacks' /\ BtnOnPress(t)
    <2>1. CASE Button!OnPressRead(t)
      <3>1. Button!At(t, "read") /\ Button!Top(t).sig = "SIGUSR1" /\ Button!Moves(t, "blink")
        BY <2>1 DEF Button!OnPressRead
      <3>2. QED
        BY <2>1, <3>1, BtnMoves, BtnFrameIn DEF BtnOnPress, Button!Presses
    <2>2. CASE Button!OnPressBlink(t)
      <3>1. Button!At(t, "blink") /\ Button!Moves(t, "loop")
        BY <2>2 DEF Button!OnPressBlink
      <3>2. Button!Top(t).sig = "SIGUSR1"
        BY <3>1, BtnAt
      <3>3. QED
        BY <2>2, <3>1, <3>2, BtnMoves, BtnFrameIn DEF BtnOnPress, Button!Presses
    <2>3. CASE Button!OnPressEnd(t)
      <3>1. Button!At(t, "loop") /\ Button!Pops(t)
        BY <2>3 DEF Button!OnPressEnd
      <3>2. Button!Top(t).sig = "SIGUSR1"
        BY <3>1, BtnAt
      <3>3. QED
        BY <2>3, <3>1, <3>2, BtnPops DEF BtnOnPress
    <2>4. QED
      BY <1>3, <2>1, <2>2, <2>3
  <1>4. ASSUME NEW t \in Button!Threads, NEW from \in Button!Releases, Button!At(t, from),
               Button!Top(t).sig = "SIGUSR2"
        PROVE  /\ \A to \in Button!Releases :
                    Button!Moves(t, to) => BtnStacks' /\ BtnGoes(t, "SIGUSR2", from, to)
               /\ Button!Pops(t) => BtnStacks' /\ BtnGoes(t, "SIGUSR2", from, "none")
    BY <1>4, BtnMoves, BtnPops, BtnFrameIn
  <1>5. ASSUME NEW t \in Button!Threads,
               \/ Button!OnReleaseDark(t) \/ Button!OnReleaseRead(t) \/ Button!OnReleaseAct(t)
               \/ Button!OnReleaseLock(t) \/ Button!OnReleaseSent(t)
        PROVE  BtnStacks' /\ BtnOnRelease(t)
    <2>1. CASE Button!OnReleaseDark(t)
      <3>1. Button!At(t, "dark") /\ Button!Moves(t, "read")
        BY <2>1 DEF Button!OnReleaseDark
      <3>2. Button!Top(t).sig = "SIGUSR2"
        BY <3>1, BtnAt DEF Button!Releases
      <3>3. QED
        BY <1>4, <2>1, <3>1, <3>2 DEF BtnOnRelease, Button!Releases
    <2>2. CASE Button!OnReleaseRead(t)
      <3>1. Button!At(t, "read") /\ Button!Top(t).sig = "SIGUSR2" /\ Button!Moves(t, "act")
        BY <2>2 DEF Button!OnReleaseRead
      <3>2. QED
        BY <1>4, <2>2, <3>1 DEF BtnOnRelease, Button!Releases
    <2>3. CASE Button!OnReleaseAct(t)
      <3>1. /\ Button!At(t, "act")
            /\ Button!Moves(t, "lock") \/ Button!Moves(t, "lockToExit") \/ Button!Pops(t)
        BY <2>3 DEF Button!OnReleaseAct
      <3>2. Button!Top(t).sig = "SIGUSR2"
        BY <3>1, BtnAt DEF Button!Releases
      <3>3. BtnStacks' /\ \E to \in {"lock", "lockToExit", "none"} : BtnGoes(t, "SIGUSR2", "act", to)
        BY <1>4, <3>1, <3>2 DEF Button!Releases
      <3>4. QED
        BY <2>3, <3>3 DEF BtnOnRelease
    <2>4. CASE Button!OnReleaseLock(t)
      <3>1. /\ Button!At(t, "lock") \/ Button!At(t, "lockToExit")
            /\ Button!Moves(t, "sending") \/ Button!Moves(t, "sendingToExit")
        BY <2>4 DEF Button!OnReleaseLock
      <3>2. Button!Top(t).sig = "SIGUSR2"
        BY <3>1, BtnAt DEF Button!Releases
      <3>3. /\ BtnStacks'
            /\ \E from \in {"lock", "lockToExit"}, to \in {"sending", "sendingToExit"} :
                 BtnGoes(t, "SIGUSR2", from, to)
        BY <1>4, <3>1, <3>2 DEF Button!Releases
      <3>4. QED
        BY <2>4, <3>3 DEF BtnOnRelease
    <2>5. CASE Button!OnReleaseSent(t)
      <3>1. (Button!At(t, "sending") \/ Button!At(t, "sendingToExit")) /\ Button!Pops(t)
        BY <2>5 DEF Button!OnReleaseSent
      <3>2. Button!Top(t).sig = "SIGUSR2"
        BY <3>1, BtnAt DEF Button!Releases
      <3>3. /\ BtnStacks'
            /\ \E from \in {"sending", "sendingToExit"} : BtnGoes(t, "SIGUSR2", from, "none")
        BY <1>4, <3>1, <3>2 DEF Button!Releases
      <3>4. QED
        BY <2>5, <3>3 DEF BtnOnRelease
    <2>6. QED
      BY <1>5, <2>1, <2>2, <2>3, <2>4, <2>5
  <1>6. ASSUME Button!Tick \/ Button!Press \/ Button!Release
        PROVE  stack' = stack
    BY <1>6 DEF Button!Tick, Button!Press, Button!Release
  <1>7. ASSUME Button!main \/ Button!init \/ Button!SendMessage \/ UNCHANGED Button!vars
        PROVE  stack' = stack
    BY <1>7 DEF Button!main, Button!init, Button!SendMessage, Button!Lock, Button!Unlock,
       Button!Runs, Button!vars
  <1>8. QED
    BY <1>1, <1>2, <1>3, <1>5, <1>6, <1>7 DEF Button!Next, Button!Signals, BtnStep

LEMMA BtnStacksOf == Button!TypeOK /\ Button!StackInv => BtnStacks
  BY DEF Button!TypeOK, Button!StackInv, BtnStacks

LEMMA BtnInit == Button!Init => Button!IInv
  <1> SUFFICES ASSUME Button!Init PROVE Button!IInv
    OBVIOUS
  <1> USE BtnConstants DEF Button!Init
  <1>1. \A t \in Button!Threads : stack[t] = <<>>
    OBVIOUS
  <1>2. \A t \in Button!Threads : Button!Frames(t) = {} /\ Len(stack[t]) = 0
    BY <1>1 DEF Button!Frames
  <1>3. \A t \in Button!Threads, sig \in Button!Signals : Button!Place(t, sig) = "none"
    BY <1>2 DEF Button!Place, Button!Handles
  <1>4. ASSUME NEW t \in Button!Threads
        PROVE  /\ Len(stack[t]) <= 2
               /\ \A i, j \in 1 .. Len(stack[t]) : stack[t][i].sig = stack[t][j].sig => i = j
    <2> DEFINE n == Len(stack[t])
    <2>1. n = 0
      BY <1>2
    <2> HIDE DEF n
    <2>2. n <= 2 /\ ~\E i \in 1 .. n : TRUE
      BY <2>1
    <2>3. QED
      BY <2>2 DEF n
  <1>13. Button!TypeOK
    <2>1. now \in 0 .. MaxTime /\ presses \in 0 .. MaxPresses /\ clickCount \in 0 .. MaxPresses
      OBVIOUS
    <2>4. /\ down \in BOOLEAN /\ pending \subseteq {"SIGUSR1", "SIGUSR2"}
          /\ done \subseteq Button!Acts
      BY Zenon
    <2>2. mtxWaitSendUart \in Button!Threads \cup {Button!Free} /\ ended \in {"no", "exit", "crash"}
      OBVIOUS
    <2> HIDE DEF Button!Init
    <2>3. QED
      BY <1>4, <2>1, <2>2, <2>4 DEF Button!TypeOK
  <1>5. Button!StackInv
    <2>1. stack \in [Button!Threads -> Seq(Button!Frame)]
      BY <1>1
    <2>2. base \in [Button!Threads -> Button!Places]
      BY DEF Button!Places
    <2>3. pressTime \in Int /\ releaseTime \in Int
      OBVIOUS
    <2>6. pressedAt \in Int /\ held \in Int
      OBVIOUS
    <2>4. /\ isBlinkLed \in BOOLEAN /\ dormitory \in BOOLEAN /\ wrong \in BOOLEAN
          /\ inverted \in BOOLEAN /\ overlapped \in BOOLEAN /\ early \in BOOLEAN
      BY Zenon
    <2> HIDE DEF Button!Init
    <2>5. QED
      BY <1>4, <2>1, <2>2, <2>3, <2>4, <2>6 DEF Button!StackInv
  <1>6. Button!CountInv
    BY <1>3 DEF Button!CountInv, Button!One, Button!ToAct, Button!Threads, Button!Signals
  <1>7. Button!StartInv
    BY <1>3 DEF Button!StartInv
  <1>8. Button!MutexInv
    BY DEF Button!MutexInv, Button!Free
  <1>9. Button!ClickInv
    BY <1>3 DEF Button!ClickInv, Button!Threads, Button!Signals
  <1>10. Button!TimeInv
    BY <1>3 DEF Button!TimeInv, Button!Unread, Button!Threads, Button!Signals
  <1>11. Button!CrashIsEarly /\ Button!ReleaseFitsHold
    BY DEF Button!CrashIsEarly, Button!ReleaseFitsHold
  <1>12. QED
    BY <1>5, <1>6, <1>7, <1>8, <1>9, <1>10, <1>11, <1>13 DEF Button!IInv

\* The press of every click is counted once.
LEMMA BtnNextCount ==
  ASSUME Button!TypeOK, Button!StackInv, Button!CountInv, BtnStep
  PROVE  Button!CountInv' /\ clickCount' \in Nat /\ presses' \in 0 .. MaxPresses
  <1> DEFINE C(t) == Button!One(Button!ToAct(t))
             D == Button!One(down)
             P == Button!One("SIGUSR2" \in pending)
  <1>1. /\ clickCount \in Nat /\ presses \in 0 .. MaxPresses
        /\ clickCount + D + P + C("main") + C("test") <= presses
    BY DEF Button!CountInv, Button!TypeOK
  <1>2. /\ D \in {0, 1} /\ P \in {0, 1} /\ \A t \in Button!Threads : C(t) \in {0, 1}
        /\ D' \in {0, 1} /\ P' \in {0, 1} /\ \A t \in Button!Threads : C(t)' \in {0, 1}
        /\ C("main") \in {0, 1} /\ C("test") \in {0, 1}
        /\ C("main")' \in {0, 1} /\ C("test")' \in {0, 1}
    BY DEF Button!One
  <1> DEFINE Goal == /\ clickCount' + D' + P' + C("main")' + C("test")' <= presses'
                     /\ clickCount' \in Nat /\ presses' \in 0 .. MaxPresses
  <1>3. SUFFICES Goal
    BY DEF Button!CountInv
  <1>4. ASSUME BtnStays PROVE C("main")' = C("main") /\ C("test")' = C("test")
    BY <1>4 DEF BtnStays, Button!ToAct, Button!Threads, Button!Signals, Button!One
  <1>5. ASSUME NEW t \in Button!Threads, NEW from, NEW to, BtnGoes(t, "SIGUSR2", from, to)
        PROVE  /\ from \in {"dark", "read", "act"} => C(t) = 1
               /\ from \notin {"dark", "read", "act"} => C(t) = 0
               /\ to \in {"dark", "read", "act"} => C(t)' = 1
               /\ to \notin {"dark", "read", "act"} => C(t)' = 0
               /\ \A u \in Button!Threads : u # t => C(u)' = C(u)
    BY <1>5 DEF BtnGoes, Button!ToAct, Button!Signals, Button!One
  <1>6. ASSUME NEW t \in Button!Threads, NEW from, NEW to, BtnGoes(t, "SIGUSR1", from, to)
        PROVE  \A u \in Button!Threads : C(u)' = C(u)
    BY <1>6 DEF BtnGoes, Button!ToAct, Button!Signals, Button!One
  <1>7. Button!Threads = {"main", "test"}
    BY DEF Button!Threads
  <1>8. UNCHANGED <<down, pending>> => D' = D /\ P' = P
    OBVIOUS
  <1>9. CASE Button!Press /\ BtnStays
    <2>1. /\ D = 0 /\ D' = 1 /\ P' = P
          /\ presses' = presses + 1 /\ presses < MaxPresses /\ clickCount' = clickCount
      BY <1>9 DEF Button!Press, Button!signal, Button!One
    <2> HIDE DEF C, D, P
    <2>2. QED
      BY <1>1, <1>2, <1>4, <1>9, <2>1, BtnConstants
  <1>10. CASE Button!Release /\ BtnStays
    <2>1. /\ D = 1 /\ D' = 0 /\ presses' = presses /\ clickCount' = clickCount
      BY <1>10 DEF Button!Release, Button!signal, Button!One
    <2> HIDE DEF C, D, P
    <2>2. QED
      BY <1>1, <1>2, <1>4, <1>10, <2>1, BtnConstants
  <1>11. ASSUME BtnStays, UNCHANGED <<down, pending, presses, clickCount>>
         PROVE  Goal
    <2>1. D' = D /\ P' = P /\ presses' = presses /\ clickCount' = clickCount
      BY <1>8, <1>11
    <2> HIDE DEF C, D, P
    <2>2. QED
      BY <1>1, <1>2, <1>4, <1>11, <2>1
  <1>12. CASE BtnHandler
    <2>1. PICK t \in Button!Threads, sig \in Button!Signals :
            /\ Button!signal_handler(sig)
            /\ BtnGoes(t, sig, "none", IF sig = "SIGUSR1" THEN "read" ELSE "dark")
      BY <1>12 DEF BtnHandler
    <2>2. /\ UNCHANGED <<down, presses, clickCount>> /\ pending' = pending \ {sig} /\ sig \in pending
      BY <2>1 DEF Button!signal_handler, Button!user, Button!signal
    <2>3. CASE sig = "SIGUSR1"
      <3>1. D' = D /\ P' = P /\ C("main")' = C("main") /\ C("test")' = C("test")
        BY <1>6, <1>7, <2>1, <2>2, <2>3 DEF Button!One
      <3> HIDE DEF C, D, P
      <3>2. QED
        BY <1>1, <1>2, <2>2, <3>1
    <2>4. CASE sig = "SIGUSR2"
      <3>1. D' = D /\ P = 1 /\ P' = 0
        BY <2>2, <2>4 DEF Button!One
      <3>2. C(t) = 0 /\ C(t)' = 1 /\ \A u \in Button!Threads : u # t => C(u)' = C(u)
        BY <1>5, <2>1, <2>4
      <3> HIDE DEF C, D, P
      <3>3. QED
        BY <1>1, <1>2, <1>7, <2>2, <3>1, <3>2
    <2>5. QED
      BY <2>3, <2>4 DEF Button!Signals
  <1>13. ASSUME NEW t \in Button!Threads, BtnOnPress(t)
         PROVE  Goal
    <2>1. UNCHANGED <<down, pending, presses>> /\ clickCount' \in {0, clickCount}
      BY <1>13 DEF BtnOnPress, Button!OnPressRead, Button!OnPressBlink, Button!OnPressEnd,
         Button!user, Button!signal
    <2>2. C("main")' = C("main") /\ C("test")' = C("test")
      BY <1>6, <1>7, <1>13 DEF BtnOnPress
    <2>3. D' = D /\ P' = P
      BY <1>8, <2>1
    <2> HIDE DEF C, D, P
    <2>4. QED
      BY <1>1, <1>2, <2>1, <2>2, <2>3
  <1>14. ASSUME NEW t \in Button!Threads, BtnOnRelease(t)
         PROVE  Goal
    <2>1. UNCHANGED <<down, pending, presses>>
      BY <1>14 DEF BtnOnRelease, Button!OnReleaseDark, Button!OnReleaseRead, Button!OnReleaseAct,
         Button!OnReleaseLock, Button!OnReleaseSent, Button!user
    <2>2. D' = D /\ P' = P
      BY <1>8, <2>1
    <2>3. \A u \in Button!Threads : u # t => C(u)' = C(u)
      BY <1>5, <1>14 DEF BtnOnRelease
    <2>4. \/ C(t)' = C(t) /\ clickCount' = clickCount
          \/ C(t) = 1 /\ C(t)' = 0 /\ clickCount' \in {clickCount, clickCount + 1}
      <3>1. ASSUME NEW to \in {"lock", "lockToExit", "none"},
                   Button!OnReleaseAct(t), BtnGoes(t, "SIGUSR2", "act", to)
            PROVE  C(t) = 1 /\ C(t)' = 0 /\ clickCount' \in {clickCount, clickCount + 1}
        <4>1. C(t) = 1 /\ C(t)' = 0
          BY <1>5, <3>1
        <4>2. clickCount' \in {clickCount, clickCount + 1}
          BY <3>1 DEF Button!OnReleaseAct
        <4>3. QED
          BY <4>1, <4>2
      <3>2. ASSUME \/ Button!OnReleaseDark(t) \/ Button!OnReleaseRead(t)
                   \/ Button!OnReleaseLock(t) \/ Button!OnReleaseSent(t)
            PROVE  clickCount' = clickCount
        BY <3>2 DEF Button!OnReleaseDark, Button!OnReleaseRead, Button!OnReleaseLock,
           Button!OnReleaseSent, Button!signal
      <3>3. ASSUME \/ BtnGoes(t, "SIGUSR2", "dark", "read") \/ BtnGoes(t, "SIGUSR2", "read", "act")
            PROVE  C(t)' = C(t)
        BY <1>5, <3>3
      <3>4. ASSUME NEW from \in {"lock", "lockToExit", "sending", "sendingToExit"},
                   NEW to \in {"sending", "sendingToExit", "none"}, BtnGoes(t, "SIGUSR2", from, to)
            PROVE  C(t)' = C(t)
        BY <1>5, <3>4
      <3> HIDE DEF C
      <3>5. QED
        BY <1>14, <3>1, <3>2, <3>3, <3>4 DEF BtnOnRelease
    <2> HIDE DEF C, D, P
    <2>5. QED
      BY <1>1, <1>2, <1>7, <2>1, <2>2, <2>3, <2>4
  <1>15. CASE /\ BtnStays
              /\ Button!Tick \/ Button!main \/ Button!init \/ Button!SendMessage \/ UNCHANGED Button!vars
    <2>1. UNCHANGED <<down, pending, presses, clickCount>>
      BY <1>15 DEF Button!Tick, Button!main, Button!init, Button!SendMessage, Button!Lock,
         Button!Unlock, Button!Runs, Button!vars, Button!user, Button!signal
    <2>2. QED
      BY <1>11, <1>15, <2>1
  <1>16. QED
    BY <1>9, <1>10, <1>12, <1>13, <1>14, <1>15 DEF BtnStep

\* The types without the stacks and the count of clicks.
BtnTimes ==
  /\ now \in 0 .. MaxTime
  /\ pressedAt \in Int /\ held \in Int /\ pressTime \in Int /\ releaseTime \in Int

BtnFlags ==
  /\ down \in BOOLEAN /\ isBlinkLed \in BOOLEAN /\ dormitory \in BOOLEAN /\ wrong \in BOOLEAN
  /\ inverted \in BOOLEAN /\ overlapped \in BOOLEAN /\ early \in BOOLEAN

BtnSets ==
  /\ pending \in SUBSET {"SIGUSR1", "SIGUSR2"}
  /\ base \in [Button!Threads -> Button!Places]
  /\ mtxWaitSendUart \in Button!Threads \cup {Button!Free}
  /\ ended \in {"no", "exit", "crash"}
  /\ done \in SUBSET Button!Acts

LEMMA BtnNextTimes ==
  ASSUME BtnTimes, [Button!Next]_(Button!vars)
  PROVE  BtnTimes'
  <1> USE BtnConstants DEF BtnTimes, Button!user, Button!signal
  <1>1. CASE Button!Tick \/ Button!Press \/ Button!Release
    BY <1>1 DEF Button!Tick, Button!Press, Button!Release
  <1>2. ASSUME NEW sig \in Button!Signals, Button!signal_handler(sig)
        PROVE  BtnTimes'
    BY <1>2 DEF Button!signal_handler
  <1>3. ASSUME NEW t \in Button!Threads,
               \/ Button!OnPressRead(t) \/ Button!OnPressBlink(t) \/ Button!OnPressEnd(t)
               \/ Button!OnReleaseDark(t) \/ Button!OnReleaseRead(t)
        PROVE  BtnTimes'
    BY <1>3 DEF Button!OnPressRead, Button!OnPressBlink, Button!OnPressEnd,
       Button!OnReleaseDark, Button!OnReleaseRead
  <1>4. ASSUME NEW t \in Button!Threads,
               Button!OnReleaseAct(t) \/ Button!OnReleaseLock(t) \/ Button!OnReleaseSent(t)
        PROVE  BtnTimes'
    BY <1>4 DEF Button!OnReleaseAct, Button!OnReleaseLock, Button!OnReleaseSent
  <1>5. CASE \/ Button!main \/ Button!init \/ Button!SendMessage
             \/ UNCHANGED Button!vars
    BY <1>5 DEF Button!main, Button!init, Button!SendMessage, Button!Lock, Button!Unlock,
       Button!Runs, Button!vars
  <1>6. QED
    BY <1>1, <1>2, <1>3, <1>4, <1>5 DEF Button!Next, Button!Signals

LEMMA BtnNextFlags ==
  ASSUME BtnFlags, [Button!Next]_(Button!vars)
  PROVE  BtnFlags'
  <1> USE DEF BtnFlags, Button!user, Button!signal, Button!effects, Button!races
  <1>1. CASE Button!Tick \/ Button!Press \/ Button!Release
    BY <1>1 DEF Button!Tick, Button!Press, Button!Release
  <1>2. ASSUME NEW sig \in Button!Signals, Button!signal_handler(sig)
        PROVE  BtnFlags'
    BY <1>2 DEF Button!signal_handler
  <1>3. ASSUME NEW t \in Button!Threads,
               Button!OnPressRead(t) \/ Button!OnPressBlink(t) \/ Button!OnPressEnd(t)
        PROVE  BtnFlags'
    BY <1>3 DEF Button!OnPressRead, Button!OnPressBlink, Button!OnPressEnd
  <1>4. ASSUME NEW t \in Button!Threads, Button!OnReleaseDark(t)
        PROVE  BtnFlags'
    BY <1>4 DEF Button!OnReleaseDark
  <1>5. ASSUME NEW t \in Button!Threads, Button!OnReleaseRead(t)
        PROVE  BtnFlags'
    BY <1>5 DEF Button!OnReleaseRead
  <1>6. ASSUME NEW t \in Button!Threads, Button!OnReleaseAct(t)
        PROVE  BtnFlags'
    BY <1>6 DEF Button!OnReleaseAct
  <1>7. ASSUME NEW t \in Button!Threads, Button!OnReleaseLock(t) \/ Button!OnReleaseSent(t)
        PROVE  BtnFlags'
    BY <1>7 DEF Button!OnReleaseLock, Button!OnReleaseSent
  <1>8. CASE \/ Button!main \/ Button!init \/ Button!SendMessage
             \/ UNCHANGED Button!vars
    BY <1>8 DEF Button!main, Button!init, Button!SendMessage, Button!Lock, Button!Unlock,
       Button!Runs, Button!vars
  <1>9. QED
    BY <1>1, <1>2, <1>3, <1>4, <1>5, <1>6, <1>7, <1>8 DEF Button!Next, Button!Signals

LEMMA BtnNextSets ==
  ASSUME BtnSets, [Button!Next]_(Button!vars)
  PROVE  BtnSets'
  <1> USE DEF BtnSets, Button!effects
  <1>1. CASE Button!Tick \/ Button!Press \/ Button!Release
    BY <1>1 DEF Button!Tick, Button!Press, Button!Release
  <1>2. ASSUME NEW sig \in Button!Signals, Button!signal_handler(sig)
        PROVE  BtnSets'
    BY <1>2 DEF Button!signal_handler
  <1>3. ASSUME NEW t \in Button!Threads,
               \/ Button!OnPressRead(t) \/ Button!OnPressBlink(t) \/ Button!OnPressEnd(t)
               \/ Button!OnReleaseDark(t) \/ Button!OnReleaseRead(t)
        PROVE  BtnSets'
    BY <1>3 DEF Button!OnPressRead, Button!OnPressBlink, Button!OnPressEnd,
       Button!OnReleaseDark, Button!OnReleaseRead
  <1>4. ASSUME NEW t \in Button!Threads, Button!OnReleaseAct(t)
        PROVE  BtnSets'
    <2>1. done' \in SUBSET Button!Acts
      BY <1>4 DEF Button!OnReleaseAct, Button!ActOf
    <2>2. ended' \in {"no", "exit", "crash"} /\ UNCHANGED <<pending, base, mtxWaitSendUart>>
      BY <1>4 DEF Button!OnReleaseAct
    <2>3. QED
      BY <2>1, <2>2
  <1>5. ASSUME NEW t \in Button!Threads, Button!OnReleaseLock(t) \/ Button!OnReleaseSent(t)
        PROVE  BtnSets'
    BY <1>5 DEF Button!OnReleaseLock, Button!OnReleaseSent
  <1>6. CASE Button!main \/ Button!init \/ Button!SendMessage
    <2>1. base' \in [Button!Threads -> Button!Places] /\ UNCHANGED <<pending, ended, done>>
      BY <1>6 DEF Button!main, Button!init, Button!SendMessage, Button!Lock, Button!Unlock,
         Button!Runs, Button!Places, Button!Threads
    <2>2. mtxWaitSendUart' \in Button!Threads \cup {Button!Free}
      BY <1>6 DEF Button!main, Button!init, Button!SendMessage, Button!Lock, Button!Unlock,
         Button!Threads
    <2>3. QED
      BY <2>1, <2>2
  <1>7. CASE UNCHANGED Button!vars
    BY <1>7 DEF Button!vars
  <1>8. QED
    BY <1>1, <1>2, <1>3, <1>4, <1>5, <1>6, <1>7 DEF Button!Next, Button!Signals

LEMMA BtnNextTypeOK ==
  ASSUME Button!TypeOK, Button!StackInv, BtnStacks', [Button!Next]_(Button!vars),
         Button!CountInv', clickCount' \in Nat, presses' \in 0 .. MaxPresses
  PROVE  Button!TypeOK' /\ Button!StackInv'
  <1>1. BtnTimes' /\ BtnFlags' /\ BtnSets'
    BY BtnNextTimes, BtnNextFlags, BtnNextSets
    DEF BtnTimes, BtnFlags, BtnSets, Button!TypeOK, Button!StackInv
  <1>2. clickCount' <= presses'
    <2> DEFINE D == Button!One(down)
               P == Button!One("SIGUSR2" \in pending)
               M == Button!One(Button!ToAct("main"))
               T == Button!One(Button!ToAct("test"))
    <2>1. D' \in {0, 1} /\ P' \in {0, 1} /\ M' \in {0, 1} /\ T' \in {0, 1}
      BY DEF Button!One
    <2>2. clickCount' + D' + P' + M' + T' <= presses'
      BY DEF Button!CountInv
    <2> HIDE DEF D, P, M, T
    <2>3. presses' \in Nat /\ clickCount' \in Nat
      BY BtnConstants
    <2>4. \A c, p \in Nat : \A a, b, x, e \in {0, 1} : c + a + b + x + e <= p => c <= p
      OBVIOUS
    <2>5. QED
      BY <2>1, <2>2, <2>3, <2>4
  <1>3. clickCount' \in 0 .. MaxPresses
    BY <1>2, BtnConstants
  <1>4. QED
    BY <1>1, <1>3 DEF BtnTimes, BtnFlags, BtnSets, BtnStacks, Button!TypeOK, Button!StackInv

\* What the guards that look at the frames say of the places.
LEMMA BtnGuards ==
  ASSUME BtnStacks
  PROVE  /\ Button!Running = {} =>
              \A t \in Button!Threads, sig \in Button!Signals : Button!Place(t, sig) = "none"
         /\ Button!Prompt =>
              /\ pending = {}
              /\ \A t \in Button!Threads, sig \in Button!Signals :
                   Button!Place(t, sig) \notin {"dark", "read"}
         /\ ~Button!PressUnread =>
              "SIGUSR1" \notin pending /\ Button!Place("main", "SIGUSR1") # "read"
  <1>1. \A t \in Button!Threads : Button!Frames(t) \subseteq Button!Running
    BY DEF Button!Running, Button!Threads
  <1>2. ASSUME NEW t \in Button!Threads, NEW sig \in Button!Signals
        PROVE  Button!Place(t, sig) # "none" =>
                 \E f \in Button!Running : f.sig = sig /\ f.at = Button!Place(t, sig)
    BY <1>1, BtnPlace
  <1>3. "main" \in Button!Threads /\ "SIGUSR1" \in Button!Signals
    BY DEF Button!Threads, Button!Signals
  <1>4. QED
    BY <1>2, <1>3 DEF Button!Prompt, Button!PressUnread

\* Only the threads outside of their handlers move base, and main stays in its loop.
LEMMA BtnBase ==
  ASSUME BtnStep, base \in [Button!Threads -> Button!Places]
  PROVE  /\ base["main"] = "loop" => base'["main"] = "loop"
         /\ ~(Button!main \/ Button!init \/ Button!SendMessage) => base' = base
  <1>1. ASSUME Button!main \/ Button!init \/ Button!SendMessage, base["main"] = "loop"
        PROVE  base'["main"] = "loop"
    BY <1>1 DEF Button!main, Button!init, Button!SendMessage, Button!Lock, Button!Unlock,
       Button!Runs, Button!Threads
  <1>2. ASSUME Button!Tick \/ Button!Press \/ Button!Release \/ UNCHANGED Button!vars
        PROVE  base' = base
    BY <1>2 DEF Button!Tick, Button!Press, Button!Release, Button!vars
  <1>3. ASSUME BtnHandler PROVE base' = base
    BY <1>3 DEF BtnHandler, Button!signal_handler
  <1>4. ASSUME NEW t \in Button!Threads, BtnOnPress(t) PROVE base' = base
    BY <1>4 DEF BtnOnPress, Button!OnPressRead, Button!OnPressBlink, Button!OnPressEnd
  <1>5. ASSUME NEW t \in Button!Threads, BtnOnRelease(t) PROVE base' = base
    BY <1>5 DEF BtnOnRelease, Button!OnReleaseDark, Button!OnReleaseRead, Button!OnReleaseAct,
       Button!OnReleaseLock, Button!OnReleaseSent
  <1>6. QED
    BY <1>1, <1>2, <1>3, <1>4, <1>5 DEF BtnStep

LEMMA BtnNextStart ==
  ASSUME Button!TypeOK, Button!StackInv, Button!StartInv, BtnStep, presses' \in 0 .. MaxPresses
  PROVE  Button!StartInv'
  <1> DEFINE Silent == \A t \in Button!Threads, sig \in Button!Signals : Button!Place(t, sig) = "none"
  <1>1. /\ presses \in Nat /\ presses' \in Nat
        /\ base \in [Button!Threads -> Button!Places]
        /\ presses = 0 => ~down /\ pending = {} /\ Silent
        /\ presses > 0 /\ ~early => base["main"] = "loop"
    BY BtnConstants DEF Button!TypeOK, Button!StackInv, Button!StartInv
  <1>2. SUFFICES /\ presses' = 0 => ~down' /\ pending' = {} /\ Silent'
                 /\ presses' > 0 /\ ~early' => base'["main"] = "loop"
    BY DEF Button!StartInv
  <1>3. ASSUME BtnStays PROVE Silent => Silent'
    BY <1>3 DEF BtnStays
  <1>4. ASSUME NEW t \in Button!Threads, NEW sig \in Button!Signals, NEW from, NEW to,
               BtnGoes(t, sig, from, to), from # "none"
        PROVE  presses # 0
    BY <1>1, <1>4 DEF BtnGoes
  <1> HIDE DEF Silent
  <1>5. ASSUME presses # 0, presses' = presses, early' = early
        PROVE  /\ presses' = 0 => ~down' /\ pending' = {} /\ Silent'
               /\ presses' > 0 /\ ~early' => base'["main"] = "loop"
    BY <1>1, <1>5, BtnBase
  <1>6. CASE BtnStays /\ Button!Press
    <2>1. presses' = presses + 1 /\ base' = base
      BY <1>6 DEF Button!Press
    <2>2. ~early' => base["main"] = "loop"
      BY <1>6, Zenon DEF Button!Press
    <2>3. QED
      BY <1>1, <2>1, <2>2
  <1>7. CASE BtnStays /\ Button!Release
    <2>1. presses # 0 /\ presses' = presses /\ early' = early
      BY <1>1, <1>7 DEF Button!Release, Button!races
    <2>2. QED
      BY <1>5, <2>1
  <1>8. CASE BtnHandler
    <2>1. PICK sig \in Button!Signals : Button!signal_handler(sig)
      BY <1>8 DEF BtnHandler
    <2>2. presses # 0 /\ presses' = presses /\ early' = early
      BY <1>1, <2>1 DEF Button!signal_handler, Button!user, Button!races
    <2>3. QED
      BY <1>5, <2>2
  <1>9. ASSUME NEW t \in Button!Threads, BtnOnPress(t)
        PROVE  /\ presses' = 0 => ~down' /\ pending' = {} /\ Silent'
               /\ presses' > 0 /\ ~early' => base'["main"] = "loop"
    <2>1. presses' = presses /\ early' = early
      BY <1>9 DEF BtnOnPress, Button!OnPressRead, Button!OnPressBlink, Button!OnPressEnd,
         Button!user, Button!races
    <2>2. presses # 0
      BY <1>4, <1>9 DEF BtnOnPress, Button!Signals
    <2>3. QED
      BY <1>5, <2>1, <2>2
  <1>10. ASSUME NEW t \in Button!Threads, BtnOnRelease(t)
         PROVE  /\ presses' = 0 => ~down' /\ pending' = {} /\ Silent'
                /\ presses' > 0 /\ ~early' => base'["main"] = "loop"
    <2>1. presses' = presses /\ early' = early
      BY <1>10 DEF BtnOnRelease, Button!OnReleaseDark, Button!OnReleaseRead, Button!OnReleaseAct,
         Button!OnReleaseLock, Button!OnReleaseSent, Button!user, Button!races
    <2>2. presses # 0
      <3>1. \A from \in {"dark", "read", "act", "lock", "lockToExit", "sending", "sendingToExit"} :
              \A to : BtnGoes(t, "SIGUSR2", from, to) => presses # 0
        BY <1>4 DEF Button!Signals
      <3>2. QED
        BY <1>10, <3>1 DEF BtnOnRelease
    <2>3. QED
      BY <1>5, <2>1, <2>2
  <1>11. CASE /\ BtnStays
              /\ Button!Tick \/ Button!main \/ Button!init \/ Button!SendMessage \/ UNCHANGED Button!vars
    <2>1. UNCHANGED <<presses, early, down, pending>>
      BY <1>11 DEF Button!Tick, Button!main, Button!init, Button!SendMessage, Button!Lock,
         Button!Unlock, Button!Runs, Button!vars, Button!user, Button!races
    <2>2. QED
      BY <1>1, <1>3, <1>11, <2>1, BtnBase
  <1>12. QED
    BY <1>6, <1>7, <1>8, <1>9, <1>10, <1>11 DEF BtnStep

LEMMA BtnNextMutex ==
  ASSUME Button!TypeOK, Button!StackInv, Button!MutexInv, BtnStep
  PROVE  Button!MutexInv'
  <1> DEFINE P == Button!Place("main", "SIGUSR2")
             Sends == {"sending", "sendingToExit"}
             Base == base["main"] \in {"stopping", "resetting"}
  <1>1. /\ mtxWaitSendUart = "main" => Base \/ P \in Sends
        /\ base \in [Button!Threads -> Button!Places]
    BY DEF Button!MutexInv, Button!StackInv
  <1>2. SUFFICES mtxWaitSendUart' = "main" => Base' \/ P' \in Sends
    BY DEF Button!MutexInv
  <1>3. "main" \in Button!Threads /\ "SIGUSR2" \in Button!Signals
    BY DEF Button!Threads, Button!Signals
  <1>4. ASSUME mtxWaitSendUart' = mtxWaitSendUart, base' = base, P \in Sends => P' = P
        PROVE  mtxWaitSendUart' = "main" => Base' \/ P' \in Sends
    BY <1>1, <1>4
  <1>5. BtnStays => P' = P
    BY <1>3 DEF BtnStays
  <1>6. ASSUME NEW t \in Button!Threads, NEW sig \in Button!Signals, NEW from, NEW to,
               BtnGoes(t, sig, from, to), from \notin Sends
        PROVE  P \in Sends => P' = P
    BY <1>3, <1>6 DEF BtnGoes
  <1> HIDE DEF P
  <1>7. CASE BtnStays /\ (Button!Tick \/ Button!Press \/ Button!Release \/ UNCHANGED Button!vars)
    <2>1. mtxWaitSendUart' = mtxWaitSendUart /\ base' = base
      BY <1>7 DEF Button!Tick, Button!Press, Button!Release, Button!vars
    <2>2. QED
      BY <1>4, <1>5, <1>7, <2>1
  <1>8. CASE BtnHandler
    <2>1. mtxWaitSendUart' = mtxWaitSendUart /\ base' = base
      BY <1>8 DEF BtnHandler, Button!signal_handler
    <2>2. P \in Sends => P' = P
      BY <1>6, <1>8 DEF BtnHandler
    <2>3. QED
      BY <1>4, <2>1, <2>2
  <1>9. ASSUME NEW t \in Button!Threads, BtnOnPress(t)
        PROVE  mtxWaitSendUart' = "main" => Base' \/ P' \in Sends
    <2>1. mtxWaitSendUart' = mtxWaitSendUart /\ base' = base
      BY <1>9 DEF BtnOnPress, Button!OnPressRead, Button!OnPressBlink, Button!OnPressEnd
    <2>2. P \in Sends => P' = P
      BY <1>6, <1>9 DEF BtnOnPress, Button!Signals
    <2>3. QED
      BY <1>4, <2>1, <2>2
  <1>10. ASSUME NEW t \in Button!Threads, BtnOnRelease(t)
         PROVE  mtxWaitSendUart' = "main" => Base' \/ P' \in Sends
    <2>1. CASE \E from \in {"dark", "read", "act"} : \E to :
                 /\ BtnGoes(t, "SIGUSR2", from, to)
                 /\ Button!OnReleaseDark(t) \/ Button!OnReleaseRead(t) \/ Button!OnReleaseAct(t)
      <3>1. mtxWaitSendUart' = mtxWaitSendUart /\ base' = base
        BY <2>1 DEF Button!OnReleaseDark, Button!OnReleaseRead, Button!OnReleaseAct
      <3>2. P \in Sends => P' = P
        BY <1>3, <1>6, <2>1
      <3>3. QED
        BY <1>4, <3>1, <3>2
    <2>2. CASE \E from \in {"lock", "lockToExit"}, to \in Sends :
                 Button!OnReleaseLock(t) /\ BtnGoes(t, "SIGUSR2", from, to)
      BY <2>2 DEF Button!OnReleaseLock, BtnGoes, P
    <2>3. CASE Button!OnReleaseSent(t)
      BY <2>3 DEF Button!OnReleaseSent, Button!Free
    <2>4. QED
      BY <1>10, <2>1, <2>2, <2>3 DEF BtnOnRelease
  <1>11. CASE BtnStays /\ (Button!main \/ Button!init \/ Button!SendMessage)
    <2>1. ASSUME Button!main
          PROVE  mtxWaitSendUart' = mtxWaitSendUart /\ ~Base
      BY <2>1 DEF Button!main, Button!Runs
    <2>2. ASSUME Button!init
          PROVE  mtxWaitSendUart' = mtxWaitSendUart /\ ~Base
      BY <2>2 DEF Button!init
    <2>3. ASSUME Button!SendMessage
          PROVE  mtxWaitSendUart' = "main" => Base' \/ P' \in Sends
      <3>1. CASE \/ Button!Lock("main", "stopScan", "stopping")
                 \/ Button!Lock("main", "resetBle", "resetting")
        BY <1>1, <1>3, <3>1 DEF Button!Lock, Button!Runs
      <3>2. CASE \/ Button!Unlock("main", "stopping", "resetBle")
                 \/ Button!Unlock("main", "resetting", "led")
                 \/ Button!Unlock("test", "testing", "idle")
        BY <3>2 DEF Button!Unlock, Button!Free
      <3>3. CASE Button!Lock("test", "idle", "testing")
        BY <3>3 DEF Button!Lock
      <3>4. QED
        BY <2>3, <3>1, <3>2, <3>3 DEF Button!SendMessage
    <2>4. QED
      BY <1>1, <1>5, <1>11, <2>1, <2>2, <2>3
  <1>12. QED
    BY <1>7, <1>8, <1>9, <1>10, <1>11 DEF BtnStep

\* Without an overlap it is main that goes on, with a signal that is not pending.
LEMMA BtnGoesMain ==
  ASSUME Button!ClickInv, ~overlapped, NEW t \in Button!Threads, NEW sig \in Button!Signals,
         NEW from, NEW to, BtnGoes(t, sig, from, to), from # "none"
  PROVE  t = "main" /\ sig \notin pending /\ (sig = "SIGUSR2" => ~down)
  BY DEF Button!ClickInv, BtnGoes, Button!Threads

LEMMA BtnOverlap ==
  ASSUME BtnStep
  PROVE  /\ ~overlapped' => ~overlapped
         /\ ~Button!Press => overlapped' = overlapped
  <1>1. CASE Button!Press
    BY <1>1, Zenon DEF Button!Press
  <1>2. CASE \/ Button!Tick \/ Button!Release \/ Button!main \/ Button!init \/ Button!SendMessage
             \/ UNCHANGED Button!vars
    BY <1>2 DEF Button!Tick, Button!Release, Button!main, Button!init, Button!SendMessage,
       Button!Lock, Button!Unlock, Button!Runs, Button!vars, Button!races
  <1>3. CASE BtnHandler
    BY <1>3 DEF BtnHandler, Button!signal_handler, Button!races
  <1>4. ASSUME NEW t \in Button!Threads, BtnOnPress(t)
        PROVE  overlapped' = overlapped
    BY <1>4 DEF BtnOnPress, Button!OnPressRead, Button!OnPressBlink, Button!OnPressEnd, Button!races
  <1>5. ASSUME NEW t \in Button!Threads, BtnOnRelease(t)
        PROVE  overlapped' = overlapped
    BY <1>5 DEF BtnOnRelease, Button!OnReleaseDark, Button!OnReleaseRead, Button!OnReleaseAct,
       Button!OnReleaseLock, Button!OnReleaseSent, Button!races
  <1>6. QED
    BY <1>1, <1>2, <1>3, <1>4, <1>5, Zenon DEF BtnStep

\* A press that overlaps nothing comes when all is quiet.
LEMMA BtnQuietPress ==
  ASSUME BtnStacks, Button!Press, ~overlapped'
  PROVE  /\ pending = {} /\ pending' = {"SIGUSR1"} /\ down' /\ now' = now /\ pressedAt' = now
         /\ \A t \in Button!Threads, sig \in Button!Signals : Button!Place(t, sig) = "none"
  <1>1. Button!Running = {} /\ pending = {}
    BY Zenon DEF Button!Press
  <1>2. pending' = {"SIGUSR1"} /\ down' /\ now' = now /\ pressedAt' = now
    BY <1>1 DEF Button!Press
  <1>3. QED
    BY <1>1, <1>2, BtnGuards

LEMMA BtnNextClick ==
  ASSUME Button!TypeOK, Button!StackInv, Button!ClickInv, BtnStep
  PROVE  Button!ClickInv'
  <1> DEFINE P(t, sig) == Button!Place(t, sig)
             Click == /\ \A sig \in Button!Signals :
                           /\ P("test", sig) = "none"
                           /\ sig \in pending => P("main", sig) = "none"
                      /\ down => "SIGUSR2" \notin pending /\ P("main", "SIGUSR2") = "none"
  <1> SUFFICES ASSUME ~overlapped' PROVE Click'
    BY DEF Button!ClickInv
  <1>1. ~overlapped
    BY BtnOverlap
  <1>2. Click
    BY <1>1 DEF Button!ClickInv
  <1>3. "main" \in Button!Threads /\ "test" \in Button!Threads /\ "SIGUSR2" \in Button!Signals
        /\ "SIGUSR1" \in Button!Signals
    BY DEF Button!Threads, Button!Signals
  <1>4. BtnStays => \A t \in Button!Threads, sig \in Button!Signals : P(t, sig)' = P(t, sig)
    BY DEF BtnStays
  <1>5. ASSUME NEW t \in Button!Threads, NEW sig \in Button!Signals, NEW from, NEW to,
               BtnGoes(t, sig, from, to), from # "none", UNCHANGED <<pending, down>>
        PROVE  Click'
    <2>1. t = "main" /\ sig \notin pending /\ (sig = "SIGUSR2" => ~down)
      BY <1>1, <1>5, BtnGoesMain
    <2>2. \A s \in Button!Signals :
            P("test", s)' = P("test", s) /\ (s # sig => P("main", s)' = P("main", s))
      BY <1>3, <1>5, <2>1 DEF BtnGoes
    <2> HIDE DEF P
    <2>3. QED
      BY <1>2, <1>3, <1>5, <2>1, <2>2
  <1>6. CASE BtnStays /\ Button!Press
    <2>1. /\ pending' = {"SIGUSR1"}
          /\ \A t \in Button!Threads, sig \in Button!Signals : P(t, sig) = "none"
      BY <1>6, BtnQuietPress, BtnStacksOf
    <2> HIDE DEF P
    <2>2. QED
      BY <1>3, <1>4, <1>6, <2>1
  <1>7. CASE BtnStays /\ Button!Release
    <2>1. down /\ ~down' /\ pending' = pending \cup {"SIGUSR2"}
      BY <1>7 DEF Button!Release
    <2> HIDE DEF P
    <2>2. QED
      BY <1>2, <1>3, <1>4, <1>7, <2>1
  <1>8. CASE BtnHandler
    <2>1. PICK t \in Button!Threads, sig \in Button!Signals :
            /\ Button!signal_handler(sig)
            /\ BtnGoes(t, sig, "none", IF sig = "SIGUSR1" THEN "read" ELSE "dark")
            /\ t = "test" => P("main", sig) # "none"
      BY <1>8 DEF BtnHandler
    <2>2. sig \in pending /\ pending' = pending \ {sig} /\ down' = down
      BY <2>1 DEF Button!signal_handler, Button!user
    <2>3. t = "main"
      BY <1>2, <2>1, <2>2 DEF Button!Threads
    <2>4. \A s \in Button!Signals :
            P("test", s)' = P("test", s) /\ (s # sig => P("main", s)' = P("main", s))
      BY <1>3, <2>1, <2>3 DEF BtnGoes
    <2>5. sig = "SIGUSR2" => ~down
      BY <1>2, <2>2
    <2> HIDE DEF P
    <2>6. QED
      BY <1>2, <1>3, <2>2, <2>4, <2>5
  <1>9. ASSUME NEW t \in Button!Threads, BtnOnPress(t)
        PROVE  Click'
    <2>1. UNCHANGED <<pending, down>>
      BY <1>9 DEF BtnOnPress, Button!OnPressRead, Button!OnPressBlink, Button!OnPressEnd,
         Button!user
    <2> HIDE DEF Click
    <2>2. QED
      BY <1>3, <1>5, <1>9, <2>1 DEF BtnOnPress
  <1>10. ASSUME NEW t \in Button!Threads, BtnOnRelease(t)
         PROVE  Click'
    <2>1. UNCHANGED <<pending, down>>
      BY <1>10 DEF BtnOnRelease, Button!OnReleaseDark, Button!OnReleaseRead, Button!OnReleaseAct,
         Button!OnReleaseLock, Button!OnReleaseSent, Button!user
    <2> HIDE DEF Click
    <2>2. \A from \in {"dark", "read", "act", "lock", "lockToExit", "sending", "sendingToExit"} :
            \A to : BtnGoes(t, "SIGUSR2", from, to) => Click'
      BY <1>3, <1>5, <2>1
    <2>3. QED
      BY <1>10, <2>2 DEF BtnOnRelease
  <1>11. CASE /\ BtnStays
              /\ Button!Tick \/ Button!main \/ Button!init \/ Button!SendMessage \/ UNCHANGED Button!vars
    <2>1. UNCHANGED <<down, pending>>
      BY <1>11 DEF Button!Tick, Button!main, Button!init, Button!SendMessage, Button!Lock,
         Button!Unlock, Button!Runs, Button!vars, Button!user
    <2> HIDE DEF P
    <2>2. QED
      BY <1>2, <1>3, <1>4, <1>11, <2>1
  <1>12. QED
    BY <1>6, <1>7, <1>8, <1>9, <1>10, <1>11 DEF BtnStep

LEMMA BtnNextTime ==
  ASSUME Button!TypeOK, Button!StackInv, Button!ClickInv, Button!TimeInv, BtnTimes, BtnTimes', BtnStep
  PROVE  Button!TimeInv'
  <1> DEFINE P(sig) == Button!Place("main", sig)
             U == "SIGUSR1" \in pending \/ P("SIGUSR1") = "read"
             Late == "SIGUSR2" \in pending \/ P("SIGUSR2") \in {"dark", "read"}
             Act == P("SIGUSR2") = "act" /\ ~inverted
             Time == /\ U => now = pressedAt
                     /\ ~U /\ presses > 0 => pressTime = pressedAt
                     /\ Late => now = pressedAt + held
                     /\ Act => releaseTime = pressedAt + held /\ ~U
  <1> SUFFICES ASSUME ~overlapped' PROVE Time'
    BY DEF Button!TimeInv, Button!Unread
  <1>1. ~overlapped
    BY BtnOverlap
  <1>2. Time
    BY <1>1 DEF Button!TimeInv, Button!Unread
  <1>3. "main" \in Button!Threads /\ "SIGUSR2" \in Button!Signals /\ "SIGUSR1" \in Button!Signals
    BY DEF Button!Threads, Button!Signals
  <1>4. /\ \A sig \in Button!Signals : sig \in pending => P(sig) = "none"
        /\ down => "SIGUSR2" \notin pending /\ P("SIGUSR2") = "none"
    BY <1>1 DEF Button!ClickInv
  <1>5. BtnStays => P("SIGUSR1")' = P("SIGUSR1") /\ P("SIGUSR2")' = P("SIGUSR2")
    BY <1>3 DEF BtnStays
  <1>6. ASSUME NEW t \in Button!Threads, NEW from, NEW to,
               BtnGoes(t, "SIGUSR1", from, to), from # "none"
        PROVE  /\ P("SIGUSR1") = from /\ P("SIGUSR1")' = to /\ P("SIGUSR2")' = P("SIGUSR2")
               /\ "SIGUSR1" \notin pending
    BY <1>1, <1>3, <1>6, BtnGoesMain DEF BtnGoes
  <1>7. ASSUME NEW t \in Button!Threads, NEW from, NEW to,
               BtnGoes(t, "SIGUSR2", from, to), from # "none"
        PROVE  /\ P("SIGUSR2") = from /\ P("SIGUSR2")' = to /\ P("SIGUSR1")' = P("SIGUSR1")
               /\ "SIGUSR2" \notin pending
    BY <1>1, <1>3, <1>7, BtnGoesMain DEF BtnGoes
  <1>8. /\ now \in Int /\ pressedAt \in Int /\ held \in Int /\ now' \in Int /\ pressedAt' \in Int
        /\ presses \in Nat
    BY BtnConstants DEF BtnTimes, Button!TypeOK
  <1>9. CASE BtnStays /\ Button!Tick
    <2>1. /\ pending = {} /\ P("SIGUSR1") \notin {"dark", "read"} /\ P("SIGUSR2") \notin {"dark", "read"}
      BY <1>3, <1>9, BtnGuards, BtnStacksOf DEF Button!Tick
    <2>2. UNCHANGED <<pending, presses, pressTime, pressedAt, held, releaseTime, inverted>>
      BY <1>9 DEF Button!Tick, Button!signal, Button!races
    <2> HIDE DEF P
    <2>3. QED
      BY <1>2, <1>5, <1>9, <2>1, <2>2
  <1>10. CASE BtnStays /\ Button!Press
    <2>1. /\ pending' = {"SIGUSR1"} /\ now' = now /\ pressedAt' = now
          /\ P("SIGUSR1") = "none" /\ P("SIGUSR2") = "none"
      BY <1>3, <1>10, BtnQuietPress, BtnStacksOf
    <2> HIDE DEF P
    <2>2. QED
      BY <1>5, <1>10, <2>1
  <1>11. CASE BtnStays /\ Button!Release
    <2>1. /\ down /\ held' = now - pressedAt /\ pending' = pending \cup {"SIGUSR2"}
          /\ UNCHANGED <<now, pressedAt, presses, pressTime, releaseTime, inverted>>
      BY <1>11 DEF Button!Release, Button!signal, Button!races
    <2>2. now' = pressedAt' + held'
      BY <1>8, <2>1
    <2>3. P("SIGUSR2")' = "none"
      BY <1>4, <1>5, <1>11, <2>1
    <2>4. U' <=> U
      BY <1>5, <1>11, <2>1
    <2> HIDE DEF P, U
    <2>5. QED
      BY <1>2, <2>1, <2>2, <2>3, <2>4
  <1>12. CASE BtnHandler
    <2>1. PICK t \in Button!Threads, sig \in Button!Signals :
            /\ Button!signal_handler(sig)
            /\ BtnGoes(t, sig, "none", IF sig = "SIGUSR1" THEN "read" ELSE "dark")
            /\ t = "test" => P(sig) # "none"
      BY <1>12 DEF BtnHandler
    <2>2. /\ sig \in pending /\ pending' = pending \ {sig}
          /\ UNCHANGED <<now, pressedAt, held, presses, pressTime, releaseTime, inverted>>
      BY <2>1 DEF Button!signal_handler, Button!user, Button!signal, Button!races
    <2>3. t = "main"
      BY <1>4, <2>1, <2>2 DEF Button!Threads
    <2>4. CASE sig = "SIGUSR1"
      <3>1. P("SIGUSR1")' = "read" /\ P("SIGUSR2")' = P("SIGUSR2")
        BY <1>3, <2>1, <2>3, <2>4 DEF BtnGoes
      <3> HIDE DEF P
      <3>2. QED
        BY <1>2, <2>2, <2>4, <3>1
    <2>5. CASE sig = "SIGUSR2"
      <3>1. P("SIGUSR2")' = "dark" /\ P("SIGUSR1")' = P("SIGUSR1")
        BY <1>3, <2>1, <2>3, <2>5 DEF BtnGoes
      <3> HIDE DEF P
      <3>2. QED
        BY <1>2, <2>2, <2>5, <3>1
    <2>6. QED
      BY <2>4, <2>5 DEF Button!Signals
  <1>13. ASSUME NEW t \in Button!Threads, BtnOnPress(t)
         PROVE  Time'
    <2>1. UNCHANGED <<pending, now, pressedAt, held, presses, releaseTime, inverted>>
      BY <1>13 DEF BtnOnPress, Button!OnPressRead, Button!OnPressBlink, Button!OnPressEnd,
         Button!user, Button!races, Button!signal
    <2>2. CASE Button!OnPressRead(t) /\ BtnGoes(t, "SIGUSR1", "read", "blink")
      <3>1. pressTime' = now
        BY <2>2 DEF Button!OnPressRead
      <3>2. /\ P("SIGUSR1") = "read" /\ P("SIGUSR1")' = "blink" /\ P("SIGUSR2")' = P("SIGUSR2")
            /\ "SIGUSR1" \notin pending
        BY <1>6, <2>2
      <3> HIDE DEF P
      <3>3. QED
        BY <1>2, <2>1, <3>1, <3>2
    <2>3. CASE \/ Button!OnPressBlink(t) /\ BtnGoes(t, "SIGUSR1", "blink", "loop")
               \/ Button!OnPressEnd(t) /\ BtnGoes(t, "SIGUSR1", "loop", "none")
      <3>1. pressTime' = pressTime
        BY <2>3 DEF Button!OnPressBlink, Button!OnPressEnd, Button!signal
      <3>2. /\ P("SIGUSR1") # "read" /\ P("SIGUSR1")' # "read" /\ P("SIGUSR2")' = P("SIGUSR2")
        BY <1>6, <2>3
      <3> HIDE DEF P
      <3>3. QED
        BY <1>2, <2>1, <3>1, <3>2
    <2>4. QED
      BY <1>13, <2>2, <2>3 DEF BtnOnPress
  <1>14. ASSUME NEW t \in Button!Threads, BtnOnRelease(t)
         PROVE  Time'
    <2>1. UNCHANGED <<pending, now, pressedAt, held, presses, pressTime>>
      BY <1>14 DEF BtnOnRelease, Button!OnReleaseDark, Button!OnReleaseRead, Button!OnReleaseAct,
         Button!OnReleaseLock, Button!OnReleaseSent, Button!user, Button!signal
    <2>2. CASE Button!OnReleaseDark(t) /\ BtnGoes(t, "SIGUSR2", "dark", "read")
      <3>1. releaseTime' = releaseTime /\ inverted' = inverted
        BY <2>2 DEF Button!OnReleaseDark, Button!races
      <3>2. /\ P("SIGUSR2") = "dark" /\ P("SIGUSR2")' = "read" /\ P("SIGUSR1")' = P("SIGUSR1")
            /\ "SIGUSR2" \notin pending
        BY <1>7, <2>2
      <3> HIDE DEF P
      <3>3. QED
        BY <1>2, <2>1, <3>1, <3>2
    <2>3. CASE Button!OnReleaseRead(t) /\ BtnGoes(t, "SIGUSR2", "read", "act")
      <3>1. releaseTime' = now
        BY <2>3 DEF Button!OnReleaseRead
      <3>2. ~inverted' => ~U
        <4>1. ~inverted' => ~Button!PressUnread
          BY <2>3, Zenon DEF Button!OnReleaseRead
        <4>2. QED
          BY <4>1, BtnGuards, BtnStacksOf
      <3>3. /\ P("SIGUSR2") = "read" /\ P("SIGUSR2")' = "act" /\ P("SIGUSR1")' = P("SIGUSR1")
            /\ "SIGUSR2" \notin pending
        BY <1>7, <2>3
      <3> HIDE DEF P
      <3>4. QED
        BY <1>2, <2>1, <3>1, <3>2, <3>3
    <2>4. CASE \E from \in {"act", "lock", "lockToExit", "sending", "sendingToExit"},
                  to \in {"none", "lock", "lockToExit", "sending", "sendingToExit"} :
                 /\ Button!OnReleaseAct(t) \/ Button!OnReleaseLock(t) \/ Button!OnReleaseSent(t)
                 /\ BtnGoes(t, "SIGUSR2", from, to)
      <3>1. /\ P("SIGUSR2")' \notin {"dark", "read", "act"} /\ P("SIGUSR1")' = P("SIGUSR1")
            /\ "SIGUSR2" \notin pending
        BY <1>7, <2>4
      <3> HIDE DEF P
      <3>2. QED
        BY <1>2, <2>1, <3>1
    <2>5. QED
      BY <1>14, <2>2, <2>3, <2>4 DEF BtnOnRelease
  <1>15. CASE /\ BtnStays
              /\ Button!main \/ Button!init \/ Button!SendMessage \/ UNCHANGED Button!vars
    <2>1. UNCHANGED <<pending, now, pressedAt, held, presses, pressTime, releaseTime, inverted>>
      BY <1>15 DEF Button!main, Button!init, Button!SendMessage, Button!Lock,
         Button!Unlock, Button!Runs, Button!vars, Button!user, Button!signal, Button!races
    <2> HIDE DEF P
    <2>2. QED
      BY <1>2, <1>5, <1>15, <2>1
  <1>16. QED
    BY <1>9, <1>10, <1>11, <1>12, <1>13, <1>14, <1>15 DEF BtnStep

LEMMA BtnNextCrash ==
  ASSUME Button!TypeOK, Button!StackInv, Button!StartInv, Button!CrashIsEarly, BtnStep
  PROVE  Button!CrashIsEarly'
  <1>1. SUFFICES ASSUME ended' = "crash" PROVE early'
    BY DEF Button!CrashIsEarly
  <1>2. CASE Button!Press
    BY <1>1, <1>2, Zenon DEF Button!Press, Button!effects, Button!CrashIsEarly
  <1>3. CASE \/ Button!Tick \/ Button!Release \/ Button!main \/ Button!init \/ Button!SendMessage
             \/ UNCHANGED Button!vars
    <2>1. ended' = ended /\ early' = early
      BY <1>3 DEF Button!Tick, Button!Release, Button!main, Button!init, Button!SendMessage,
         Button!Lock, Button!Unlock, Button!Runs, Button!vars, Button!races, Button!effects
    <2>2. QED
      BY <1>1, <2>1 DEF Button!CrashIsEarly
  <1>4. CASE BtnHandler
    BY <1>1, <1>4 DEF BtnHandler, Button!signal_handler, Button!races, Button!effects,
       Button!CrashIsEarly
  <1>5. ASSUME NEW t \in Button!Threads, BtnOnPress(t)
        PROVE  early'
    BY <1>1, <1>5 DEF BtnOnPress, Button!OnPressRead, Button!OnPressBlink, Button!OnPressEnd,
       Button!races, Button!effects, Button!CrashIsEarly
  <1>6. ASSUME NEW t \in Button!Threads, BtnOnRelease(t)
        PROVE  early'
    <2>1. CASE \E to : Button!OnReleaseAct(t) /\ BtnGoes(t, "SIGUSR2", "act", to)
      <3>1. early' = early /\ \E a \in Button!Acts : Button!Null(a)
        BY <1>1, <2>1 DEF Button!OnReleaseAct, Button!races, Button!ActOf
      <3>2. base["main"] # "loop"
        BY <3>1 DEF Button!Null, Button!Ble, Button!Gateway
      <3>3. presses # 0
        BY <2>1 DEF BtnGoes, Button!StartInv, Button!Signals
      <3>4. presses > 0
        BY <3>3, BtnConstants DEF Button!TypeOK
      <3>5. early
        BY <3>2, <3>4 DEF Button!StartInv
      <3>6. QED
        BY <3>1, <3>5
    <2>2. CASE Button!OnReleaseDark(t) \/ Button!OnReleaseRead(t) \/ Button!OnReleaseLock(t)
      BY <1>1, <2>2 DEF Button!OnReleaseDark, Button!OnReleaseRead, Button!OnReleaseLock,
         Button!races, Button!effects, Button!CrashIsEarly
    <2>3. CASE Button!OnReleaseSent(t)
      BY <1>1, <2>3 DEF Button!OnReleaseSent
    <2>4. QED
      BY <1>6, <2>1, <2>2, <2>3 DEF BtnOnRelease
  <1>7. QED
    BY <1>2, <1>3, <1>4, <1>5, <1>6 DEF BtnStep

\* A release acts on the time the button was held.
LEMMA BtnActFits ==
  ASSUME Button!TypeOK, Button!StackInv, Button!StartInv, Button!ClickInv, Button!TimeInv, BtnTimes,
         NEW t \in Button!Threads, NEW to, BtnGoes(t, "SIGUSR2", "act", to),
         ~inverted, ~overlapped
  PROVE  Button!ActOf(releaseTime - pressTime)
           = {a \in Button!Acts : Hold[a].from < held /\ held < Hold[a].to}
  <1>1. t = "main" /\ Button!Place(t, "SIGUSR2") = "act"
    BY BtnGoesMain DEF BtnGoes, Button!Signals
  <1>2. releaseTime = pressedAt + held /\ ~Button!Unread
    BY <1>1 DEF Button!TimeInv
  <1>3. presses > 0
    <2>1. presses # 0
      BY <1>1 DEF Button!StartInv, Button!Signals
    <2>2. QED
      BY <2>1, BtnConstants DEF Button!TypeOK
  <1>4. pressTime = pressedAt
    BY <1>2, <1>3 DEF Button!TimeInv
  <1>5. releaseTime - pressTime = held /\ held \in Int
    BY <1>2, <1>4 DEF BtnTimes
  <1>6. \A a \in Button!Acts : /\ Hold[a].from \in Nat /\ Hold[a].to \in Nat
                               /\ DOUBLE_CLICK_TIME <= Hold[a].from
    BY BtnConstants
  <1>7. held < DOUBLE_CLICK_TIME => \A a \in Button!Acts : ~(Hold[a].from < held)
    BY <1>5, <1>6, BtnConstants
  <1>8. QED
    BY <1>5, <1>7 DEF Button!ActOf

LEMMA BtnNextFits ==
  ASSUME Button!TypeOK, Button!StackInv, Button!StartInv, Button!ClickInv, Button!TimeInv,
         BtnTimes, Button!ReleaseFitsHold, BtnStep
  PROVE  Button!ReleaseFitsHold'
  <1>1. SUFFICES ASSUME wrong', ~inverted', ~overlapped' PROVE FALSE
    BY DEF Button!ReleaseFitsHold
  <1>2. ~overlapped
    BY <1>1, BtnOverlap
  <1>3. ASSUME wrong' = wrong, inverted' = inverted PROVE FALSE
    BY <1>1, <1>2, <1>3 DEF Button!ReleaseFitsHold
  <1>4. CASE \/ Button!Tick \/ Button!Press \/ Button!Release \/ Button!main \/ Button!init
             \/ Button!SendMessage \/ UNCHANGED Button!vars
    BY <1>3, <1>4 DEF Button!Tick, Button!Press, Button!Release, Button!main, Button!init,
       Button!SendMessage, Button!Lock, Button!Unlock, Button!Runs, Button!vars,
       Button!races, Button!effects
  <1>5. CASE BtnHandler
    BY <1>3, <1>5 DEF BtnHandler, Button!signal_handler, Button!races, Button!effects
  <1>6. ASSUME NEW t \in Button!Threads, BtnOnPress(t)
        PROVE  FALSE
    BY <1>3, <1>6 DEF BtnOnPress, Button!OnPressRead, Button!OnPressBlink, Button!OnPressEnd,
       Button!races, Button!effects
  <1>7. ASSUME NEW t \in Button!Threads, BtnOnRelease(t)
        PROVE  FALSE
    <2>1. CASE \E to : Button!OnReleaseAct(t) /\ BtnGoes(t, "SIGUSR2", "act", to)
      <3>1. inverted' = inverted
        BY <2>1 DEF Button!OnReleaseAct, Button!races
      <3>2. ~inverted
        BY <1>1, <3>1
      <3>3. Button!ActOf(releaseTime - pressTime)
              = {a \in Button!Acts : Hold[a].from < held /\ held < Hold[a].to}
        BY <1>2, <2>1, <3>2, BtnActFits
      <3>4. wrong' => wrong
        BY <2>1, <3>3, Zenon DEF Button!OnReleaseAct
      <3>5. QED
        BY <1>1, <1>2, <3>2, <3>4 DEF Button!ReleaseFitsHold
    <2>2. CASE Button!OnReleaseRead(t)
      <3>1. wrong' = wrong
        BY <2>2 DEF Button!OnReleaseRead, Button!effects
      <3>2. ~inverted
        BY <1>1, <2>2, Zenon DEF Button!OnReleaseRead
      <3>3. QED
        BY <1>1, <1>2, <3>1, <3>2 DEF Button!ReleaseFitsHold
    <2>3. CASE Button!OnReleaseDark(t) \/ Button!OnReleaseLock(t) \/ Button!OnReleaseSent(t)
      BY <1>3, <2>3 DEF Button!OnReleaseDark, Button!OnReleaseLock, Button!OnReleaseSent,
         Button!races, Button!effects
    <2>4. QED
      BY <1>7, <2>1, <2>2, <2>3 DEF BtnOnRelease
  <1>8. QED
    BY <1>4, <1>5, <1>6, <1>7 DEF BtnStep

LEMMA BtnNext ==
  ASSUME Button!IInv, [Button!Next]_(Button!vars)
  PROVE  Button!IInv'
  <1> USE DEF Button!IInv
  <1>1. BtnStacks /\ BtnTimes
    BY BtnStacksOf DEF BtnTimes, Button!TypeOK, Button!StackInv
  <1>2. BtnStacks' /\ BtnStep
    BY <1>1, BtnSteps
  <1>3. Button!CountInv' /\ clickCount' \in Nat /\ presses' \in 0 .. MaxPresses
    BY <1>2, BtnNextCount
  <1>4. Button!TypeOK' /\ Button!StackInv' /\ BtnTimes'
    BY <1>1, <1>2, <1>3, BtnNextTypeOK, BtnNextTimes
  <1>5. Button!StartInv' /\ Button!MutexInv' /\ Button!ClickInv'
    BY <1>2, <1>3, BtnNextStart, BtnNextMutex, BtnNextClick
  <1>6. Button!TimeInv' /\ Button!CrashIsEarly' /\ Button!ReleaseFitsHold'
    BY <1>1, <1>2, <1>4, BtnNextTime, BtnNextCrash, BtnNextFits
  <1>7. QED
    BY <1>3, <1>4, <1>5, <1>6

\* A thread that waits for its own mutex took it outside of the handler.
LEMMA BtnStuck == Button!IInv => Button!StuckNeedsARace
  <1> USE DEF Button!IInv
  <1> SUFFICES ASSUME Button!IInv
               PROVE  (Button!Stuck("main") => early) /\ (Button!Stuck("test") => overlapped)
    BY DEF Button!StuckNeedsARace
  <1>1. ASSUME NEW t \in Button!Threads, Button!Stuck(t)
        PROVE  Button!Place(t, "SIGUSR2") \in {"lock", "lockToExit"} /\ mtxWaitSendUart = t
    <2>1. PICK from \in {"lock", "lockToExit"} : Button!At(t, from) /\ mtxWaitSendUart = t
      BY <1>1 DEF Button!Stuck
    <2>2. Button!Place(t, "SIGUSR2") = from
      BY <2>1, BtnStacksOf, BtnAt DEF Button!Releases
    <2>3. QED
      BY <2>1, <2>2
  <1>2. Button!Stuck("test") => overlapped
    BY <1>1 DEF Button!ClickInv, Button!Threads, Button!Signals
  <1>3. ASSUME Button!Stuck("main") PROVE early
    <2>1. Button!Place("main", "SIGUSR2") \in {"lock", "lockToExit"} /\ mtxWaitSendUart = "main"
      BY <1>1, <1>3 DEF Button!Threads
    <2>2. base["main"] # "loop"
      BY <2>1 DEF Button!MutexInv
    <2>3. presses # 0
      BY <2>1 DEF Button!StartInv, Button!Signals, Button!Threads
    <2>4. presses > 0
      BY <2>3, BtnConstants DEF Button!TypeOK
    <2>5. QED
      BY <2>2, <2>4 DEF Button!StartInv
  <1>4. QED
    BY <1>2, <1>3

\* The inductive invariant of the button: no thread handles a signal on top of
\* itself, main has started when a press is not early, clicks that do not
\* overlap are handled by main alone, and their times are theirs
\* (ButtonSignal.cpp:50-81, main.cpp:48-95).
THEOREM ButtonInvariance == PartsSpec => [](part = "button" => Button!IInv)
  <1> DEFINE Inv == part = "button" => Button!IInv
  <1>1. PartsInit => Inv
    BY BtnInit DEF PartsInit
  <1>2. Inv /\ [PartsNext]_partsVars => Inv'
    <2> SUFFICES ASSUME Button!IInv, part' = part, [PartsNext]_partsVars, part = "button"
                 PROVE  Button!IInv'
      BY DEF PartsNext, partsVars
    <2>1. [Button!Next]_(Button!vars)
      BY DEF PartsNext, partsVars, buttonVars, Button!vars
    <2>2. QED
      BY <2>1, BtnNext
  <1>3. QED
    BY <1>1, <1>2, PTL DEF PartsSpec

\* What can go wrong with the button needs a click during the start, a quick
\* one or two that overlap, for any number of presses and any bounds of the
\* holds (ButtonSignal.cpp:50-81, main.cpp:48-95).
THEOREM ButtonFaultsNeedARaceAlways == PartsSpec => []ButtonFaultsNeedARace
  <1>1. (part = "button" => Button!IInv) => ButtonFaultsNeedARace
    BY BtnStuck DEF ButtonFaultsNeedARace, Button!IInv
  <1>2. QED
    BY <1>1, ButtonInvariance, PTL
=============================================================================
