------------------------------- MODULE PtRwProofs -------------------------------
(***************************************************************************)
(* The readers and writer lock is right for any number of threads.         *)
(***************************************************************************)
EXTENDS PtRw, FiniteSetTheorems, TLAPS

\* The destroyer returns only after the shutdown, which keeps everybody out.
DestroyedIsShut == destroyer = "returned" => shutdown = 1

IInv ==
  /\ TypeOK
  /\ Counted
  /\ Exclusion
  /\ NobodyOversleeps
  /\ DestroyedIsUnused
  /\ DestroyedIsShut

In(b) == IF b THEN 1 ELSE 0

-------------------------------------------------------------------------------
(* Counting the threads *)

LEMMA Subsets ==
  \A S \in SUBSET Threads :
    /\ IsFiniteSet(S)
    /\ Cardinality(S) \in 0 .. Cardinality(Threads)
    /\ Cardinality(S) = 0 <=> S = {}
BY RwAssumption, FS_Subset, FS_CardinalityType, FS_EmptySet

LEMMA Finite ==
  /\ Reading \in SUBSET Threads /\ Writing \in SUBSET Threads
  /\ ReadersWaiting \in SUBSET Threads /\ WritersWaiting \in SUBSET Threads
BY DEF Reading, Writing, ReadersWaiting, WritersWaiting

\* Only t comes in or goes out of a set.
LEMMA OneMoves ==
  ASSUME NEW S, NEW T, NEW t, IsFiniteSet(S), S \ {t} = T \ {t}
  PROVE  Cardinality(T) = Cardinality(S) + In(t \in T) - In(t \in S)
<1>1. CASE t \in S /\ t \in T
  <2>1. S = T
    BY <1>1
  <2> QED
    BY <1>1, <2>1, FS_CardinalityType DEF In
<1>2. CASE t \notin S /\ t \notin T
  <2>1. S = T
    BY <1>2
  <2> QED
    BY <1>2, <2>1, FS_CardinalityType DEF In
<1>3. CASE t \in S /\ t \notin T
  <2>1. T = S \ {t}
    BY <1>3
  <2>2. Cardinality(T) = Cardinality(S) - 1
    BY <1>3, <2>1, FS_RemoveElement
  <2> QED
    BY <1>3, <2>2, FS_CardinalityType DEF In
<1>4. CASE t \notin S /\ t \in T
  <2>1. T = S \cup {t}
    BY <1>4
  <2>2. Cardinality(T) = Cardinality(S) + 1
    BY <1>4, <2>1, FS_AddElement
  <2> QED
    BY <1>4, <2>2, FS_CardinalityType DEF In
<1> QED
  BY <1>1, <1>2, <1>3, <1>4

\* The other threads stay where they are, or wake.
Others(t) == \A u \in Threads : u # t => pc'[u] \in {pc[u], Awake(pc[u])}

LEMMA Recount ==
  ASSUME NEW t \in Threads, Others(t)
  PROVE  /\ Cardinality(Reading') = Cardinality(Reading)
              + In(t \in Reading') - In(t \in Reading)
         /\ Cardinality(Writing') = Cardinality(Writing)
              + In(t \in Writing') - In(t \in Writing)
         /\ Cardinality(ReadersWaiting') = Cardinality(ReadersWaiting)
              + In(t \in ReadersWaiting') - In(t \in ReadersWaiting)
         /\ Cardinality(WritersWaiting') = Cardinality(WritersWaiting)
              + In(t \in WritersWaiting') - In(t \in WritersWaiting)
<1>1. Reading \ {t} = Reading' \ {t}
  BY DEF Others, Awake, Reading
<1>2. Writing \ {t} = Writing' \ {t}
  BY DEF Others, Awake, Writing
<1>3. ReadersWaiting \ {t} = ReadersWaiting' \ {t}
  BY DEF Others, Awake, ReadersWaiting
<1>4. WritersWaiting \ {t} = WritersWaiting' \ {t}
  BY DEF Others, Awake, WritersWaiting
<1> QED
  BY <1>1, <1>2, <1>3, <1>4, OneMoves, Finite, Subsets

\* What the lock knows of its threads from the counters.
CountersTell ==
  /\ readers_reading > 0 <=> Reading # {}
  /\ readers_waiting > 0 <=> ReadersWaiting # {}
  /\ writer_writing = 1 <=> Writing # {}
  /\ writers_waiting > 0 <=> WritersWaiting # {}
  /\ readers_reading \in 0 .. Cardinality(Threads)
  /\ readers_waiting \in 0 .. Cardinality(Threads)
  /\ writers_waiting \in 0 .. Cardinality(Threads)

LEMMA Tell == Counted /\ writer_writing \in {0, 1} => CountersTell
BY Finite, Subsets DEF Counted, CountersTell

LEMMA TellNext == (Counted /\ writer_writing \in {0, 1} => CountersTell)'
BY Tell, PTL

-------------------------------------------------------------------------------
(* The steps *)

LEMMA InitIInv == Init => IInv
<1> SUFFICES ASSUME Init PROVE IInv
  OBVIOUS
<1>1. Reading = {} /\ Writing = {} /\ ReadersWaiting = {} /\ WritersWaiting = {}
  BY DEF Init, Reading, Writing, ReadersWaiting, WritersWaiting
<1>2. Counted
  BY <1>1, FS_EmptySet DEF Init, Counted
<1>3. CountersTell
  BY <1>2, Tell DEF Init
<1> QED
  BY <1>1, <1>2, <1>3
  DEF Init, IInv, TypeOK, CountersTell, Exclusion, NobodyOversleeps,
      DestroyedIsUnused, DestroyedIsShut

\* A reader comes in, and sleeps or reads.
LEMMA ReadLockStep ==
  ASSUME IInv, NEW t \in Threads, ReadLock(t)
  PROVE  IInv'
<1>1. /\ pc[t] = "out" /\ shutdown = 0 /\ shutdown' = 0
      /\ pc' = [pc EXCEPT ![t] = IF ReadersHeldUp THEN "read_asleep" ELSE "reading"]
      /\ UNCHANGED <<destroyer, writer_writing, writers_waiting>>
  BY DEF ReadLock, Go
<1>2. Others(t) /\ pc'[t] = IF ReadersHeldUp THEN "read_asleep" ELSE "reading"
  BY <1>1 DEF Others, IInv, TypeOK
<1>3. /\ In(t \in Reading') = IF ReadersHeldUp THEN 0 ELSE 1
      /\ In(t \in ReadersWaiting') = IF ReadersHeldUp THEN 1 ELSE 0
      /\ In(t \in Writing') = 0 /\ In(t \in WritersWaiting') = 0
      /\ In(t \in Reading) = 0 /\ In(t \in ReadersWaiting) = 0
      /\ In(t \in Writing) = 0 /\ In(t \in WritersWaiting) = 0
  BY <1>1, <1>2 DEF In, Reading, Writing, ReadersWaiting, WritersWaiting
<1>4. Counted'
  BY <1>1, <1>2, <1>3, Recount DEF ReadLock, IInv, TypeOK, Counted
<1>5. TypeOK'
  BY <1>1, <1>4, TellNext DEF CountersTell, IInv, TypeOK
<1>6. CountersTell
  BY Tell DEF IInv, TypeOK
<1>7. Exclusion'
  BY <1>1, <1>2, <1>6
  DEF CountersTell, ReadersHeldUp, IInv, Exclusion, Reading, Writing, TypeOK
<1>8. NobodyOversleeps'
  BY <1>1, <1>2, <1>6
  DEF CountersTell, ReadersHeldUp, IInv, NobodyOversleeps, Reading, Writing,
      WritersWaiting, TypeOK
<1>9. (DestroyedIsUnused /\ DestroyedIsShut)'
  BY <1>1 DEF IInv, DestroyedIsUnused, DestroyedIsShut
<1> QED
  BY <1>4, <1>5, <1>7, <1>8, <1>9 DEF IInv

\* A writer comes in, and sleeps or writes.
LEMMA WriteLockStep ==
  ASSUME IInv, NEW t \in Threads, WriteLock(t)
  PROVE  IInv'
<1>1. /\ pc[t] = "out" /\ shutdown = 0 /\ shutdown' = 0
      /\ pc' = [pc EXCEPT ![t] = IF WritersHeldUp THEN "write_asleep" ELSE "writing"]
      /\ writer_writing' = IF WritersHeldUp THEN writer_writing ELSE 1
      /\ UNCHANGED <<destroyer, readers_reading, readers_waiting>>
  BY DEF WriteLock, Go
<1>2. Others(t) /\ pc'[t] = IF WritersHeldUp THEN "write_asleep" ELSE "writing"
  BY <1>1 DEF Others, IInv, TypeOK
<1>3. /\ In(t \in Reading') = 0 /\ In(t \in Reading) = 0
      /\ In(t \in Writing') = (IF WritersHeldUp THEN 0 ELSE 1)
      /\ In(t \in Writing) = 0
      /\ In(t \in ReadersWaiting') = 0 /\ In(t \in ReadersWaiting) = 0
      /\ In(t \in WritersWaiting') = (IF WritersHeldUp THEN 1 ELSE 0)
      /\ In(t \in WritersWaiting) = 0
  BY <1>1, <1>2 DEF In, Reading, Writing, ReadersWaiting, WritersWaiting
<1>4. Counted'
  BY <1>1, <1>2, <1>3, Recount
  DEF WriteLock, WritersHeldUp, IInv, TypeOK, Counted
<1>5. TypeOK'
  BY <1>1, <1>4, TellNext DEF CountersTell, IInv, TypeOK
<1>6. CountersTell
  BY Tell DEF IInv, TypeOK
<1>7. Exclusion'
  BY <1>1, <1>2, <1>6
  DEF CountersTell, WritersHeldUp, IInv, Exclusion, Reading, Writing, TypeOK
<1>8. NobodyOversleeps'
  BY <1>1, <1>2, <1>6
  DEF CountersTell, WritersHeldUp, IInv, NobodyOversleeps, Reading, Writing,
      WritersWaiting, TypeOK
<1>9. (DestroyedIsUnused /\ DestroyedIsShut)'
  BY <1>1 DEF IInv, DestroyedIsUnused, DestroyedIsShut
<1> QED
  BY <1>4, <1>5, <1>7, <1>8, <1>9 DEF IInv

\* A reader that waited goes out after the shutdown.
LEMMA ReadFailsStep ==
  ASSUME IInv, NEW t \in Threads, ReadFails(t)
  PROVE  IInv'
<1>1. /\ pc[t] = "read_awake" /\ shutdown = 1 /\ shutdown' = 1
      /\ pc' = [pc EXCEPT ![t] = "out"]
      /\ UNCHANGED <<destroyer, writer_writing>>
  BY DEF ReadFails, Go
<1>2. Others(t) /\ pc'[t] = "out"
  BY <1>1 DEF Others, IInv, TypeOK
<1>3. /\ In(t \in Reading') = 0 /\ In(t \in Reading) = 0
      /\ In(t \in Writing') = 0 /\ In(t \in Writing) = 0
      /\ In(t \in ReadersWaiting') = 0 /\ In(t \in ReadersWaiting) = 1
      /\ In(t \in WritersWaiting') = 0 /\ In(t \in WritersWaiting) = 0
  BY <1>1, <1>2 DEF In, Reading, Writing, ReadersWaiting, WritersWaiting
<1>4. Counted'
  BY <1>1, <1>2, <1>3, Recount DEF ReadFails, IInv, TypeOK, Counted
<1>5. TypeOK'
  BY <1>1, <1>4, TellNext DEF CountersTell, IInv, TypeOK
<1>6. CountersTell
  BY Tell DEF IInv, TypeOK
<1>7. Exclusion'
  BY <1>1 DEF IInv, Exclusion, Reading, Writing, TypeOK
<1>8. NobodyOversleeps'
  BY <1>1 DEF NobodyOversleeps
<1>9. (DestroyedIsUnused /\ DestroyedIsShut)'
  BY <1>1 DEF IInv, DestroyedIsUnused, DestroyedIsShut, TypeOK
<1> QED
  BY <1>4, <1>5, <1>7, <1>8, <1>9 DEF IInv

\* A writer that waited goes out after the shutdown.
LEMMA WriteFailsStep ==
  ASSUME IInv, NEW t \in Threads, WriteFails(t)
  PROVE  IInv'
<1>1. /\ pc[t] = "write_awake" /\ shutdown = 1 /\ shutdown' = 1
      /\ pc' = [pc EXCEPT ![t] = "out"]
      /\ UNCHANGED <<destroyer, writer_writing>>
  BY DEF WriteFails, Go
<1>2. Others(t) /\ pc'[t] = "out"
  BY <1>1 DEF Others, IInv, TypeOK
<1>3. /\ In(t \in Reading') = 0 /\ In(t \in Reading) = 0
      /\ In(t \in Writing') = 0 /\ In(t \in Writing) = 0
      /\ In(t \in ReadersWaiting') = 0 /\ In(t \in ReadersWaiting) = 0
      /\ In(t \in WritersWaiting') = 0 /\ In(t \in WritersWaiting) = 1
  BY <1>1, <1>2 DEF In, Reading, Writing, ReadersWaiting, WritersWaiting
<1>4. Counted'
  BY <1>1, <1>2, <1>3, Recount DEF WriteFails, IInv, TypeOK, Counted
<1>5. TypeOK'
  BY <1>1, <1>4, TellNext DEF CountersTell, IInv, TypeOK
<1>6. CountersTell
  BY Tell DEF IInv, TypeOK
<1>7. Exclusion'
  BY <1>1 DEF IInv, Exclusion, Reading, Writing, TypeOK
<1>8. NobodyOversleeps'
  BY <1>1 DEF NobodyOversleeps
<1>9. (DestroyedIsUnused /\ DestroyedIsShut)'
  BY <1>1 DEF IInv, DestroyedIsUnused, DestroyedIsShut, TypeOK
<1> QED
  BY <1>4, <1>5, <1>7, <1>8, <1>9 DEF IInv

\* A reader that waited is granted its access.
LEMMA ReadGrantedStep ==
  ASSUME IInv, NEW t \in Threads, ReadGranted(t)
  PROVE  IInv'
<1>1. /\ pc[t] = "read_awake" /\ shutdown = 0 /\ shutdown' = 0 /\ ~ReadersHeldUp
      /\ pc' = [pc EXCEPT ![t] = "reading"]
      /\ writer_writing' = writer_writing
      /\ UNCHANGED destroyer
  BY DEF ReadGranted, Go
<1>2. Others(t) /\ pc'[t] = "reading"
  BY <1>1 DEF Others, IInv, TypeOK
<1>3. /\ In(t \in Reading') = 1 /\ In(t \in Reading) = 0
      /\ In(t \in Writing') = 0 /\ In(t \in Writing) = 0
      /\ In(t \in ReadersWaiting') = 0 /\ In(t \in ReadersWaiting) = 1
      /\ In(t \in WritersWaiting') = 0 /\ In(t \in WritersWaiting) = 0
  BY <1>1, <1>2 DEF In, Reading, Writing, ReadersWaiting, WritersWaiting
<1>4. Counted'
  BY <1>1, <1>2, <1>3, Recount DEF ReadGranted, IInv, TypeOK, Counted
<1>5. TypeOK'
  BY <1>1, <1>4, TellNext DEF CountersTell, IInv, TypeOK
<1>6. CountersTell
  BY Tell DEF IInv, TypeOK
<1>7. Exclusion'
  BY <1>1, <1>2, <1>6
  DEF CountersTell, ReadersHeldUp, IInv, Exclusion, Reading, Writing, TypeOK
<1>8. NobodyOversleeps'
  BY <1>1, <1>2, <1>6
  DEF CountersTell, ReadersHeldUp, IInv, NobodyOversleeps, Reading, Writing,
      WritersWaiting, TypeOK
<1>9. (DestroyedIsUnused /\ DestroyedIsShut)'
  BY <1>1 DEF IInv, DestroyedIsUnused, DestroyedIsShut
<1> QED
  BY <1>4, <1>5, <1>7, <1>8, <1>9 DEF IInv

\* A writer that waited is granted its access.
LEMMA WriteGrantedStep ==
  ASSUME IInv, NEW t \in Threads, WriteGranted(t)
  PROVE  IInv'
<1>1. /\ pc[t] = "write_awake" /\ shutdown = 0 /\ shutdown' = 0 /\ ~WritersHeldUp
      /\ pc' = [pc EXCEPT ![t] = "writing"]
      /\ writer_writing' = 1
      /\ UNCHANGED <<destroyer, readers_reading>>
  BY DEF WriteGranted, Go
<1>2. Others(t) /\ pc'[t] = "writing"
  BY <1>1 DEF Others, IInv, TypeOK
<1>3. /\ In(t \in Reading') = 0 /\ In(t \in Reading) = 0
      /\ In(t \in Writing') = 1 /\ In(t \in Writing) = 0
      /\ In(t \in ReadersWaiting') = 0 /\ In(t \in ReadersWaiting) = 0
      /\ In(t \in WritersWaiting') = 0 /\ In(t \in WritersWaiting) = 1
  BY <1>1, <1>2 DEF In, Reading, Writing, ReadersWaiting, WritersWaiting
<1>4. Counted'
  BY <1>1, <1>2, <1>3, Recount
  DEF WriteGranted, WritersHeldUp, IInv, TypeOK, Counted
<1>5. TypeOK'
  BY <1>1, <1>4, TellNext DEF CountersTell, IInv, TypeOK
<1>6. CountersTell
  BY Tell DEF IInv, TypeOK
<1>7. Exclusion'
  BY <1>1, <1>2, <1>6
  DEF CountersTell, WritersHeldUp, IInv, Exclusion, Reading, Writing, TypeOK
<1>8. NobodyOversleeps'
  BY <1>1, <1>2, <1>6
  DEF CountersTell, WritersHeldUp, IInv, NobodyOversleeps, Reading, Writing,
      WritersWaiting, TypeOK
<1>9. (DestroyedIsUnused /\ DestroyedIsShut)'
  BY <1>1 DEF IInv, DestroyedIsUnused, DestroyedIsShut
<1> QED
  BY <1>4, <1>5, <1>7, <1>8, <1>9 DEF IInv

\* A reader goes out, and the last one wakes everyone.
LEMMA ReadUnlockStep ==
  ASSUME IInv, NEW t \in Threads, ReadUnlock(t)
  PROVE  IInv'
<1>1. /\ pc[t] = "reading" /\ shutdown' = shutdown
      /\ readers_reading' = readers_reading - 1
      /\ UNCHANGED <<readers_waiting, writer_writing, writers_waiting>>
  BY DEF ReadUnlock
<1>2. /\ \A u \in Threads \ {t} :
           pc'[u] = IF readers_reading' = 0 THEN Awake(pc[u]) ELSE pc[u]
      /\ pc'[t] = "out"
      /\ DOMAIN pc' = Threads /\ pc' = [u \in Threads |-> pc'[u]]
  BY DEF ReadUnlock, Go, GoOutAndWake, IInv, TypeOK
<1>3. Others(t)
  BY <1>2 DEF Others
<1>4. /\ In(t \in Reading') = 0 /\ In(t \in Reading) = 1
      /\ In(t \in Writing') = 0 /\ In(t \in Writing) = 0
      /\ In(t \in ReadersWaiting') = 0 /\ In(t \in ReadersWaiting) = 0
      /\ In(t \in WritersWaiting') = 0 /\ In(t \in WritersWaiting) = 0
  BY <1>1, <1>2 DEF In, Reading, Writing, ReadersWaiting, WritersWaiting
<1>5. Counted'
  BY <1>1, <1>3, <1>4, Recount DEF IInv, TypeOK, Counted
<1>6. TypeOK'
  <2>1. pc' \in [Threads -> {"out", "reading", "writing", "read_asleep",
                            "read_awake", "write_asleep", "write_awake"}]
    BY <1>2 DEF IInv, TypeOK, Awake
  <2>2. destroyer' \in {"out", "asleep", "awake", "returned"}
    BY DEF ReadUnlock, Go, GoOutAndWake, IInv, TypeOK
  <2> QED
    BY <1>1, <1>5, <2>1, <2>2, TellNext DEF CountersTell, IInv, TypeOK
<1>7. CountersTell'
  BY <1>5, <1>6, TellNext DEF TypeOK
<1>8. Exclusion'
  BY <1>1, <1>2 DEF Awake, IInv, Exclusion, Reading, Writing, TypeOK
<1>9. NobodyOversleeps'
  <2>1. CASE readers_reading' = 0
    BY <1>1, <1>2, <2>1 DEF Awake, IInv, TypeOK, NobodyOversleeps
  <2>2. CASE readers_reading' # 0
    <3>1. Reading' # {}
      BY <1>6, <1>7, <2>2 DEF TypeOK, CountersTell
    <3>2. Writing' = Writing /\ WritersWaiting' = WritersWaiting
      BY <1>1, <1>2, <2>2 DEF Writing, WritersWaiting
    <3> QED
      BY <1>1, <1>2, <2>2, <3>1, <3>2 DEF IInv, NobodyOversleeps
  <2> QED
    BY <2>1, <2>2
<1>10. (DestroyedIsUnused /\ DestroyedIsShut)'
  BY <1>1 DEF ReadUnlock, Go, GoOutAndWake, IInv, DestroyedIsUnused, DestroyedIsShut
<1> QED
  BY <1>5, <1>6, <1>8, <1>9, <1>10 DEF IInv

\* A writer goes out and wakes everyone.
LEMMA WriteUnlockStep ==
  ASSUME IInv, NEW t \in Threads, WriteUnlock(t)
  PROVE  IInv'
<1>1. /\ pc[t] = "writing" /\ shutdown' = shutdown
      /\ writer_writing' = 0
      /\ UNCHANGED <<readers_reading, readers_waiting, writers_waiting>>
  BY DEF WriteUnlock
<1>2. pc' = [u \in Threads |-> IF u = t THEN "out" ELSE Awake(pc[u])]
  BY DEF WriteUnlock, GoOutAndWake
<1>3. Others(t)
  BY <1>2 DEF Others
<1>4. /\ In(t \in Reading') = 0 /\ In(t \in Reading) = 0
      /\ In(t \in Writing') = 0 /\ In(t \in Writing) = 1
      /\ In(t \in ReadersWaiting') = 0 /\ In(t \in ReadersWaiting) = 0
      /\ In(t \in WritersWaiting') = 0 /\ In(t \in WritersWaiting) = 0
  BY <1>1, <1>2 DEF In, Reading, Writing, ReadersWaiting, WritersWaiting
<1>5. CountersTell
  BY Tell DEF IInv, TypeOK
<1>6. writer_writing = 1
  BY <1>1, <1>5 DEF CountersTell, Writing
<1>7. Counted'
  BY <1>1, <1>3, <1>4, <1>6, Recount DEF IInv, TypeOK, Counted
<1>8. TypeOK'
  <2>1. pc' \in [Threads -> {"out", "reading", "writing", "read_asleep",
                            "read_awake", "write_asleep", "write_awake"}]
    BY <1>2 DEF IInv, TypeOK, Awake
  <2>2. destroyer' \in {"out", "asleep", "awake", "returned"}
    BY DEF WriteUnlock, GoOutAndWake, IInv, TypeOK
  <2> QED
    BY <1>1, <1>7, <2>1, <2>2, TellNext DEF CountersTell, IInv, TypeOK
<1>9. Exclusion'
  BY <1>1, <1>2 DEF Awake, IInv, Exclusion, Reading, Writing, TypeOK
<1>10. NobodyOversleeps'
  BY <1>2 DEF Awake, IInv, TypeOK, NobodyOversleeps
<1>11. (DestroyedIsUnused /\ DestroyedIsShut)'
  BY <1>1 DEF WriteUnlock, GoOutAndWake, IInv, DestroyedIsUnused, DestroyedIsShut
<1> QED
  BY <1>7, <1>8, <1>9, <1>10, <1>11 DEF IInv

\* A thread that waits sleeps again or wakes for nothing.
SleepsOrWakes(t) ==
  \/ ReadAgain(t)
  \/ WriteAgain(t)
  \/ /\ t \in ReadersWaiting \cup WritersWaiting
     /\ Go(t, Awake(pc[t]))
     /\ UNCHANGED <<counters, shutdown>>

LEMMA SleepsOrWakesStep ==
  ASSUME IInv, NEW t \in Threads, SleepsOrWakes(t)
  PROVE  IInv'
<1>1. UNCHANGED <<counters, shutdown, destroyer>>
  BY DEF SleepsOrWakes, ReadAgain, WriteAgain, Go
<1>2. /\ pc' = [pc EXCEPT ![t] = pc'[t]]
      /\ \/ /\ pc[t] \in {"read_asleep", "read_awake"}
            /\ pc'[t] \in {"read_asleep", "read_awake"}
            /\ pc'[t] = "read_asleep" => pc[t] = "read_asleep" \/ ReadersHeldUp
         \/ /\ pc[t] \in {"write_asleep", "write_awake"}
            /\ pc'[t] \in {"write_asleep", "write_awake"}
            /\ pc'[t] = "write_asleep" => pc[t] = "write_asleep" \/ WritersHeldUp
  BY DEF SleepsOrWakes, ReadAgain, WriteAgain, Go, Awake, ReadersWaiting,
         WritersWaiting, IInv, TypeOK
<1>3. /\ Reading' = Reading /\ Writing' = Writing
      /\ ReadersWaiting' = ReadersWaiting /\ WritersWaiting' = WritersWaiting
  BY <1>2 DEF Reading, Writing, ReadersWaiting, WritersWaiting, IInv, TypeOK
<1>4. TypeOK'
  BY <1>1, <1>2 DEF counters, IInv, TypeOK
<1>5. (Counted /\ Exclusion)'
  BY <1>1, <1>3 DEF counters, IInv, Counted, Exclusion
<1>6. CountersTell
  BY Tell DEF IInv, TypeOK
<1>7. NobodyOversleeps'
  BY <1>1, <1>2, <1>3, <1>6
  DEF CountersTell, ReadersHeldUp, WritersHeldUp, IInv, TypeOK, NobodyOversleeps
<1>8. (DestroyedIsUnused /\ DestroyedIsShut)'
  BY <1>1, <1>2 DEF IInv, TypeOK, DestroyedIsUnused, DestroyedIsShut
<1> QED
  BY <1>4, <1>5, <1>7, <1>8 DEF IInv

\* The destroyer looks at the counters, or wakes for nothing.
LEMMA DestroyerStep ==
  ASSUME IInv,
         UNCHANGED <<counters, pc>>,
         Destroy \/ (destroyer = "asleep" /\ destroyer' = "awake" /\ UNCHANGED shutdown)
  PROVE  IInv'
<1>1. /\ Reading' = Reading /\ Writing' = Writing
      /\ ReadersWaiting' = ReadersWaiting /\ WritersWaiting' = WritersWaiting
  BY DEF Reading, Writing, ReadersWaiting, WritersWaiting
<1>2. TypeOK'
  BY DEF Destroy, counters, IInv, TypeOK
<1>3. (Counted /\ Exclusion)'
  BY <1>1 DEF counters, IInv, Counted, Exclusion
<1>4. NobodyOversleeps'
  BY <1>1 DEF Destroy, IInv, NobodyOversleeps
<1>5. CountersTell
  BY Tell DEF IInv, TypeOK
<1>6. ~Holds => \A t \in Threads : pc[t] = "out"
  <2> SUFFICES ASSUME ~Holds, NEW t \in Threads PROVE pc[t] = "out"
    OBVIOUS
  <2>1. t \notin Reading \cup Writing \cup ReadersWaiting \cup WritersWaiting
    BY <1>5 DEF CountersTell, Holds
  <2> QED
    BY <2>1 DEF Reading, Writing, ReadersWaiting, WritersWaiting, IInv, TypeOK
<1>7. (DestroyedIsUnused /\ DestroyedIsShut)'
  BY <1>6 DEF Destroy, IInv, DestroyedIsUnused, DestroyedIsShut
<1> QED
  BY <1>2, <1>3, <1>4, <1>7 DEF IInv

LEMMA NextIInv == IInv /\ [Next]_vars => IInv'
<1> SUFFICES ASSUME IInv, [Next]_vars PROVE IInv'
  OBVIOUS
<1>1. ASSUME NEW t \in Threads, Lock(t) PROVE IInv'
  BY <1>1, ReadLockStep, WriteLockStep DEF Lock
<1>2. ASSUME NEW t \in Threads, Retry(t) PROVE IInv'
  BY <1>2, ReadFailsStep, ReadGrantedStep, WriteFailsStep, WriteGrantedStep,
     SleepsOrWakesStep
  DEF Retry, SleepsOrWakes
<1>3. ASSUME NEW t \in Threads, Unlock(t) PROVE IInv'
  BY <1>3, ReadUnlockStep, WriteUnlockStep DEF Unlock
<1>4. CASE Destroy
  BY <1>4, DestroyerStep DEF Destroy
<1>5. CASE SpuriousWakeup
  <2>1. ASSUME NEW t \in ReadersWaiting \cup WritersWaiting, Go(t, Awake(pc[t])),
               UNCHANGED <<counters, shutdown>>
        PROVE  IInv'
    <3>1. t \in Threads
      BY DEF ReadersWaiting, WritersWaiting
    <3> QED
      BY <2>1, <3>1, SleepsOrWakesStep DEF SleepsOrWakes
  <2> QED
    BY <1>5, <2>1, DestroyerStep DEF SpuriousWakeup
<1>6. CASE UNCHANGED vars
  BY <1>6 DEF vars, counters, IInv, TypeOK, Counted, Exclusion, NobodyOversleeps,
      DestroyedIsUnused, DestroyedIsShut, Reading, Writing, ReadersWaiting,
      WritersWaiting
<1> QED
  BY <1>1, <1>2, <1>3, <1>4, <1>5, <1>6 DEF Next

LEMMA SpecIInv == Spec => []IInv
BY InitIInv, NextIInv, PTL DEF Spec

-------------------------------------------------------------------------------
(* The theorems *)

\* A thread that writes is alone, for any number of threads (pt_rw.c).
THEOREM WritersAreAlone == Spec => []Exclusion
<1>1. IInv => Exclusion
  BY DEF IInv
<1> QED
  BY <1>1, SpecIInv, PTL

\* The four counters are those of the threads, also while accesses fail, so that
\* no unlock of a granted access returns -1 (pt_rw.c: pt_rw_read_unlock).
THEOREM CountersAreExact == Spec => [](TypeOK /\ Counted)
<1>1. IInv => TypeOK /\ Counted
  BY DEF IInv
<1> QED
  BY <1>1, SpecIInv, PTL

\* No counter ever goes below zero or above the number of threads (pt_rw.c).
THEOREM RwTypes == Spec => []TypeOK
<1>1. IInv => TypeOK
  BY DEF IInv
<1> QED
  BY <1>1, SpecIInv, PTL

\* No wakeup is lost before the shutdown (pt_rw.c: pt_rw_write_unlock).
THEOREM NoWakeupLost == Spec => []NobodyOversleeps
<1>1. IInv => NobodyOversleeps
  BY DEF IInv
<1> QED
  BY <1>1, SpecIInv, PTL

\* A lock that has been destroyed is not in use (pt_rw.c: pt_rw_destroy).
THEOREM DestroyIsSafe == Spec => []DestroyedIsUnused
<1>1. IInv => DestroyedIsUnused
  BY DEF IInv
<1> QED
  BY <1>1, SpecIInv, PTL

\* No reader is let in before a writer that waits (pt_rw.c: pt_rw_read_lock).
THEOREM WritersGoFirst == Spec => WritersFirst
<1>1. IInv /\ [Next]_vars => [Reading' \subseteq Reading \/ WritersWaiting = {}]_vars
  <2> SUFFICES ASSUME IInv, Next, WritersWaiting # {}, NEW u \in Reading', u \notin Reading
               PROVE  FALSE
    OBVIOUS
  <2>1. CountersTell
    BY Tell DEF IInv, TypeOK
  <2>2. ReadersHeldUp
    BY <2>1 DEF CountersTell, ReadersHeldUp
  <2>3. u \in Threads /\ pc'[u] = "reading" /\ pc[u] # "reading"
    BY DEF Reading
  <2>4. ASSUME NEW t \in Threads, Lock(t) \/ Retry(t) PROVE pc'[u] # "reading"
    BY <2>2, <2>3, <2>4
    DEF Lock, ReadLock, WriteLock, Retry, ReadFails, ReadAgain, ReadGranted,
        WriteFails, WriteAgain, WriteGranted, Go, IInv, TypeOK
  <2>5. ASSUME NEW t \in Threads, Unlock(t) PROVE pc'[u] # "reading"
    BY <2>3, <2>5
    DEF Unlock, ReadUnlock, WriteUnlock, Go, GoOutAndWake, Awake, IInv, TypeOK
  <2>6. CASE Destroy \/ SpuriousWakeup
    BY <2>3, <2>6
    DEF Destroy, SpuriousWakeup, Go, Awake, ReadersWaiting, WritersWaiting,
        IInv, TypeOK
  <2> QED
    BY <2>3, <2>4, <2>5, <2>6 DEF Next
<1> QED
  BY <1>1, SpecIInv, PTL DEF Spec, WritersFirst

===============================================================================
