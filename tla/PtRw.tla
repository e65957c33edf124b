--------------------------------- MODULE PtRw ---------------------------------
(***************************************************************************)
(* The readers and writer lock of the pt library (src/pt/pt_rw.c).         *)
(*                                                                         *)
(* What a thread does while it holds the lock's mutex is one action.  All  *)
(* who have to wait sleep on one condition variable, lock_free: a reader   *)
(* is then "read_asleep", a writer "write_asleep".  A broadcast, or a      *)
(* spurious wakeup, makes them "read_awake" and "write_awake", and they    *)
(* look at the lock again.  A thread unlocks only what it has locked, and  *)
(* nobody calls after pt_rw_destroy has returned.  A lock call made after   *)
(* the shutdown returns -1 and changes nothing.                            *)
(***************************************************************************)
EXTENDS Naturals, FiniteSets

CONSTANT Threads   \* the threads that read and write

ASSUME RwAssumption == IsFiniteSet(Threads)

VARIABLES
  readers_reading, readers_waiting,
  writer_writing,            \* 1 while a thread writes
  writers_waiting,
  shutdown,                  \* 1 once pt_rw_destroy has been called
  pc,                        \* where each thread is
  destroyer                  \* where the thread in pt_rw_destroy is

counters == <<readers_reading, readers_waiting, writer_writing, writers_waiting>>
vars == <<counters, shutdown, pc, destroyer>>

Reading == {t \in Threads : pc[t] = "reading"}
Writing == {t \in Threads : pc[t] = "writing"}
ReadersWaiting == {t \in Threads : pc[t] \in {"read_asleep", "read_awake"}}
WritersWaiting == {t \in Threads : pc[t] \in {"write_asleep", "write_awake"}}

-------------------------------------------------------------------------------
(* Waiting *)

\* Mutant of ReadersHeldUp: a reader does not let the writers go first.
ReadersHeldUpByWriter == writer_writing = 1

ReadersHeldUp == writer_writing = 1 \/ writers_waiting > 0
WritersHeldUp == writer_writing = 1 \/ readers_reading > 0

\* Mutant of Holds: the destroyer does not wait for those who wait.
HoldsGranted == writer_writing = 1 \/ readers_reading > 0

\* What pt_rw_destroy waits for.
Holds ==
  \/ writer_writing = 1 \/ readers_reading > 0
  \/ writers_waiting > 0 \/ readers_waiting > 0

Awake(where) ==
  CASE where = "read_asleep"  -> "read_awake"
    [] where = "write_asleep" -> "write_awake"
    [] OTHER -> where

\* Thread t goes out, and broadcasts lock_free.
GoOutAndWake(t) ==
  /\ pc' = [u \in Threads |-> IF u = t THEN "out" ELSE Awake(pc[u])]
  /\ destroyer' = IF destroyer = "asleep" THEN "awake" ELSE destroyer

Go(t, where) ==
  /\ pc' = [pc EXCEPT ![t] = where]
  /\ UNCHANGED destroyer

-------------------------------------------------------------------------------
(* Readers *)

ReadLock(t) ==
  /\ pc[t] = "out"
  /\ shutdown = 0
  /\ IF ReadersHeldUp
       THEN /\ readers_waiting' = readers_waiting + 1
            /\ Go(t, "read_asleep")
            /\ UNCHANGED readers_reading
       ELSE /\ readers_reading' = readers_reading + 1
            /\ Go(t, "reading")
            /\ UNCHANGED readers_waiting
  /\ UNCHANGED <<writer_writing, writers_waiting, shutdown>>

\* Mutant of ReadFails: the reader is still counted as waiting.
ReadFailsCounted(t) ==
  /\ pc[t] = "read_awake"
  /\ shutdown = 1
  /\ Go(t, "out")
  /\ UNCHANGED <<counters, shutdown>>

ReadFails(t) ==
  /\ pc[t] = "read_awake"
  /\ shutdown = 1
  /\ readers_waiting' = readers_waiting - 1
  /\ Go(t, "out")
  /\ UNCHANGED <<readers_reading, writer_writing, writers_waiting, shutdown>>

ReadAgain(t) ==
  /\ pc[t] = "read_awake"
  /\ shutdown = 0
  /\ ReadersHeldUp
  /\ Go(t, "read_asleep")
  /\ UNCHANGED <<counters, shutdown>>

\* Mutant of ReadGranted: the reader is still counted as waiting.
ReadGrantedCounted(t) ==
  /\ pc[t] = "read_awake"
  /\ shutdown = 0
  /\ ~ReadersHeldUp
  /\ readers_reading' = readers_reading + 1
  /\ Go(t, "reading")
  /\ UNCHANGED <<readers_waiting, writer_writing, writers_waiting, shutdown>>

ReadGranted(t) ==
  /\ pc[t] = "read_awake"
  /\ shutdown = 0
  /\ ~ReadersHeldUp
  /\ readers_waiting' = readers_waiting - 1
  /\ readers_reading' = readers_reading + 1
  /\ Go(t, "reading")
  /\ UNCHANGED <<writer_writing, writers_waiting, shutdown>>

\* Mutant of ReadUnlock: every reader but the last wakes the others.
ReadUnlockEarly(t) ==
  /\ pc[t] = "reading"
  /\ readers_reading' = readers_reading - 1
  /\ IF readers_reading = 1 THEN Go(t, "out") ELSE GoOutAndWake(t)
  /\ UNCHANGED <<readers_waiting, writer_writing, writers_waiting, shutdown>>

\* The last reader wakes everyone.
ReadUnlock(t) ==
  /\ pc[t] = "reading"
  /\ readers_reading' = readers_reading - 1
  /\ IF readers_reading' = 0 THEN GoOutAndWake(t) ELSE Go(t, "out")
  /\ UNCHANGED <<readers_waiting, writer_writing, writers_waiting, shutdown>>

-------------------------------------------------------------------------------
(* Writers *)

WriteLock(t) ==
  /\ pc[t] = "out"
  /\ shutdown = 0
  /\ IF WritersHeldUp
       THEN /\ writers_waiting' = writers_waiting + 1
            /\ Go(t, "write_asleep")
            /\ UNCHANGED writer_writing
       ELSE /\ writer_writing' = 1
            /\ Go(t, "writing")
            /\ UNCHANGED writers_waiting
  /\ UNCHANGED <<readers_reading, readers_waiting, shutdown>>

WriteFails(t) ==
  /\ pc[t] = "write_awake"
  /\ shutdown = 1
  /\ writers_waiting' = writers_waiting - 1
  /\ Go(t, "out")
  /\ UNCHANGED <<readers_reading, readers_waiting, writer_writing, shutdown>>

WriteAgain(t) ==
  /\ pc[t] = "write_awake"
  /\ shutdown = 0
  /\ WritersHeldUp
  /\ Go(t, "write_asleep")
  /\ UNCHANGED <<counters, shutdown>>

\* Mutant of WriteGranted: a writer that was woken does not look again.
WriteGrantedBlindly(t) ==
  /\ pc[t] = "write_awake"
  /\ shutdown = 0
  /\ writers_waiting' = writers_waiting - 1
  /\ writer_writing' = 1
  /\ Go(t, "writing")
  /\ UNCHANGED <<readers_reading, readers_waiting, shutdown>>

WriteGranted(t) ==
  /\ pc[t] = "write_awake"
  /\ shutdown = 0
  /\ ~WritersHeldUp
  /\ writers_waiting' = writers_waiting - 1
  /\ writer_writing' = 1
  /\ Go(t, "writing")
  /\ UNCHANGED <<readers_reading, readers_waiting, shutdown>>

WriteUnlock(t) ==
  /\ pc[t] = "writing"
  /\ writer_writing' = 0
  /\ GoOutAndWake(t)
  /\ UNCHANGED <<readers_reading, readers_waiting, writers_waiting, shutdown>>

-------------------------------------------------------------------------------
(* The destroyer *)

\* One look at the counters, at the call and at each wakeup.
Destroy ==
  /\ destroyer \in {"out", "awake"}
  /\ shutdown' = 1
  /\ destroyer' = IF Holds THEN "asleep" ELSE "returned"
  /\ UNCHANGED <<counters, pc>>

SpuriousWakeup ==
  /\ \/ \E t \in ReadersWaiting \cup WritersWaiting : Go(t, Awake(pc[t]))
     \/ /\ destroyer = "asleep"
        /\ destroyer' = "awake"
        /\ UNCHANGED pc
  /\ UNCHANGED <<counters, shutdown>>

Init ==
  /\ readers_reading = 0 /\ readers_waiting = 0
  /\ writer_writing = 0 /\ writers_waiting = 0
  /\ shutdown = 0
  /\ pc = [t \in Threads |-> "out"]
  /\ destroyer = "out"

Lock(t) == ReadLock(t) \/ WriteLock(t)
Retry(t) ==
  \/ ReadFails(t) \/ ReadAgain(t) \/ ReadGranted(t)
  \/ WriteFails(t) \/ WriteAgain(t) \/ WriteGranted(t)
Unlock(t) == ReadUnlock(t) \/ WriteUnlock(t)

Next ==
  \/ \E t \in Threads : Lock(t) \/ Retry(t) \/ Unlock(t)
  \/ Destroy
  \/ SpuriousWakeup

Spec == Init /\ [][Next]_vars

\* Threads that are awake run, and whoever was granted the lock gives it back, as
\* pt_rw_intro.3 demands.  Nobody has to ask for the lock or to destroy it, and
\* nobody is woken spuriously for sure.
FairSpec ==
  /\ Spec
  /\ \A t \in Threads : WF_vars(Retry(t)) /\ WF_vars(Unlock(t))
  /\ WF_vars(Destroy /\ destroyer = "awake")

-------------------------------------------------------------------------------
(* Properties *)

\* What the variables hold.
TypeOK ==
  /\ pc \in [Threads -> {"out", "reading", "writing", "read_asleep", "read_awake",
                         "write_asleep", "write_awake"}]
  /\ destroyer \in {"out", "asleep", "awake", "returned"}
  /\ shutdown \in {0, 1}
  /\ writer_writing \in {0, 1}
  /\ readers_reading \in 0 .. Cardinality(Threads)
  /\ readers_waiting \in 0 .. Cardinality(Threads)
  /\ writers_waiting \in 0 .. Cardinality(Threads)

\* The counters say who has the lock and who waits for it, also when accesses
\* fail, so that no unlock finds nothing to unlock (pt_rw.c: pt_rw_read_unlock,
\* pt_rw_write_unlock, whose -1 is not modelled for that reason).
Counted ==
  /\ readers_reading = Cardinality(Reading)
  /\ readers_waiting = Cardinality(ReadersWaiting)
  /\ writer_writing  = Cardinality(Writing)
  /\ writers_waiting = Cardinality(WritersWaiting)

\* A thread that writes is alone (pt_rw.c: pt_rw_write_lock, pt_rw_read_lock).
Exclusion == \A t \in Writing : Reading \cup Writing = {t}

\* Writers have priority: nobody is granted a read access while a writer waits
\* (pt_rw.c: pt_rw_read_lock).
WritersFirst == [][Reading' \subseteq Reading \/ WritersWaiting = {}]_vars

\* No wakeup is lost before the shutdown: a writer is asleep only while somebody
\* has the lock, and a reader only while somebody writes or waits to (pt_rw.c:
\* pt_rw_read_unlock, pt_rw_write_unlock).
NobodyOversleeps ==
  shutdown = 0 =>
    \A t \in Threads :
      /\ pc[t] = "write_asleep" => Reading \cup Writing # {}
      /\ pc[t] = "read_asleep"  => Writing \cup WritersWaiting # {}

\* When pt_rw_destroy has returned, and the mutex is no more, nobody is in a call
\* or has the lock (pt_rw.c: pt_rw_destroy).
DestroyedIsUnused ==
  destroyer = "returned" => \A t \in Threads : pc[t] = "out"

\* Readers that keep coming do not starve the writers: when a writer waits, a
\* writer will write, unless the lock is destroyed (pt_rw.c: pt_rw_write_lock).
AWriterWrites == WritersWaiting # {} ~> (Writing # {} \/ shutdown = 1)

\* pt_rw_intro.3:56-58: "On destroy, the calling thread will block until all
\* granted accesses have been completed.  New and pending accesses will fail."
DestroyReturns == shutdown = 1 ~> destroyer = "returned"

===============================================================================
