-------------------------------- MODULE PtGate --------------------------------
(***************************************************************************)
(* The gate of the pt library, a barrier that can be used again and again  *)
(* (src/pt/pt_gate.c): threads call pt_gate_sync, and pass N at a time.    *)
(*                                                                         *)
(* What a thread does while it holds the gate's mutex is one action.  A    *)
(* thread asleep on a condition variable has a pc of its own: "blocked" on *)
(* condvar, outside a gate that others are leaving, and "waiting" on last,  *)
(* inside.  Waking it makes it "unblocked" or "woken"; it then looks at the *)
(* gate's state again, as it does after a spurious wakeup.                   *)
(***************************************************************************)
EXTENDS Naturals, FiniteSets

CONSTANTS
  Threads,   \* the threads that use the gate
  N          \* nthreads; a gate of less than two lets everyone through

ASSUME GateAssumption ==
  /\ IsFiniteSet(Threads)
  /\ N \in Nat
  /\ N >= 2

VARIABLES
  state,     \* STATE_LOAD or STATE_DUMP
  ngate,     \* how many threads are inside
  pc         \* where each thread is in pt_gate_sync, "out" if it is not in it

vars == <<state, ngate, pc>>

Inside == {t \in Threads : pc[t] \in {"waiting", "woken"}}

\* pthread_cond_broadcast of last and condvar: everyone asleep there wakes.
WakeWaiting(p) ==
  [t \in Threads |-> IF p[t] = "waiting" THEN "woken" ELSE p[t]]
WakeBlocked(p) ==
  [t \in Threads |-> IF p[t] = "blocked" THEN "unblocked" ELSE p[t]]

Outside(t) == pc[t] \in {"out", "unblocked"}

\* Others are still leaving.
Block(t) ==
  /\ Outside(t)
  /\ state = "dump"
  /\ pc' = [pc EXCEPT ![t] = "blocked"]
  /\ UNCHANGED <<state, ngate>>

\* Mutant of Wait: a thread comes in while others are leaving.
WaitAnyway(t) ==
  /\ Outside(t)
  /\ ngate + 1 # N
  /\ ngate' = ngate + 1
  /\ pc' = [pc EXCEPT ![t] = "waiting"]
  /\ UNCHANGED state

Wait(t) ==
  /\ Outside(t)
  /\ state = "load"
  /\ ngate + 1 # N
  /\ ngate' = ngate + 1
  /\ pc' = [pc EXCEPT ![t] = "waiting"]
  /\ UNCHANGED state

\* Mutant of Open: the others are left asleep.
OpenSilently(t) ==
  /\ Outside(t)
  /\ state = "load"
  /\ ngate + 1 = N
  /\ state' = "dump"
  /\ pc' = [pc EXCEPT ![t] = "out"]
  /\ UNCHANGED ngate

\* Mutant of Open: the last of N is counted in and not counted out.
OpenUncounted(t) ==
  /\ Outside(t)
  /\ state = "load"
  /\ ngate + 1 = N
  /\ state' = "dump"
  /\ ngate' = ngate + 1
  /\ pc' = [WakeWaiting(pc) EXCEPT ![t] = "out"]

\* The last of N: it opens the gate and is the first one out, without letting go
\* of the mutex, so that ngate is raised and lowered again.
Open(t) ==
  /\ Outside(t)
  /\ state = "load"
  /\ ngate + 1 = N
  /\ state' = "dump"
  /\ pc' = [WakeWaiting(pc) EXCEPT ![t] = "out"]
  /\ UNCHANGED ngate

\* Woken for nothing.
SleepAgain(t) ==
  /\ pc[t] = "woken"
  /\ state = "load"
  /\ pc' = [pc EXCEPT ![t] = "waiting"]
  /\ UNCHANGED <<state, ngate>>

\* Mutant of Leave: the first one out closes the gate behind it.
LeaveAndClose(t) ==
  /\ pc[t] = "woken"
  /\ state = "dump"
  /\ ngate' = ngate - 1
  /\ state' = "load"
  /\ pc' = [WakeBlocked(pc) EXCEPT ![t] = "out"]

\* The last one out closes the gate, and those blocked come in.
Leave(t) ==
  /\ pc[t] = "woken"
  /\ state = "dump"
  /\ ngate' = ngate - 1
  /\ IF ngate' = 0
       THEN /\ state' = "load"
            /\ pc' = [WakeBlocked(pc) EXCEPT ![t] = "out"]
       ELSE /\ pc' = [pc EXCEPT ![t] = "out"]
            /\ UNCHANGED state

SpuriousWakeup(t) ==
  /\ \/ pc[t] = "waiting" /\ pc' = [pc EXCEPT ![t] = "woken"]
     \/ pc[t] = "blocked" /\ pc' = [pc EXCEPT ![t] = "unblocked"]
  /\ UNCHANGED <<state, ngate>>

Init ==
  /\ state = "load"
  /\ ngate = 0
  /\ pc = [t \in Threads |-> "out"]

Sync(t) ==
  \/ Block(t)
  \/ Wait(t)
  \/ Open(t)
  \/ SleepAgain(t)
  \/ Leave(t)

Next == \E t \in Threads : Sync(t) \/ SpuriousWakeup(t)

Spec == Init /\ [][Next]_vars

\* The threads run, and keep coming back to the gate.
FairSpec == Spec /\ \A t \in Threads : WF_vars(Sync(t))

-------------------------------------------------------------------------------
(* Properties *)

TypeOK ==
  /\ state \in {"load", "dump"}
  /\ ngate \in 0 .. N - 1
  /\ pc \in [Threads -> {"out", "blocked", "unblocked", "waiting", "woken"}]

\* Nobody is left behind: while the gate lets threads out, none of those inside
\* is asleep, and once it is closed again, none of those outside.  A thread that
\* was woken always finds the gate as it was when it was woken, since the last
\* one out is the one that closes it (pt_gate.c: pt_gate_sync).
NobodyLeftBehind ==
  /\ state = "dump" => \A t \in Threads : pc[t] # "waiting"
  /\ state = "load" => \A t \in Threads : pc[t] # "blocked"

\* The barrier of pt_gate_intro.3, with the threads inside the gate waiting or
\* leaving according to its state.
GroupsOfN == {S \in SUBSET Threads : Cardinality(S) = N}

Barrier == INSTANCE PtBarrier WITH
             Groups <- GroupsOfN,
             arrived <- IF state = "load" THEN Inside ELSE {},
             leaving <- IF state = "dump" THEN Inside ELSE {}

\* The gate is a barrier: nobody passes before N threads have arrived, and the
\* groups of N that pass do not mix (pt_gate.c: pt_gate_sync).
IsBarrier == Barrier!Spec

\* As long as threads keep coming, whoever is inside gets out.
GateOpens == \A t \in Threads : t \in Inside ~> t \notin Inside

===============================================================================
