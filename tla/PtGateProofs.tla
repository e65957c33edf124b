----------------------------- MODULE PtGateProofs -----------------------------
(***************************************************************************)
(* The gate is a barrier for any number of threads and any N.              *)
(***************************************************************************)
EXTENDS PtGate, FiniteSetTheorems, TLAPS

\* ngate counts the threads inside, and is not 0 while they leave.
Counted ==
  /\ ngate = Cardinality(Inside)
  /\ state = "dump" => ngate > 0

IInv == TypeOK /\ NobodyLeftBehind /\ Counted

LEMMA InsideFinite == IsFiniteSet(Inside) /\ Inside \subseteq Threads
BY GateAssumption, FS_Subset DEF Inside

LEMMA InitIInv == Init => IInv
<1> SUFFICES ASSUME Init PROVE IInv
  OBVIOUS
<1>1. Inside = {}
  BY DEF Init, Inside
<1>2. Cardinality({}) = 0
  BY FS_EmptySet
<1> QED
  BY <1>1, <1>2, GateAssumption
  DEF Init, IInv, TypeOK, NobodyLeftBehind, Counted

\* What each step of the gate is to the barrier: a step of the same thread, or
\* nothing.  A thread outside comes in and sleeps.
LEMMA WaitStep ==
  ASSUME IInv, NEW t \in Threads, Wait(t)
  PROVE  IInv' /\ Barrier!Arrive(t)
<1>1. state = "load" /\ state' = "load" /\ t \notin Inside
  BY DEF Wait, Outside, Inside
<1>2. Inside' = Inside \cup {t}
  BY DEF Wait, Inside, IInv, TypeOK
<1>3. Cardinality(Inside') = Cardinality(Inside) + 1
  BY <1>1, <1>2, InsideFinite, FS_AddElement
<1>4. TypeOK'
  BY GateAssumption DEF Wait, IInv, TypeOK
<1>5. NobodyLeftBehind' /\ Counted'
  BY <1>1, <1>3 DEF Wait, IInv, TypeOK, NobodyLeftBehind, Counted
<1>6. Inside \cup {t} \notin GroupsOfN
  BY <1>2, <1>3 DEF Wait, IInv, Counted, GroupsOfN
<1>7. Barrier!Arrive(t)
  BY <1>1, <1>2, <1>6 DEF Barrier!Arrive
<1> QED
  BY <1>4, <1>5, <1>7 DEF IInv

\* The last one in is the first one out.
LEMMA OpenStep ==
  ASSUME IInv, NEW t \in Threads, Open(t)
  PROVE  IInv' /\ Barrier!Open(t)
<1>1. state = "load" /\ state' = "dump" /\ t \notin Inside /\ ngate + 1 = N
  BY DEF Open, Outside, Inside
<1>2. pc' = [u \in Threads |-> IF u = t THEN "out"
                               ELSE IF pc[u] = "waiting" THEN "woken" ELSE pc[u]]
  BY DEF Open, WakeWaiting, IInv, TypeOK
<1>3. Inside' = Inside
  BY <1>1, <1>2 DEF Inside
<1>4. TypeOK'
  BY <1>1, <1>2 DEF Open, IInv, TypeOK
<1>5. NobodyLeftBehind' /\ Counted'
  BY <1>1, <1>2, <1>3, GateAssumption
  DEF Open, IInv, TypeOK, NobodyLeftBehind, Counted
<1>6. Inside \cup {t} \in GroupsOfN
  BY <1>1, InsideFinite, FS_AddElement DEF IInv, Counted, GroupsOfN
<1>7. Barrier!Open(t)
  BY <1>1, <1>3, <1>6 DEF Barrier!Open
<1> QED
  BY <1>4, <1>5, <1>7 DEF IInv

\* A thread inside goes out, and the last one closes the gate.
LEMMA LeaveStep ==
  ASSUME IInv, NEW t \in Threads, Leave(t)
  PROVE  IInv' /\ Barrier!Leave(t)
<1>1. state = "dump" /\ t \in Inside /\ ngate' = ngate - 1
  BY DEF Leave, Inside
<1>2. \A u \in Threads :
        pc'[u] = IF u = t THEN "out"
                 ELSE IF ngate' = 0 /\ pc[u] = "blocked" THEN "unblocked" ELSE pc[u]
  BY DEF Leave, WakeBlocked, IInv, TypeOK
<1>3. Inside' = Inside \ {t}
  BY <1>1, <1>2 DEF Inside
<1>4. Cardinality(Inside') = Cardinality(Inside) - 1
  BY <1>1, <1>3, InsideFinite, FS_RemoveElement
<1>5. ngate' \in 0 .. N - 1
  BY <1>1, GateAssumption DEF IInv, TypeOK, Counted
<1>6. TypeOK'
  BY <1>5 DEF Leave, WakeBlocked, IInv, TypeOK
<1>7. \/ ngate' = 0 /\ state' = "load"
      \/ ngate' # 0 /\ state' = "dump"
  BY <1>1 DEF Leave
<1>8. NobodyLeftBehind'
  BY <1>1, <1>2, <1>7 DEF IInv, NobodyLeftBehind
<1>9. ngate' = Cardinality(Inside')
  BY <1>1, <1>4 DEF IInv, Counted
<1>10. Counted'
  <2>1. ngate' # 0 => ngate' > 0
    BY <1>5, GateAssumption
  <2> QED
    BY <1>7, <1>9, <2>1 DEF Counted
<1>11. state' = "load" => Inside' = {}
  <2>1. IsFiniteSet(Inside')
    BY <1>3, InsideFinite, FS_RemoveElement
  <2> QED
    BY <1>7, <1>9, <2>1, FS_EmptySet
<1>12. Barrier!Leave(t)
  BY <1>1, <1>3, <1>7, <1>11 DEF Barrier!Leave
<1> QED
  BY <1>6, <1>8, <1>10, <1>12 DEF IInv

\* A step that the barrier does not see.
LEMMA HiddenStep ==
  ASSUME IInv, NEW t \in Threads, Block(t) \/ SleepAgain(t) \/ SpuriousWakeup(t)
  PROVE  IInv' /\ UNCHANGED Barrier!bvars
<1>1. UNCHANGED <<state, ngate>>
  BY DEF Block, SleepAgain, SpuriousWakeup
<1>2. Inside' = Inside
  BY DEF Block, SleepAgain, SpuriousWakeup, Outside, Inside, IInv, TypeOK
<1>3. TypeOK'
  BY <1>1 DEF Block, SleepAgain, SpuriousWakeup, IInv, TypeOK
<1>4. NobodyLeftBehind'
  BY <1>1 DEF Block, SleepAgain, SpuriousWakeup, IInv, TypeOK, NobodyLeftBehind
<1>5. Counted'
  BY <1>1, <1>2 DEF IInv, Counted
<1> QED
  BY <1>1, <1>2, <1>3, <1>4, <1>5 DEF IInv, Barrier!bvars

LEMMA NextIInv == IInv /\ [Next]_vars => IInv' /\ [Barrier!Next]_(Barrier!bvars)
<1> SUFFICES ASSUME IInv, [Next]_vars
             PROVE  IInv' /\ [Barrier!Next]_(Barrier!bvars)
  OBVIOUS
<1>1. ASSUME NEW t \in Threads, Sync(t) \/ SpuriousWakeup(t)
      PROVE  IInv' /\ [Barrier!Next]_(Barrier!bvars)
  BY <1>1, WaitStep, OpenStep, LeaveStep, HiddenStep DEF Sync, Barrier!Next
<1>2. CASE UNCHANGED vars
  BY <1>2 DEF vars, IInv, TypeOK, NobodyLeftBehind, Counted, Inside, Barrier!bvars
<1> QED
  BY <1>1, <1>2 DEF Next

\* No thread is asleep behind a change of state that it should have seen, for any
\* number of threads (pt_gate.c: pt_gate_sync).
THEOREM GateWakesAll == Spec => [](TypeOK /\ NobodyLeftBehind)
<1>1. IInv => TypeOK /\ NobodyLeftBehind
  BY DEF IInv
<1> QED
  BY <1>1, InitIInv, NextIInv, PTL DEF Spec

\* The state of the gate and its count are always in range, though threads that sleep in
\* between count themselves out (pt_gate.c: pt_gate_sync).
THEOREM GateTypes == Spec => []TypeOK
<1>1. IInv => TypeOK
  BY DEF IInv
<1> QED
  BY <1>1, InitIInv, NextIInv, PTL DEF Spec

\* The gate implements the barrier that its manual page promises.
THEOREM GateIsBarrier == Spec => IsBarrier
<1>1. Init => Barrier!Init
  BY DEF Init, Inside, Barrier!Init
<1> QED
  BY <1>1, InitIInv, NextIInv, PTL DEF Spec, IsBarrier, Barrier!Spec

===============================================================================
