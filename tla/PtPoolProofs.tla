----------------------------- MODULE PtPoolProofs -----------------------------
(***************************************************************************)
(* What holds of the thread pool for any number of workers and clients,    *)
(* any queue size and any mode.  IInv is the inductive invariant.          *)
(***************************************************************************)
EXTENDS PtPool, SequenceTheorems, TLAPS

\* Work is where the pc says it is.
WorkInHand ==
  /\ \A c \in Clients : client[c].pc \in {"add", "asleep"} => client[c].item \in Items
  /\ \A w \in Workers : worker[w].pc = "run" => worker[w].item \in Items

\* One client at most is inside pt_pool_destroy, and only between the closing
\* and the freeing of the pool.
OneDestroyer ==
  /\ \A c, d \in Clients :
       client[c].pc \in Closing /\ client[d].pc \in Closing => c = d
  /\ \A c \in Clients : client[c].pc \in Closing => closed /\ ~freed
  /\ freed => closed

\* How far the destroyer has come.
Progress ==
  /\ \A c \in Clients :
       /\ client[c].pc \in {"draining", "recheck"} => ~shutdown /\ finish = 1
       /\ client[c].pc \in {"wake workers", "wake clients", "join"} => shutdown
       /\ client[c].pc = "join" => \A d \in Clients : client[d].pc # "asleep"
  /\ freed => shutdown /\ \A c \in Clients : client[c].pc # "asleep"
  /\ freed => \A w \in Workers : worker[w].pc = "exited"
  /\ shutdown => closed

\* Clients only wait in the blocking mode.
WaitersBlock == \A c \in Clients : client[c].pc = "asleep" => ~doNotBlock

\* What has been started is finished or in the hands of a worker, and a pool that
\* shuts down with finish has started everything.
WorkAccounted ==
  /\ \A item \in ToSet(started) :
       item \in done \/ \E w \in Workers : worker[w].pc = "run" /\ worker[w].item = item
  /\ shutdown /\ finish = 1 => started = accepted
  /\ shutdown /\ finish = 1 => queue = <<>>

IInv ==
  /\ TypeOK
  /\ WorkInHand
  /\ OneDestroyer
  /\ Progress
  /\ WaitersBlock
  /\ WorkAccounted
  /\ NobodyOversleeps
  /\ StartedInOrder

-------------------------------------------------------------------------------
(* Sequences *)

\* An item moves from the head of the queue to the end of what was started.
LEMMA MoveHead ==
  ASSUME NEW S, NEW s \in Seq(S), NEW q \in Seq(S), q # <<>>
  PROVE  Append(s, Head(q)) \o Tail(q) = s \o q
<1>1. Head(q) \in S /\ Tail(q) \in Seq(S)
  BY HeadTailProperties
<1>2. <<Head(q)>> \in Seq(S) /\ q = <<Head(q)>> \o Tail(q)
  <2>1. <<Head(q)>> \in Seq(S)
    BY <1>1
  <2>2. /\ <<Head(q)>> \o Tail(q) \in Seq(S)
        /\ Len(<<Head(q)>> \o Tail(q)) = Len(q)
        /\ \A i \in 1 .. Len(q) : (<<Head(q)>> \o Tail(q))[i] = q[i]
    BY <1>1, <2>1, ConcatProperties, HeadTailProperties, LenProperties
  <2> QED
    BY <2>1, <2>2, SeqEqual
<1>3. Append(s, Head(q)) = s \o <<Head(q)>>
  BY <1>1, AppendIsConcat
<1> QED
  BY <1>1, <1>2, <1>3, ConcatAssociative

\* An item is accepted at the end of the queue.
LEMMA AddLast ==
  ASSUME NEW S, NEW s \in Seq(S), NEW q \in Seq(S), NEW x \in S
  PROVE  Append(s \o q, x) = s \o Append(q, x)
<1>1. <<x>> \in Seq(S) /\ s \o q \in Seq(S)
  BY ConcatProperties
<1>2. Append(s \o q, x) = (s \o q) \o <<x>> /\ Append(q, x) = q \o <<x>>
  BY <1>1, AppendIsConcat
<1> QED
  BY <1>1, <1>2, ConcatAssociative

\* What is appended joins the set of elements.
LEMMA ToSetAppend ==
  ASSUME NEW S, NEW s \in Seq(S), NEW x \in S
  PROVE  ToSet(Append(s, x)) = ToSet(s) \cup {x}
<1>1. /\ Len(s) \in Nat /\ DOMAIN s = 1 .. Len(s)
      /\ DOMAIN Append(s, x) = 1 .. Len(s) + 1
  BY LenProperties, AppendProperties
<1>2. /\ \A i \in 1 .. Len(s) : Append(s, x)[i] = s[i]
      /\ Append(s, x)[Len(s) + 1] = x
  BY AppendProperties
<1> HIDE DEF ToSet
<1>3. ASSUME NEW y \in ToSet(Append(s, x)) PROVE y \in ToSet(s) \cup {x}
  BY <1>1, <1>2 DEF ToSet
<1>4. ASSUME NEW y \in ToSet(s) PROVE y \in ToSet(Append(s, x))
  BY <1>1, <1>2 DEF ToSet
<1>5. x \in ToSet(Append(s, x))
  BY <1>1, <1>2 DEF ToSet
<1> QED
  BY <1>3, <1>4, <1>5

-------------------------------------------------------------------------------
(* The invariant holds at the start and is kept by every step *)

LEMMA InitIInv == Init => IInv
<1> SUFFICES ASSUME Init PROVE IInv
  OBVIOUS
<1> USE DEF Init, Ready, Out
<1>1. TypeOK
  <2>1. doNotBlock \in BOOLEAN
    BY PoolAssumption
  <2>2. worker \in [Workers -> [pc : {"lock", "asleep", "run", "exited"},
                                item : Items \cup {Null}]]
    OBVIOUS
  <2>3. client \in [Clients -> [pc : {"out", "add", "asleep"} \cup Closing,
                                item : Items \cup {Null}]]
    BY DEF Closing
  <2>4. closed \in BOOLEAN /\ shutdown \in BOOLEAN /\ freed \in BOOLEAN
    OBVIOUS
  <2> QED
    BY <2>1, <2>2, <2>3, <2>4, PoolAssumption DEF TypeOK
<1>2. WorkInHand /\ OneDestroyer /\ Progress /\ WaitersBlock
  BY DEF WorkInHand, OneDestroyer, Progress, WaitersBlock, Closing
<1>3. WorkAccounted /\ NobodyOversleeps /\ StartedInOrder
  BY DEF WorkAccounted, NobodyOversleeps, StartedInOrder, ToSet
<1> QED
  BY <1>1, <1>2, <1>3 DEF IInv

ClientType == [pc : {"out", "add", "asleep"} \cup Closing, item : Items \cup {Null}]

\* A step of one client that stays out of pt_pool_destroy.
LEMMA CallerMoves ==
  ASSUME IInv, NEW c \in Clients, NEW r \in ClientType,
         client' = [client EXCEPT ![c] = r],
         client[c].pc \notin Closing, r.pc \notin Closing,
         r.pc = "asleep" => ~doNotBlock /\ ~closed,
         UNCHANGED <<doNotBlock, closed, shutdown, finish, freed>>,
         freed => worker' = worker
  PROVE  OneDestroyer' /\ Progress' /\ WaitersBlock'
<1>1. /\ client'[c] = r
      /\ \A d \in Clients : d # c => client'[d] = client[d]
  BY DEF IInv, TypeOK
<1>2. \A d \in Clients : client'[d].pc \in Closing =>
                            d # c /\ client[d].pc \in Closing /\ client'[d] = client[d]
  BY <1>1
<1>3. OneDestroyer'
  BY <1>2 DEF IInv, OneDestroyer
<1>4. WaitersBlock'
  BY <1>1 DEF IInv, WaitersBlock
<1>5. ASSUME NEW d \in Clients, client'[d].pc = "asleep"
      PROVE  ~freed /\ \A e \in Clients : client[e].pc # "join"
  <2>1. CASE d = c
    BY <1>1, <1>5, <2>1 DEF IInv, OneDestroyer, Progress
  <2>2. CASE d # c
    BY <1>1, <1>5, <2>2 DEF IInv, OneDestroyer, Progress
  <2> QED
    BY <2>1, <2>2
<1>6. Progress'
  BY <1>2, <1>5 DEF IInv, Progress, Closing
<1> QED
  BY <1>3, <1>4, <1>6

LEMMA AddWorkKeeps ==
  ASSUME IInv, NEW c \in Clients, NEW item \in Items, AddWork(c, item)
  PROVE  IInv'
<1> DEFINE r == [pc |-> "add", item |-> item]
<1>1. r \in ClientType /\ (r.pc \in {"add", "asleep"} => r.item \in Items)
  BY DEF AddWork, ClientType, IInv, TypeOK, WorkInHand
<1>2. /\ client' = [client EXCEPT ![c] = r]
      /\ client[c].pc \notin Closing /\ r.pc \notin Closing
      /\ r.pc = "asleep" => ~doNotBlock /\ ~closed /\ QueueFull
      /\ r.pc # "draining"
      /\ UNCHANGED <<queue, doNotBlock, closed, shutdown, worker, finish, freed,
                     accepted, started, done>>
  BY DEF AddWork, Closing, IInv, TypeOK
<1>3. submitted' \subseteq Items
  BY DEF AddWork, IInv, TypeOK
<1> HIDE DEF r
<1>4. TypeOK' /\ WorkInHand'
  BY <1>1, <1>2, <1>3 DEF IInv, TypeOK, WorkInHand, ClientType
<1>5. OneDestroyer' /\ Progress' /\ WaitersBlock'
  BY <1>1, <1>2, CallerMoves
<1>6. WorkAccounted' /\ StartedInOrder'
  BY <1>2 DEF IInv, WorkAccounted, StartedInOrder
<1>7. NobodyOversleeps'
  BY <1>1, <1>2 DEF IInv, TypeOK, NobodyOversleeps, QueueFull
<1> QED
  BY <1>4, <1>5, <1>6, <1>7 DEF IInv

LEMMA RefuseKeeps ==
  ASSUME IInv, NEW c \in Clients, Refuse(c)
  PROVE  IInv'
<1> DEFINE r == Out
<1>1. r \in ClientType /\ (r.pc \in {"add", "asleep"} => r.item \in Items)
  BY DEF Refuse, Out, ClientType, IInv, TypeOK, WorkInHand
<1>2. /\ client' = [client EXCEPT ![c] = r]
      /\ client[c].pc \notin Closing /\ r.pc \notin Closing
      /\ r.pc = "asleep" => ~doNotBlock /\ ~closed /\ QueueFull
      /\ r.pc # "draining"
      /\ UNCHANGED <<queue, doNotBlock, closed, shutdown, worker, finish, freed,
                     accepted, started, done>>
  BY DEF Refuse, Out, Closing, IInv, TypeOK, history
<1>3. submitted' \subseteq Items
  BY DEF Refuse, IInv, TypeOK, history
<1> HIDE DEF r
<1>4. TypeOK' /\ WorkInHand'
  BY <1>1, <1>2, <1>3 DEF IInv, TypeOK, WorkInHand, ClientType
<1>5. OneDestroyer' /\ Progress' /\ WaitersBlock'
  BY <1>1, <1>2, CallerMoves
<1>6. WorkAccounted' /\ StartedInOrder'
  BY <1>2 DEF IInv, WorkAccounted, StartedInOrder
<1>7. NobodyOversleeps'
  BY <1>1, <1>2 DEF IInv, TypeOK, NobodyOversleeps, QueueFull
<1> QED
  BY <1>4, <1>5, <1>6, <1>7 DEF IInv

LEMMA WaitNotFullKeeps ==
  ASSUME IInv, NEW c \in Clients, WaitNotFull(c)
  PROVE  IInv'
<1> DEFINE r == [client[c] EXCEPT !.pc = "asleep"]
<1>1. r \in ClientType /\ (r.pc \in {"add", "asleep"} => r.item \in Items)
  BY DEF WaitNotFull, ClientType, IInv, TypeOK, WorkInHand
<1>2. /\ client' = [client EXCEPT ![c] = r]
      /\ client[c].pc \notin Closing /\ r.pc \notin Closing
      /\ r.pc = "asleep" => ~doNotBlock /\ ~closed /\ QueueFull
      /\ r.pc # "draining"
      /\ UNCHANGED <<queue, doNotBlock, closed, shutdown, worker, finish, freed,
                     accepted, started, done>>
  BY DEF WaitNotFull, Closing, IInv, TypeOK, history
<1>3. submitted' \subseteq Items
  BY DEF WaitNotFull, IInv, TypeOK, history
<1> HIDE DEF r
<1>4. TypeOK' /\ WorkInHand'
  BY <1>1, <1>2, <1>3 DEF IInv, TypeOK, WorkInHand, ClientType
<1>5. OneDestroyer' /\ Progress' /\ WaitersBlock'
  BY <1>1, <1>2, CallerMoves
<1>6. WorkAccounted' /\ StartedInOrder'
  BY <1>2 DEF IInv, WorkAccounted, StartedInOrder
<1>7. NobodyOversleeps'
  BY <1>1, <1>2 DEF IInv, TypeOK, NobodyOversleeps, QueueFull
<1> QED
  BY <1>4, <1>5, <1>6, <1>7 DEF IInv

\* Waking the workers changes nothing else about them.
LEMMA WorkersWake ==
  ASSUME IInv, WakeWorkers
  PROVE  /\ worker' \in [Workers -> [pc : {"lock", "asleep", "run", "exited"},
                                     item : Items \cup {Null}]]
         /\ \A w \in Workers :
              /\ worker'[w].pc # "asleep"
              /\ worker[w].pc # "asleep" => worker'[w] = worker[w]
              /\ worker'[w].pc = "run" => worker'[w] = worker[w]
BY DEF WakeWorkers, Ready, IInv, TypeOK

LEMMA EnqueueKeeps ==
  ASSUME IInv, NEW c \in Clients, Enqueue(c)
  PROVE  IInv'
<1> DEFINE item == client[c].item
<1>1. /\ client[c].pc = "add" /\ item \in Items
      /\ ~QueueFull /\ ~shutdown /\ ~closed /\ ~freed
      /\ UNCHANGED <<doNotBlock, closed, shutdown, finish, freed, submitted,
                     started, done>>
  BY DEF Enqueue, IInv, WorkInHand, OneDestroyer
<1>2. /\ queue' = Append(queue, item) /\ accepted' = Append(accepted, item)
      /\ client' = [client EXCEPT ![c] = Out]
      /\ IF queue = <<>> THEN WakeWorkers ELSE worker' = worker
  BY DEF Enqueue, WithLast
<1>3. /\ worker' \in [Workers -> [pc : {"lock", "asleep", "run", "exited"},
                                 item : Items \cup {Null}]]
      /\ \A w \in Workers :
           /\ worker'[w].pc # "asleep"
           /\ worker[w].pc # "asleep" => worker'[w] = worker[w]
           /\ worker'[w].pc = "run" => worker'[w] = worker[w]
  BY <1>2, WorkersWake DEF IInv, TypeOK, NobodyOversleeps
<1>4. /\ queue' \in Seq(Items) /\ queue' # <<>> /\ Len(queue') = Len(queue) + 1
      /\ accepted' \in Seq(Items)
  BY <1>1, <1>2, AppendProperties DEF IInv, TypeOK
<1> HIDE DEF item
<1>5. Out \in ClientType /\ Out.pc = "out"
  BY DEF Out, ClientType
<1>6. Len(queue') <= MaxQueueSize
  BY <1>1, <1>4, LenProperties, PoolAssumption DEF IInv, TypeOK, QueueFull
<1>7. TypeOK' /\ WorkInHand'
  BY <1>1, <1>2, <1>3, <1>4, <1>5, <1>6
  DEF IInv, TypeOK, WorkInHand, ClientType
<1>8. OneDestroyer' /\ Progress' /\ WaitersBlock'
  BY <1>1, <1>2, <1>5, CallerMoves DEF Closing
<1>9. WorkAccounted'
  BY <1>1, <1>3 DEF IInv, WorkAccounted
<1>10. StartedInOrder'
  <2>1. accepted = started \o queue
    BY <1>1 DEF IInv, StartedInOrder
  <2>2. started \in Seq(Items) /\ queue \in Seq(Items)
    BY DEF IInv, TypeOK
  <2>3. Append(started \o queue, item) = started \o Append(queue, item)
    BY <1>1, <2>2, AddLast
  <2> QED
    BY <1>1, <1>2, <2>1, <2>3 DEF StartedInOrder
<1>11. NobodyOversleeps'
  <2>1. \A d \in Clients : client'[d].pc # "asleep"
    BY <1>1, <1>2, <1>5 DEF IInv, TypeOK, NobodyOversleeps
  <2> QED
    BY <1>3, <1>4, <2>1 DEF NobodyOversleeps
<1> QED
  BY <1>7, <1>8, <1>9, <1>10, <1>11 DEF IInv

\* Where the pool shuts down with finish, all that was accepted has been started.
LEMMA AllStarted ==
  ASSUME IInv, ~freed, queue = <<>>
  PROVE  started = accepted
BY ConcatEmptySeq DEF IInv, TypeOK, StartedInOrder

LEMMA CloseKeeps ==
  ASSUME IInv, NEW c \in Clients, NEW flag \in FinishFlags, Close(c, flag)
  PROVE  IInv'
<1>1. /\ client[c].pc = "out" /\ ~freed /\ ~closed /\ ~shutdown
      /\ closed' = TRUE /\ finish' = flag
      /\ UNCHANGED <<queue, doNotBlock, worker, freed, submitted, accepted,
                     started, done>>
  BY DEF Close, history
<1>2. PICK pc \in {"draining", "wake workers"} :
        /\ client' = [client EXCEPT ![c].pc = pc]
        /\ pc = "draining" => flag = 1 /\ queue # <<>> /\ shutdown' = FALSE
        /\ pc = "wake workers" => (flag = 1 => queue = <<>>) /\ shutdown' = TRUE
  BY <1>1 DEF Close, IInv, TypeOK
<1>3. /\ client' \in [Clients -> ClientType]
      /\ client'[c].pc = pc
      /\ \A d \in Clients : d # c => client'[d] = client[d]
  BY <1>2 DEF IInv, TypeOK, ClientType, Closing
<1>4. \A d \in Clients : client[d].pc \notin Closing
  BY <1>1 DEF IInv, OneDestroyer
<1>5. TypeOK'
  <2>1. /\ flag \in Nat /\ closed' \in BOOLEAN /\ shutdown' \in BOOLEAN
    BY <1>1, <1>2, PoolAssumption
  <2> QED
    BY <1>1, <1>3, <2>1 DEF IInv, TypeOK, ClientType
<1>6. WorkInHand' /\ OneDestroyer' /\ WaitersBlock'
  BY <1>1, <1>2, <1>3, <1>4
  DEF IInv, WorkInHand, OneDestroyer, WaitersBlock, Closing
<1>7. Progress'
  BY <1>1, <1>2, <1>3, <1>4 DEF Progress, Closing
<1>8. WorkAccounted' /\ StartedInOrder'
  BY <1>1, <1>2, AllStarted DEF IInv, WorkAccounted, StartedInOrder
<1>9. NobodyOversleeps'
  BY <1>1, <1>2, <1>3 DEF IInv, NobodyOversleeps, QueueFull
<1> QED
  BY <1>5, <1>6, <1>7, <1>8, <1>9 DEF IInv

LEMMA RecheckKeeps ==
  ASSUME IInv, NEW c \in Clients, Recheck(c)
  PROVE  IInv'
<1>1. /\ client[c].pc = "recheck" /\ ~freed /\ closed /\ ~shutdown /\ finish = 1
      /\ UNCHANGED <<queue, doNotBlock, closed, worker, finish, freed, submitted,
                     accepted, started, done>>
  BY DEF Recheck, history, IInv, OneDestroyer, Progress, Closing
<1>2. PICK pc \in {"draining", "wake workers"} :
        /\ client' = [client EXCEPT ![c].pc = pc]
        /\ pc = "draining" => queue # <<>> /\ shutdown' = FALSE
        /\ pc = "wake workers" => queue = <<>> /\ shutdown' = TRUE
  BY <1>1 DEF Recheck, IInv, TypeOK
<1>3. /\ client' \in [Clients -> ClientType]
      /\ client'[c].pc = pc
      /\ \A d \in Clients : d # c => client'[d] = client[d]
  BY <1>2 DEF IInv, TypeOK, ClientType, Closing
<1>4. \A d \in Clients : d # c => client[d].pc \notin Closing
  BY <1>1 DEF IInv, OneDestroyer, Closing
<1>5. TypeOK'
  <2>1. shutdown' \in BOOLEAN
    BY <1>2
  <2> QED
    BY <1>1, <1>3, <2>1 DEF IInv, TypeOK, ClientType
<1>6. WorkInHand' /\ OneDestroyer' /\ WaitersBlock'
  BY <1>1, <1>2, <1>3, <1>4
  DEF IInv, WorkInHand, OneDestroyer, WaitersBlock, Closing
<1>7. Progress'
  BY <1>1, <1>2, <1>3, <1>4 DEF Progress, Closing
<1>8. WorkAccounted' /\ StartedInOrder'
  BY <1>1, <1>2, AllStarted DEF IInv, WorkAccounted, StartedInOrder
<1>9. NobodyOversleeps'
  BY <1>1, <1>2, <1>3 DEF IInv, NobodyOversleeps, QueueFull
<1> QED
  BY <1>5, <1>6, <1>7, <1>8, <1>9 DEF IInv

\* The destroyer goes on, in a pool that is already shut down.
LEMMA BroadcastNotEmptyKeeps ==
  ASSUME IInv, NEW c \in Clients, BroadcastNotEmpty(c)
  PROVE  IInv'
<1>1. /\ client[c].pc = "wake workers" /\ ~freed /\ closed /\ shutdown
      /\ client' = [client EXCEPT ![c].pc = "wake clients"]
      /\ UNCHANGED <<queue, doNotBlock, closed, shutdown, finish, freed, submitted,
                     accepted, started, done>>
  BY DEF BroadcastNotEmpty, history, IInv, OneDestroyer, Progress, Closing
<1>2. /\ worker' \in [Workers -> [pc : {"lock", "asleep", "run", "exited"},
                                 item : Items \cup {Null}]]
      /\ \A w \in Workers :
           /\ worker'[w].pc # "asleep"
           /\ worker[w].pc # "asleep" => worker'[w] = worker[w]
           /\ worker'[w].pc = "run" => worker'[w] = worker[w]
  BY WorkersWake DEF BroadcastNotEmpty
<1>3. /\ client' \in [Clients -> ClientType]
      /\ client'[c].pc = "wake clients"
      /\ \A d \in Clients : d # c => client'[d] = client[d]
  BY <1>1 DEF IInv, TypeOK, ClientType, Closing
<1>4. TypeOK' /\ WorkInHand'
  BY <1>1, <1>2, <1>3 DEF IInv, TypeOK, ClientType, WorkInHand
<1>5. OneDestroyer' /\ WaitersBlock'
  BY <1>1, <1>3 DEF IInv, OneDestroyer, WaitersBlock, Closing
<1>6. Progress'
  BY <1>1, <1>3 DEF IInv, Progress, OneDestroyer, Closing
<1>7. WorkAccounted'
  <2>1. \A w \in Workers : worker[w].pc = "run" => worker'[w] = worker[w]
    BY <1>2
  <2> QED
    BY <1>1, <2>1 DEF IInv, WorkAccounted
<1>8. NobodyOversleeps' /\ StartedInOrder'
  BY <1>1, <1>2, <1>3 DEF IInv, NobodyOversleeps, StartedInOrder, QueueFull
<1> QED
  BY <1>4, <1>5, <1>6, <1>7, <1>8 DEF IInv

LEMMA BroadcastNotFullKeeps ==
  ASSUME IInv, NEW c \in Clients, BroadcastNotFull(c)
  PROVE  IInv'
<1>1. /\ client[c].pc = "wake clients" /\ ~freed /\ closed /\ shutdown
      /\ UNCHANGED <<queue, doNotBlock, closed, shutdown, worker, finish, freed,
                     submitted, accepted, started, done>>
  BY DEF BroadcastNotFull, history, IInv, OneDestroyer, Progress, Closing
<1>2. /\ client' \in [Clients -> ClientType]
      /\ client'[c].pc = "join"
      /\ \A d \in Clients :
           d # c => \/ client[d].pc # "asleep" /\ client'[d] = client[d]
                    \/ /\ client[d].pc = "asleep" /\ client'[d].pc = "add"
                       /\ client'[d].item = client[d].item
  BY DEF BroadcastNotFull, Woken, IInv, TypeOK, ClientType, Closing
<1>3. \A d \in Clients : d # c => client[d].pc \notin Closing
  BY <1>1 DEF IInv, OneDestroyer, Closing
<1>4. TypeOK' /\ WorkInHand'
  BY <1>1, <1>2 DEF IInv, TypeOK, ClientType, WorkInHand
<1>5. OneDestroyer' /\ WaitersBlock'
  BY <1>1, <1>2, <1>3 DEF IInv, OneDestroyer, WaitersBlock, Closing
<1>6. Progress'
  BY <1>1, <1>2, <1>3 DEF IInv, Progress, OneDestroyer, Closing
<1>7. WorkAccounted' /\ StartedInOrder'
  BY <1>1 DEF IInv, WorkAccounted, StartedInOrder
<1>8. NobodyOversleeps'
  BY <1>1, <1>2, <1>3 DEF IInv, NobodyOversleeps, QueueFull, Closing
<1> QED
  BY <1>4, <1>5, <1>6, <1>7, <1>8 DEF IInv

LEMMA JoinKeeps ==
  ASSUME IInv, NEW c \in Clients, Join(c)
  PROVE  IInv'
<1>1. /\ client[c].pc = "join" /\ ~freed /\ closed /\ shutdown
      /\ freed' = TRUE /\ queue' = <<>>
      /\ client' = [client EXCEPT ![c] = Out]
      /\ \A w \in Workers : worker[w].pc = "exited"
      /\ UNCHANGED <<doNotBlock, closed, shutdown, worker, finish, submitted,
                     accepted, started, done>>
  BY DEF Join, history, IInv, OneDestroyer, Progress, Closing
<1>2. /\ client' \in [Clients -> ClientType]
      /\ client'[c].pc = "out"
      /\ \A d \in Clients : d # c => client'[d] = client[d]
  BY <1>1 DEF IInv, TypeOK, ClientType, Out
<1>3. \A d \in Clients : client'[d].pc \notin Closing /\ client'[d].pc # "asleep"
  BY <1>1, <1>2 DEF IInv, OneDestroyer, Progress, Closing
<1>4. TypeOK' /\ WorkInHand'
  BY <1>1, <1>2, PoolAssumption DEF IInv, TypeOK, ClientType, WorkInHand
<1>5. OneDestroyer' /\ WaitersBlock' /\ NobodyOversleeps'
  BY <1>1, <1>3 DEF OneDestroyer, WaitersBlock, NobodyOversleeps, Closing
<1>6. Progress'
  BY <1>1, <1>3 DEF Progress, Closing
<1>7. WorkAccounted' /\ StartedInOrder'
  BY <1>1 DEF IInv, WorkAccounted, StartedInOrder
<1> QED
  BY <1>4, <1>5, <1>6, <1>7 DEF IInv

-------------------------------------------------------------------------------
(* The workers *)

\* A worker goes to sleep or ends; it has nothing in its hands.
LEMMA WorkerRestsKeeps ==
  ASSUME IInv, NEW w \in Workers, WaitNotEmpty(w) \/ Exit(w)
  PROVE  IInv'
<1>1. /\ worker[w].pc = "lock" /\ ~freed
      /\ UNCHANGED <<queue, doNotBlock, closed, shutdown, client, finish, freed,
                     submitted, accepted, started, done>>
  BY DEF WaitNotEmpty, Exit, history, IInv, Progress
<1>2. PICK pc \in {"asleep", "exited"} :
        /\ worker' = [worker EXCEPT ![w].pc = pc]
        /\ pc = "asleep" => queue = <<>>
  BY DEF WaitNotEmpty, Exit
<1>3. /\ worker' \in [Workers -> [pc : {"lock", "asleep", "run", "exited"},
                                 item : Items \cup {Null}]]
      /\ worker'[w].pc = pc
      /\ \A v \in Workers : v # w => worker'[v] = worker[v]
  BY <1>2 DEF IInv, TypeOK
<1>4. TypeOK' /\ WorkInHand'
  BY <1>1, <1>3 DEF IInv, TypeOK, WorkInHand
<1>5. OneDestroyer' /\ Progress' /\ WaitersBlock' /\ StartedInOrder'
  BY <1>1 DEF IInv, OneDestroyer, Progress, WaitersBlock, StartedInOrder
<1>6. WorkAccounted'
  BY <1>1, <1>3 DEF IInv, WorkAccounted
<1>7. NobodyOversleeps'
  BY <1>1, <1>2, <1>3 DEF IInv, NobodyOversleeps, QueueFull
<1> QED
  BY <1>4, <1>5, <1>6, <1>7 DEF IInv

LEMMA DequeueKeeps ==
  ASSUME IInv, NEW w \in Workers, Dequeue(w)
  PROVE  IInv'
<1> DEFINE item == Head(queue)
<1>1. /\ worker[w].pc = "lock" /\ ~freed /\ queue # <<>> /\ ~shutdown
      /\ queue' = Tail(queue) /\ started' = Append(started, item)
      /\ worker' = [worker EXCEPT ![w] = [pc |-> "run", item |-> item]]
      /\ UNCHANGED <<doNotBlock, closed, shutdown, finish, freed, submitted,
                     accepted, done>>
  BY DEF Dequeue, IInv, Progress
<1>2. /\ item \in Items /\ queue' \in Seq(Items) /\ Len(queue') = Len(queue) - 1
      /\ Len(queue) \in Nat /\ started' \in Seq(Items)
  BY <1>1, HeadTailProperties, AppendProperties, LenProperties DEF IInv, TypeOK
<1>3. /\ client' \in [Clients -> ClientType]
      /\ \A d \in Clients :
           \/ client'[d] = client[d]
           \/ /\ client[d].pc = "asleep" /\ client'[d].pc = "add"
              /\ client'[d].item = client[d].item
           \/ client[d].pc = "draining" /\ client'[d].pc = "recheck"
  BY DEF Dequeue, Woken, IInv, TypeOK, ClientType, Closing
<1>4. \A d \in Clients : /\ client'[d].pc = "draining" => Len(queue) # 1
                         /\ client'[d].pc # "asleep"
  <2> SUFFICES ASSUME NEW d \in Clients
               PROVE  /\ client'[d].pc = "draining" => Len(queue) # 1
                      /\ client'[d].pc # "asleep"
    OBVIOUS
  <2>1. CASE client[d].pc = "draining"
    BY <2>1 DEF Dequeue, Woken, IInv, TypeOK
  <2>2. CASE client[d].pc = "asleep"
    <3>1. ~doNotBlock /\ Len(queue) = MaxQueueSize
      BY <2>2 DEF IInv, WaitersBlock, NobodyOversleeps, QueueFull
    <3>2. NotFullAgain(Len(queue) - 1)
      BY <1>2, <3>1 DEF NotFullAgain
    <3>3. client'[d] = [client[d] EXCEPT !.pc = "add"]
      BY <2>2, <3>2 DEF Dequeue, Woken
    <3> QED
      BY <2>2, <3>3 DEF IInv, TypeOK
  <2>3. CASE client[d].pc \notin {"draining", "asleep"}
    BY <1>3, <2>3
  <2> QED
    BY <2>1, <2>2, <2>3
<1> HIDE DEF item
<1>5. /\ worker' \in [Workers -> [pc : {"lock", "asleep", "run", "exited"},
                                 item : Items \cup {Null}]]
      /\ worker'[w].pc = "run" /\ worker'[w].item = item
      /\ \A v \in Workers : v # w => worker'[v] = worker[v]
  BY <1>1, <1>2 DEF IInv, TypeOK
<1>6. TypeOK' /\ WorkInHand'
  <2>1. Len(queue') <= MaxQueueSize
    BY <1>2, PoolAssumption DEF IInv, TypeOK
  <2> QED
    BY <1>1, <1>2, <1>3, <1>5, <2>1 DEF IInv, TypeOK, ClientType, WorkInHand
<1>7. OneDestroyer' /\ WaitersBlock'
  BY <1>1, <1>3 DEF IInv, OneDestroyer, WaitersBlock, Closing
<1>8. Progress'
  BY <1>1, <1>3 DEF IInv, Progress, Closing
<1>9. StartedInOrder'
  <2>1. accepted = started \o queue
    BY <1>1 DEF IInv, StartedInOrder
  <2>2. Append(started, item) \o Tail(queue) = started \o queue
    BY <1>1, MoveHead DEF item, IInv, TypeOK
  <2> QED
    BY <1>1, <2>1, <2>2 DEF StartedInOrder
<1>10. WorkAccounted'
  <2>1. ToSet(started') = ToSet(started) \cup {item}
    BY <1>1, <1>2, ToSetAppend DEF IInv, TypeOK
  <2> QED
    BY <1>1, <1>5, <2>1 DEF IInv, WorkAccounted
<1>11. NobodyOversleeps'
  <2>1. \A v \in Workers : worker'[v].pc # "asleep"
    BY <1>1, <1>5 DEF IInv, NobodyOversleeps
  <2>2. \A d \in Clients : client'[d].pc = "draining" => queue' # <<>>
    <3>1. Len(queue) # 0
      BY <1>1, EmptySeq DEF IInv, TypeOK
    <3>2. Len(queue) # 1 => Len(queue') # 0
      BY <1>2, <3>1
    <3>3. queue' # <<>> \/ Len(queue') = 0
      BY EmptySeq
    <3> QED
      BY <1>4, <3>2, <3>3
  <2> QED
    BY <1>4, <2>1, <2>2 DEF NobodyOversleeps
<1> QED
  BY <1>6, <1>7, <1>8, <1>9, <1>10, <1>11 DEF IInv

LEMMA FinishKeeps ==
  ASSUME IInv, NEW w \in Workers, Finish(w)
  PROVE  IInv'
<1>1. /\ worker[w].pc = "run" /\ worker[w].item \in Items
      /\ done' = done \cup {worker[w].item}
      /\ worker' = [worker EXCEPT ![w] = Ready]
      /\ UNCHANGED <<queue, doNotBlock, closed, shutdown, client, finish, freed,
                     submitted, accepted, started>>
  BY DEF Finish, IInv, WorkInHand
<1>2. /\ worker' \in [Workers -> [pc : {"lock", "asleep", "run", "exited"},
                                 item : Items \cup {Null}]]
      /\ worker'[w].pc = "lock"
      /\ \A v \in Workers : v # w => worker'[v] = worker[v]
  BY <1>1 DEF Ready, IInv, TypeOK
<1>3. TypeOK' /\ WorkInHand'
  BY <1>1, <1>2 DEF IInv, TypeOK, WorkInHand
<1>4. OneDestroyer' /\ Progress' /\ WaitersBlock' /\ StartedInOrder'
  BY <1>1 DEF IInv, OneDestroyer, Progress, WaitersBlock, StartedInOrder
<1>5. WorkAccounted'
  BY <1>1, <1>2 DEF IInv, WorkAccounted
<1>6. NobodyOversleeps'
  BY <1>1, <1>2 DEF IInv, NobodyOversleeps, QueueFull
<1> QED
  BY <1>3, <1>4, <1>5, <1>6 DEF IInv

LEMMA SpuriousWakeupKeeps == IInv /\ SpuriousWakeup => IInv'
<1> SUFFICES ASSUME IInv, SpuriousWakeup PROVE IInv'
  OBVIOUS
<1>1. UNCHANGED <<queue, doNotBlock, closed, shutdown, finish, freed, submitted,
                  accepted, started, done>>
  BY DEF SpuriousWakeup, history
<1>2. ASSUME NEW w \in Workers, worker[w].pc = "asleep",
             worker' = [worker EXCEPT ![w] = Ready], client' = client
      PROVE  IInv'
  <2>1. /\ worker' \in [Workers -> [pc : {"lock", "asleep", "run", "exited"},
                                   item : Items \cup {Null}]]
        /\ worker'[w].pc = "lock"
        /\ \A v \in Workers : v # w => worker'[v] = worker[v]
    BY <1>2 DEF Ready, IInv, TypeOK
  <2>2. TypeOK' /\ WorkInHand'
    BY <1>1, <1>2, <2>1 DEF IInv, TypeOK, WorkInHand
  <2>3. ~freed
    BY <1>2 DEF IInv, Progress
  <2>4. OneDestroyer' /\ Progress' /\ WaitersBlock' /\ StartedInOrder'
    BY <1>1, <1>2, <2>3 DEF IInv, OneDestroyer, Progress, WaitersBlock, StartedInOrder
  <2>5. WorkAccounted'
    BY <1>1, <1>2, <2>1 DEF IInv, WorkAccounted
  <2>6. NobodyOversleeps'
    BY <1>1, <1>2, <2>1 DEF IInv, NobodyOversleeps, QueueFull
  <2> QED
    BY <2>2, <2>4, <2>5, <2>6 DEF IInv
<1>3. ASSUME NEW c \in Clients, worker' = worker,
             NEW pc \in {"add", "recheck"}, client' = [client EXCEPT ![c].pc = pc],
             \/ client[c].pc = "asleep" /\ pc = "add"
             \/ client[c].pc = "draining" /\ pc = "recheck"
      PROVE  IInv'
  <2>1. /\ client' \in [Clients -> ClientType]
        /\ client'[c].pc = pc /\ client'[c].item = client[c].item
        /\ \A d \in Clients : d # c => client'[d] = client[d]
    BY <1>3 DEF IInv, TypeOK, ClientType, Closing
  <2>2. TypeOK' /\ WorkInHand'
    BY <1>1, <1>3, <2>1 DEF IInv, TypeOK, ClientType, WorkInHand
  <2>3. OneDestroyer' /\ WaitersBlock'
    BY <1>1, <1>3, <2>1 DEF IInv, OneDestroyer, WaitersBlock, Closing
  <2>4. Progress'
    BY <1>1, <1>3, <2>1 DEF IInv, Progress, Closing
  <2>5. WorkAccounted' /\ StartedInOrder'
    BY <1>1, <1>3 DEF IInv, WorkAccounted, StartedInOrder
  <2>6. NobodyOversleeps'
    BY <1>1, <1>3, <2>1 DEF IInv, NobodyOversleeps, QueueFull
  <2> QED
    BY <2>2, <2>3, <2>4, <2>5, <2>6 DEF IInv
<1> QED
  BY <1>2, <1>3 DEF SpuriousWakeup

-------------------------------------------------------------------------------
(* The theorems *)

LEMMA NextIInv == IInv /\ [Next]_vars => IInv'
<1> SUFFICES ASSUME IInv, [Next]_vars PROVE IInv'
  OBVIOUS
<1>1. ASSUME NEW c \in Clients, Call(c) PROVE IInv'
  BY <1>1, AddWorkKeeps, CloseKeeps DEF Call
<1>2. ASSUME NEW c \in Clients, ClientStep(c) PROVE IInv'
  BY <1>2, RefuseKeeps, WaitNotFullKeeps, EnqueueKeeps, RecheckKeeps,
     BroadcastNotEmptyKeeps, BroadcastNotFullKeeps, JoinKeeps DEF ClientStep
<1>3. ASSUME NEW w \in Workers, WorkerStep(w) PROVE IInv'
  BY <1>3, WorkerRestsKeeps, DequeueKeeps, FinishKeeps DEF WorkerStep
<1>4. CASE UNCHANGED vars
  BY <1>4
  DEF vars, IInv, TypeOK, WorkInHand, OneDestroyer, Progress, WaitersBlock,
      WorkAccounted, NobodyOversleeps, StartedInOrder, QueueFull
<1> QED
  BY <1>1, <1>2, <1>3, <1>4, SpuriousWakeupKeeps DEF Next

LEMMA Invariance == Spec => []IInv
<1> QED
  BY InitIInv, NextIInv, PTL DEF Spec

\* The variables keep their types, and the queue its bound, so that add_work
\* always finds a free bucket (pt_pool.c: pt_pool_add_work).
THEOREM PoolTypes == Spec => []TypeOK
<1>1. IInv => TypeOK
  BY DEF IInv
<1> QED
  BY <1>1, Invariance, PTL

\* No wakeup is lost, whatever the numbers of workers and clients: waking the
\* workers only when work meets an empty queue, and the clients only when the
\* queue was full, is enough (pt_pool.c: pt_pool_add_work, pt_pool_thread).
THEOREM NoLostWakeup == Spec => []NobodyOversleeps
<1>1. IInv => NobodyOversleeps
  BY DEF IInv
<1> QED
  BY <1>1, Invariance, PTL

\* Work is started in the order in which it was accepted, once each
\* (pt_pool.c: pt_pool_add_work, pt_pool_thread).
THEOREM FirstInFirstOut == Spec => []StartedInOrder
<1>1. IInv => StartedInOrder
  BY DEF IInv
<1> QED
  BY <1>1, Invariance, PTL

\* When pt_pool_destroy has returned, what was started is finished, and with
\* finish, so is all that was accepted (pt_pool.c: pt_pool_destroy).
THEOREM DestroyIsComplete == Spec => []DestroyFinishes
<1>1. IInv => DestroyFinishes
  <2> SUFFICES ASSUME IInv, freed PROVE DestroyFinishes
    BY DEF DestroyFinishes
  <2>1. shutdown /\ \A w \in Workers : worker[w].pc = "exited"
    BY DEF IInv, Progress
  <2>2. ToSet(started) \subseteq done
    BY <2>1 DEF IInv, WorkAccounted
  <2>3. finish = 1 => started = accepted
    BY <2>1 DEF IInv, WorkAccounted
  <2> QED
    BY <2>2, <2>3 DEF DestroyFinishes
<1> QED
  BY <1>1, Invariance, PTL

===============================================================================
