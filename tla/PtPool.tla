-------------------------------- MODULE PtPool --------------------------------
(***************************************************************************)
(* The thread pool of the pt library (src/pt/pt_pool.c).                   *)
(*                                                                         *)
(* Clients put work into a bounded queue (pt_pool_add_work) and destroy the *)
(* pool (pt_pool_destroy); Workers (pt_pool_thread) take it out.  What a    *)
(* thread does while it holds queue_lock is one action.  A thread asleep on *)
(* a condition variable has a pc of its own; waking it makes it "lock"     *)
(* again, and it re-checks the condition it slept for, so that a spurious   *)
(* wakeup, which POSIX allows, is one more way to wake.                      *)
(***************************************************************************)
EXTENDS Naturals, Sequences, FiniteSets, SequencesExt

CONSTANTS
  Workers,         \* the pool's threads
  Clients,         \* the threads that use it
  Items,           \* the work there is to do
  MaxQueueSize,    \* max_queue_size
  BlockModes,      \* values of do_not_block_when_full
  FinishFlags      \* values of pt_pool_destroy's finish

ASSUME PoolAssumption ==
  /\ MaxQueueSize \in Nat
  /\ BlockModes \subseteq BOOLEAN
  /\ FinishFlags \subseteq Nat

VARIABLES
  queue,           \* the list from queue_head to queue_tail
  doNotBlock,      \* do_not_block_when_full
  closed,          \* queue_closed
  shutdown,
  worker,          \* [pc, item] of each worker
  client,          \* [pc, item] of each client
  finish,          \* the argument of the pt_pool_destroy that closed the pool
  freed,           \* that call has joined the workers and freed the pool
  submitted,       \* history: the work handed to pt_pool_add_work
  accepted,        \* history: the work it accepted, in that order
  started,         \* history: the work taken from the queue, in that order
  done             \* history: the work whose routine has returned

vars == <<queue, doNotBlock, closed, shutdown, worker, client, finish, freed,
          submitted, accepted, started, done>>
history == <<submitted, accepted, started, done>>

Null == "null"  \* no work
Ready == [pc |-> "lock", item |-> Null]
Out == [pc |-> "out", item |-> Null]

\* Mutant of QueueFull: one too many.
QueueOverfull == Len(queue) > MaxQueueSize

QueueFull == Len(queue) = MaxQueueSize

\* Mutant of WithLast: the bucket becomes the head of the list.
WithFirst(item) == <<item>> \o queue

\* The bucket joins the list at queue_tail.
WithLast(item) == Append(queue, item)

\* Mutant of WakeWorkers: a signal, which wakes one of them.
SignalWorker ==
  IF \E w \in Workers : worker[w].pc = "asleep"
    THEN \E w \in Workers :
           worker[w].pc = "asleep" /\ worker' = [worker EXCEPT ![w] = Ready]
    ELSE UNCHANGED worker

\* pthread_cond_broadcast of queue_not_empty and queue_not_full.
WakeWorkers ==
  worker' = [w \in Workers |->
               IF worker[w].pc = "asleep" THEN Ready ELSE worker[w]]
Woken(c) ==
  IF client[c].pc = "asleep" THEN [client[c] EXCEPT !.pc = "add"] ELSE client[c]

-------------------------------------------------------------------------------
(* pt_pool_add_work *)

AddWork(c, item) ==
  /\ client[c].pc = "out"
  /\ ~freed
  /\ item \notin submitted
  /\ submitted' = submitted \cup {item}
  /\ client' = [client EXCEPT ![c] = [pc |-> "add", item |-> item]]
  /\ UNCHANGED <<queue, doNotBlock, closed, shutdown, worker, finish, freed,
                 accepted, started, done>>

\* The queue is full and the caller would not wait, or the pool is closing.
Refuse(c) ==
  /\ client[c].pc = "add"
  /\ (QueueFull /\ doNotBlock) \/ shutdown \/ closed
  /\ client' = [client EXCEPT ![c] = Out]
  /\ UNCHANGED <<queue, doNotBlock, closed, shutdown, worker, finish, freed, history>>

WaitNotFull(c) ==
  /\ client[c].pc = "add"
  /\ QueueFull /\ ~doNotBlock /\ ~shutdown /\ ~closed
  /\ client' = [client EXCEPT ![c].pc = "asleep"]
  /\ UNCHANGED <<queue, doNotBlock, closed, shutdown, worker, finish, freed, history>>

\* The workers are woken if the queue was empty.
Enqueue(c) ==
  /\ client[c].pc = "add"
  /\ ~QueueFull /\ ~shutdown /\ ~closed
  /\ queue' = WithLast(client[c].item)
  /\ accepted' = Append(accepted, client[c].item)
  /\ IF queue = <<>> THEN WakeWorkers ELSE UNCHANGED worker
  /\ client' = [client EXCEPT ![c] = Out]
  /\ UNCHANGED <<doNotBlock, closed, shutdown, finish, freed, submitted, started, done>>

-------------------------------------------------------------------------------
(* pt_pool_destroy; a second call finds the pool closed and changes nothing *)

\* queue_closed is set; with finish, the caller waits for an empty queue.
Close(c, flag) ==
  /\ client[c].pc = "out"
  /\ ~freed /\ ~closed /\ ~shutdown
  /\ closed' = TRUE
  /\ finish' = flag
  /\ IF flag = 1 /\ queue # <<>>
       THEN /\ client' = [client EXCEPT ![c].pc = "draining"]
            /\ UNCHANGED shutdown
       ELSE /\ client' = [client EXCEPT ![c].pc = "wake workers"]
            /\ shutdown' = TRUE
  /\ UNCHANGED <<queue, doNotBlock, worker, freed, history>>

\* Mutant of Recheck: an "if" in place of the "while".
RecheckNothing(c) ==
  /\ client[c].pc = "recheck"
  /\ client' = [client EXCEPT ![c].pc = "wake workers"]
  /\ shutdown' = TRUE
  /\ UNCHANGED <<queue, doNotBlock, closed, worker, finish, freed, history>>

\* Woken from queue_empty.
Recheck(c) ==
  /\ client[c].pc = "recheck"
  /\ IF queue # <<>>
       THEN /\ client' = [client EXCEPT ![c].pc = "draining"]
            /\ UNCHANGED shutdown
       ELSE /\ client' = [client EXCEPT ![c].pc = "wake workers"]
            /\ shutdown' = TRUE
  /\ UNCHANGED <<queue, doNotBlock, closed, worker, finish, freed, history>>

\* Mutant of BroadcastNotEmpty: the sleeping workers are left asleep.
NoBroadcast(c) ==
  /\ client[c].pc = "wake workers"
  /\ client' = [client EXCEPT ![c].pc = "wake clients"]
  /\ UNCHANGED <<queue, doNotBlock, closed, shutdown, worker, finish, freed, history>>

\* The two broadcasts follow the unlock.
BroadcastNotEmpty(c) ==
  /\ client[c].pc = "wake workers"
  /\ WakeWorkers
  /\ client' = [client EXCEPT ![c].pc = "wake clients"]
  /\ UNCHANGED <<queue, doNotBlock, closed, shutdown, finish, freed, history>>

BroadcastNotFull(c) ==
  /\ client[c].pc = "wake clients"
  /\ client' = [d \in Clients |-> IF d = c THEN [pc |-> "join", item |-> Null]
                                  ELSE Woken(d)]
  /\ UNCHANGED <<queue, doNotBlock, closed, shutdown, worker, finish, freed, history>>

\* The workers are joined, and what is left in the queue is freed with the pool.
Join(c) ==
  /\ client[c].pc = "join"
  /\ \A w \in Workers : worker[w].pc = "exited"
  /\ client' = [client EXCEPT ![c] = Out]
  /\ freed' = TRUE
  /\ queue' = <<>>
  /\ UNCHANGED <<doNotBlock, closed, shutdown, worker, finish, history>>

-------------------------------------------------------------------------------
(* pt_pool_thread *)

WaitNotEmpty(w) ==
  /\ worker[w].pc = "lock"
  /\ queue = <<>> /\ ~shutdown
  /\ worker' = [worker EXCEPT ![w].pc = "asleep"]
  /\ UNCHANGED <<queue, doNotBlock, closed, shutdown, client, finish, freed, history>>

Exit(w) ==
  /\ worker[w].pc = "lock"
  /\ shutdown
  /\ worker' = [worker EXCEPT ![w].pc = "exited"]
  /\ UNCHANGED <<queue, doNotBlock, closed, shutdown, client, finish, freed, history>>

\* Mutant of NotFullAgain: the test is against the size, not one below it.
NeverFullAgain(size) == ~doNotBlock /\ size = MaxQueueSize

\* The queue was full until now, so clients may be asleep.
NotFullAgain(size) == ~doNotBlock /\ size + 1 = MaxQueueSize

\* A signal of queue_empty wakes the one client that can wait for it.
Dequeue(w) ==
  /\ worker[w].pc = "lock"
  /\ queue # <<>> /\ ~shutdown
  /\ queue' = Tail(queue)
  /\ started' = Append(started, Head(queue))
  /\ worker' = [worker EXCEPT ![w] = [pc |-> "run", item |-> Head(queue)]]
  /\ client' = [c \in Clients |->
                  IF client[c].pc = "draining" /\ Len(queue) = 1
                    THEN [client[c] EXCEPT !.pc = "recheck"]
                  ELSE IF NotFullAgain(Len(queue) - 1) THEN Woken(c)
                  ELSE client[c]]
  /\ UNCHANGED <<doNotBlock, closed, shutdown, finish, freed, submitted, accepted, done>>

\* The routine returns.
Finish(w) ==
  /\ worker[w].pc = "run"
  /\ done' = done \cup {worker[w].item}
  /\ worker' = [worker EXCEPT ![w] = Ready]
  /\ UNCHANGED <<queue, doNotBlock, closed, shutdown, client, finish, freed,
                 submitted, accepted, started>>

\* A wait on a condition variable may end with no signal.
SpuriousWakeup ==
  /\ \/ /\ \E w \in Workers : /\ worker[w].pc = "asleep"
                              /\ worker' = [worker EXCEPT ![w] = Ready]
        /\ UNCHANGED client
     \/ /\ \E c \in Clients :
             \/ /\ client[c].pc = "asleep"
                /\ client' = [client EXCEPT ![c].pc = "add"]
             \/ /\ client[c].pc = "draining"
                /\ client' = [client EXCEPT ![c].pc = "recheck"]
        /\ UNCHANGED worker
  /\ UNCHANGED <<queue, doNotBlock, closed, shutdown, finish, freed, history>>

-------------------------------------------------------------------------------
(* The specification *)

Init ==
  /\ queue = <<>>
  /\ doNotBlock \in BlockModes
  /\ closed = FALSE /\ shutdown = FALSE
  /\ worker = [w \in Workers |-> Ready]
  /\ client = [c \in Clients |-> Out]
  /\ finish = 0 /\ freed = FALSE
  /\ submitted = {} /\ accepted = <<>> /\ started = <<>> /\ done = {}

\* A client inside the library goes on; whether to call it is its own business.
ClientStep(c) ==
  \/ Refuse(c)
  \/ WaitNotFull(c)
  \/ Enqueue(c)
  \/ Recheck(c)
  \/ BroadcastNotEmpty(c)
  \/ BroadcastNotFull(c)
  \/ Join(c)

Call(c) ==
  \/ \E item \in Items : AddWork(c, item)
  \/ \E flag \in FinishFlags : Close(c, flag)

WorkerStep(w) ==
  \/ WaitNotEmpty(w)
  \/ Exit(w)
  \/ Dequeue(w)
  \/ Finish(w)

Next ==
  \/ \E c \in Clients : Call(c) \/ ClientStep(c)
  \/ \E w \in Workers : WorkerStep(w)
  \/ SpuriousWakeup

Spec == Init /\ [][Next]_vars

\* Every thread that can run does, and every routine returns.
Fairness ==
  /\ \A c \in Clients : WF_vars(ClientStep(c))
  /\ \A w \in Workers : WF_vars(WorkerStep(w))

FairSpec == Spec /\ Fairness

-------------------------------------------------------------------------------
(* Properties *)

Closing == {"draining", "recheck", "wake workers", "wake clients", "join"}

TypeOK ==
  /\ queue \in Seq(Items)
  /\ Len(queue) <= MaxQueueSize
  /\ doNotBlock \in BOOLEAN /\ closed \in BOOLEAN /\ shutdown \in BOOLEAN
  /\ worker \in [Workers -> [pc : {"lock", "asleep", "run", "exited"},
                             item : Items \cup {Null}]]
  /\ client \in [Clients -> [pc : {"out", "add", "asleep"} \cup Closing,
                             item : Items \cup {Null}]]
  /\ finish \in Nat /\ freed \in BOOLEAN
  /\ submitted \subseteq Items /\ done \subseteq Items
  /\ accepted \in Seq(Items) /\ started \in Seq(Items)

\* Nobody sleeps through what he is waiting for: no worker is asleep while there
\* is work, no client while there is room, no destroyer when the queue has run
\* dry.  It is what makes it enough to wake the workers only when work meets an
\* empty queue, and the clients only when the queue was full (pt_pool.c:
\* pt_pool_add_work, pt_pool_thread).
NobodyOversleeps ==
  /\ queue # <<>> => \A w \in Workers : worker[w].pc # "asleep"
  /\ \A c \in Clients : /\ client[c].pc = "asleep" => QueueFull
                        /\ client[c].pc = "draining" => queue # <<>>

\* "Work requests are started in the order in which they were entered into the
\* queue" (pt_pool_intro.3), each once and none of them lost.
StartedInOrder == ~freed => accepted = started \o queue

\* When pt_pool_destroy returns, everything that was started is finished; and
\* with finish, everything that was accepted (pt_pool_intro.3).
DestroyFinishes ==
  freed => /\ ToSet(started) \subseteq done
           /\ finish = 1 => started = accepted

\* pt_pool_destroy returns, blocked clients or not.
DestroyReturns == closed ~> freed

\* A client blocked on a full queue gets in, or is turned away.
AddWorkReturns == \A c \in Clients : client[c].pc = "add" ~> client[c].pc = "out"

===============================================================================
