--------------------------- MODULE ImageCacheProofs ---------------------------
(***************************************************************************)
(* What holds of the image cache for every number of threads, slots,       *)
(* frames and movies.  IInv is the inductive invariant: OnlyReuseMisleads and *)
(* PendingIsInProgress, strengthened by what the queues and slots hold.    *)
(* EInv, on top of it, is what the order of eviction rests on: the request  *)
(* numbers of the slots, for a player whose calls of GetImage all preload.  *)
(***************************************************************************)
EXTENDS ImageCache, SequenceTheorems, TLAPS

\* The jobs and the filled slots that belong to movie m, and the jobs of m whose
\* frame is in F.
JobOf(m) == {job \in Job : job.movie = m}
FailedJobOf(m, F) == {job \in JobOf(m) : job.frame \in F}
SlotOf(m) == {slot \in Slot : /\ slot.image.frame = slot.frame
                              /\ slot.image.lod = slot.lod
                              /\ slot.image.movie = m}
AnySlotOf(m) == SlotOf(m) \cup {EmptySlot}

\* Whatever is queued, loaded or cached belongs to the movie that is open.
QueuesOfMovie ==
  /\ jobs \in [Threads -> Seq(JobOf(movie))]
  /\ errors \in [Threads -> Seq(FailedJobOf(movie, failed))]
  /\ slots \in [Threads -> Seq(AnySlotOf(movie))]
  /\ \A t \in Threads : worker[t].pc = "loading" => worker[t].job \in JobOf(movie)

\* Outside the life of a movie nothing is queued, and nothing is owed.
NothingQueued ==
  /\ main.pc \in {"none", "fresh"} =>
       /\ errors = NoQueues /\ answer = NoImage
       /\ \A t \in Threads : worker[t].pc # "loading"
  /\ main.pc \in {"none", "fresh", "join"} => jobs = NoQueues
  /\ NumReaderThreads = 0 => jobs = NoQueues

\* Between a hit and the read of its image: the slot was right when it was found,
\* and holds an image of the open movie whatever has become of it.
FoundHeld ==
  LET t == ThreadOf(main.frame)
  IN /\ main.slot \in DOMAIN slots[t]
     /\ slots[t][main.slot] \in SlotOf(movie)
     /\ main.found \in SlotOf(movie)
     /\ main.found.frame = main.frame /\ main.found.lod = main.lod
     /\ main.region \subseteq main.found.image.region

\* Inside GetImage a movie is open and the region wanted only grows.
RequestOK ==
  /\ main.pc = "fresh" => opened > 0
  /\ main.pc = "idle" \/ InGetImage => movie \in Movies
  /\ InGetImage => main.want \subseteq main.region
  /\ main.pc = "preload" => main.left > 0
  /\ main.pc = "found" => FoundHeld

IInv ==
  /\ TypeOK
  /\ QueuesOfMovie
  /\ PendingIsInProgress
  /\ NothingQueued
  /\ RequestOK
  /\ OnlyReuseMisleads

-------------------------------------------------------------------------------
(* Sequences *)

\* Taking an element out of a sequence leaves a sequence over the same set.
LEMMA RemoveAtSeq ==
  ASSUME NEW S, NEW q \in Seq(S), NEW i \in DOMAIN q
  PROVE  RemoveAt(q, i) \in Seq(S)
<1>1. i \in 1 .. Len(q) /\ Len(q) \in Nat
  BY LenProperties
<1>2. SubSeq(q, 1, i - 1) \in Seq(S)
  <2>1. \A k \in 1 .. i - 1 : q[k] \in S
    BY <1>1, ElementOfSeq
  <2> QED
    BY <1>1, <2>1, SubSeqProperties
<1>3. SubSeq(q, i + 1, Len(q)) \in Seq(S)
  <2>1. \A k \in i + 1 .. Len(q) : q[k] \in S
    BY <1>1, ElementOfSeq
  <2> QED
    BY <1>1, <2>1, SubSeqProperties
<1> QED
  BY <1>2, <1>3, ConcatProperties DEF RemoveAt

\* Taking the only element out leaves nothing.
LEMMA RemoveAtOnly ==
  ASSUME NEW x, NEW i \in DOMAIN <<x>>
  PROVE  RemoveAt(<<x>>, i) = <<>>
<1>1. i = 1 /\ Len(<<x>>) = 1
  OBVIOUS
<1>2. SubSeq(<<x>>, 1, 0) = <<>> /\ SubSeq(<<x>>, 2, 1) = <<>>
  OBVIOUS
<1> QED
  BY <1>1, <1>2 DEF RemoveAt

\* Sorting keeps the elements.
LEMMA ReorderedSeq ==
  ASSUME NEW S, NEW q \in Seq(S), NEW p \in Orders(Len(q))
  PROVE  Reordered(q, p) \in Seq(S)
<1>1. Len(q) \in Nat /\ p \in [1 .. Len(q) -> 1 .. Len(q)]
  BY LenProperties DEF Orders, Injection
<1>2. \A i \in 1 .. Len(q) : q[p[i]] \in S
  BY <1>1, ElementOfSeq
<1> QED
  BY <1>1, <1>2, SeqDef DEF Reordered

\* A job put at the head of a queue.
LEMMA AtHeadSeq ==
  ASSUME NEW S, NEW x \in S, NEW q \in Seq(S)
  PROVE  <<x>> \o q \in Seq(S)
<1>1. <<x>> \in Seq(S)
  OBVIOUS
<1> QED
  BY <1>1, ConcatProperties

LEMMA EmptySlotsSeq ==
  ASSUME NEW S, EmptySlot \in S, NEW n \in Nat
  PROVE  EmptySlots(n) \in Seq(S)
<1>1. EmptySlots(n) \in [1 .. n -> S]
  BY DEF EmptySlots
<1> QED
  BY <1>1, SeqDef

-------------------------------------------------------------------------------
(* Threads, frames and types *)

\* Every frame has a thread.
LEMMA ThreadOfFrame ==
  ASSUME NEW frame \in Nat
  PROVE  ThreadOf(frame) \in Threads
BY CacheAssumption DEF ThreadOf, Threads, NumCacheThreads

\* The preload loop stays between the ends of the play range, also where the
\* step wraps around as a uint32_t.
LEMMA NextPreloadInRange ==
  ASSUME NEW at \in FrameIds, NEW dir \in Directions
  PROVE  NextPreload(at, dir) \in StartFrame .. EndFrame
<1>1. dir \in {-1, 0, 1} /\ Word \in Nat \ {0}
  BY CacheAssumption
<1>2. (at + IF dir = 0 THEN 1 ELSE dir) \in Int
  BY <1>1 DEF FrameIds
<1>3. (at + IF dir = 0 THEN 1 ELSE dir) % Word \in 0 .. Word - 1
  BY <1>1, <1>2
<1> HIDE DEF FrameIds
<1> DEFINE stepped == (at + IF dir = 0 THEN 1 ELSE dir) % Word
           capped == IF stepped > EndFrame THEN StartFrame ELSE stepped
<1>4. stepped \in Int
  BY <1>1, <1>3
<1>5. NextPreload(at, dir) = IF capped < StartFrame THEN EndFrame ELSE capped
  BY DEF NextPreload
<1> HIDE DEF stepped
<1> QED
  BY <1>4, <1>5, CacheAssumption

LEMMA FrameRanges ==
  /\ Frames \subseteq FrameIds
  /\ StartFrame .. EndFrame \subseteq FrameIds
  /\ FrameIds \subseteq Nat
BY CacheAssumption DEF Frames, FrameIds

LEMMA PreloadMaxType == PreloadMax \in Nat
BY CacheAssumption DEF PreloadMax

\* What belongs to a movie is of its type.
LEMMA QueueTypes ==
  ASSUME NEW m, NEW F,
         NEW js \in [Threads -> Seq(JobOf(m))],
         NEW es \in [Threads -> Seq(FailedJobOf(m, F))],
         NEW ss \in [Threads -> Seq(AnySlotOf(m))]
  PROVE  /\ js \in [Threads -> Seq(Job)]
         /\ es \in [Threads -> Seq(Job)]
         /\ ss \in [Threads -> Seq(Slot \cup {EmptySlot})]
<1>1. Seq(JobOf(m)) \subseteq Seq(Job)
  BY SeqMonotonic DEF JobOf
<1>2. Seq(FailedJobOf(m, F)) \subseteq Seq(Job)
  BY SeqMonotonic DEF FailedJobOf, JobOf
<1>3. Seq(AnySlotOf(m)) \subseteq Seq(Slot \cup {EmptySlot})
  BY SeqMonotonic DEF AnySlotOf, SlotOf
<1> QED
  BY <1>1, <1>2, <1>3

LEMMA NoQueuesType ==
  ASSUME NEW S
  PROVE  NoQueues \in [Threads -> Seq(S)]
BY DEF NoQueues

\* What TypeOK says of the main thread inside GetImage.
LEMMA InsideType ==
  ASSUME TypeOK, InGetImage
  PROVE  /\ main \in Inside
         /\ main.frame \in Nat
         /\ ThreadOf(main.frame) \in Threads
<1>1. main \in Inside
  BY DEF TypeOK, InGetImage, Outside, Inside
<1>2. main.frame \in Nat
  BY <1>1, FrameRanges DEF Inside
<1> QED
  BY <1>1, <1>2, ThreadOfFrame

-------------------------------------------------------------------------------
(* The invariant holds at the start and is kept by every step *)

LEMMA InitIInv == Init => IInv
<1> SUFFICES ASSUME Init PROVE IInv
  OBVIOUS
<1>1. QueuesOfMovie
  <2>1. slots \in [Threads -> Seq(AnySlotOf(movie))]
    BY DEF Init
  <2> QED
    BY <2>1, NoQueuesType DEF Init, QueuesOfMovie
<1>2. TypeOK
  <2>1. 0 \in FrameIds
    BY CacheAssumption DEF FrameIds
  <2>2. pending \in [Threads -> Seq(Job)]
    BY NoQueuesType DEF Init
  <2>3. /\ jobs \in [Threads -> Seq(Job)]
        /\ errors \in [Threads -> Seq(Job)]
        /\ slots \in [Threads -> Seq(Slot \cup {EmptySlot})]
    BY <1>1, QueueTypes DEF QueuesOfMovie
  <2>4. main \in Outside
    BY DEF Init, Outside
  <2>5. worker \in [Threads -> [pc : {"check", "waiting", "loading", "wake", "exited"},
                                job : Job \cup {NoJob}]]
    BY DEF Init
  <2>6. /\ requestNumber \in Nat /\ threshold \in Nat
        /\ curFrame \in FrameIds
        /\ movie \in Movies \cup {0}
        /\ opened \in 0 .. MaxMovies /\ calls \in 0 .. MaxCalls
    BY <2>1, CacheAssumption DEF Init
  <2>7. stop \in BOOLEAN
    BY DEF Init
  <2>8. answer = NoImage /\ failed = {}
    BY DEF Init
  <2> QED
    BY <2>2, <2>3, <2>4, <2>5, <2>6, <2>7, <2>8 DEF TypeOK
<1>3. PendingIsInProgress /\ NothingQueued /\ RequestOK /\ OnlyReuseMisleads
  BY DEF Init, PendingIsInProgress, NothingQueued, RequestOK,
      OnlyReuseMisleads, RightImage,
         InGetImage, NoQueues
<1> QED
  BY <1>1, <1>2, <1>3 DEF IInv

LEMMA SharesAreCounts == \A t \in Threads : ThreadImages(t) \in Nat
<1> TAKE t \in Threads
<1>1. CASE NumReaderThreads = 0
  BY <1>1 DEF ThreadImages
<1>2. CASE NumReaderThreads # 0
  <2> DEFINE q == MaxCachedImages \div NumReaderThreads
             more == MaxCachedImages % NumReaderThreads > t
  <2>1. NumReaderThreads \in Nat \ {0} /\ MaxCachedImages \in Nat
    BY <1>2, CacheAssumption
  <2>2. q \in Nat
    BY <2>1
  <2>3. ThreadImages(t) = q + (IF more THEN 1 ELSE 0)
    BY <1>2 DEF ThreadImages
  <2> HIDE DEF q, more
  <2> QED BY <2>2, <2>3
<1> QED BY <1>1, <1>2

LEMMA ConstructKeeps == IInv /\ Construct => IInv'
<1> SUFFICES ASSUME IInv, Construct PROVE IInv'
  OBVIOUS
<1> USE DEF Construct
<1>1. main.pc = "none" /\ answer = NoImage
  BY DEF IInv, NothingQueued
<1>2. QueuesOfMovie'
  <2>1. \A t \in Threads : ThreadImages(t) \in Nat
    BY SharesAreCounts
  <2>2. \A t \in Threads : EmptySlots(ThreadImages(t)) \in Seq(AnySlotOf(movie'))
    BY <2>1, EmptySlotsSeq DEF AnySlotOf
  <2> QED
    BY <2>2, NoQueuesType DEF QueuesOfMovie
<1>3. TypeOK'
  <2>1. pending' \in [Threads -> Seq(Job)]
    BY NoQueuesType
  <2>2. opened' \in 0 .. MaxMovies
    BY CacheAssumption DEF IInv, TypeOK
  <2> QED
    BY <1>2, <2>1, <2>2, QueueTypes DEF IInv, QueuesOfMovie, TypeOK, Outside
<1>4. RequestOK'
  BY DEF IInv, TypeOK, RequestOK, InGetImage
<1>5. PendingIsInProgress' /\ NothingQueued' /\ OnlyReuseMisleads'
  BY <1>1 DEF PendingIsInProgress, NothingQueued,
      OnlyReuseMisleads, RightImage, NoQueues
<1> QED
  BY <1>2, <1>3, <1>4, <1>5 DEF IInv

LEMMA ManageFrameListKeeps == IInv /\ ManageFrameList => IInv'
<1> SUFFICES ASSUME IInv, ManageFrameList PROVE IInv'
  OBVIOUS
<1> USE DEF ManageFrameList
<1>1. /\ errors = NoQueues /\ answer = NoImage
      /\ \A t \in Threads : worker[t].pc # "loading"
  BY DEF IInv, NothingQueued
<1>2. movie' \in Movies
  BY DEF IInv, TypeOK, RequestOK, Movies
<1>3. QueuesOfMovie'
  <2>1. EmptySlots(MaxCachedImages) \in Seq(AnySlotOf(movie'))
    BY EmptySlotsSeq, CacheAssumption DEF AnySlotOf
  <2> QED
    BY <1>1, <2>1, NoQueuesType DEF QueuesOfMovie
<1>4. TypeOK'
  BY <1>2, <1>3, QueueTypes DEF IInv, QueuesOfMovie, TypeOK, Outside, Idle
<1>5. RequestOK' /\ PendingIsInProgress' /\ NothingQueued' /\ OnlyReuseMisleads'
  BY <1>1, <1>2
  DEF IInv, RequestOK, PendingIsInProgress, NothingQueued,
      OnlyReuseMisleads, RightImage, Idle,
      InGetImage
<1> QED
  BY <1>3, <1>4, <1>5 DEF IInv

LEMMA BeginDestroyKeeps == IInv /\ BeginDestroy => IInv'
<1> SUFFICES ASSUME IInv, BeginDestroy PROVE IInv'
  OBVIOUS
<1> USE DEF BeginDestroy
<1>1. jobs' = NoQueues
  BY CacheAssumption DEF IInv, NothingQueued
<1>2. UNCHANGED <<pending, errors, slots, worker, movie, answer, failed>>
  BY DEF history
<1>3. QueuesOfMovie'
  BY <1>1, <1>2, NoQueuesType DEF IInv, QueuesOfMovie
<1>4. TypeOK'
  BY <1>2, <1>3, QueueTypes DEF IInv, QueuesOfMovie, TypeOK, Outside
<1>5. RequestOK' /\ PendingIsInProgress' /\ NothingQueued' /\ OnlyReuseMisleads'
  BY <1>1, <1>2
  DEF IInv, RequestOK, PendingIsInProgress, NothingQueued,
      OnlyReuseMisleads, RightImage,
      InGetImage
<1> QED
  BY <1>3, <1>4, <1>5 DEF IInv

LEMMA EndDestroyKeeps == IInv /\ EndDestroy => IInv'
<1> SUFFICES ASSUME IInv, EndDestroy PROVE IInv'
  OBVIOUS
<1> USE DEF EndDestroy
<1>1. jobs = NoQueues
  BY DEF IInv, NothingQueued
<1>2. \A t \in Threads : worker[t].pc = "exited"
  OBVIOUS
<1>3. QueuesOfMovie'
  BY <1>1, <1>2, NoQueuesType DEF QueuesOfMovie
<1>4. TypeOK'
  <2>1. pending' \in [Threads -> Seq(Job)]
    BY NoQueuesType
  <2> QED
    BY <1>3, <2>1, QueueTypes DEF IInv, QueuesOfMovie, TypeOK, Outside
<1>5. RequestOK' /\ PendingIsInProgress' /\ NothingQueued' /\ OnlyReuseMisleads'
  BY <1>1, <1>2
  DEF IInv, RequestOK, PendingIsInProgress, NothingQueued,
      OnlyReuseMisleads, RightImage,
      InGetImage, NoQueues
<1> QED
  BY <1>3, <1>4, <1>5 DEF IInv

LEMMA GetImageKeeps == IInv /\ Request => IInv'
<1> SUFFICES ASSUME IInv,
                    NEW frame \in Frames, NEW region \in Regions, NEW lod \in Lods,
                    NEW preload \in PreloadFlags, NEW dir \in Directions,
                    GetImage(frame, region, lod, preload, dir)
             PROVE  IInv'
  BY DEF Request
<1> USE DEF GetImage
<1>1. UNCHANGED <<jobs, pending, errors, slots, worker, requestNumber, threshold,
                  stop, movie, opened, answer, failed>>
  BY DEF queueVars, cacheVars, history
<1>2. main' \in Inside /\ curFrame' \in FrameIds
  <2>1. frame \in FrameIds /\ region \subseteq Cells
    BY FrameRanges, CacheAssumption
  <2> QED
    BY <2>1, PreloadMaxType DEF Inside
<1>3. calls' \in 0 .. MaxCalls
  BY CacheAssumption DEF IInv, TypeOK
<1>4. TypeOK'
  BY <1>1, <1>2, <1>3 DEF IInv, TypeOK
<1>5. QueuesOfMovie' /\ PendingIsInProgress' /\ OnlyReuseMisleads'
  BY <1>1 DEF IInv, QueuesOfMovie, PendingIsInProgress,
      OnlyReuseMisleads, RightImage
<1>6. NothingQueued' /\ RequestOK'
  BY <1>1, PreloadMaxType DEF IInv, NothingQueued, RequestOK, InGetImage
<1> QED
  BY <1>4, <1>5, <1>6 DEF IInv

\* Adding a job, or not, leaves a queue of the open movie's jobs.
LEMMA PreloadImageKeeps ==
  ASSUME IInv, movie \in Movies, NEW frame \in FrameIds, NEW lod \in Lods,
         NEW region \in SUBSET Cells, PreloadImage(frame, lod, region)
  PROVE  /\ jobs' \in [Threads -> Seq(JobOf(movie))]
         /\ requestNumber' \in Nat
         /\ NumReaderThreads = 0 => jobs' = jobs
<1> DEFINE t == ThreadOf(frame)
           job == [frame |-> frame, lod |-> lod, region |-> region,
                   req |-> requestNumber, movie |-> movie]
           q == Append(jobs[t], job)
<1>1. CASE UNCHANGED <<jobs, requestNumber>>
  BY <1>1 DEF IInv, TypeOK, QueuesOfMovie
<1>2. CASE /\ NumReaderThreads # 0
           /\ requestNumber' = requestNumber + 1
           /\ \E p \in Orders(Len(q)) :
                jobs' = [jobs EXCEPT ![t] = Reordered(q, p)]
  <2>1. job \in JobOf(movie)
    BY DEF IInv, TypeOK, JobOf, Job
  <2>2. t \in Threads
    BY FrameRanges, ThreadOfFrame
  <2>3. jobs \in [Threads -> Seq(JobOf(movie))] /\ requestNumber \in Nat
    BY DEF IInv, TypeOK, QueuesOfMovie
  <2>4. q \in Seq(JobOf(movie))
    BY <2>1, <2>2, <2>3, AppendProperties
  <2>5. PICK p \in Orders(Len(q)) : jobs' = [jobs EXCEPT ![t] = Reordered(q, p)]
    BY <1>2
  <2>6. Reordered(q, p) \in Seq(JobOf(movie))
    BY <2>4, ReorderedSeq
  <2> HIDE DEF t, job, q
  <2> QED
    BY <1>2, <2>2, <2>3, <2>5, <2>6
<1> QED
  BY <1>1, <1>2 DEF PreloadImage

LEMMA PreloadKeeps == IInv /\ Preload => IInv'
<1> SUFFICES ASSUME IInv, Preload PROVE IInv'
  OBVIOUS
<1> DEFINE next == NextPreload(main.at, main.dir)
           skip == SkipOddFrames /\ next % 2 = 1
           left == IF skip THEN main.left ELSE main.left - 1
<1>1. /\ main.pc = "preload"
      /\ IF skip THEN UNCHANGED <<jobs, requestNumber>>
                 ELSE PreloadImage(next, main.lod, main.want)
      /\ main' = [main EXCEPT !.at = next, !.left = left,
                              !.pc = IF left = 0 THEN "search" ELSE "preload"]
      /\ UNCHANGED <<pending, errors, slots, worker, threshold, stop, curFrame,
                     movie, opened, calls, answer, failed>>
  BY DEF Preload, history
<1>2. main \in Inside /\ movie \in Movies /\ main.left > 0
  BY <1>1, InsideType DEF IInv, RequestOK, InGetImage
<1>3. next \in FrameIds
  BY <1>2, NextPreloadInRange, FrameRanges DEF Inside
<1>4. left \in Nat
  BY <1>2 DEF Inside
<1>5. /\ jobs' \in [Threads -> Seq(JobOf(movie))]
      /\ requestNumber' \in Nat
      /\ NumReaderThreads = 0 => jobs' = jobs
  <2>1. CASE skip
    BY <1>1, <2>1 DEF IInv, TypeOK, QueuesOfMovie
  <2>2. CASE ~skip
    <3>1. main.lod \in Lods /\ main.want \in SUBSET Cells
      BY <1>2 DEF Inside
    <3>2. PreloadImage(next, main.lod, main.want)
      BY <1>1, <2>2
    <3> HIDE DEF next
    <3> QED
      BY <1>2, <1>3, <3>1, <3>2, PreloadImageKeeps
  <2> QED
    BY <2>1, <2>2
<1> HIDE DEF next, skip, left
<1>6. main' \in Inside /\ main'.want = main.want /\ main'.region = main.region
  BY <1>1, <1>2, <1>3, <1>4 DEF Inside
<1>7. main'.pc \in {"preload", "search"} /\ (main'.pc = "preload" => main'.left > 0)
  BY <1>1, <1>2, <1>4 DEF Inside
<1>8. QueuesOfMovie'
  BY <1>1, <1>5 DEF IInv, QueuesOfMovie
<1>9. TypeOK'
  BY <1>1, <1>5, <1>6, <1>8, QueueTypes DEF IInv, TypeOK, QueuesOfMovie
<1>10. PendingIsInProgress' /\ OnlyReuseMisleads'
  BY <1>1 DEF IInv, PendingIsInProgress,
      OnlyReuseMisleads, RightImage
<1>11. NothingQueued' /\ RequestOK'
  BY <1>1, <1>2, <1>5, <1>6, <1>7 DEF IInv, NothingQueued, RequestOK, InGetImage
<1> QED
  BY <1>8, <1>9, <1>10, <1>11 DEF IInv

-------------------------------------------------------------------------------
(* The search loop of GetImage *)

\* A slot that FindImage finds is filled with the frame it is found for.
LEMMA FoundSlot ==
  ASSUME IInv, InGetImage,
         NEW i \in SlotsFor(ThreadOf(main.frame), main.frame, main.lod)
  PROVE  LET slot == slots[ThreadOf(main.frame)][i]
         IN /\ i \in DOMAIN slots[ThreadOf(main.frame)]
            /\ slot \in SlotOf(movie)
            /\ slot.frame = main.frame
            /\ slot.lod = main.lod
<1> DEFINE t == ThreadOf(main.frame)
<1>1. t \in Threads
  BY InsideType DEF IInv
<1>2. slots[t] \in Seq(AnySlotOf(movie))
  BY <1>1 DEF IInv, QueuesOfMovie
<1>3. /\ i \in DOMAIN slots[t] /\ Loaded(slots[t][i])
      /\ slots[t][i].frame = main.frame /\ slots[t][i].lod = main.lod
  BY DEF SlotsFor
<1>4. slots[t][i] \in AnySlotOf(movie)
  BY <1>2, <1>3, ElementOfSeq, LenProperties
<1>5. ~Loaded(EmptySlot)
  BY DEF Loaded, EmptySlot
<1> QED
  BY <1>3, <1>4, <1>5 DEF AnySlotOf

\* The region that a search ends with includes the one it began with.
LEMMA GrownType ==
  ASSUME IInv, NEW i \in 0 .. MaxCachedImages, Miss(i)
  PROVE  Grown(i) \in SUBSET Cells /\ main.region \subseteq Grown(i)
<1> DEFINE t == ThreadOf(main.frame)
<1>1. InGetImage /\ main \in Inside
  BY InsideType DEF IInv, Miss, InGetImage
<1>2. CASE i = 0
  BY <1>1, <1>2 DEF Grown, Inside
<1>3. CASE i # 0
  <2>1. i \in SlotsFor(t, main.frame, main.lod)
    BY <1>3 DEF Miss, Found, IsFirst
  <2>2. slots[t][i] \in SlotOf(movie) /\ Loaded(slots[t][i])
    BY <1>1, <2>1, FoundSlot DEF SlotsFor
  <2>3. slots[t][i].image.region \subseteq Cells
    BY <2>2 DEF SlotOf, Slot, Image
  <2> QED
    BY <1>1, <1>3, <2>3 DEF Grown, Inside
<1> QED
  BY <1>2, <1>3

\* A step of GetImage that only moves the main thread on.
LEMMA MovesOn ==
  ASSUME IInv, InGetImage, main' \in Inside,
         main'.pc \in {"search", "wait", "load"},
         main'.want \subseteq main'.region,
         UNCHANGED <<queueVars, worker, cacheVars, curFrame, calls, history>>
  PROVE  IInv'
<1>1. UNCHANGED <<jobs, pending, errors, slots, worker, requestNumber, threshold,
                  stop, curFrame, movie, opened, calls, answer, failed>>
  BY DEF queueVars, cacheVars, history
<1>2. movie \in Movies
  BY DEF IInv, RequestOK
<1>3. TypeOK'
  BY <1>1 DEF IInv, TypeOK
<1>4. QueuesOfMovie' /\ PendingIsInProgress' /\ OnlyReuseMisleads'
  BY <1>1 DEF IInv, QueuesOfMovie, PendingIsInProgress,
      OnlyReuseMisleads, RightImage
<1>5. NothingQueued' /\ RequestOK'
  BY <1>1, <1>2 DEF IInv, NothingQueued, RequestOK, InGetImage
<1> QED
  BY <1>3, <1>4, <1>5 DEF IInv

\* A step of GetImage that returns the right image, or nothing.
LEMMA Returns ==
  ASSUME IInv, InGetImage, NEW image, NEW reused \in BOOLEAN,
         Answered(image, reused),
         \/ image = NoImage /\ (main.frame \in failed' \/ reused)
         \/ image \in Image /\ image.movie = movie /\ reused
         \/ /\ image \in Image
            /\ image.frame = main.frame /\ image.lod = main.lod
            /\ image.movie = movie
            /\ main.region \subseteq image.region,
         failed' \subseteq FrameIds,
         QueuesOfMovie', pending' = pending, worker' = worker,
         jobs' = jobs, movie' = movie,
         UNCHANGED <<requestNumber, threshold, stop, curFrame, opened, calls>>
  PROVE  IInv'
<1>1. main \in Inside /\ movie \in Movies /\ main.want \subseteq main.region
  BY InsideType DEF IInv, RequestOK
<1>2. main' = Idle /\ main'.pc = "idle" /\ main' \in Outside
  BY DEF Answered, Idle, Outside
<1>3. /\ answer' = [frame |-> main.frame, lod |-> main.lod, want |-> main.want,
                    image |-> image, reused |-> reused]
      /\ answer' \in Answer
  BY <1>1 DEF Answered, Answer, Inside
<1>4. TypeOK'
  <2>1. /\ jobs' \in [Threads -> Seq(Job)]
        /\ errors' \in [Threads -> Seq(Job)]
        /\ slots' \in [Threads -> Seq(Slot \cup {EmptySlot})]
    BY QueueTypes DEF QueuesOfMovie
  <2> QED
    BY <1>2, <1>3, <2>1 DEF IInv, TypeOK
<1>5. OnlyReuseMisleads'
  <2>1. image \in Image => image # NoImage
    BY FrameRanges DEF Image, NoImage
  <2>2. answer'.frame = main.frame /\ answer'.lod = main.lod
        /\ answer'.want = main.want /\ answer'.image = image
        /\ answer'.reused = reused
    BY <1>3
  <2> QED
    BY <1>1, <2>1, <2>2 DEF OnlyReuseMisleads, RightImage
<1>6. PendingIsInProgress' /\ NothingQueued' /\ RequestOK'
  BY <1>1, <1>2
  DEF IInv, PendingIsInProgress, NothingQueued, RequestOK, InGetImage
<1> QED
  BY <1>4, <1>5, <1>6 DEF IInv

\* Putting one filled slot in the place of another.
LEMMA SlotStored ==
  ASSUME NEW m, NEW ss \in [Threads -> Seq(AnySlotOf(m))], NEW t \in Threads,
         NEW i \in DOMAIN ss[t], NEW slot \in SlotOf(m)
  PROVE  [ss EXCEPT ![t][i] = slot] \in [Threads -> Seq(AnySlotOf(m))]
<1>1. ss[t] \in Seq(AnySlotOf(m)) /\ slot \in AnySlotOf(m)
  BY DEF AnySlotOf
<1>2. i \in 1 .. Len(ss[t])
  BY <1>1, LenProperties
<1>3. [ss[t] EXCEPT ![i] = slot] \in Seq(AnySlotOf(m))
  BY <1>1, <1>2, ExceptSeq
<1> QED
  BY <1>3

LEMMA HitKeeps == IInv /\ Hit => IInv'
<1> SUFFICES ASSUME IInv, Hit PROVE IInv'
  OBVIOUS
<1> DEFINE t == ThreadOf(main.frame)
           marked(i) == [slots[t][i] EXCEPT !.req = requestNumber]
<1>1. InGetImage
  BY DEF Hit, InGetImage
<1>2. PICK i \in SlotsFor(t, main.frame, main.lod) :
        /\ main.region \subseteq slots[t][i].image.region
        /\ slots' = [slots EXCEPT ![t][i] = marked(i)]
        /\ main' = [main EXCEPT !.pc = "found", !.slot = i, !.found = marked(i)]
  BY DEF Hit
<1>3. UNCHANGED <<jobs, pending, errors, worker, requestNumber, threshold, stop,
                  curFrame, movie, opened, calls, answer, failed>>
  BY DEF Hit, cacheVars, history
<1>4. /\ t \in Threads /\ main \in Inside /\ movie \in Movies
      /\ main.want \subseteq main.region
  BY <1>1, InsideType DEF IInv, RequestOK
<1> DEFINE found == marked(i)
<1>5. /\ i \in DOMAIN slots[t] /\ slots[t][i] \in SlotOf(movie)
      /\ slots[t][i].frame = main.frame /\ slots[t][i].lod = main.lod
  BY <1>1, FoundSlot
<1>6. /\ found \in SlotOf(movie)
      /\ found.frame = main.frame /\ found.lod = main.lod
      /\ main.region \subseteq found.image.region
  <2>1. requestNumber \in Nat
    BY DEF IInv, TypeOK
  <2> QED
    BY <1>2, <1>5, <2>1 DEF SlotOf, Slot
<1>7. slots \in [Threads -> Seq(AnySlotOf(movie))] /\ i \in Nat
  <2>1. slots[t] \in Seq(AnySlotOf(movie))
    BY <1>4 DEF IInv, QueuesOfMovie
  <2> QED
    BY <1>5, <2>1, LenProperties DEF IInv, QueuesOfMovie
<1>8. /\ main' \in Inside /\ main'.pc = "found" /\ main'.slot = i
      /\ main'.found = found /\ main'.frame = main.frame /\ main'.lod = main.lod
      /\ main'.want = main.want /\ main'.region = main.region
  <2>1. found \in Slot
    BY <1>6 DEF SlotOf
  <2> HIDE DEF found
  <2>2. main' = [main EXCEPT !.pc = "found", !.slot = i, !.found = found]
    BY <1>2 DEF found
  <2> QED
    BY <1>4, <1>7, <2>1, <2>2 DEF Inside
<1> HIDE DEF marked
<1>9. slots' = [slots EXCEPT ![t][i] = found]
  BY <1>2
<1> HIDE DEF t, found
<1>10. slots' \in [Threads -> Seq(AnySlotOf(movie))]
  BY <1>4, <1>5, <1>6, <1>7, <1>9, SlotStored
<1>11. QueuesOfMovie'
  BY <1>3, <1>10 DEF IInv, QueuesOfMovie
<1>12. TypeOK'
  BY <1>3, <1>8, <1>11, QueueTypes DEF IInv, TypeOK, QueuesOfMovie
<1>13. FoundHeld'
  <2>1. i \in DOMAIN slots'[t] /\ slots'[t][i] = found
    BY <1>4, <1>5, <1>7, <1>9
  <2>2. ThreadOf(main.frame)' = t
    BY <1>8 DEF t, ThreadOf
  <2> QED
    BY <1>3, <1>6, <1>8, <2>1, <2>2 DEF FoundHeld
<1>14. PendingIsInProgress' /\ NothingQueued' /\ OnlyReuseMisleads'
  BY <1>1, <1>3, <1>8 DEF IInv, PendingIsInProgress, NothingQueued, InGetImage,
     OnlyReuseMisleads, RightImage
<1>15. RequestOK'
  BY <1>3, <1>4, <1>8, <1>13 DEF RequestOK, InGetImage
<1> QED
  BY <1>11, <1>12, <1>14, <1>15 DEF IInv

LEMMA ReadFoundKeeps == IInv /\ ReadFound => IInv'
<1> SUFFICES ASSUME IInv, ReadFound PROVE IInv'
  OBVIOUS
<1> DEFINE slot == slots[ThreadOf(main.frame)][main.slot]
           reused == slot # main.found
<1>1. InGetImage /\ FoundHeld
  BY DEF ReadFound, InGetImage, IInv, RequestOK
<1>2. /\ Answered(slot.image, reused) \/ (reused /\ Answered(NoImage, reused))
      /\ UNCHANGED <<jobs, pending, errors, slots, worker, requestNumber, threshold,
                     stop, curFrame, movie, opened, calls, failed>>
  BY DEF ReadFound, queueVars, cacheVars
<1>3. slot \in SlotOf(movie) /\ slot.image \in Image /\ slot.image.movie = movie
  BY <1>1 DEF FoundHeld, SlotOf, Slot
<1>4. ~reused => /\ slot.image.frame = main.frame /\ slot.image.lod = main.lod
                 /\ main.region \subseteq slot.image.region
  BY <1>1 DEF FoundHeld, SlotOf
<1>5. failed' \subseteq FrameIds /\ QueuesOfMovie' /\ reused \in BOOLEAN
  BY <1>2 DEF IInv, TypeOK, QueuesOfMovie
<1> HIDE DEF slot, reused
<1>6. CASE Answered(slot.image, reused)
  BY <1>1, <1>2, <1>3, <1>4, <1>5, <1>6, Returns
<1>7. CASE reused /\ Answered(NoImage, reused)
  BY <1>1, <1>2, <1>5, <1>7, Returns
<1> QED
  BY <1>2, <1>6, <1>7

LEMMA AwaitPendingKeeps ==
  ASSUME IInv, NEW i \in 0 .. MaxCachedImages, AwaitPending(i)
  PROVE  IInv'
<1>1. Miss(i) /\ InGetImage
  BY DEF AwaitPending, Miss, InGetImage
<1>2. /\ main \in Inside /\ main.want \subseteq main.region
      /\ Grown(i) \in SUBSET Cells /\ main.region \subseteq Grown(i)
  BY <1>1, GrownType, InsideType DEF IInv, RequestOK
<1>3. main' = [main EXCEPT !.pc = "wait", !.region = Grown(i)]
  BY DEF AwaitPending
<1>4. /\ main' \in Inside /\ main'.pc = "wait"
      /\ main'.want \subseteq main'.region
  BY <1>2, <1>3 DEF Inside
<1> QED
  BY <1>1, <1>4, MovesOn DEF AwaitPending

LEMMA LeaveLoopKeeps ==
  ASSUME IInv, NEW i \in 0 .. MaxCachedImages, LeaveLoop(i)
  PROVE  IInv'
<1>1. Miss(i) /\ InGetImage
  BY DEF LeaveLoop, Miss, InGetImage
<1>2. /\ main \in Inside /\ main.want \subseteq main.region
      /\ Grown(i) \in SUBSET Cells /\ main.region \subseteq Grown(i)
  BY <1>1, GrownType, InsideType DEF IInv, RequestOK
<1>3. main' = [main EXCEPT !.pc = "load", !.region = Grown(i), !.slot = i]
  BY DEF LeaveLoop
<1>4. i \in Nat
  BY CacheAssumption
<1>5. /\ main' \in Inside /\ main'.pc = "load"
      /\ main'.want \subseteq main'.region
  BY <1>2, <1>3, <1>4 DEF Inside
<1> QED
  BY <1>1, <1>5, MovesOn DEF LeaveLoop

LEMMA TimeoutKeeps == IInv /\ Timeout => IInv'
<1> SUFFICES ASSUME IInv, Timeout PROVE IInv'
  OBVIOUS
<1>1. InGetImage
  BY DEF Timeout, InGetImage
<1>2. main \in Inside /\ main.want \subseteq main.region
  BY <1>1, InsideType DEF IInv, RequestOK
<1>3. main' \in Inside /\ main'.pc = "search" /\ main'.want \subseteq main'.region
  BY <1>2 DEF Timeout, Inside
<1> QED
  BY <1>1, <1>3, MovesOn DEF Timeout

LEMMA PromoteKeeps ==
  ASSUME IInv, NEW i \in 0 .. MaxCachedImages, Promote(i)
  PROVE  IInv'
<1> DEFINE t == ThreadOf(main.frame)
<1>1. Miss(i) /\ InGetImage
  BY DEF Promote, Miss, InGetImage
<1>2. /\ main \in Inside /\ main.want \subseteq main.region
      /\ Grown(i) \in SUBSET Cells /\ main.region \subseteq Grown(i)
      /\ movie \in Movies
      /\ t \in Threads
  BY <1>1, GrownType, InsideType DEF IInv, RequestOK
<1>3. PICK k \in JobsFor(jobs[t], main.frame, main.lod) :
        jobs' = [jobs EXCEPT ![t] =
                   <<[jobs[t][k] EXCEPT !.region = @ \cup Grown(i),
                                        !.req = requestNumber]>>
                   \o RemoveAt(@, k)]
  BY DEF Promote
<1> DEFINE job == [jobs[t][k] EXCEPT !.region = @ \cup Grown(i),
                                     !.req = requestNumber]
<1>4. UNCHANGED <<pending, errors, slots, worker, requestNumber, threshold, stop,
                  curFrame, movie, opened, calls, answer, failed>>
  BY DEF Promote, cacheVars, history
<1>5. k \in DOMAIN jobs[t] /\ jobs[t] \in Seq(JobOf(movie))
  BY <1>2 DEF JobsFor, IInv, QueuesOfMovie
<1>6. job \in JobOf(movie)
  <2>1. jobs[t][k] \in JobOf(movie)
    BY <1>5, ElementOfSeq, LenProperties
  <2> QED
    BY <1>2, <2>1 DEF JobOf, Job, IInv, TypeOK
<1>7. <<job>> \o RemoveAt(jobs[t], k) \in Seq(JobOf(movie))
  BY <1>5, <1>6, RemoveAtSeq, AtHeadSeq
<1>8. jobs' = [jobs EXCEPT ![t] = <<job>> \o RemoveAt(jobs[t], k)]
  BY <1>2, <1>3 DEF IInv, TypeOK
<1>9. QueuesOfMovie'
  <2> HIDE DEF job, t
  <2> QED
    BY <1>2, <1>4, <1>7, <1>8 DEF IInv, QueuesOfMovie
<1>10. /\ main' \in Inside /\ main'.pc = "wait"
       /\ main'.want \subseteq main'.region
  <2>1. main' = [main EXCEPT !.pc = "wait", !.region = Grown(i)]
    BY DEF Promote
  <2> QED
    BY <1>2, <2>1 DEF Inside
<1>11. TypeOK'
  BY <1>4, <1>9, <1>10, QueueTypes DEF IInv, TypeOK, QueuesOfMovie
<1>12. NumReaderThreads # 0
  BY <1>2, <1>5 DEF IInv, NothingQueued, NoQueues
<1>13. PendingIsInProgress' /\ NothingQueued' /\ RequestOK' /\ OnlyReuseMisleads'
  BY <1>2, <1>4, <1>10, <1>12
  DEF IInv, PendingIsInProgress, NothingQueued, RequestOK,
      OnlyReuseMisleads, RightImage,
      InGetImage
<1> QED
  BY <1>9, <1>11, <1>13 DEF IInv

LEMMA TakeErrorKeeps ==
  ASSUME IInv, NEW i \in 0 .. MaxCachedImages, TakeError(i)
  PROVE  IInv'
<1> DEFINE t == ThreadOf(main.frame)
           found == JobsCovering(errors[t], main.frame, main.lod, Grown(i))
<1>1. InGetImage
  BY DEF TakeError, Miss, InGetImage
<1>2. t \in Threads
  BY <1>1, InsideType DEF IInv
<1>3. PICK k \in found : errors' = [errors EXCEPT ![t] = RemoveAt(errors[t], k)]
  BY <1>2 DEF TakeError, IInv, TypeOK
<1>4. /\ Return(NoImage)
      /\ UNCHANGED <<jobs, pending, slots, worker, requestNumber, threshold, stop,
                     curFrame, movie, opened, calls, failed>>
  BY DEF TakeError, cacheVars
<1>5. /\ k \in DOMAIN errors[t] /\ errors[t][k].frame = main.frame
      /\ errors[t] \in Seq(FailedJobOf(movie, failed))
  BY <1>2 DEF JobsCovering, JobsFor, IInv, QueuesOfMovie
<1>6. main.frame \in failed'
  <2>1. errors[t][k] \in FailedJobOf(movie, failed)
    BY <1>5, ElementOfSeq, LenProperties
  <2> QED
    BY <1>4, <1>5, <2>1 DEF FailedJobOf
<1>7. RemoveAt(errors[t], k) \in Seq(FailedJobOf(movie, failed))
  BY <1>5, RemoveAtSeq
<1>8. QueuesOfMovie'
  <2> HIDE DEF t
  <2> QED
    BY <1>2, <1>3, <1>4, <1>7 DEF IInv, QueuesOfMovie
<1>9. failed' \subseteq FrameIds
  BY <1>4 DEF IInv, TypeOK
<1> HIDE DEF t, found
<1> QED
  BY <1>1, <1>4, <1>6, <1>8, <1>9, Returns DEF Return

LEMMA LoadAndStoreKeeps == IInv /\ LoadAndStore => IInv'
<1> SUFFICES ASSUME IInv, LoadAndStore PROVE IInv'
  OBVIOUS
<1> DEFINE t == ThreadOf(main.frame)
           image == [frame |-> main.frame, lod |-> main.lod,
                     region |-> LoadedRegion(main.region), movie |-> movie]
           slot == [req |-> requestNumber, frame |-> main.frame,
                    lod |-> main.lod, image |-> image]
<1>1. InGetImage
  BY DEF LoadAndStore, InGetImage
<1>2. main \in Inside /\ t \in Threads /\ movie \in Movies
  BY <1>1, InsideType DEF IInv, RequestOK
<1>3. /\ Return(image)
      /\ slots' = slots \/ \E i \in DOMAIN slots[t] :
                             slots' = [slots EXCEPT ![t][i] = slot]
      /\ UNCHANGED <<jobs, pending, errors, worker, requestNumber, threshold, stop,
                     curFrame, movie, opened, calls, failed>>
  BY DEF LoadAndStore, cacheVars
<1>4. /\ image \in Image /\ image.movie = movie
      /\ image.frame = main.frame /\ image.lod = main.lod
      /\ main.region \subseteq image.region
  BY <1>2 DEF Inside, Image, LoadedRegion
<1>5. slot \in SlotOf(movie)
  <2>1. requestNumber \in Nat
    BY DEF IInv, TypeOK
  <2>2. slot \in Slot
    <3>1. main.frame \in FrameIds /\ main.lod \in Lods
      BY <1>2 DEF Inside
    <3> HIDE DEF image
    <3> QED
      BY <1>4, <2>1, <3>1 DEF Slot
  <2>3. /\ slot.image = image /\ slot.frame = main.frame /\ slot.lod = main.lod
    OBVIOUS
  <2> HIDE DEF image, slot
  <2> QED
    BY <1>4, <2>2, <2>3 DEF SlotOf
<1> HIDE DEF image, slot
<1>6. QueuesOfMovie'
  <2>1. slots' \in [Threads -> Seq(AnySlotOf(movie))]
    <3>1. slots \in [Threads -> Seq(AnySlotOf(movie))]
      BY DEF IInv, QueuesOfMovie
    <3> HIDE DEF t
    <3>2. ASSUME NEW i \in DOMAIN slots[t]
          PROVE  [slots EXCEPT ![t][i] = slot] \in [Threads -> Seq(AnySlotOf(movie))]
      BY <1>2, <1>5, <3>1, SlotStored
    <3> QED
      BY <1>3, <3>1, <3>2
  <2> QED
    BY <1>3, <2>1 DEF IInv, QueuesOfMovie
<1>7. failed' \subseteq FrameIds
  BY <1>3 DEF IInv, TypeOK
<1> QED
  BY <1>1, <1>3, <1>4, <1>6, <1>7, Returns DEF Return

LEMMA LoadFailsKeeps == IInv /\ LoadFails => IInv'
<1> SUFFICES ASSUME IInv, LoadFails PROVE IInv'
  OBVIOUS
<1>1. InGetImage
  BY DEF LoadFails, InGetImage
<1>2. main \in Inside
  BY <1>1, InsideType DEF IInv
<1>3. /\ Return(NoImage)
      /\ failed' = failed \cup {main.frame}
      /\ UNCHANGED <<jobs, pending, errors, slots, worker, requestNumber,
                     threshold, stop, curFrame, movie, opened, calls>>
  BY DEF LoadFails, queueVars, cacheVars
<1>4. failed' \subseteq FrameIds
  BY <1>2, <1>3 DEF IInv, TypeOK, Inside
<1>5. QueuesOfMovie'
  <2>1. Seq(FailedJobOf(movie, failed)) \subseteq Seq(FailedJobOf(movie, failed'))
    BY <1>3, SeqMonotonic DEF FailedJobOf
  <2> QED
    BY <1>3, <2>1 DEF IInv, QueuesOfMovie
<1> QED
  BY <1>1, <1>3, <1>4, <1>5, Returns DEF Return

-------------------------------------------------------------------------------
(* The workers *)

LEMMA WaitForJobReadyKeeps ==
  ASSUME IInv, NEW t \in Threads, WaitForJobReady(t) \/ Awake(t)
  PROVE  IInv'
<1>1. /\ UNCHANGED <<jobs, pending, errors, slots, requestNumber, threshold, stop,
                     curFrame, movie, opened, main, calls, answer, failed>>
      /\ worker[t].pc # "loading"
  BY DEF WaitForJobReady, Awake, At, queueVars, cacheVars, history
<1>2. PICK pc \in {"check", "waiting", "exited"} :
        worker' = [worker EXCEPT ![t].pc = pc]
  BY DEF WaitForJobReady, Awake, Goto
<1>3. /\ worker' \in [Threads ->
                        [pc : {"check", "waiting", "loading", "wake", "exited"},
                         job : Job \cup {NoJob}]]
      /\ \A u \in Threads : /\ worker'[u].pc = "loading" <=> worker[u].pc = "loading"
                            /\ worker'[u].job = worker[u].job
  BY <1>1, <1>2 DEF IInv, TypeOK
<1>4. TypeOK'
  BY <1>1, <1>3 DEF IInv, TypeOK
<1>5. QueuesOfMovie' /\ NothingQueued' /\ RequestOK' /\ OnlyReuseMisleads'
  BY <1>1, <1>3
  DEF IInv, QueuesOfMovie, NothingQueued, RequestOK, FoundHeld, ThreadOf,
      OnlyReuseMisleads, RightImage, InGetImage
<1>6. PendingIsInProgress'
  BY <1>1, <1>3 DEF IInv, PendingIsInProgress
<1> QED
  BY <1>4, <1>5, <1>6 DEF IInv

LEMMA TakeJobKeeps ==
  ASSUME IInv, NEW t \in Threads, TakeJob(t)
  PROVE  IInv'
<1> DEFINE job == Head(jobs[t])
<1>1. UNCHANGED <<errors, slots, requestNumber, threshold, stop, curFrame, movie,
                  opened, main, calls, answer, failed>>
  BY DEF TakeJob, cacheVars, history
<1>2. /\ jobs[t] # <<>> /\ jobs[t] \in Seq(JobOf(movie))
      /\ worker[t].pc # "loading"
  BY DEF TakeJob, At, IInv, QueuesOfMovie
<1>3. job \in JobOf(movie) /\ Tail(jobs[t]) \in Seq(JobOf(movie))
  BY <1>2, HeadTailProperties
<1>4. pending[t] = <<>>
  BY <1>2 DEF IInv, PendingIsInProgress
<1>5. /\ jobs' = [jobs EXCEPT ![t] = Tail(jobs[t])]
      /\ pending' = [pending EXCEPT ![t] = <<job>>]
      /\ worker' = [worker EXCEPT ![t] = [pc |-> "loading", job |-> job]]
  <2>1. Append(<<>>, job) = <<job>>
    OBVIOUS
  <2> QED
    BY <1>4, <2>1 DEF TakeJob, IInv, TypeOK
<1> HIDE DEF job
<1>6. QueuesOfMovie'
  BY <1>1, <1>3, <1>5 DEF IInv, QueuesOfMovie, TypeOK
<1>7. TypeOK'
  <2>1. job \in Job
    BY <1>3 DEF JobOf
  <2>2. /\ pending' \in [Threads -> Seq(Job)]
        /\ worker' \in [Threads ->
                         [pc : {"check", "waiting", "loading", "wake", "exited"},
                          job : Job \cup {NoJob}]]
    BY <1>5, <2>1 DEF IInv, TypeOK
  <2> QED
    BY <1>1, <1>6, <2>2, QueueTypes DEF IInv, TypeOK, QueuesOfMovie
<1>8. PendingIsInProgress'
  BY <1>5 DEF IInv, PendingIsInProgress, TypeOK
<1>9. jobs # NoQueues
  BY <1>2 DEF NoQueues
<1>10. NothingQueued' /\ RequestOK' /\ OnlyReuseMisleads'
  BY <1>1, <1>9 DEF IInv, NothingQueued, RequestOK, FoundHeld, ThreadOf,
      OnlyReuseMisleads, RightImage, InGetImage
<1> QED
  BY <1>6, <1>7, <1>8, <1>10 DEF IInv

\* The end of a load: the job leaves the pending queue, which is then empty.
LEMMA JobLeaves ==
  ASSUME IInv, NEW t \in Threads, FinishJob(t), NEW pc \in {"check", "wake"},
         worker' = [worker EXCEPT ![t] = [pc |-> pc, job |-> NoJob]]
  PROVE  /\ worker[t].job \in JobOf(movie)
         /\ main.pc \notin {"none", "fresh"}
         /\ pending' \in [Threads -> Seq(Job)]
         /\ worker' \in [Threads ->
                          [pc : {"check", "waiting", "loading", "wake", "exited"},
                           job : Job \cup {NoJob}]]
         /\ \A u \in Threads :
              worker'[u].pc = "loading" => u # t /\ worker'[u] = worker[u]
         /\ PendingIsInProgress'
<1>1. worker[t].pc = "loading" /\ pending[t] = <<worker[t].job>>
  BY DEF FinishJob, At, IInv, PendingIsInProgress
<1>2. worker[t].job \in JobOf(movie) /\ main.pc \notin {"none", "fresh"}
  BY <1>1 DEF IInv, QueuesOfMovie, NothingQueued
<1>3. pending' = [pending EXCEPT ![t] = <<>>]
  <2>1. PICK i \in DOMAIN pending[t] :
          pending' = [pending EXCEPT ![t] = RemoveAt(pending[t], i)]
    BY DEF FinishJob, IInv, TypeOK
  <2>2. RemoveAt(pending[t], i) = <<>>
    BY <1>1, RemoveAtOnly
  <2> QED
    BY <2>1, <2>2
<1>4. pending' \in [Threads -> Seq(Job)]
  BY <1>3 DEF IInv, TypeOK
<1>5. worker' \in [Threads ->
                     [pc : {"check", "waiting", "loading", "wake", "exited"},
                      job : Job \cup {NoJob}]]
  BY DEF IInv, TypeOK
<1>6. \A u \in Threads :
        worker'[u].pc = "loading" => u # t /\ worker'[u] = worker[u]
  BY DEF IInv, TypeOK
<1>7. PendingIsInProgress'
  <2> SUFFICES ASSUME NEW u \in Threads
               PROVE  pending'[u] = IF worker'[u].pc = "loading"
                                    THEN <<worker'[u].job>> ELSE <<>>
    BY DEF PendingIsInProgress
  <2>1. CASE u = t
    BY <1>3, <1>6, <2>1 DEF IInv, TypeOK
  <2>2. CASE u # t
    BY <1>3, <2>2 DEF IInv, TypeOK, PendingIsInProgress
  <2> QED
    BY <2>1, <2>2
<1> QED
  BY <1>2, <1>4, <1>5, <1>6, <1>7

LEMMA DiscardJobKeeps ==
  ASSUME IInv, NEW t \in Threads, DiscardJob(t)
  PROVE  IInv'
<1>1. UNCHANGED <<jobs, errors, slots, requestNumber, threshold, stop, curFrame,
                  movie, opened, main, calls, answer, failed>>
  BY DEF DiscardJob, cacheVars, history
<1>2. /\ pending' \in [Threads -> Seq(Job)]
      /\ worker' \in [Threads ->
                       [pc : {"check", "waiting", "loading", "wake", "exited"},
                        job : Job \cup {NoJob}]]
      /\ \A u \in Threads :
           worker'[u].pc = "loading" => u # t /\ worker'[u] = worker[u]
      /\ PendingIsInProgress'
      /\ main.pc \notin {"none", "fresh"}
  BY JobLeaves DEF DiscardJob
<1>3. QueuesOfMovie'
  BY <1>1, <1>2 DEF IInv, QueuesOfMovie
<1>4. TypeOK'
  BY <1>1, <1>2 DEF IInv, TypeOK
<1>5. NothingQueued' /\ RequestOK' /\ OnlyReuseMisleads'
  BY <1>1, <1>2 DEF IInv, NothingQueued, RequestOK, FoundHeld, ThreadOf,
      OnlyReuseMisleads, RightImage, InGetImage
<1> QED
  BY <1>2, <1>3, <1>4, <1>5 DEF IInv

LEMMA JobFailsKeeps ==
  ASSUME IInv, NEW t \in Threads, JobFails(t)
  PROVE  IInv'
<1> DEFINE job == worker[t].job
<1>1. /\ UNCHANGED <<jobs, slots, requestNumber, threshold, stop, curFrame,
                     movie, opened, main, calls, answer>>
      /\ errors' = [errors EXCEPT ![t] = Append(errors[t], job)]
      /\ failed' = failed \cup {job.frame}
  BY DEF JobFails, cacheVars, IInv, TypeOK
<1>2. /\ pending' \in [Threads -> Seq(Job)]
      /\ worker' \in [Threads ->
                       [pc : {"check", "waiting", "loading", "wake", "exited"},
                        job : Job \cup {NoJob}]]
      /\ \A u \in Threads :
           worker'[u].pc = "loading" => u # t /\ worker'[u] = worker[u]
      /\ PendingIsInProgress'
      /\ main.pc \notin {"none", "fresh"}
      /\ job \in JobOf(movie)
  BY JobLeaves DEF JobFails
<1> HIDE DEF job
<1>3. errors' \in [Threads -> Seq(FailedJobOf(movie, failed'))]
  <2>1. \A u \in Threads : errors[u] \in Seq(FailedJobOf(movie, failed'))
    <3>1. Seq(FailedJobOf(movie, failed)) \subseteq Seq(FailedJobOf(movie, failed'))
      BY <1>1, SeqMonotonic DEF FailedJobOf
    <3> QED
      BY <3>1 DEF IInv, QueuesOfMovie
  <2>2. job \in FailedJobOf(movie, failed')
    BY <1>1, <1>2 DEF FailedJobOf
  <2>3. Append(errors[t], job) \in Seq(FailedJobOf(movie, failed'))
    BY <2>1, <2>2, AppendProperties
  <2> QED
    BY <1>1, <2>1, <2>3 DEF IInv, TypeOK
<1>4. QueuesOfMovie'
  BY <1>1, <1>2, <1>3 DEF IInv, QueuesOfMovie
<1>5. TypeOK'
  <2>1. failed' \subseteq FrameIds
    BY <1>1, <1>2 DEF IInv, TypeOK, JobOf, Job
  <2> QED
    BY <1>1, <1>2, <1>4, <2>1, QueueTypes DEF IInv, TypeOK, QueuesOfMovie
<1>6. NothingQueued' /\ RequestOK' /\ OnlyReuseMisleads'
  BY <1>1, <1>2 DEF IInv, NothingQueued, RequestOK, FoundHeld, ThreadOf,
      OnlyReuseMisleads, RightImage, InGetImage
<1> QED
  BY <1>2, <1>4, <1>5, <1>6 DEF IInv

LEMMA JobSucceedsKeeps ==
  ASSUME IInv, NEW t \in Threads, JobSucceeds(t)
  PROVE  IInv'
<1> DEFINE job == worker[t].job
           slot == [req |-> job.req, frame |-> job.frame, lod |-> job.lod,
                    image |-> ImageOf(job)]
<1>1. /\ UNCHANGED <<jobs, errors, requestNumber, threshold, stop, curFrame,
                     movie, opened, main, calls, answer, failed>>
      /\ \E i \in DOMAIN slots[t] : slots' = [slots EXCEPT ![t][i] = slot]
  BY DEF JobSucceeds, cacheVars, history
<1>2. /\ pending' \in [Threads -> Seq(Job)]
      /\ worker' \in [Threads ->
                       [pc : {"check", "waiting", "loading", "wake", "exited"},
                        job : Job \cup {NoJob}]]
      /\ \A u \in Threads :
           worker'[u].pc = "loading" => u # t /\ worker'[u] = worker[u]
      /\ PendingIsInProgress'
      /\ main.pc \notin {"none", "fresh"}
      /\ job \in JobOf(movie)
  BY JobLeaves DEF JobSucceeds
<1>3. slot \in SlotOf(movie)
  <2>1. /\ job.req \in Nat /\ job.frame \in FrameIds /\ job.lod \in Lods
        /\ job.region \in SUBSET Cells /\ job.movie \in Movies /\ job.movie = movie
    BY <1>2 DEF JobOf, Job
  <2> HIDE DEF job
  <2>2. ImageOf(job) \in Image
    BY <2>1 DEF ImageOf, Image, LoadedRegion
  <2>3. /\ ImageOf(job).frame = job.frame /\ ImageOf(job).lod = job.lod
        /\ ImageOf(job).movie = movie
    BY <2>1 DEF ImageOf
  <2> QED
    BY <2>1, <2>2, <2>3 DEF SlotOf, Slot
<1> HIDE DEF slot, job
<1>4. slots' \in [Threads -> Seq(AnySlotOf(movie))]
  <2>1. slots \in [Threads -> Seq(AnySlotOf(movie))]
    BY DEF IInv, QueuesOfMovie
  <2> QED
    BY <1>1, <1>3, <2>1, SlotStored
<1>5. QueuesOfMovie'
  BY <1>1, <1>2, <1>4 DEF IInv, QueuesOfMovie
<1>6. TypeOK'
  BY <1>1, <1>2, <1>5, QueueTypes DEF IInv, TypeOK, QueuesOfMovie
<1>7. ASSUME main.pc = "found", FoundHeld PROVE FoundHeld'
  <2> DEFINE u == ThreadOf(main.frame)
             n == main.slot
  <2>1. PICK i \in DOMAIN slots[t] : slots' = [slots EXCEPT ![t][i] = slot]
    BY <1>1
  <2>2. slots'[u] = slots[u] \/ slots'[u] = [slots[u] EXCEPT ![i] = slot]
    <3>1. u \in Threads
      BY <1>7, InsideType DEF IInv, InGetImage
    <3>2. slots \in [Threads -> Seq(Slot \cup {EmptySlot})]
      BY DEF IInv, TypeOK
    <3> HIDE DEF u
    <3> QED
      BY <2>1, <3>1, <3>2
  <2>3. n \in DOMAIN slots'[u] /\ slots'[u][n] \in {slots[u][n], slot}
    BY <1>7, <2>2 DEF FoundHeld
  <2>4. main' = main /\ movie' = movie
    BY <1>1
  <2> QED
    BY <1>3, <1>7, <2>3, <2>4 DEF FoundHeld, ThreadOf
<1>8. NothingQueued' /\ RequestOK' /\ OnlyReuseMisleads'
  BY <1>1, <1>2, <1>7 DEF IInv, NothingQueued, RequestOK, OnlyReuseMisleads,
      RightImage, InGetImage
<1> QED
  BY <1>2, <1>5, <1>6, <1>8 DEF IInv

LEMMA WakeMainKeeps ==
  ASSUME IInv, NEW t \in Threads, WakeMain(t)
  PROVE  IInv'
<1>1. /\ UNCHANGED <<jobs, pending, errors, slots, requestNumber, threshold, stop,
                     curFrame, movie, opened, calls, answer, failed>>
      /\ worker[t].pc = "wake"
      /\ worker' = [worker EXCEPT ![t].pc = "check"]
  BY DEF WakeMain, At, Goto, queueVars, cacheVars, history
<1>2. /\ worker' \in [Threads ->
                        [pc : {"check", "waiting", "loading", "wake", "exited"},
                         job : Job \cup {NoJob}]]
      /\ \A u \in Threads : /\ worker'[u].pc = "loading" <=> worker[u].pc = "loading"
                            /\ worker'[u].job = worker[u].job
  BY <1>1 DEF IInv, TypeOK
<1>3. \/ main' = main
      \/ /\ InGetImage /\ main' \in Inside
         /\ main'.pc = "search"
         /\ main'.want = main.want /\ main'.region = main.region
  <2>1. CASE main.pc = "wait"
    <3>1. main \in Inside /\ InGetImage
      BY <2>1, InsideType DEF IInv, InGetImage
    <3> QED
      BY <3>1 DEF WakeMain, Inside
  <2>2. CASE main.pc # "wait"
    BY <2>2 DEF WakeMain
  <2> QED
    BY <2>1, <2>2
<1>4. TypeOK'
  BY <1>1, <1>2, <1>3 DEF IInv, TypeOK
<1>5. QueuesOfMovie' /\ PendingIsInProgress' /\ OnlyReuseMisleads'
  BY <1>1, <1>2 DEF IInv, QueuesOfMovie, PendingIsInProgress,
      OnlyReuseMisleads, RightImage
<1>6. NothingQueued' /\ RequestOK'
  BY <1>1, <1>2, <1>3 DEF IInv, NothingQueued, RequestOK, InGetImage, FoundHeld,
     ThreadOf
<1> QED
  BY <1>4, <1>5, <1>6 DEF IInv

-------------------------------------------------------------------------------
(* The theorems *)

LEMMA NextIInv == IInv /\ [Next]_vars => IInv'
<1> SUFFICES ASSUME IInv, [Next]_vars PROVE IInv'
  OBVIOUS
<1>1. CASE Construct
  BY <1>1, ConstructKeeps
<1>2. CASE BeginDestroy
  BY <1>2, BeginDestroyKeeps
<1>3. CASE Request
  BY <1>3, GetImageKeeps
<1>4. CASE MainStep
  <2>1. CASE ManageFrameList
    BY <2>1, ManageFrameListKeeps
  <2>2. CASE EndDestroy
    BY <2>2, EndDestroyKeeps
  <2>3. CASE Preload
    BY <2>3, PreloadKeeps
  <2>4. CASE Search
    BY <2>4, HitKeeps, AwaitPendingKeeps, PromoteKeeps, TakeErrorKeeps,
       LeaveLoopKeeps DEF Search
  <2>5. CASE Timeout
    BY <2>5, TimeoutKeeps
  <2>6. CASE LoadAndStore
    BY <2>6, LoadAndStoreKeeps
  <2>7. CASE LoadFails
    BY <2>7, LoadFailsKeeps
  <2>8. CASE ReadFound
    BY <2>8, ReadFoundKeeps
  <2> QED
    BY <1>4, <2>1, <2>2, <2>3, <2>4, <2>5, <2>6, <2>7, <2>8 DEF MainStep
<1>5. ASSUME NEW t \in Threads, WorkerStep(t) PROVE IInv'
  BY <1>5, WaitForJobReadyKeeps, TakeJobKeeps, DiscardJobKeeps, JobFailsKeeps,
     JobSucceedsKeeps, WakeMainKeeps DEF WorkerStep
<1>6. CASE UNCHANGED vars
  BY <1>6
  DEF vars, IInv, TypeOK, QueuesOfMovie, PendingIsInProgress, NothingQueued,
      RequestOK, FoundHeld, ThreadOf, OnlyReuseMisleads, RightImage, InGetImage
<1> QED
  BY <1>1, <1>2, <1>3, <1>4, <1>5, <1>6 DEF Next

LEMMA Invariance == Spec => []IInv
<1> QED
  BY InitIInv, NextIInv, PTL DEF Spec

\* The variables keep their types, whatever the numbers of threads, slots and
\* frames: the preload loop's uint32_t arithmetic, in particular, never leads to
\* a frame number outside its range (cache.cpp, the whole of the cache).
THEOREM CacheTypes == Spec => []TypeOK
<1>1. IInv => TypeOK
  BY DEF IInv
<1> QED
  BY <1>1, Invariance, PTL

\* GetImage returns the frame it was asked for, at its level of detail and of the
\* open movie, with all of the region, or nothing after a failed load of it, unless a
\* worker has filled the slot between its unlock and its read of the image
\* (cache.cpp: GetImage).
THEOREM RightUnlessReused == Spec => []OnlyReuseMisleads
<1>1. IInv => OnlyReuseMisleads
  BY DEF IInv
<1> QED
  BY <1>1, Invariance, PTL

\* Without workers nothing happens between the two.
Undisturbed ==
  /\ main.pc = "found" =>
       main.found = slots[ThreadOf(main.frame)][main.slot]
  /\ answer # NoImage => ~answer.reused

LEMMA NextUndisturbed ==
  ASSUME NumReaderThreads = 0, IInv, Undisturbed, [Next]_vars
  PROVE  Undisturbed'
<1> USE DEF Undisturbed
<1>1. CASE Construct \/ BeginDestroy \/ Request \/ ManageFrameList \/ EndDestroy
  BY <1>1 DEF Construct, BeginDestroy, Request, GetImage, ManageFrameList, EndDestroy,
     Idle, history
<1>2. CASE Preload \/ Timeout \/ \E i \in 0 .. MaxCachedImages :
                                   AwaitPending(i) \/ Promote(i) \/ LeaveLoop(i)
  <2>1. InGetImage
    BY <1>2 DEF Preload, Timeout, AwaitPending, Promote, LeaveLoop, Miss, InGetImage
  <2>2. main \in Inside
    BY <2>1, InsideType DEF IInv
  <2>3. answer' = answer
    BY <1>2 DEF Preload, Timeout, AwaitPending, Promote, LeaveLoop, history
  <2>4. main'.pc # "found"
    <3>1. CASE Preload
      BY <2>2, <3>1 DEF Preload, Inside
    <3>2. CASE ~Preload
      BY <1>2, <2>2, <3>2 DEF Timeout, AwaitPending, Promote, LeaveLoop, Inside
    <3> QED
      BY <3>1, <3>2
  <2> QED
    BY <2>3, <2>4
<1>3. CASE LoadAndStore \/ LoadFails \/ \E i \in 0 .. MaxCachedImages : TakeError(i)
  BY <1>3 DEF LoadAndStore, LoadFails, TakeError, Return, Answered, Idle
<1>4. CASE ReadFound
  <2>1. PICK image : Answered(image, FALSE)
    BY <1>4 DEF ReadFound
  <2> QED
    BY <2>1 DEF Answered, Idle
<1>5. CASE Hit
  <2> DEFINE t == ThreadOf(main.frame)
             marked(i) == [slots[t][i] EXCEPT !.req = requestNumber]
  <2>1. InGetImage
    BY <1>5 DEF Hit, InGetImage
  <2>2. PICK i \in SlotsFor(t, main.frame, main.lod) :
          /\ slots' = [slots EXCEPT ![t][i] = marked(i)]
          /\ main' = [main EXCEPT !.pc = "found", !.slot = i, !.found = marked(i)]
    BY <1>5 DEF Hit
  <2>3. main \in Inside /\ t \in Threads /\ i \in DOMAIN slots[t]
    BY <2>1, InsideType DEF IInv, SlotsFor
  <2> HIDE DEF marked
  <2>4. main'.found = marked(i) /\ main'.slot = i /\ main'.frame = main.frame
    BY <2>2, <2>3 DEF Inside
  <2>5. slots'[t][i] = marked(i)
    BY <2>2, <2>3 DEF IInv, TypeOK
  <2>6. answer' = answer
    BY <1>5 DEF Hit, history
  <2> QED
    BY <2>4, <2>5, <2>6 DEF ThreadOf
<1>6. ASSUME NEW t \in Threads, WorkerStep(t) PROVE FALSE
  BY <1>6 DEF WorkerStep, WaitForJobReady, Awake, TakeJob, DiscardJob, JobFails,
     JobSucceeds, WakeMain, FinishJob, At
<1>7. CASE UNCHANGED vars
  BY <1>7 DEF vars, ThreadOf
<1> QED
  BY <1>1, <1>2, <1>3, <1>4, <1>5, <1>6, <1>7 DEF Next, MainStep, Search

\* The single-threaded player is always given the image it asks for (cache.cpp:
\* GetImage with mNumReaderThreads = 0).
THEOREM RightWithoutThreads ==
  ASSUME NumReaderThreads = 0
  PROVE  Spec => []AnswerIsRight
<1>1. Init => Undisturbed
  BY DEF Init, Undisturbed
<1>2. IInv /\ Undisturbed /\ [Next]_vars => Undisturbed'
  BY NextUndisturbed
<1>3. IInv /\ Undisturbed => AnswerIsRight
  BY DEF IInv, Undisturbed, OnlyReuseMisleads, AnswerIsRight
<1> QED
  BY <1>1, <1>2, <1>3, Invariance, PTL DEF Spec

\* A worker's pending queue is exactly the job that it is loading (cache.cpp:
\* CacheThread::run and RemoveJobFromQueue).
THEOREM PendingExact == Spec => []PendingIsInProgress
<1>1. IInv => PendingIsInProgress
  BY DEF IInv
<1> QED
  BY <1>1, Invariance, PTL

-------------------------------------------------------------------------------
(* Images are only thrown out of a cache that is full.  This needs the numbers *)
(* of the requests: an empty slot has number 0, so a loaded one must not, and  *)
(* that is so as long as every GetImage has queued something before.           *)

\* GetImage is called with preload set, as glRenderer.cpp does for a movie that is
\* not stereo, and there is a frame of the movie to preload.
PreloadsAhead ==
  /\ NumReaderThreads > 0
  /\ PreloadFlags = {TRUE}
  /\ PreloadMax > 0
  /\ EndFrame < NumFrames

\* Until the first request has been numbered nothing is queued, loading or cached.
Unnumbered ==
  requestNumber = 0 =>
    \A t \in Threads : /\ jobs[t] = <<>>
                       /\ worker[t].pc # "loading"
                       /\ \A i \in DOMAIN slots[t] : ~Loaded(slots[t][i])

\* The main thread has got past the preload loop, or a turn of it.
HasPreloaded ==
  \/ main.pc \in {"search", "found", "wait", "load"}
  \/ main.pc = "preload" /\ main.left < PreloadMax

\* A loaded slot has a number, and the main thread only searches after a request.
Numbered ==
  /\ \A t \in Threads : \A i \in DOMAIN slots[t] :
       Loaded(slots[t][i]) => slots[t][i].req > 0
  /\ HasPreloaded => requestNumber > 0

AllLoaded(t) == \A j \in DOMAIN slots[t] : Loaded(slots[t][j])

\* The slot that GetImage has found and keeps during its load: another frame can
\* only be in it by now if the cache was full.
SlotHeld ==
  main.pc = "load" /\ main.slot # 0 =>
    LET t == ThreadOf(main.frame)
    IN /\ main.slot \in DOMAIN slots[t]
       /\ Loaded(slots[t][main.slot])
       /\ slots[t][main.slot].frame = main.frame \/ AllLoaded(t)

EInv == Unnumbered /\ Numbered /\ SlotHeld

\* What EvictsOnlyWhenFull says of a step
NoEarlyEviction ==
  \A t \in Threads : \A i \in DOMAIN slots[t] \cap DOMAIN slots'[t] :
    /\ Loaded(slots[t][i]) /\ Loaded(slots'[t][i])
    /\ slots[t][i].frame # slots'[t][i].frame
    => \A j \in DOMAIN slots[t] : Loaded(slots[t][j])

\* The steps that leave the slots alone.
LEMMA SameSlots ==
  ASSUME EInv, slots' = slots,
         requestNumber' = 0 =>
           /\ requestNumber = 0
           /\ \A t \in Threads : jobs'[t] = <<>> /\ worker'[t].pc # "loading",
         HasPreloaded' => requestNumber' > 0,
         main'.pc # "load" \/ main' = main
  PROVE  EInv' /\ NoEarlyEviction
<1>1. NoEarlyEviction
  BY DEF NoEarlyEviction
<1>2. Unnumbered'
  BY DEF EInv, Unnumbered
<1>3. Numbered'
  BY DEF EInv, Numbered
<1>4. SlotHeld'
  BY DEF EInv, SlotHeld, AllLoaded, ThreadOf
<1> QED
  BY <1>1, <1>2, <1>3, <1>4 DEF EInv

\* The steps that take all images away, or find none.
LEMMA NoSlots ==
  ASSUME \A t \in Threads : \A i \in DOMAIN slots'[t] : ~Loaded(slots[t][i])',
         requestNumber' = 0 =>
           \A t \in Threads : jobs'[t] = <<>> /\ worker'[t].pc # "loading",
         main'.pc \in {"none", "fresh", "idle", "join"}
  PROVE  EInv' /\ NoEarlyEviction
<1>1. NoEarlyEviction
  BY DEF NoEarlyEviction
<1>2. Unnumbered' /\ Numbered' /\ SlotHeld'
  BY DEF Unnumbered, Numbered, SlotHeld, HasPreloaded
<1> QED
  BY <1>1, <1>2 DEF EInv

LEMMA InitEInv == Init => EInv
<1> SUFFICES ASSUME Init PROVE EInv
  OBVIOUS
<1>1. \A t \in Threads : jobs[t] = <<>> /\ slots[t] = <<>> /\ worker[t].pc = "exited"
  BY DEF Init, NoQueues
<1>2. main.pc = "none"
  BY DEF Init
<1> QED
  BY <1>1, <1>2 DEF EInv, Unnumbered, Numbered, SlotHeld, HasPreloaded

LEMMA LifeEvicts ==
  ASSUME IInv, EInv, Construct \/ ManageFrameList \/ EndDestroy
  PROVE  EInv' /\ NoEarlyEviction
<1>1. \A n \in Nat : \A i \in DOMAIN EmptySlots(n) : ~Loaded(EmptySlots(n)[i])
  BY DEF EmptySlots, EmptySlot, Loaded
<1>2. CASE Construct
  <2>1. \A t \in Threads : ThreadImages(t) \in Nat
    BY SharesAreCounts
  <2>2. \A t \in Threads : \A i \in DOMAIN slots'[t] : ~Loaded(slots[t][i])'
    BY <1>1, <1>2, <2>1 DEF Construct, Loaded
  <2>3. \A t \in Threads : jobs'[t] = <<>> /\ worker'[t].pc # "loading"
    BY <1>2 DEF Construct, NoQueues
  <2> QED
    BY <1>2, <2>2, <2>3, NoSlots DEF Construct
<1>3. CASE ManageFrameList
  <2>1. \A t \in Threads : \A i \in DOMAIN slots'[t] : ~Loaded(slots[t][i])'
    BY <1>1, <1>3, CacheAssumption DEF ManageFrameList, Loaded
  <2>2. \A t \in Threads : jobs'[t] = <<>> /\ worker'[t].pc # "loading"
    BY <1>3 DEF ManageFrameList, NoQueues, IInv, NothingQueued
  <2> QED
    BY <1>3, <2>1, <2>2, NoSlots DEF ManageFrameList, Idle
<1>4. CASE EndDestroy
  <2>1. \A t \in Threads : \A i \in DOMAIN slots'[t] : ~Loaded(slots[t][i])'
    BY <1>4 DEF EndDestroy
  <2>2. \A t \in Threads : jobs'[t] = <<>> /\ worker'[t].pc # "loading"
    BY <1>4 DEF EndDestroy, NoQueues, IInv, NothingQueued
  <2> QED
    BY <1>4, <2>1, <2>2, NoSlots DEF EndDestroy
<1> QED
  BY <1>2, <1>3, <1>4

LEMMA BeginDestroyEvicts ==
  ASSUME IInv, EInv, BeginDestroy
  PROVE  EInv' /\ NoEarlyEviction
<1>1. /\ slots' = slots /\ requestNumber' = requestNumber /\ worker' = worker
      /\ jobs' = NoQueues
      /\ main'.pc = "join"
  BY CacheAssumption DEF BeginDestroy, IInv, NothingQueued
<1>2. ~HasPreloaded'
  BY <1>1 DEF HasPreloaded
<1>3. \A t \in Threads : jobs'[t] = <<>>
  BY <1>1 DEF NoQueues
<1> QED
  BY <1>1, <1>2, <1>3, SameSlots DEF EInv, Unnumbered

LEMMA RequestEvicts ==
  ASSUME PreloadsAhead, IInv, EInv, Request
  PROVE  EInv' /\ NoEarlyEviction
<1> PICK frame \in Frames, region \in Regions, lod \in Lods,
         preload \in PreloadFlags, dir \in Directions :
           GetImage(frame, region, lod, preload, dir)
  BY DEF Request
<1>1. /\ slots' = slots /\ requestNumber' = requestNumber
      /\ worker' = worker /\ jobs' = jobs
  BY DEF GetImage, queueVars, cacheVars
<1>2. main'.pc = "preload" /\ main'.left = PreloadMax
  BY DEF GetImage, PreloadsAhead
<1>3. ~HasPreloaded'
  BY <1>2, PreloadMaxType DEF HasPreloaded
<1> QED
  BY <1>1, <1>2, <1>3, SameSlots DEF EInv, Unnumbered

\* A turn of the preload loop that counts has numbered a request, or found one.
LEMMA PreloadEvicts ==
  ASSUME PreloadsAhead, IInv, EInv, Preload
  PROVE  EInv' /\ NoEarlyEviction
<1> DEFINE next == NextPreload(main.at, main.dir)
           skip == SkipOddFrames /\ next % 2 = 1
           left == IF skip THEN main.left ELSE main.left - 1
<1>1. /\ main.pc = "preload"
      /\ IF skip THEN UNCHANGED <<jobs, requestNumber>>
                 ELSE PreloadImage(next, main.lod, main.want)
      /\ main' = [main EXCEPT !.at = next, !.left = left,
                              !.pc = IF left = 0 THEN "search" ELSE "preload"]
      /\ slots' = slots /\ worker' = worker
  BY DEF Preload
<1>2. main \in Inside /\ main.left > 0 /\ main.left \in Nat
  BY <1>1, InsideType DEF IInv, RequestOK, InGetImage, Inside
<1>3. next \in FrameIds /\ next < NumFrames
  <2>1. main.at \in FrameIds /\ main.dir \in Directions
    BY <1>2 DEF Inside
  <2>2. next \in StartFrame .. EndFrame
    BY <2>1, NextPreloadInRange
  <2> HIDE DEF next
  <2> QED
    BY <2>2, FrameRanges, CacheAssumption DEF PreloadsAhead
<1>4. /\ main'.left = left
      /\ main'.pc = IF left = 0 THEN "search" ELSE "preload"
  BY <1>1, <1>2 DEF Inside
<1>5. requestNumber \in Nat
  BY DEF IInv, TypeOK
<1>6. CASE skip
  <2>1. left = main.left
    BY <1>6
  <2>2. HasPreloaded' => HasPreloaded
    BY <1>1, <1>2, <1>4, <2>1 DEF HasPreloaded
  <2>3. jobs' = jobs /\ requestNumber' = requestNumber
    BY <1>1, <1>6
  <2>4. HasPreloaded' => requestNumber' > 0
    BY <2>2, <2>3 DEF EInv, Numbered
  <2>5. main'.pc # "load"
    BY <1>4
  <2> QED
    BY <1>1, <2>3, <2>4, <2>5, SameSlots DEF EInv, Unnumbered
<1>7. CASE ~skip
  <2> DEFINE t == ThreadOf(next)
  <2>1. PreloadImage(next, main.lod, main.want)
    BY <1>1, <1>7
  <2>2. t \in Threads
    BY <1>3, FrameRanges, ThreadOfFrame
  <2>3. \/ requestNumber' = requestNumber + 1
        \/ /\ requestNumber' = requestNumber
           /\ AlreadyKnown(t, next, main.lod, main.want)
    <3> HIDE DEF next
    <3>1. ~(NumReaderThreads = 0) /\ ~(next >= NumFrames)
      BY <1>3, FrameRanges, CacheAssumption DEF PreloadsAhead
    <3> QED
      BY <2>1, <3>1 DEF PreloadImage
  <2> HIDE DEF next
  <2>4. requestNumber' > 0
    <3>1. CASE requestNumber' = requestNumber + 1
      BY <1>5, <3>1
    <3>2. CASE requestNumber' # requestNumber + 1
      <4>1. AlreadyKnown(t, next, main.lod, main.want) /\ requestNumber' = requestNumber
        BY <2>3, <3>2
      <4>2. ~(requestNumber = 0)
        <5> SUFFICES ASSUME requestNumber = 0 PROVE FALSE
          OBVIOUS
        <5>1. /\ jobs[t] = <<>> /\ worker[t].pc # "loading"
              /\ \A i \in DOMAIN slots[t] : ~Loaded(slots[t][i])
          BY <2>2 DEF EInv, Unnumbered
        <5>2. pending[t] = <<>>
          BY <2>2, <5>1 DEF IInv, PendingIsInProgress
        <5>3. SlotsFor(t, next, main.lod) = {}
          BY <5>1 DEF SlotsFor
        <5> QED
          BY <4>1, <5>1, <5>2, <5>3 DEF AlreadyKnown, JobsCovering, JobsFor
      <4> QED
        BY <1>5, <4>1, <4>2
    <3> QED
      BY <3>1, <3>2
  <2>5. main'.pc # "load"
    BY <1>4
  <2> QED
    BY <1>1, <2>4, <2>5, SameSlots
<1> QED
  BY <1>6, <1>7

LEMMA SearchEvicts ==
  ASSUME IInv, EInv, NEW i \in 0 .. MaxCachedImages,
         AwaitPending(i) \/ Promote(i) \/ TakeError(i) \/ LeaveLoop(i)
  PROVE  EInv' /\ NoEarlyEviction
<1> DEFINE t == ThreadOf(main.frame)
<1>1. /\ main.pc = "search" /\ Miss(i)
      /\ slots' = slots /\ requestNumber' = requestNumber /\ worker' = worker
  <2>1. CASE AwaitPending(i)
    BY <2>1 DEF AwaitPending, Miss, queueVars, cacheVars
  <2>2. CASE Promote(i)
    BY <2>2 DEF Promote, Miss, cacheVars
  <2>3. CASE TakeError(i)
    BY <2>3 DEF TakeError, Miss, cacheVars
  <2>4. CASE LeaveLoop(i)
    BY <2>4 DEF LeaveLoop, Miss, queueVars, cacheVars
  <2> QED
    BY <2>1, <2>2, <2>3, <2>4
<1>2. main \in Inside /\ t \in Threads
  BY <1>1, InsideType DEF IInv, InGetImage
<1>3. requestNumber > 0
  BY <1>1 DEF EInv, Numbered, HasPreloaded
<1>4. CASE main'.pc # "load"
  BY <1>1, <1>3, <1>4, SameSlots
<1>5. CASE main'.pc = "load"
  <2>1. LeaveLoop(i)
    <3>1. CASE AwaitPending(i)
      BY <1>2, <1>5, <3>1 DEF AwaitPending, Inside
    <3>2. CASE Promote(i)
      <4>1. main' = [main EXCEPT !.pc = "wait", !.region = Grown(i)]
        BY <3>2 DEF Promote
      <4> QED
        BY <1>2, <1>5, <4>1 DEF Inside
    <3>3. CASE TakeError(i)
      BY <1>5, <3>3 DEF TakeError, Return, Answered, Idle
    <3> QED
      BY <3>1, <3>2, <3>3
  <2>2. /\ main' = [main EXCEPT !.pc = "load", !.region = Grown(i), !.slot = i]
        /\ main'.slot = i /\ main'.frame = main.frame
    BY <1>2, <2>1 DEF LeaveLoop, Inside
  <2>3. i # 0 => i \in SlotsFor(t, main.frame, main.lod)
    BY <1>1 DEF Miss, Found, IsFirst
  <2>4. SlotHeld'
    BY <1>1, <2>2, <2>3 DEF SlotHeld, SlotsFor, Loaded, ThreadOf
  <2>5. NoEarlyEviction
    BY <1>1 DEF NoEarlyEviction
  <2>6. Unnumbered' /\ Numbered'
    BY <1>1, <1>3 DEF EInv, Unnumbered, Numbered
  <2> QED
    BY <2>4, <2>5, <2>6 DEF EInv
<1> QED
  BY <1>4, <1>5

LEMMA LoadEndsEvicts ==
  ASSUME IInv, EInv, Timeout \/ LoadFails \/ ReadFound
  PROVE  EInv' /\ NoEarlyEviction
<1>1. /\ slots' = slots /\ requestNumber' = requestNumber
      /\ jobs' = jobs /\ worker' = worker
      /\ main.pc \in {"wait", "load", "found"}
  BY DEF Timeout, LoadFails, ReadFound, queueVars, cacheVars
<1>2. main \in Inside
  BY <1>1, InsideType DEF IInv, InGetImage
<1>3. main'.pc # "load"
  BY <1>2 DEF Timeout, LoadFails, ReadFound, Return, Answered, Idle, Inside
<1>4. requestNumber > 0
  BY <1>1 DEF EInv, Numbered, HasPreloaded
<1> QED
  BY <1>1, <1>3, <1>4, SameSlots

LEMMA WorkerEvicts ==
  ASSUME IInv, EInv, NEW t \in Threads,
         \/ WaitForJobReady(t) \/ Awake(t) \/ TakeJob(t)
         \/ DiscardJob(t) \/ JobFails(t) \/ WakeMain(t)
  PROVE  EInv' /\ NoEarlyEviction
<1>1. /\ slots' = slots /\ requestNumber' = requestNumber
      /\ main' = main \/ main'.pc # "load"
      /\ HasPreloaded' => HasPreloaded
  <2>1. slots' = slots /\ requestNumber' = requestNumber
    BY DEF WaitForJobReady, Awake, TakeJob, DiscardJob, JobFails, WakeMain,
           queueVars, cacheVars
  <2>2. \/ main' = main
        \/ main.pc = "wait" /\ main' = [main EXCEPT !.pc = "search"]
    BY DEF WaitForJobReady, Awake, TakeJob, DiscardJob, JobFails, WakeMain
  <2>3. CASE main' = main
    BY <2>1, <2>3 DEF HasPreloaded
  <2>4. CASE main.pc = "wait" /\ main' = [main EXCEPT !.pc = "search"]
    <3>1. main \in Inside
      BY <2>4, InsideType DEF IInv, InGetImage
    <3>2. main'.pc = "search"
      BY <2>4, <3>1 DEF Inside
    <3> QED
      BY <2>1, <2>4, <3>2 DEF HasPreloaded
  <2> QED
    BY <2>2, <2>3, <2>4
<1>2. requestNumber = 0 =>
        \A u \in Threads : jobs'[u] = <<>> /\ worker'[u].pc # "loading"
  <2> SUFFICES ASSUME requestNumber = 0, NEW u \in Threads
               PROVE  jobs'[u] = <<>> /\ worker'[u].pc # "loading"
    OBVIOUS
  <2>1. \A v \in Threads : jobs[v] = <<>> /\ worker[v].pc # "loading"
    BY DEF EInv, Unnumbered
  <2>2. WaitForJobReady(t) \/ Awake(t) \/ WakeMain(t)
    BY <2>1 DEF TakeJob, DiscardJob, JobFails, FinishJob, At
  <2>3. jobs' = jobs
    BY <2>2 DEF WaitForJobReady, Awake, WakeMain, queueVars
  <2>4. PICK pc \in {"waiting", "exited", "check"} :
          worker' = [worker EXCEPT ![t].pc = pc]
    BY <2>2 DEF WaitForJobReady, Awake, WakeMain, Goto
  <2>5. worker'[u].pc # "loading"
    BY <2>1, <2>4 DEF IInv, TypeOK
  <2> QED
    BY <2>1, <2>3, <2>5
<1>3. HasPreloaded' => requestNumber' > 0
  BY <1>1 DEF EInv, Numbered
<1> QED
  BY <1>1, <1>2, <1>3, SameSlots

\* A slot that is taken for a new image is empty, or no slot is.
LEMMA VictimOfFull ==
  ASSUME IInv, EInv, NEW t \in Threads, NEW i, Victim(i, t)
  PROVE  ~Loaded(slots[t][i]) \/ AllLoaded(t)
<1> SUFFICES ASSUME Loaded(slots[t][i]), NEW j \in DOMAIN slots[t]
             PROVE  Loaded(slots[t][j])
  BY DEF AllLoaded
<1>1. i \in DOMAIN slots[t] /\ slots[t] \in Seq(AnySlotOf(movie))
  BY DEF Victim, IInv, QueuesOfMovie
<1>2. /\ slots[t][i] \in AnySlotOf(movie)
      /\ slots[t][j] \in AnySlotOf(movie)
  BY <1>1, ElementOfSeq, LenProperties
<1>3. slots[t][i].req > 0 /\ slots[t][i].req <= slots[t][j].req
  <2>1. slots[t][i].req \in Nat /\ slots[t][j].req \in Nat
    BY <1>2 DEF AnySlotOf, SlotOf, Slot, EmptySlot
  <2>2. slots[t][i].req > 0
    BY <1>1 DEF EInv, Numbered
  <2>3. slots[t][i].req < slots[t][j].req \/ slots[t][i].req = slots[t][j].req
    BY DEF Victim
  <2> QED
    BY <2>1, <2>2, <2>3
<1>4. slots[t][j] \in SlotOf(movie)
  <2>1. EmptySlot.req = 0
    BY DEF EmptySlot
  <2>2. slots[t][j].req # 0
    <3>1. slots[t][i].req \in Nat /\ slots[t][j].req \in Nat
      BY <1>2, <2>1 DEF AnySlotOf, SlotOf, Slot
    <3> QED
      BY <1>3, <3>1
  <2> QED
    BY <1>2, <2>1, <2>2 DEF AnySlotOf
<1>5. slots[t][j].image \in Image
  BY <1>4 DEF SlotOf, Slot
<1> QED
  BY <1>5, FrameRanges DEF Loaded, Image, NoImage

\* One slot is filled: an empty one, or one that holds the frame already, or any
\* when all are filled.
LEMMA StoreEvicts ==
  ASSUME IInv, EInv, NEW t \in Threads, NEW i \in DOMAIN slots[t],
         NEW slot \in SlotOf(movie), slot.req > 0,
         slots' = [slots EXCEPT ![t][i] = slot],
         \/ ~Loaded(slots[t][i])
         \/ slots[t][i].frame = slot.frame
         \/ AllLoaded(t),
         requestNumber > 0, requestNumber' = requestNumber,
         main' = main \/ main'.pc # "load"
  PROVE  EInv' /\ NoEarlyEviction
<1>1. /\ slots \in [Threads -> Seq(AnySlotOf(movie))]
      /\ slots[t] \in Seq(AnySlotOf(movie))
      /\ i \in 1 .. Len(slots[t]) /\ DOMAIN slots[t] = 1 .. Len(slots[t])
  BY LenProperties DEF IInv, QueuesOfMovie
<1>2. \A u \in Threads : DOMAIN slots'[u] = DOMAIN slots[u]
  BY <1>1
<1>3. \A u \in Threads : \A j \in DOMAIN slots[u] :
        slots'[u][j] = IF u = t /\ j = i THEN slot ELSE slots[u][j]
  BY <1>1
<1>4. slot.image # NoImage
  <2>1. slot.image \in Image
    BY DEF SlotOf, Slot
  <2> QED
    BY <2>1, FrameRanges DEF Image, NoImage
<1>5. \A u \in Threads : \A j \in DOMAIN slots[u] :
        Loaded(slots[u][j]) => slots'[u][j].image # NoImage
  BY <1>3, <1>4 DEF Loaded
<1>6. NoEarlyEviction
  BY <1>2, <1>3 DEF NoEarlyEviction, AllLoaded
<1>7. Unnumbered' /\ Numbered'
  <2>1. \A u \in Threads : \A j \in DOMAIN slots[u] :
          slots'[u][j].image # NoImage => slots'[u][j].req > 0
    BY <1>3 DEF EInv, Numbered, Loaded
  <2> QED
    BY <1>2, <2>1 DEF Unnumbered, Numbered, Loaded
<1>8. SlotHeld'
  <2> DEFINE u == ThreadOf(main.frame)
  <2> SUFFICES ASSUME main'.pc = "load", main'.slot # 0
               PROVE  /\ main.slot \in DOMAIN slots'[u]
                      /\ slots'[u][main.slot].image # NoImage
                      /\ \/ slots'[u][main.slot].frame = main.frame
                         \/ \A j \in DOMAIN slots'[u] : slots'[u][j].image # NoImage
    BY DEF SlotHeld, Loaded, AllLoaded, ThreadOf
  <2>1. main' = main /\ u \in Threads
    BY InsideType DEF IInv, InGetImage
  <2>2. /\ main.slot \in DOMAIN slots[u] /\ Loaded(slots[u][main.slot])
        /\ slots[u][main.slot].frame = main.frame \/ AllLoaded(u)
    BY <2>1 DEF EInv, SlotHeld
  <2> HIDE DEF u
  <2>3. CASE AllLoaded(u)
    BY <1>2, <1>5, <2>1, <2>2, <2>3 DEF AllLoaded
  <2>4. CASE slots[u][main.slot].frame = main.frame /\ ~AllLoaded(u)
    <3>1. slots'[u][main.slot].frame = main.frame
      BY <1>3, <2>1, <2>2, <2>4
    <3> QED
      BY <1>2, <1>5, <2>1, <2>2, <3>1
  <2> QED
    BY <2>2, <2>3, <2>4
<1> QED
  BY <1>6, <1>7, <1>8 DEF EInv

LEMMA HitEvicts ==
  ASSUME IInv, EInv, Hit
  PROVE  EInv' /\ NoEarlyEviction
<1> DEFINE t == ThreadOf(main.frame)
<1>1. InGetImage /\ main.pc = "search"
  BY DEF Hit, InGetImage
<1> DEFINE marked(i) == [slots[t][i] EXCEPT !.req = requestNumber]
<1>2. PICK i \in SlotsFor(t, main.frame, main.lod) :
        /\ slots' = [slots EXCEPT ![t][i] = marked(i)]
        /\ main' = [main EXCEPT !.pc = "found", !.slot = i, !.found = marked(i)]
  BY DEF Hit
<1>3. /\ t \in Threads /\ requestNumber > 0 /\ requestNumber \in Nat
      /\ main \in Inside
  BY <1>1, InsideType DEF IInv, TypeOK, EInv, Numbered, HasPreloaded
<1> DEFINE touched == marked(i)
<1>4. i \in DOMAIN slots[t] /\ slots[t][i] \in SlotOf(movie)
  BY <1>1, FoundSlot
<1>5. /\ touched \in SlotOf(movie)
      /\ touched.req = requestNumber /\ touched.frame = slots[t][i].frame
  BY <1>3, <1>4 DEF SlotOf, Slot
<1> HIDE DEF marked
<1>6. slots' = [slots EXCEPT ![t][i] = touched]
  BY <1>2
<1>7. requestNumber' = requestNumber /\ main'.pc = "found"
  BY <1>2, <1>3 DEF Hit, cacheVars, Inside
<1> HIDE DEF t, touched
<1> QED
  BY <1>3, <1>4, <1>5, <1>6, <1>7, StoreEvicts

LEMMA LoadAndStoreEvicts ==
  ASSUME IInv, EInv, LoadAndStore
  PROVE  EInv' /\ NoEarlyEviction
<1> DEFINE t == ThreadOf(main.frame)
           image == [frame |-> main.frame, lod |-> main.lod,
                     region |-> LoadedRegion(main.region), movie |-> movie]
           slot == [req |-> requestNumber, frame |-> main.frame,
                    lod |-> main.lod, image |-> image]
<1>1. InGetImage /\ main.pc = "load"
  BY DEF LoadAndStore, InGetImage
<1>2. main \in Inside /\ t \in Threads /\ movie \in Movies
  BY <1>1, InsideType DEF IInv, RequestOK
<1>3. requestNumber > 0 /\ requestNumber \in Nat
  BY <1>1 DEF IInv, TypeOK, EInv, Numbered, HasPreloaded
<1>4. /\ main'.pc = "idle"
      /\ requestNumber' = requestNumber
      /\ \/ slots' = slots
         \/ \E i \in DOMAIN slots[t] :
              /\ IF main.slot # 0 THEN i = main.slot ELSE Victim(i, t)
              /\ slots' = [slots EXCEPT ![t][i] = slot]
  BY DEF LoadAndStore, Return, Answered, Idle, cacheVars
<1>5. slot \in SlotOf(movie) /\ slot.req = requestNumber /\ slot.frame = main.frame
  <2>1. image \in Image
    BY <1>2 DEF Inside, Image, LoadedRegion
  <2>2. slot \in Slot
    BY <1>2, <1>3, <2>1 DEF Inside, Slot
  <2> QED
    BY <2>2 DEF SlotOf
<1> HIDE DEF image, slot
<1>6. CASE slots' = slots
  BY <1>3, <1>4, <1>6, SameSlots
<1>7. CASE slots' # slots
  <2>1. PICK i \in DOMAIN slots[t] :
          /\ IF main.slot # 0 THEN i = main.slot ELSE Victim(i, t)
          /\ slots' = [slots EXCEPT ![t][i] = slot]
    BY <1>4, <1>7
  <2>2. \/ ~Loaded(slots[t][i])
        \/ slots[t][i].frame = main.frame
        \/ AllLoaded(t)
    BY <1>1, <1>2, <2>1, VictimOfFull DEF EInv, SlotHeld
  <2> HIDE DEF t
  <2> QED
    BY <1>2, <1>3, <1>4, <1>5, <2>1, <2>2, StoreEvicts
<1> QED
  BY <1>6, <1>7

LEMMA JobSucceedsEvicts ==
  ASSUME IInv, EInv, NEW t \in Threads, JobSucceeds(t)
  PROVE  EInv' /\ NoEarlyEviction
<1> DEFINE job == worker[t].job
           slot == [req |-> job.req, frame |-> job.frame, lod |-> job.lod,
                    image |-> ImageOf(job)]
<1>1. /\ worker[t].pc = "loading" /\ job.req > threshold
      /\ requestNumber' = requestNumber /\ main' = main
  BY DEF JobSucceeds, FinishJob, At, cacheVars
<1>2. PICK i \in DOMAIN slots[t] :
        Victim(i, t) /\ slots' = [slots EXCEPT ![t][i] = slot]
  BY DEF JobSucceeds
<1>3. job \in JobOf(movie)
  BY <1>1 DEF IInv, QueuesOfMovie
<1>4. /\ job.req \in Nat /\ job.frame \in FrameIds /\ job.lod \in Lods
      /\ job.region \in SUBSET Cells /\ job.movie \in Movies /\ job.movie = movie
  BY <1>3 DEF JobOf, Job
<1> HIDE DEF job
<1>5. slot \in SlotOf(movie)
  <2>1. ImageOf(job) \in Image
    BY <1>4 DEF ImageOf, Image, LoadedRegion
  <2>2. /\ ImageOf(job).frame = job.frame /\ ImageOf(job).lod = job.lod
        /\ ImageOf(job).movie = movie
    BY <1>4 DEF ImageOf
  <2> QED
    BY <1>4, <2>1, <2>2 DEF SlotOf, Slot
<1>6. slot.req > 0
  <2>1. threshold \in Nat
    BY DEF IInv, TypeOK
  <2> QED
    BY <1>1, <1>4, <2>1
<1>7. requestNumber > 0
  <2>1. requestNumber \in Nat
    BY DEF IInv, TypeOK
  <2>2. requestNumber # 0
    BY <1>1 DEF EInv, Unnumbered
  <2> QED
    BY <2>1, <2>2
<1>8. ~Loaded(slots[t][i]) \/ AllLoaded(t)
  BY <1>2, VictimOfFull
<1> HIDE DEF slot
<1> QED
  BY <1>1, <1>2, <1>5, <1>6, <1>7, <1>8, StoreEvicts

LEMMA NextEInv ==
  ASSUME PreloadsAhead, IInv, EInv, [Next]_vars
  PROVE  EInv' /\ NoEarlyEviction
<1>1. CASE Construct \/ BeginDestroy \/ Request
  BY <1>1, LifeEvicts, BeginDestroyEvicts, RequestEvicts
<1>2. CASE MainStep
  <2>1. CASE ManageFrameList \/ EndDestroy \/ Preload
    BY <2>1, LifeEvicts, PreloadEvicts
  <2>2. CASE Search
    BY <2>2, HitEvicts, SearchEvicts DEF Search
  <2>3. CASE Timeout \/ LoadAndStore \/ LoadFails \/ ReadFound
    BY <2>3, LoadEndsEvicts, LoadAndStoreEvicts
  <2> QED
    BY <1>2, <2>1, <2>2, <2>3 DEF MainStep
<1>3. ASSUME NEW t \in Threads, WorkerStep(t) PROVE EInv' /\ NoEarlyEviction
  BY <1>3, WorkerEvicts, JobSucceedsEvicts DEF WorkerStep
<1>4. CASE UNCHANGED vars
  BY <1>4, SameSlots DEF vars, EInv, Unnumbered, Numbered, HasPreloaded
<1> QED
  BY <1>1, <1>2, <1>3, <1>4 DEF Next

\* As long as every GetImage preloads, an image is only thrown out when all slots
\* of its thread are taken: the slot that GetCachedImageSlot chooses is an empty
\* one if there is one, also when a worker stores its image while the main thread
\* loads another, and when the main thread stores into the slot it found before
\* its load (cache.cpp: GetCachedImageSlot, GetImage, CacheThread::run).
THEOREM EvictsLast ==
  ASSUME PreloadsAhead
  PROVE  Spec => EvictsOnlyWhenFull
<1>1. IInv /\ EInv /\ [Next]_vars => EInv' /\ NoEarlyEviction
  BY NextEInv
<1>2. Spec => [][NoEarlyEviction]_vars
  BY <1>1, InitEInv, Invariance, PTL DEF Spec
<1> QED
  BY <1>2, PTL DEF EvictsOnlyWhenFull, NoEarlyEviction

===============================================================================
