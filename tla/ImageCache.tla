------------------------------ MODULE ImageCache ------------------------------
(***************************************************************************)
(* The image cache of the player (src/blockbuster/cache.cpp, cache.h).     *)
(*                                                                         *)
(* One main thread asks for frames (GetImage) and queues the frames that   *)
(* will be shown next (PreloadImage); NumReaderThreads workers               *)
(* (CacheThread::run) load them.  Frame f belongs to worker                  *)
(* f % NumReaderThreads, which has a job queue, a pending queue, an error     *)
(* queue and cache slots of its own, all under its own imageCacheLock.      *)
(* What happens between a lock() and its unlock() is one action here; a     *)
(* load, a wait on a condition and the wakeAll() that follows an unlock()    *)
(* lie between actions.                                                      *)
(*                                                                           *)
(* Bounds of the model: MaxCalls calls of GetImage, MaxMovies frame lists.  *)
(***************************************************************************)
EXTENDS Integers, Sequences, FiniteSets, SequencesExt

CONSTANTS
  NumReaderThreads,  \* mNumReaderThreads; 0 is the single-threaded player
  MaxCachedImages,   \* mMaxCachedImages
  PreloadFrames,     \* mPreloadFrames
  NumFrames,         \* mFrameList->numActualFrames()
  StartFrame,        \* mCurrentStartFrame
  EndFrame,          \* mCurrentEndFrame
  Directions,        \* play directions PreloadHint is given
  PreloadFlags,      \* values of GetImage's argument preload
  SkipOddFrames,     \* mFrameList->mStereo && !mStereo
  Cells,             \* what a region of interest is made of
  Regions,           \* the regions GetImage is asked for
  Lods,              \* levels of detail
  WholeFrame,        \* the loader reads whole frames (PNG...) or regions (SM)
  Word,              \* 2^32, the range of uint32_t
  MaxCalls,
  MaxMovies

ASSUME CacheAssumption ==
  /\ NumReaderThreads \in Nat
  /\ MaxCachedImages \in Nat
  \* main.cpp: a cache size of 0 turns threading off
  /\ NumReaderThreads > 0 => MaxCachedImages > 0
  /\ PreloadFrames \in Nat
  /\ NumFrames \in Nat \ {0}
  /\ StartFrame \in Nat
  /\ EndFrame \in Nat
  /\ StartFrame <= EndFrame
  /\ Word \in Nat
  /\ EndFrame + 1 < Word
  /\ NumFrames < Word
  /\ Directions \subseteq {-1, 0, 1}
  /\ PreloadFlags \subseteq BOOLEAN
  /\ SkipOddFrames \in BOOLEAN
  /\ Regions \subseteq SUBSET Cells
  /\ WholeFrame \in BOOLEAN
  /\ MaxCalls \in Nat
  /\ MaxMovies \in Nat

\* The single-threaded cache has one CacheThread too: a place for images,
\* never started.
NumCacheThreads == IF NumReaderThreads = 0 THEN 1 ELSE NumReaderThreads
Threads == 0 .. NumCacheThreads - 1

Frames == 0 .. NumFrames - 1

ThreadOf(frame) == frame % NumCacheThreads

VARIABLES
  jobs,           \* mJobQueue of each thread
  pending,        \* mPendingQueue
  errors,         \* mErrorQueue
  slots,          \* mCachedImages
  worker,         \* where each worker is in run(), and its local job
  requestNumber,  \* mRequestNumber
  threshold,      \* mValidRequestThreshold
  stop,           \* mStop, set on all threads together
  curFrame,       \* gCurrentFrame
  movie,          \* the frame list the cache manages, 0 for none
  opened,         \* frame lists opened so far
  main,           \* where the main thread is, and GetImage's locals
  calls,          \* calls of GetImage so far
  answer,         \* history: what the last GetImage returned
  failed          \* history: frames of this movie a load has failed for

queueVars == <<jobs, pending, errors, slots>>
cacheVars == <<requestNumber, threshold, stop, movie, opened>>
history == <<answer, failed>>
vars == <<jobs, pending, errors, slots, worker, requestNumber, threshold, stop,
          curFrame, movie, opened, main, calls, answer, failed>>

-------------------------------------------------------------------------------
(* Data *)

Movies == 1 .. MaxMovies
FrameIds == 0 .. Word - 1

\* What LoadAndConvertImage delivers: which frame of which movie, and how much
\* of it.
Image == [frame : FrameIds, lod : Lods, region : SUBSET Cells, movie : Movies]
NoImage == [frame |-> -1]

Job == [frame : FrameIds, lod : Lods, region : SUBSET Cells, req : Nat,
        movie : Movies]
NoJob == [frame |-> -1]

\* An empty slot has requestNumber 0 and is not loaded.
EmptySlot == [req |-> 0, frame |-> 0, lod |-> 0, image |-> NoImage]
Slot == [req : Nat, frame : FrameIds, lod : Lods, image : Image]

Loaded(slot) == slot.image # NoImage

LoadedRegion(region) == IF WholeFrame THEN Cells ELSE region

ImageOf(job) == [frame |-> job.frame, lod |-> job.lod,
                 region |-> LoadedRegion(job.region), movie |-> job.movie]

-------------------------------------------------------------------------------
(* Queues and slots *)

IsFirst(i, S) == i \in S /\ \A j \in S : i <= j

\* FindJobInQueue: the jobs of q that match; a NULL region matches any.
JobsFor(q, frame, lod) ==
  {i \in DOMAIN q : q[i].frame = frame /\ q[i].lod = lod}
JobsCovering(q, frame, lod, region) ==
  {i \in JobsFor(q, frame, lod) : region \subseteq q[i].region}

\* Mutant of SlotsFor: the frame number is not compared.
SlotsForAnyFrame(t, frame, lod) ==
  {i \in DOMAIN slots[t] : Loaded(slots[t][i]) /\ slots[t][i].lod = lod}

\* FindImage: the first loaded slot for the frame, whatever its region.
SlotsFor(t, frame, lod) ==
  {i \in DOMAIN slots[t] : /\ Loaded(slots[t][i])
                           /\ slots[t][i].frame = frame
                           /\ slots[t][i].lod = lod}
Found(i, t, frame, lod) ==
  \/ i = 0 /\ SlotsFor(t, frame, lod) = {}
  \/ IsFirst(i, SlotsFor(t, frame, lod))

\* Mutants of Victim: the first slot, empty or not; the newest request.
FirstVictim(i, t) == i = 1 /\ i \in DOMAIN slots[t]
NewestVictim(i, t) ==
  /\ i \in DOMAIN slots[t]
  /\ \A j \in DOMAIN slots[t] :
       \/ Loaded(slots[t][i]) /\ slots[t][i].req > slots[t][j].req
       \/ slots[t][i].req = slots[t][j].req /\ i <= j
       \/ ~Loaded(slots[t][i]) /\ Loaded(slots[t][j])

\* GetCachedImageSlot: the first empty slot, else the first of those with the
\* oldest request number.
Victim(i, t) ==
  /\ i \in DOMAIN slots[t]
  /\ \A j \in DOMAIN slots[t] :
       \/ slots[t][i].req < slots[t][j].req
       \/ slots[t][i].req = slots[t][j].req /\ i <= j

\* jobComparer: a uint32_t difference, so a frame behind the current one is far.
Distance(frame) == (frame - curFrame) % Word
Before(j1, j2) == Distance(j1.frame) > Distance(j2.frame)

\* std::sort is not stable: any order that jobComparer accepts.
Sorted(q) == \A i, j \in DOMAIN q : i < j => ~Before(q[j], q[i])
Orders(n) == Injection(1 .. n, 1 .. n)
Reordered(q, p) == [i \in 1 .. Len(q) |-> q[p[i]]]

EmptySlots(n) == [i \in 1 .. n |-> EmptySlot]
NoQueues == [t \in Threads |-> <<>>]

-------------------------------------------------------------------------------
(* The cache's life: Renderer::SetFrameList makes a new cache, which destroys *)
(* the old one, and gives it the frame list.                                  *)

Idle == [pc |-> "idle"]

\* ImageCache::ImageCache: the images are shared out over the threads.
ThreadImages(t) ==
  IF NumReaderThreads = 0 THEN 0
  ELSE MaxCachedImages \div NumReaderThreads
       + (IF MaxCachedImages % NumReaderThreads > t THEN 1 ELSE 0)

Construct ==
  /\ main.pc = "none"
  /\ opened < MaxMovies
  /\ main' = [pc |-> "fresh"]
  /\ jobs' = NoQueues /\ pending' = NoQueues /\ errors' = NoQueues
  /\ slots' = [t \in Threads |-> EmptySlots(ThreadImages(t))]
  /\ worker' = [t \in Threads |->
                  [pc |-> IF NumReaderThreads = 0 THEN "exited" ELSE "check",
                   job |-> NoJob]]
  /\ requestNumber' = 0
  /\ threshold' = 0
  /\ stop' = FALSE
  /\ opened' = opened + 1
  /\ failed' = {}
  /\ UNCHANGED <<curFrame, movie, calls, answer>>

ManageFrameList ==
  /\ main.pc = "fresh"
  /\ main' = Idle
  /\ jobs' = NoQueues
  /\ threshold' = IF NumReaderThreads > 0 THEN requestNumber ELSE threshold
  /\ slots' = [t \in Threads |-> EmptySlots(MaxCachedImages)]
  /\ movie' = opened
  /\ UNCHANGED <<pending, errors, worker, requestNumber, stop, curFrame, opened,
                 calls, answer, failed>>

\* ~ImageCache up to the joins: ClearJobQueues, then stop() on every thread.
BeginDestroy ==
  /\ main.pc \in {"fresh", "idle"}
  /\ main' = [pc |-> "join"]
  /\ IF NumReaderThreads > 0
       THEN jobs' = NoQueues /\ threshold' = requestNumber /\ stop' = TRUE
       ELSE UNCHANGED <<jobs, threshold, stop>>
  /\ UNCHANGED <<pending, errors, slots, worker, requestNumber, curFrame, movie,
                 opened, calls, history>>

\* mThreads[i]->wait() on every thread, then everything is released.
EndDestroy ==
  /\ main.pc = "join"
  /\ \A t \in Threads : worker[t].pc = "exited"
  /\ main' = [pc |-> "none"]
  /\ pending' = NoQueues /\ errors' = NoQueues
  /\ slots' = [t \in Threads |-> <<>>]
  /\ movie' = 0
  /\ answer' = NoImage
  /\ UNCHANGED <<jobs, worker, requestNumber, threshold, stop, curFrame, opened,
                 calls, failed>>

-------------------------------------------------------------------------------
(* ImageCache::GetImage and PreloadImage, called by the main thread *)

PreloadMax == IF EndFrame - StartFrame > PreloadFrames THEN PreloadFrames
                                                      ELSE EndFrame - StartFrame

\* The request, up to the preload loop.
GetImage(frame, region, lod, preload, dir) ==
  /\ main.pc = "idle"
  /\ calls < MaxCalls
  /\ calls' = calls + 1
  /\ curFrame' = frame
  /\ main' = [pc |-> IF preload /\ PreloadMax > 0 THEN "preload" ELSE "search",
              frame |-> frame, lod |-> lod, want |-> region, region |-> region,
              dir |-> dir, left |-> PreloadMax, at |-> frame, slot |-> 0,
              found |-> EmptySlot]
  /\ UNCHANGED <<queueVars, worker, cacheVars, history>>

\* Mutant of NextPreload: the ends of the range are forgotten.
UnboundedPreload(at, dir) == at + dir

\* frame += playdir on a uint32_t, then the wrap at the ends of the range.
NextPreload(at, dir) ==
  LET stepped == (at + IF dir = 0 THEN 1 ELSE dir) % Word
      capped == IF stepped > EndFrame THEN StartFrame ELSE stepped
  IN IF capped < StartFrame THEN EndFrame ELSE capped

\* PreloadImage's early returns: no workers, no such frame, or the frame is
\* cached, being loaded or queued, with the region.
AlreadyKnown(t, frame, lod, region) ==
  \/ \E i \in SlotsFor(t, frame, lod) :
       IsFirst(i, SlotsFor(t, frame, lod)) /\ region \subseteq slots[t][i].image.region
  \/ JobsCovering(pending[t], frame, lod, region) # {}
  \/ JobsCovering(jobs[t], frame, lod, region) # {}

PreloadImage(frame, lod, region) ==
  LET t == ThreadOf(frame)
      job == [frame |-> frame, lod |-> lod, region |-> region,
              req |-> requestNumber, movie |-> movie]
      q == Append(jobs[t], job)
  IN IF \/ NumReaderThreads = 0
        \/ frame >= NumFrames
        \/ AlreadyKnown(t, frame, lod, region)
     THEN UNCHANGED <<jobs, requestNumber>>
     ELSE /\ requestNumber' = requestNumber + 1
          /\ \E p \in Orders(Len(q)) :
               /\ Sorted(Reordered(q, p))
               /\ jobs' = [jobs EXCEPT ![t] = Reordered(q, p)]

\* One turn of the preload loop; an odd frame of a stereo movie is skipped
\* without being counted.
Preload ==
  /\ main.pc = "preload"
  /\ LET next == NextPreload(main.at, main.dir)
         skip == SkipOddFrames /\ next % 2 = 1
         left == IF skip THEN main.left ELSE main.left - 1
     IN /\ IF skip THEN UNCHANGED <<jobs, requestNumber>>
                   ELSE PreloadImage(next, main.lod, main.want)
        /\ main' = [main EXCEPT !.at = next, !.left = left,
                                !.pc = IF left = 0 THEN "search" ELSE "preload"]
  /\ UNCHANGED <<pending, errors, slots, worker, threshold, stop, curFrame, movie,
                 opened, calls, history>>

\* reused: the slot of the image was filled anew before it was read.
Answered(image, reused) ==
  /\ main' = Idle
  /\ answer' = [frame |-> main.frame, lod |-> main.lod, want |-> main.want,
                image |-> image, reused |-> reused]

Return(image) == Answered(image, FALSE)

\* Mutant of Hit: any region of the frame will do.
HitAnyRegion ==
  /\ main.pc = "search"
  /\ LET t == ThreadOf(main.frame)
     IN \E i \in SlotsFor(t, main.frame, main.lod) :
          main' = [main EXCEPT !.pc = "found", !.slot = i, !.found = slots[t][i]]
  /\ UNCHANGED <<queueVars, worker, cacheVars, curFrame, calls, history>>

\* The cached image covers the region: mark its slot, and let go of the lock.
Hit ==
  /\ main.pc = "search"
  /\ LET t == ThreadOf(main.frame)
         marked(i) == [slots[t][i] EXCEPT !.req = requestNumber]
     IN \E i \in SlotsFor(t, main.frame, main.lod) :
          /\ IsFirst(i, SlotsFor(t, main.frame, main.lod))
          /\ main.region \subseteq slots[t][i].image.region
          /\ slots' = [slots EXCEPT ![t][i] = marked(i)]
          /\ main' = [main EXCEPT !.pc = "found", !.slot = i, !.found = marked(i)]
  /\ UNCHANGED <<jobs, pending, errors, worker, cacheVars, curFrame, calls, history>>

\* The image of that slot is read without the lock.  A worker may have filled
\* the slot since, and in GetCachedImageSlot it first resets the pointer.
ReadFound ==
  /\ main.pc = "found"
  /\ LET slot == slots[ThreadOf(main.frame)][main.slot]
         reused == slot # main.found
     IN \/ Answered(slot.image, reused)
        \/ reused /\ Answered(NoImage, reused)
  /\ UNCHANGED <<queueVars, worker, cacheVars, curFrame, calls, failed>>

\* It does not: slot i is the one found (0 for none), and the region wanted
\* grows to include what is loaded there.
Miss(i) ==
  LET t == ThreadOf(main.frame)
  IN /\ main.pc = "search"
     /\ Found(i, t, main.frame, main.lod)
     /\ i # 0 => ~(main.region \subseteq slots[t][i].image.region)
Grown(i) ==
  IF i = 0 THEN main.region
  ELSE main.region \cup slots[ThreadOf(main.frame)][i].image.region

\* A worker is loading it.
AwaitPending(i) ==
  /\ Miss(i)
  /\ JobsCovering(pending[ThreadOf(main.frame)], main.frame, main.lod, Grown(i)) # {}
  /\ main' = [main EXCEPT !.pc = "wait", !.region = Grown(i)]
  /\ UNCHANGED <<queueVars, worker, cacheVars, curFrame, calls, history>>

\* It is queued: widen the job, renumber it and move it to the head.
Promote(i) ==
  LET t == ThreadOf(main.frame)
  IN /\ Miss(i)
     /\ JobsCovering(pending[t], main.frame, main.lod, Grown(i)) = {}
     /\ \E k \in JobsFor(jobs[t], main.frame, main.lod) :
          /\ IsFirst(k, JobsFor(jobs[t], main.frame, main.lod))
          /\ LET job == [jobs[t][k] EXCEPT !.region = @ \cup Grown(i),
                                           !.req = requestNumber]
             IN jobs' = [jobs EXCEPT ![t] = <<job>> \o RemoveAt(@, k)]
     /\ main' = [main EXCEPT !.pc = "wait", !.region = Grown(i)]
     /\ UNCHANGED <<pending, errors, slots, worker, cacheVars, curFrame, calls, history>>

NotInQueues(t, i) ==
  /\ JobsCovering(pending[t], main.frame, main.lod, Grown(i)) = {}
  /\ JobsFor(jobs[t], main.frame, main.lod) = {}

\* A worker has tried and failed.
TakeError(i) ==
  LET t == ThreadOf(main.frame)
      found == JobsCovering(errors[t], main.frame, main.lod, Grown(i))
  IN /\ Miss(i)
     /\ NotInQueues(t, i)
     /\ \E k \in found : /\ IsFirst(k, found)
                         /\ errors' = [errors EXCEPT ![t] = RemoveAt(@, k)]
     /\ Return(NoImage)
     /\ UNCHANGED <<jobs, pending, slots, worker, cacheVars, curFrame, calls, failed>>

\* Nobody has it: leave the loop, unlocked, to load it here.
LeaveLoop(i) ==
  LET t == ThreadOf(main.frame)
  IN /\ Miss(i)
     /\ NotInQueues(t, i)
     /\ JobsCovering(errors[t], main.frame, main.lod, Grown(i)) = {}
     /\ main' = [main EXCEPT !.pc = "load", !.region = Grown(i), !.slot = i]
     /\ UNCHANGED <<queueVars, worker, cacheVars, curFrame, calls, history>>

Search ==
  \/ Hit
  \/ \E i \in 0 .. MaxCachedImages :
       \/ AwaitPending(i)
       \/ Promote(i)
       \/ TakeError(i)
       \/ LeaveLoop(i)

\* Mutant of Timeout: jobDone is waited for without a time limit.
NoTimeout == FALSE

\* The two seconds of WaitForJobDone are over (a wakeAll is part of WakeMain).
Timeout ==
  /\ main.pc = "wait"
  /\ main' = [main EXCEPT !.pc = "search"]
  /\ UNCHANGED <<queueVars, worker, cacheVars, curFrame, calls, history>>

\* The slot found before the load is used if there was one, whatever it holds
\* by now.
LoadAndStore ==
  LET t == ThreadOf(main.frame)
      image == [frame |-> main.frame, lod |-> main.lod,
                region |-> LoadedRegion(main.region), movie |-> movie]
  IN /\ main.pc = "load"
     /\ IF MaxCachedImages = 0 THEN UNCHANGED slots
        ELSE \E i \in DOMAIN slots[t] :
               /\ IF main.slot # 0 THEN i = main.slot ELSE Victim(i, t)
               /\ slots' = [slots EXCEPT ![t][i] =
                              [req |-> requestNumber, frame |-> main.frame,
                               lod |-> main.lod, image |-> image]]
     /\ Return(image)
     /\ UNCHANGED <<jobs, pending, errors, worker, cacheVars, curFrame, calls, failed>>

LoadFails ==
  /\ main.pc = "load"
  /\ failed' = failed \cup {main.frame}
  /\ Return(NoImage)
  /\ UNCHANGED <<queueVars, worker, cacheVars, curFrame, calls>>

-------------------------------------------------------------------------------
(* CacheThread::run *)

At(t, pc) == NumReaderThreads > 0 /\ worker[t].pc = pc
Goto(t, pc) == worker' = [worker EXCEPT ![t].pc = pc]

\* Nothing to do: wait for jobReady, two seconds at most.
WaitForJobReady(t) ==
  /\ At(t, "check")
  /\ jobs[t] = <<>>
  /\ Goto(t, "waiting")
  /\ UNCHANGED <<queueVars, cacheVars, curFrame, main, calls, history>>

\* Mutant of Awake: the worker goes back to its queue without a look at mStop.
AwakeUnstopped(t) ==
  /\ At(t, "waiting")
  /\ Goto(t, "check")
  /\ UNCHANGED <<queueVars, cacheVars, curFrame, main, calls, history>>

\* Woken or timed out: mStop is looked at here only.
Awake(t) ==
  /\ At(t, "waiting")
  /\ Goto(t, IF stop THEN "exited" ELSE "check")
  /\ UNCHANGED <<queueVars, cacheVars, curFrame, main, calls, history>>

TakeJob(t) ==
  /\ At(t, "check")
  /\ jobs[t] # <<>>
  /\ jobs' = [jobs EXCEPT ![t] = Tail(@)]
  /\ pending' = [pending EXCEPT ![t] = Append(@, Head(jobs[t]))]
  /\ worker' = [worker EXCEPT ![t] = [pc |-> "loading", job |-> Head(jobs[t])]]
  /\ UNCHANGED <<errors, slots, cacheVars, curFrame, main, calls, history>>

\* The load is over and the lock taken: RemoveJobFromQueue(mPendingQueue, job).
FinishJob(t) ==
  /\ At(t, "loading")
  /\ \E i \in DOMAIN pending[t] :
       /\ pending[t][i] = worker[t].job
       /\ pending' = [pending EXCEPT ![t] = RemoveAt(@, i)]

\* Mutant of DiscardJob: the job stays in the pending queue.
DiscardStaysPending(t) ==
  /\ At(t, "loading")
  /\ worker[t].job.req <= threshold
  /\ worker' = [worker EXCEPT ![t] = [pc |-> "check", job |-> NoJob]]
  /\ UNCHANGED <<queueVars, cacheVars, curFrame, main, calls, history>>

\* An invalidated request: the image, if any, is dropped, and nobody is told.
DiscardJob(t) ==
  /\ FinishJob(t)
  /\ worker[t].job.req <= threshold
  /\ worker' = [worker EXCEPT ![t] = [pc |-> "check", job |-> NoJob]]
  /\ UNCHANGED <<jobs, errors, slots, cacheVars, curFrame, main, calls, history>>

JobFails(t) ==
  /\ FinishJob(t)
  /\ worker[t].job.req > threshold
  /\ errors' = [errors EXCEPT ![t] = Append(@, worker[t].job)]
  /\ failed' = failed \cup {worker[t].job.frame}
  /\ worker' = [worker EXCEPT ![t] = [pc |-> "wake", job |-> NoJob]]
  /\ UNCHANGED <<jobs, slots, cacheVars, curFrame, main, calls, answer>>

JobSucceeds(t) ==
  LET job == worker[t].job
  IN /\ FinishJob(t)
     /\ job.req > threshold
     /\ \E i \in DOMAIN slots[t] :
          /\ Victim(i, t)
          /\ slots' = [slots EXCEPT ![t][i] =
                         [req |-> job.req, frame |-> job.frame, lod |-> job.lod,
                          image |-> ImageOf(job)]]
     /\ worker' = [worker EXCEPT ![t] = [pc |-> "wake", job |-> NoJob]]
     /\ UNCHANGED <<jobs, errors, cacheVars, curFrame, main, calls, history>>

\* WakeAllJobDone, after the unlock.
WakeMain(t) ==
  /\ At(t, "wake")
  /\ Goto(t, "check")
  /\ main' = IF main.pc = "wait" /\ ThreadOf(main.frame) = t
             THEN [main EXCEPT !.pc = "search"] ELSE main
  /\ UNCHANGED <<queueVars, cacheVars, curFrame, calls, history>>

-------------------------------------------------------------------------------
(* The specification *)

Init ==
  /\ jobs = NoQueues /\ pending = NoQueues /\ errors = NoQueues
  /\ slots = [t \in Threads |-> <<>>]
  /\ worker = [t \in Threads |-> [pc |-> "exited", job |-> NoJob]]
  /\ requestNumber = 0 /\ threshold = 0 /\ stop = FALSE
  /\ curFrame = 0 /\ movie = 0 /\ opened = 0
  /\ main = [pc |-> "none"]
  /\ calls = 0
  /\ answer = NoImage /\ failed = {}

Request ==
  \E frame \in Frames, region \in Regions, lod \in Lods,
     preload \in PreloadFlags, dir \in Directions :
       GetImage(frame, region, lod, preload, dir)

\* What the main thread goes through once it is inside the cache.
MainStep ==
  \/ ManageFrameList
  \/ EndDestroy
  \/ Preload
  \/ Search
  \/ ReadFound
  \/ Timeout
  \/ LoadAndStore
  \/ LoadFails

WorkerStep(t) ==
  \/ WaitForJobReady(t)
  \/ Awake(t)
  \/ TakeJob(t)
  \/ DiscardJob(t)
  \/ JobFails(t)
  \/ JobSucceeds(t)
  \/ WakeMain(t)

Next ==
  \/ Construct
  \/ BeginDestroy
  \/ Request
  \/ MainStep
  \/ \E t \in Threads : WorkerStep(t)

Spec == Init /\ [][Next]_vars

\* The threads run, and their waits end after two seconds at the latest.
Fairness == WF_vars(MainStep) /\ \A t \in Threads : WF_vars(WorkerStep(t))

FairSpec == Spec /\ Fairness

-------------------------------------------------------------------------------
(* Properties *)

\* The main thread outside GetImage, and in it with its locals.
Outside == [pc : {"none", "fresh", "idle", "join"}]
Inside == [pc : {"preload", "search", "found", "wait", "load"}, frame : FrameIds,
           lod : Lods, want : SUBSET Cells, region : SUBSET Cells,
           dir : Directions, left : Nat, at : FrameIds, slot : Nat,
           found : Slot \cup {EmptySlot}]
InGetImage == main.pc \in {"preload", "search", "found", "wait", "load"}
Answer == [frame : FrameIds, lod : Lods, want : SUBSET Cells,
           image : Image \cup {NoImage}, reused : BOOLEAN]

TypeOK ==
  /\ jobs \in [Threads -> Seq(Job)]
  /\ pending \in [Threads -> Seq(Job)]
  /\ errors \in [Threads -> Seq(Job)]
  /\ slots \in [Threads -> Seq(Slot \cup {EmptySlot})]
  /\ worker \in [Threads -> [pc : {"check", "waiting", "loading", "wake", "exited"},
                             job : Job \cup {NoJob}]]
  /\ requestNumber \in Nat
  /\ threshold \in Nat
  /\ stop \in BOOLEAN
  /\ curFrame \in FrameIds
  /\ movie \in Movies \cup {0}
  /\ opened \in 0 .. MaxMovies
  /\ calls \in 0 .. MaxCalls
  /\ main \in Outside \cup Inside
  /\ answer \in Answer \cup {NoImage}
  /\ failed \subseteq FrameIds

RightImage ==
  IF answer.image = NoImage
    THEN answer.frame \in failed
    ELSE /\ answer.image.frame = answer.frame
         /\ answer.image.lod = answer.lod
         /\ answer.image.movie = movie
         /\ answer.want \subseteq answer.image.region

\* GetImage returns what it was asked for: the frame, at the level of detail, of
\* the movie now open, with all of the region; or nothing, and then a load of
\* that frame has failed (cache.cpp: GetImage, its returns, and "in the cache (in
\* which case we return the cached image)").
AnswerIsRight == answer # NoImage => RightImage

\* One thing only can make the answer wrong: that a worker fills the slot between
\* GetImage's unlock and its read of the image (cache.cpp: GetImage, its first
\* return).  Jobs that are widened, moved, discarded or loaded meanwhile, a slot
\* chosen before a load and a change of movie do not; and even then the image, if
\* any, is of the movie now open.
OnlyReuseMisleads ==
  answer # NoImage =>
    \/ RightImage
    \/ answer.reused /\ (answer.image # NoImage => answer.image.movie = movie)

\* The pending queue is the job its worker is loading and nothing else: the
\* ERROR of RemoveJobFromQueue, "Attempted to remove nonexistent job from
\* queue!", is never reached, and nobody waits for a job that no worker has.
PendingIsInProgress ==
  \A t \in Threads :
    pending[t] = IF worker[t].pc = "loading" THEN <<worker[t].job>> ELSE <<>>

\* GetImage always comes back, whatever the workers are doing: a wait ends with
\* the job, or after two seconds (cache.cpp: the "while (1)" of GetImage).
GetImageReturns == InGetImage ~> main.pc = "idle"

\* The destructor always comes back: stop() wakes nobody, but every worker
\* looks at mStop when its wait times out (cache.cpp: ~ImageCache).
DestroyReturns == main.pc = "join" ~> main.pc = "none"

\* A worker throws an invalidated job away without a wake-up since "the main
\* thread doesn't care" (cache.cpp, CacheThread::run): the main thread is not
\* waiting for that very job.
MainWaitsFor(job) ==
  /\ main.pc = "wait"
  /\ main.frame = job.frame /\ main.lod = job.lod
  /\ main.region \subseteq job.region

DiscardedJobIsNotAwaited ==
  [][\A t \in Threads : worker[t].pc = "loading" /\ worker'[t].pc = "check"
                           => ~MainWaitsFor(worker[t].job)]_vars

\* "most important job is always next in the queue" (cache.cpp, jobComparer):
\* after a job has been added, the first job of the queue is, of all of them,
\* the one whose frame comes soonest.
MostImportantJobIsNext ==
  [][\A t \in Threads :
       Len(jobs'[t]) > Len(jobs[t]) =>
         \A i \in DOMAIN jobs'[t] :
           Distance(jobs'[t][1].frame) <= Distance(jobs'[t][i].frame)]_vars

\* An image is only thrown out of a cache that is full: "the image cache will
\* maintain recently-loaded images" (doc/blockbuster.html), so a loaded slot is
\* not given to another frame while a slot of the same thread is empty.
EvictsOnlyWhenFull ==
  [][\A t \in Threads : \A i \in DOMAIN slots[t] \cap DOMAIN slots'[t] :
       /\ Loaded(slots[t][i]) /\ Loaded(slots'[t][i])
       /\ slots[t][i].frame # slots'[t][i].frame
       => \A j \in DOMAIN slots[t] : Loaded(slots[t][j])]_vars

\* The frames shown next, the current one first.
Upcoming ==
  {StartFrame + ((curFrame - StartFrame + k) % (EndFrame - StartFrame + 1)) :
     k \in 0 .. PreloadMax}

\* While a movie plays, an image loaded ahead of its frame is still there when
\* the frame is shown: no load throws out the frame being shown or one of the
\* frames preloaded after it (cache.cpp: GetCachedImageSlot's "oldest request").
UpcomingSurvives ==
  [][main.pc # "join" =>
       \A t \in Threads : \A i \in DOMAIN slots[t] \cap DOMAIN slots'[t] :
         /\ Loaded(slots[t][i]) /\ Loaded(slots'[t][i])
         /\ slots[t][i].frame # slots'[t][i].frame
         => slots[t][i].frame \notin Upcoming]_vars

===============================================================================
