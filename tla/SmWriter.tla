------------------------------- MODULE SmWriter -------------------------------
(***************************************************************************)
(* Making a streaming movie: img2sm (src/smapp/img2sm.C) and the writing    *)
(* half of the sm library (src/sm/smBase.C, smBase.h).                      *)
(*                                                                         *)
(* The main thread hands one piece of work for each frame to a pool, whose  *)
(* workers read the frames, compress them and put them into a staging        *)
(* buffer, each in its slot, under mBufferMutex.  A write thread swaps the staging buffer,   *)
(* once it is full, with the output buffer, and writes that one out, one     *)
(* file for each resolution.  At the end the main thread flushes what is     *)
(* left and appends the files of the lower resolutions to the movie.         *)
(*                                                                         *)
(* The pool is the one of PtPool.tla, reduced to what it promises: it starts *)
(* the work in order, and pt_pool_destroy(pool, 1) returns when all of it is  *)
(* done.  A file is a function of the offsets that have been written; of a     *)
(* frame at a resolution only the size and the place of its bytes matter.      *)
(* The header and the meta data are not modelled, nor is WRITE's result, which *)
(* the code ignores.                                                            *)
(***************************************************************************)
EXTENDS Integers, FiniteSets, FiniteSetsExt

CONSTANTS
  NumResolutions,  \* mNumResolutions
  Workers,         \* the threads of the pool
  BufferSize,      \* setBufferSize's frames
  HeaderSize,      \* mFrameOffsets[0]: where the first frame goes
  Movies           \* for each frame and resolution, what it takes compressed

Resolutions == 0 .. NumResolutions - 1
Slots == 0 .. BufferSize - 1

ASSUME WriterAssumption ==
  /\ NumResolutions \in Nat \ {0}
  /\ IsFiniteSet(Workers)
  /\ BufferSize \in Nat \ {0}   \* with 0, every buffer is full for ever
  /\ HeaderSize \in Nat
  /\ \A m \in Movies :
       /\ DOMAIN m # {} /\ IsFiniteSet(DOMAIN m)
       /\ DOMAIN m = 0 .. Cardinality(DOMAIN m) - 1
       /\ \A f \in DOMAIN m : m[f] \in [Resolutions -> Nat]

VARIABLES
  size,        \* the movie that is made, one of Movies
  added,       \* frames handed to the pool
  started,     \* frames the pool has started: 0 .. started - 1
  worker,      \* [pc, frame] of each worker
  staging,     \* *mStagingBuffer
  output,      \* *mOutputBuffer
  writer,      \* where the write thread is
  stopSignal,  \* mWriteThreadStopSignal
  main,        \* where the main thread is
  flush,       \* where flushFrames is, whoever has called it
  res,         \* the resolution that is being written, or appended
  unreadable,  \* the frames whose input FillInputBuffer has not been able to use
  error,       \* mErrorState
  aborted,     \* one of the aborts has been reached: it ends the program
  files,       \* the files, the movie being that of resolution 0
  fileBytes,   \* mResFileBytes
  offsets,     \* mFrameOffsets
  lengths      \* mFrameLengths

pool == <<added, started, worker, unreadable>>
buffers == <<staging, output>>
disk == <<files, fileBytes, offsets, lengths>>
control == <<writer, stopSignal, main, flush, res>>
vars == <<size, pool, buffers, disk, control, error, aborted>>

None == -1
Frames == DOMAIN size
NumFrames == Cardinality(Frames)

Hands == [pc : {"idle", "read", "compress", "buffer"}, frame : Frames \cup {None}]
Idle == [pc |-> "idle", frame |-> None]
EmptySlots == [s \in Slots |-> None]

-------------------------------------------------------------------------------
(* OutputBuffer *)

\* Mutant of Full: a buffer is full with one slot to spare.
AlmostFull(buffer) == buffer.num + 1 >= BufferSize

Full(buffer) == buffer.num >= BufferSize

SlotOf(buffer, frame) == frame - buffer.first

\* Mutant of Fits: a frame that is further ahead goes round to the first slots.
FitsAnywhere(buffer, frame) == ~Full(buffer)

Fits(buffer, frame) == ~Full(buffer) /\ SlotOf(buffer, frame) < BufferSize

\* addFrame aborts.
Misplaced(buffer, frame) ==
  \/ frame < buffer.first
  \/ Fits(buffer, frame) /\ buffer.slots[SlotOf(buffer, frame) % BufferSize] # None

Placed(buffer, frame) ==
  [buffer EXCEPT !.slots[SlotOf(buffer, frame) % BufferSize] = frame,
                 !.num = @ + 1]

Emptied(buffer) == [buffer EXCEPT !.slots = EmptySlots, !.num = 0]

-------------------------------------------------------------------------------
(* The pool, and workproc: FillInputBuffer and compressAndBufferFrame *)

\* pt_pool_add_work, with room for twice as much work as there are workers.
AddWork ==
  /\ ~aborted
  /\ main = "add"
  /\ added < NumFrames
  /\ added - started < 2 * Cardinality(Workers)
  /\ added' = added + 1
  /\ UNCHANGED <<size, started, worker, unreadable, buffers, disk, control, error, aborted>>

\* pt_pool_destroy(pool, 1) returns.
PoolDestroyed ==
  /\ ~aborted
  /\ main = "add"
  /\ added = NumFrames
  /\ started = NumFrames
  /\ \A w \in Workers : worker[w] = Idle
  /\ main' = "stop"
  /\ UNCHANGED <<size, pool, buffers, disk, writer, stopSignal, flush, res, error, aborted>>

Start(w) ==
  /\ ~aborted
  /\ worker[w] = Idle
  /\ started < added
  /\ started' = started + 1
  /\ worker' = [worker EXCEPT ![w] = [pc |-> "read", frame |-> started]]
  /\ UNCHANGED <<size, added, unreadable, buffers, disk, control, error, aborted>>

\* An input that is missing, damaged, or of another size or type than the first one is
\* an error; but the worker goes on as if it had read the frame.
FillInputBuffer(w) ==
  /\ ~aborted
  /\ worker[w].pc = "read"
  /\ worker' = [worker EXCEPT ![w].pc = "compress"]
  /\ \/ UNCHANGED <<unreadable, error>>
     \/ unreadable' = unreadable \cup {worker[w].frame} /\ error' = TRUE
  /\ UNCHANGED <<size, added, started, buffers, disk, control, aborted>>

\* The two looks at mErrorState before the frame is buffered, the second one after
\* compressFrame, are one.
Compress(w) ==
  /\ ~aborted
  /\ worker[w].pc = "compress"
  /\ worker' = [worker EXCEPT ![w] = IF error THEN Idle ELSE [@ EXCEPT !.pc = "buffer"]]
  /\ UNCHANGED <<size, added, started, unreadable, buffers, disk, control, error, aborted>>

GiveUp(w) ==
  /\ ~aborted
  /\ worker[w].pc = "buffer"
  /\ error
  /\ worker' = [worker EXCEPT ![w] = Idle]
  /\ UNCHANGED <<size, added, started, unreadable, buffers, disk, control, error, aborted>>

\* addFrame, when it does not return false: then the worker tries again and again.
AddFrame(w) ==
  /\ ~aborted
  /\ worker[w].pc = "buffer"
  /\ ~error
  /\ Fits(staging, worker[w].frame) \/ Misplaced(staging, worker[w].frame)
  /\ aborted' = Misplaced(staging, worker[w].frame)
  /\ staging' = IF aborted' THEN staging ELSE Placed(staging, worker[w].frame)
  /\ worker' = [worker EXCEPT ![w] = Idle]
  /\ UNCHANGED <<size, added, started, unreadable, output, disk, control, error>>

-------------------------------------------------------------------------------
(* flushFrames *)

\* The look at the buffers before the swap.
Enter ==
  IF output.num = 0
    THEN flush' = "swap" /\ UNCHANGED aborted
    ELSE aborted' = TRUE /\ UNCHANGED flush

\* Mutant of NextFirst: the frames are counted from the wrong buffer.
FirstOfStaging == staging.first

\* Mutant of NextFirst: as if the buffer that is flushed had been full.
FirstAfterFull == staging.first + BufferSize

\* The frames that follow those of the staging buffer, which becomes the output.
NextFirst == staging.first + staging.num

Swap ==
  /\ ~aborted
  /\ flush = "swap"
  /\ output' = staging
  /\ staging' = [output EXCEPT !.first = NextFirst]
  /\ flush' = "write"
  /\ res' = 0
  /\ UNCHANGED <<size, pool, disk, writer, stopSignal, main, error, aborted>>

BatchFrames == output.first .. output.first + output.num - 1

\* What each frame takes at this resolution
Bytes(r) == [f \in Frames |-> size[f][r]]
BatchBytes == SumFunctionOnSet(Bytes(res), BatchFrames)

\* mRequiredWriteBufferSize: addFrame counts the first resolution only.
Required == SumFunctionOnSet(Bytes(0), BatchFrames)

\* The preflight check finds a hole, or a resolution takes more room than the
\* first one.  mFrameOffsets is then of no use, as the movie is deleted.
FlushFails ==
  /\ ~aborted
  /\ flush = "write"
  /\ \/ \E s \in 0 .. output.num - 1 : output.slots[s] = None
     \/ res < NumResolutions /\ BatchBytes > Required
  /\ error' = TRUE
  /\ flush' = "off"
  /\ UNCHANGED <<size, pool, buffers, disk, writer, stopSignal, main, res, aborted>>

\* Where the first frame of a resolution goes in the file of that resolution
FileStart(r) == IF r = 0 THEN HeaderSize ELSE 0

\* Mutant of FirstFileOffset: every batch is written to the start of its file.
StartOfFile == FileStart(res)

\* After the last frame of the batch before.
FirstFileOffset ==
  IF output.first = 0 THEN FileStart(res)
  ELSE offsets[res][output.first - 1] + lengths[res][output.first - 1]

\* Where the frame in this slot of the buffer goes.
OffsetIn(slot) ==
  FirstFileOffset
    + SumFunctionOnSet(Bytes(res), output.first .. output.first + slot - 1)

\* The bytes at each offset: of which frame and which resolution, and which.
FrameAt(offset, frame, r) ==
  [i \in offset .. offset + size[frame][r] - 1 |-> <<frame, r, i - offset>>]

Over(old, new) ==
  [i \in DOMAIN old \cup DOMAIN new |-> IF i \in DOMAIN new THEN new[i] ELSE old[i]]

\* The slots follow each other in the write buffer.
BatchBuffer ==
  LET at(slot) == FrameAt(OffsetIn(slot), output.slots[slot], res)
      bytes(i) == CHOOSE slot \in 0 .. output.num - 1 : i \in DOMAIN at(slot)
  IN [i \in FirstFileOffset .. FirstFileOffset + BatchBytes - 1 |-> at(bytes(i))[i]]

WriteResolution ==
  /\ ~aborted
  /\ flush = "write"
  /\ res < NumResolutions
  /\ \A s \in 0 .. output.num - 1 : output.slots[s] # None
  /\ BatchBytes <= Required
  /\ offsets' = [offsets EXCEPT ![res] =
       [f \in Frames |-> IF f \in BatchFrames THEN OffsetIn(f - output.first) ELSE @[f]]]
  /\ lengths' = [lengths EXCEPT ![res] =
       [f \in Frames |-> IF f \in BatchFrames THEN size[f][res] ELSE @[f]]]
  /\ files' = [files EXCEPT ![res] = Over(@, BatchBuffer)]
  /\ fileBytes' = [fileBytes EXCEPT ![res] = @ + BatchBytes]
  /\ res' = res + 1
  /\ UNCHANGED <<size, pool, buffers, writer, stopSignal, main, flush, error, aborted>>

EmptyOutput ==
  /\ ~aborted
  /\ flush = "write"
  /\ res = NumResolutions
  /\ output' = Emptied(output)
  /\ flush' = "off"
  /\ UNCHANGED <<size, pool, staging, disk, writer, stopSignal, main, res, error, aborted>>

FlushStep == Swap \/ FlushFails \/ WriteResolution \/ EmptyOutput

-------------------------------------------------------------------------------
(* writeThread *)

WriterLoop ==
  /\ ~aborted
  /\ writer = "loop"
  /\ flush = "off"
  /\ writer' = IF error \/ stopSignal THEN "exited" ELSE "poll"
  /\ UNCHANGED <<size, pool, buffers, disk, stopSignal, main, flush, res, error, aborted>>

\* flushFrames(false): nothing to do before the staging buffer is full, nor once a
\* worker has found an error.
Poll ==
  /\ ~aborted
  /\ writer = "poll"
  /\ writer' = "loop"
  /\ IF Full(staging) /\ ~error THEN Enter ELSE UNCHANGED <<flush, aborted>>
  /\ UNCHANGED <<size, pool, buffers, disk, stopSignal, main, res, error>>

-------------------------------------------------------------------------------
(* The end of img2sm's main *)

StopWriteThread ==
  /\ ~aborted
  /\ main = "stop"
  /\ stopSignal' = TRUE
  /\ main' = "join"
  /\ UNCHANGED <<size, pool, buffers, disk, writer, flush, res, error, aborted>>

\* flushFrames(true), after the join.
FlushTheRest ==
  /\ ~aborted
  /\ main = "join"
  /\ writer = "exited"
  /\ main' = "flushed"
  /\ IF error THEN UNCHANGED <<flush, aborted>> ELSE Enter
  /\ UNCHANGED <<size, pool, buffers, disk, writer, stopSignal, res, error>>

CloseFile ==
  /\ ~aborted
  /\ main = "flushed"
  /\ flush = "off"
  /\ main' = IF error THEN "deleted" ELSE "append"
  /\ res' = 1
  /\ UNCHANGED <<size, pool, buffers, disk, writer, stopSignal, flush, error, aborted>>

FileLength(file) == IF DOMAIN file = {} THEN 0 ELSE 1 + Max(DOMAIN file)

\* Mutant of Moved: the offsets stay those of the resolution's own file.
Unmoved(offset) == offset

\* combineResolutionFiles moves the offsets to the end of the movie.
Moved(offset) == offset + FileLength(files[0])

AppendResolution ==
  /\ ~aborted
  /\ main = "append"
  /\ res < NumResolutions
  /\ FileLength(files[res]) = fileBytes[res]
  /\ offsets' = [offsets EXCEPT ![res] = [f \in Frames |-> Moved(@[f])]]
  /\ LET end == FileLength(files[0])
         moved == [i \in {end + j : j \in DOMAIN files[res]} |-> files[res][i - end]]
     IN files' = [files EXCEPT ![0] = Over(@, moved)]
  /\ res' = res + 1
  /\ UNCHANGED <<size, pool, buffers, fileBytes, lengths, writer, stopSignal, main,
                 flush, error, aborted>>

\* The file of a resolution has gone, or is not as long as it should be.
AppendFails ==
  /\ ~aborted
  /\ main = "append"
  /\ res < NumResolutions
  /\ error' = TRUE
  /\ main' = "deleted"
  /\ UNCHANGED <<size, pool, buffers, disk, writer, stopSignal, flush, res, aborted>>

MovieDone ==
  /\ ~aborted
  /\ main = "append"
  /\ res = NumResolutions
  /\ main' = "done"
  /\ UNCHANGED <<size, pool, buffers, disk, writer, stopSignal, flush, res, error, aborted>>

-------------------------------------------------------------------------------
(* The specification *)

Init ==
  /\ size \in Movies
  /\ added = 0 /\ started = 0
  /\ worker = [w \in Workers |-> Idle]
  /\ staging = [first |-> 0, slots |-> EmptySlots, num |-> 0]
  /\ output = [first |-> 0, slots |-> EmptySlots, num |-> 0]
  /\ writer = "loop" /\ stopSignal = FALSE
  /\ main = "add" /\ flush = "off" /\ res = 0
  /\ unreadable = {} /\ error = FALSE /\ aborted = FALSE
  /\ files = [r \in Resolutions |-> <<>>]
  /\ fileBytes = [r \in Resolutions |-> 0]
  /\ offsets = [r \in Resolutions |-> [f \in Frames |-> 0]]
  /\ lengths = [r \in Resolutions |-> [f \in Frames |-> 0]]

WorkerStep(w) ==
  \/ Start(w)
  \/ FillInputBuffer(w)
  \/ Compress(w)
  \/ GiveUp(w)
  \/ AddFrame(w)

\* The write thread and, when that is gone, the main thread flush.
FlusherStep == FlushStep \/ WriterLoop \/ Poll

MainStep ==
  \/ AddWork
  \/ PoolDestroyed
  \/ StopWriteThread
  \/ FlushTheRest
  \/ CloseFile
  \/ AppendResolution
  \/ AppendFails
  \/ MovieDone

Next ==
  \/ \E w \in Workers : WorkerStep(w)
  \/ FlusherStep
  \/ MainStep

Spec == Init /\ [][Next]_vars

\* Every thread runs.
Fairness ==
  /\ \A w \in Workers : WF_vars(WorkerStep(w))
  /\ WF_vars(FlusherStep)
  /\ WF_vars(MainStep)

FairSpec == Spec /\ Fairness

-------------------------------------------------------------------------------
(* Properties *)

Buffers ==
  [first : 0 .. NumFrames, slots : [Slots -> Frames \cup {None}], num : 0 .. BufferSize]

\* Every variable has its type: in particular a buffer never counts more frames than
\* it has slots, nor starts after the last frame (OutputBuffer).
TypeOK ==
  /\ size \in Movies
  /\ added \in 0 .. NumFrames /\ started \in 0 .. added
  /\ worker \in [Workers -> Hands] /\ unreadable \subseteq Frames
  /\ staging \in Buffers /\ output \in Buffers
  /\ writer \in {"loop", "poll", "exited"}
  /\ stopSignal \in BOOLEAN
  /\ main \in {"add", "stop", "join", "flushed", "append", "done", "deleted"}
  /\ flush \in {"off", "swap", "write"}
  /\ res \in 0 .. NumResolutions
  /\ error \in BOOLEAN /\ aborted \in BOOLEAN
  /\ \A r \in Resolutions :
       /\ \A i \in DOMAIN files[r] : i \in Nat
       /\ fileBytes[r] \in Nat
       /\ offsets[r] \in [Frames -> Nat] /\ lengths[r] \in [Frames -> Nat]

\* None of the "Bad thing" aborts is ever reached: however the workers overtake each
\* other, no frame comes before the staging buffer's first one or finds its slot taken
\* (addFrame), and the output buffer has always been emptied by the time the staging
\* buffer is swapped with it (flushFrames).
NothingAborts == ~aborted

\* The compression never spoils a movie: when every input that has been read is good
\* and no file operation fails, the only error is the buffer overflow of a batch that is
\* larger at a lower resolution (flushFrames).  In particular no flush ever meets a slot
\* without a frame.
OnlyOversizeFails ==
  error /\ unreadable = {} /\ main # "deleted" =>
    \E f \in Frames, r \in Resolutions : size[f][r] > size[f][0]

\* The file of a resolution has no gap and is as long as mResFileBytes says, so that
\* the check in combineResolutionFiles fails only when writing has: it relates what
\* flushFrames counts to where it writes, batch after batch.
FilesAreContiguous ==
  main # "append" /\ main # "done" /\ main # "deleted" =>
    \A r \in Resolutions :
      DOMAIN files[r] = FileStart(r) .. FileStart(r) + fileBytes[r] - 1

\* A movie that img2sm reports as made reads back: the input of every frame was good,
\* although the worker of a bad one goes on, and at the offset in the header every frame
\* has, at every resolution, just the bytes the frame was compressed to.
MovieReadsBack ==
  main = "done" =>
    /\ unreadable = {}
    /\ \A f \in Frames, r \in Resolutions :
         /\ lengths[r][f] = size[f][r]
         /\ \A i \in 0 .. size[f][r] - 1 :
              /\ offsets[r][f] + i \in DOMAIN files[0]
              /\ files[0][offsets[r][f] + i] = <<f, r, i>>

\* img2sm comes to an end: no worker waits for ever for room in the staging buffer,
\* the write thread stops, and a movie is made or deleted (compressAndBufferFrame's
\* loop, writeThread, main).
MovieIsMade == <>(main \in {"done", "deleted"})

===============================================================================
