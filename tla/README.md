# TLA+ models of Blockbuster

Blockbuster plays movies whose frames are larger than a screen, on one display or
on a wall of them, and comes with the library (`sm`) and the tools (`img2sm` and
others) that make such movies.  This directory holds TLA+ models of the parts of it
in which several threads or processes meet, the TLC configurations that check them,
and theorems about them that TLAPS proves.  Paths below are relative to
`src/blockbuster/src/`, except those that begin with `doc/`, which is
`src/blockbuster/doc/`.

`tlc -config X.cfg M` checks a module, `tlapm M.tla` its proofs.  `PROJECT.json`
lists the runs, the definitions with the lines of code they model (`map`), for each
property a mutated definition that violates it (`mutants`), the hazards of the code
and the places where code and documentation disagree (`findings`).

## 1. Inventory

| Component | Source | State it keeps | Operations | Model |
|---|---|---|---|---|
| Image cache | `blockbuster/cache.cpp`, `cache.h` | for each cache thread: job, pending and error queue, image slots; request number, threshold, stop flags | construct, `ManageFrameList`, `PreloadHint`, `GetImage`, `PreloadImage`, worker loop, destroy | `ImageCache` |
| Thread pool | `pt/pt_pool.c` | bounded queue, closed and shutdown flags, threads | init, `add_work`, `destroy`, worker loop | `PtPool` |
| Gate | `pt/pt_gate.c` | state, number of threads inside | init, `sync`, destroy | `PtGate`, `PtBarrier` |
| Readers/writer lock | `pt/pt_rw.c` | four counters, shutdown flag | init, read and write lock and unlock, destroy | `PtRw` |
| One-shot condition | `pt/pt_oneshot.c` | number of waiters | wait, broadcast | no: unused by every program |
| Movie writer | `sm/smBase.C`, `smBase.h`, `smapp/img2sm.C` | two output buffers, write thread, files for each resolution, offsets and lengths, error state | compress and buffer a frame, flush, start and stop the write thread, combine, close | `SmWriter` |
| Movie reader | `sm/smBase.C` | header, offsets, a buffer for each thread | read a frame or the tiles of a region | no |
| Codecs | `sm/sm{GZ,LZO,RLE,Raw,JPG,XZ}.C` | none | compress, decompress | no |
| Distributed file cache | `sm/smdfc/smserv.c`, `smdfc.c` | on each node of an MPI job: a part of the file, the list of commands under way, a handler thread for each connection, the command it serves for another node | open, close, read, write, stat, kill; handler threads, main loop | `Dfc` |
| Playback | `blockbuster/Renderer.cpp`, `movie.cpp` | current, start and end frame, direction, repeats, ping pong, cue flags, movies still to open | set and advance the frame, event loop | `Playback`, `CuePlay` |
| Sidecar | `sidecar/sidecar.cpp`, `blockbuster/SidecarServer.cpp`, `MovieCues.h` | the socket, the list of cues, the rounds of cues that are being executed, flags | execute, loop and stop cues, buttons, connect and disconnect | `CuePlay` |
| DMX master and slaves | `blockbuster/dmxRenderer.{cpp,h}`, `slave.cpp` | active and idle slaves, swap numbers, message queues | connect, swap, heartbeat, disconnect | no, see section 6 |
| Frame loading | `blockbuster/frames.cpp`, `*Frame.cpp`, `convert.cpp` | none that lasts | load and convert an image | its interface, in `ImageCache` |
| Renderers, GUI, settings, options | `blockbuster/` | widgets, windows, preferences | | no |
| Other tools | `smapp/` | | | no |
| Third-party code | CImg, boost, lzo, zlib, libpng, ... | | | no |

How they interact.  The main loop of the player (`DisplayLoop`, `movie.cpp`) takes
events from the user, the sidecar or a list of cues, lets the renderer advance the
frame, and renders it; rendering asks the image cache for the frame.  The cache calls
the frame loaders, from its own threads or from the main one; for a streaming movie
the loader is the reader of `sm`, with one file descriptor for each thread.  With DMX
the master sends the frame number to the slaves, each with a renderer and a cache of
its own, and they answer when they have swapped their buffers.  Sidecar and the player exchange events over a pair of
sockets; to execute a cue sidecar sends a script of events and runs an event loop of its own, nested in the
handler of the button, until the player has reported the end of the cue.  On the other side,
`img2sm` feeds the images to a pool of threads, which compress them into the buffers
of an `smBase` object, whose write thread puts them into files.  The distributed cache stands by itself: an
application calls `smdfc_read` and the like in place of the routines of the system, and
the nodes of the server exchange parts of the file through MPI.

What is hard about it, and what makes each component correct:

* *Cache.*  The player and the cache threads share queues under one mutex per
  thread, and let go of it around each load, each wait and each `wakeAll`.  Jobs move
  between three queues meanwhile; slots are reused; the movie may be replaced.  Correct:
  the image that comes back is the one that was asked for (`GetImage` reads it after it has let
  go of the mutex), `GetImage` and the destructor
  come back, no job is lost or pending for ever, what was preloaded is still there when
  it is shown.
* *Pool.*  Signals are sent only when the queue was empty, or full; `destroy` first closes
  the queue and only later shuts the workers down.  Correct: no sleeper misses his wake-up, work is
  started in order and, with `finish`, all done; `destroy` returns.
* *Gate.*  The next round arrives while the last one leaves.  Correct: it is a barrier,
  and nobody is left asleep.
* *Lock.*  Correct: exclusion, priority of the writers, no lost wake-up, destruction
  that waits for everybody and returns.
* *Writer.*  Frames are compressed out of order and must be written in order, at several
  resolutions, through two buffers of limited size; any worker may find a bad input while a
  batch is being written, and goes on.  Correct: nothing deadlocks, no
  frame is lost or misplaced, the movie reads back.
* *Playback.*  Some twenty kinds of events change the frame, the range, the direction and the
  repeat count, in any order, and a movie may replace another.  Correct: the frame that is
  rendered lies in the range that was set (whether it exists depends on the range: section 4).
* *Cues.*  Two event loops with a socket each way, nested loops, flags shared by all the
  rounds on the stack, a user who interferes on both sides, connections that are lost.
  Correct: a completion is that of the cue that is waited for; a cue plays to its end; a
  round that was stopped sends nothing more; the wait ends.
* *Distributed cache.*  Handlers of several connections, a loop for each node that neither blocks
  nor may stop, messages matched by order and tag only, parts of a read that are collected
  while others write.  Correct: every byte has one place, a read finds what was written,
  data meet their command, every command is done, a kill reaches every node.

`hazards` in `PROJECT.json` has the list in full, each at its line.

## 2. Plan

1. `ImageCache` with its proofs: the heart of the player.  *Done.*
2. `PtPool`, `PtGate` (which implements `PtBarrier`), `PtRw` with their proofs.  *Done.*
3. `SmWriter`, for which `PtPool`'s theorem of order is an assumption, with its proofs,
   those about its files included.  *Done.*
4. `Playback`, the position in the movie, and `CuePlay`, which composes it with the event
   loop of the player, the sockets and sidecar; with proofs.  *Done.*
5. `Dfc` with its proofs, and `Sums`, lemmas that they and those of `SmWriter` need.  *Done.*

A model of the swaps of DMX was planned and given up: see section 6.  What could still be done, in
this order: the turn-taking of `ifl2sm` through an array of gates, as a user of `PtGate`; the
tiles a region overlaps (`computeTileOverlap`) and the lock of a widget against
the echo of its own change (`Lockables.h`), as pure functions; runs for the six disagreements that have none
(section 4); and a proof that `UpcomingSurvives`
holds of a cache with room for twice the preloaded frames and the current one.

## 3. Modules

In every module an action is what one thread does between taking a mutex and letting
go of it.  Waiting on a condition variable ends an action; the thread then has a
program counter that says on which condition it sleeps, a broadcast changes the program
counters of all who sleep there, and spurious wake-ups are an action.  A definition introduced by the
comment "Mutant of ..." is a plausible bug, used to see that a property can fail; it is
not part of the model.

### ImageCache (with MCImageCache, ImageCacheProofs)

| Model | Code |
|---|---|
| `jobs`, `pending`, `errors`, `slots` | `mJobQueue`, `mPendingQueue`, `mErrorQueue`, `mCachedImages` of each `CacheThread` |
| `worker[t]` | where `CacheThread::run` is, and its job |
| `main` | where the player's thread is in the cache, with the locals of `GetImage` |
| `requestNumber`, `threshold`, `stop`, `curFrame` | `mRequestNumber`, `mValidRequestThreshold`, `mStop`, `gCurrentFrame` |
| `Construct`, `ManageFrameList`, `BeginDestroy`, `EndDestroy` | the constructor with `SetFrameList`, `ManageFrameList`, the destructor before and after the last thread has ended |
| `GetImage`, `Preload`, `Search`, `Timeout`, `LoadAndStore`, `LoadFails` | `PreloadHint` and the entry of `GetImage`; one `PreloadImage` of its loop; one turn of its `while (1)` (`Hit`, `Grown`, `AwaitPending`, `Promote`, `TakeError`, `LeaveLoop`), with `ReadFound` for the read of the image, which is after the unlock; the end of its wait after two seconds; the load by the main thread |
| `WaitForJobReady`, `Awake`, `TakeJob`, `DiscardJob`, `JobFails`, `JobSucceeds`, `WakeMain` | the steps of `CacheThread::run` |

A region is a set of cells, with inclusion for `RectContainsRect` and union for
`RectUnionRect`.  An image is a frame, a level of detail, a region and the movie it
comes from; pixels are left out.  The loader returns the region asked for, or the whole
frame, or fails (`WholeFrame`, `JobFails`, `LoadFails`).  `uint32_t` frame numbers are
taken modulo `Word`.  `answer`, `failed` and `main.found`, the slot as it was when it was found, are history.  Between two calls the player may
destroy the cache or load another movie, as it does from the same thread.

### PtPool (with PtPoolProofs)

The queue is a sequence.  `AddWork`, `Refuse`, `WaitNotFull`, `Enqueue` are
`pt_pool_add_work`; `Close`, `Recheck`, `BroadcastNotEmpty`, `BroadcastNotFull`, `Join` are
`pt_pool_destroy`; `WaitNotEmpty`, `Exit`, `Dequeue`, `Finish` are the worker's loop.
`submitted`, `accepted`, `started`, `done` are history.  After the pool has been freed no
client calls it again, but one that is inside may still be there.

### PtGate, PtBarrier (with PtGateProofs)

`pt_gate_sync` is `Block` (others are leaving), `Wait`, `Open` (the last to arrive),
`SleepAgain` and `Leave`.  `PtBarrier` is the promise of `pt_gate_intro.3`: threads gather
until they make a group, the group passes, and nobody of the next group enters before
the last of this one is out.  `PtGate` implements it with the threads inside the gate as
those that have arrived, or that are leaving, according to `state`.

### PtRw (with PtRwProofs)

`ReadLock`, `ReadFails`, `ReadAgain`, `ReadGranted`, `ReadUnlock`, the same for writing, and
`Destroy`.  The counters are variables of their own beside the program counters, so that
the relation between them is a property and not a definition.

### SmWriter (with MCSmWriter, SmWriterProofs)

| Model | Code |
|---|---|
| `AddWork`, `PoolDestroyed`, `StopWriteThread`, `FlushTheRest`, `CloseFile`, `AppendResolution`, `AppendFails`, `MovieDone` | the end of `img2sm`'s `main`, `closeFile`, `combineResolutionFiles` |
| `Start`, `FillInputBuffer`, `Compress`, `AddFrame`, `GiveUp` | `workproc`, the reading of the input, `compressAndBufferFrame`, `OutputBuffer::addFrame` |
| `WriterLoop`, `Poll` | `writeThread` and the tests at the head of `flushFrames` |
| `Swap`, `WriteResolution`, `FlushFails`, `EmptyOutput` | `flushFrames`, with one step for each resolution |

`AddFrame` sets `aborted` where the code calls `abort()`.  The pool is reduced to what
`PtPool` shows of it: work is started in order, and `pt_pool_destroy(pool, 1)` returns when
all is done.  A file is a function from offsets to bytes, a byte being known by its frame,
its resolution and its place in them.  The sizes of the frames are chosen at the start; whether
an input can be used is chosen when it is read.  `unreadable`, the frames whose input could not be, is
history: of all the errors of `FillInputBuffer` only that they set `mErrorState` matters, since `workproc`
goes on as if there had been none.

### Playback, CuePlay (with MCCuePlay, CuePlayProofs)

`Playback` has no variables: a position is a record (frame, range, direction, repeats, ping
pong), and each routine of `Renderer` that changes it an operator.  `CuePlay` uses it.

| Model | Code |
|---|---|
| `position`, `renderer` | `mCurrentFrame`, `mStartFrame`, `mEndFrame`, `playDirection` and the rest; that a movie has been opened |
| `events`, `script` | the queue of `DisplayLoop`, the movies of the command line |
| `cuePlaying`, `cueEndFrame` | the variables of these names in `DisplayLoop` |
| `toPlayer`, `toSidecar`, `connected` | the two directions of the socket, with what either side has read of it already; `mState` |
| `rounds` | the calls of `on_executeCueButton_clicked` or `on_loopCuesButton_clicked` on sidecar's stack, of which the last one runs and the others wait in the event loop of `executeCue` |
| `running`, `mStopLooping`, `mCueExecuting` | the text of the button, and the flags |
| `Collect`; `HandleEvent` with `OpenFile`, `OpenFails`, `CueBegin`, `CueEnd`, `Quit`, `Reposition`, and `Finish` | a turn of the outer loop of `DisplayLoop`; one of the inner loop, the switch over the events and what follows it |
| `ReadMissingFrame` | the read of the frame of the turn, when there is no such frame |
| `LoseSidecar`, `LosePlayer` | `SidecarServer::socketError`, `SideCar::disconnected` |
| `ClickExecute`, `ClickStop`, `StopButton`, `OtherButton`, `Disconnect` | the buttons |
| `ExecuteCue`, `WaitEnds`, `LoopAgain`, `EndRound`, `Receive` | `executeCue` up to its wait and after it, the loops over the cues, `checkBlockbusterData` |

`clicks`, `seen`, `touched`, `bare`, `nested` and the fields `stopped` and `halted` of a round are
history.  `seen` counts how often the last frame of the cue has been shown since its movie was opened, up
to `MaxSeen`; `touched` says that something else than the script of the cue has changed what plays: the
user, or a movie of the command line that was opened during the cue.  The end of a cue is tested against the
`cueEndFrame` that the same turn of the loop may just have set (`CueIsOver`).

### Dfc (with MCDfc, DfcProofs)

| Model | Code |
|---|---|
| `ReqSize`, `ReqOffset`, `PlaceInBuffer`, `Packed`, `Unpacked`, `ReadHere`, `WriteHere` | `get_local_req_size`, `get_local_req_offset`, `get_node_buffer_offset`, `pack_buffer`, `unpack_buffer`, `handle_command` |
| `client`, `up`, `down` | the application and its socket |
| `handler`, `thecmd`, `cmdlist` | a `handle_proc` thread, its command with its buffer, status and requests, the list of the node |
| `isdying`, `running`, `file_size`, `memory`, `server` | a node: the flag, whether it is in its loop, its file size, its part of the file, and `cmd_status` |
| `cmds`, `data` | what is under way through MPI, by source, destination and (data) tag |
| `Open`, `Command`, `Close`, `Answered` | `smdfc.c` |
| `posted` | the receives for data that wait, by source and tag, in the order in which MPI serves them |
| `TakeOpen`, `TakeStat`, `Post`, `TakeOut`, `Answer`, `Lengthen`, `Dies` | `handle_proc`; the last steps of a command are the removal from the list under the lock, then, without it, the look at the file size with the answer, and the new file size |
| `Start`, `Progress` | `handle_cmdlist`, for a new command and for one under way |
| `TakeCommand`, `StoreData`, `ReplySent`, `Leave` | the loop of `main` |

A byte is known by the write it comes from and its place in the file.  A send may be over as
soon as it has begun (MPI has kept a copy), or not before the message was received:
`Progress` tests any set of requests.  `unstored` and `allowed` are history: what a write has still to
store, and what each byte of a read may be.

### Sums

Models nothing: lemmas on `SumFunctionOnSet` of the community modules, for the sizes of frames
in `SmWriter` and the parts of a request in `Dfc`.  As induction theorems with an operator for a
parameter are out of the prover's reach, `NatInduct` is the principle for a set of numbers,
from the least number that is not in it.

## 4. Runs

| Run | Instance | What it shows |
|---|---|---|
| `cache_threads` | 2 threads, a slot each, 3 frames, 1 preloaded, backward; a half of the frame and all of it; 2 movies, 3 calls | exact pending queues; only a slot that is filled anew between the unlock and the read of its image makes an answer wrong; `GetImage` and the destructor return |
| `cache_play` | 1 thread, 4 images, 8 frames, 1 preloaded, forward, 2 movies, 6 calls in playing order | right answers, as there is room enough for the slot that was found to be among the latest; the oldest request is evicted, never an empty slot's neighbour, and never a frame about to be shown |
| `cache_discard` | 1 thread, 2 images | a disagreement, see below |
| `pool` | 2 workers, 2 clients, 4 pieces of work, queue of 2, both modes and both kinds of destruction | no lost wake-up, first in first out, `destroy` finishes and returns, blocked clients get away |
| `gate` | 5 threads, gate of 3 | `PtGate` implements `PtBarrier`; nobody is left behind; no deadlock |
| `rw` | 4 threads and the destroyer | exclusion, exact counters, writers first, no lost wake-up before the destruction, no use after it |
| `rw_destroy` | 3 threads and the destroyer | a disagreement, see below |
| `cues` | movies of 4 and 3 frames and one that cannot be opened, 4 cues, 3 actions of the user, who may execute, loop, stop, pause, reverse, go to the end, set a range longer than the movie, open, quit, disconnect | the frame stays in its range; completions match waits; cues play out; a stopped round sends nothing; no wait is for ever |
| `dfc` | 2 nodes with a connection each, a file of 6 bytes in blocks of 2, of which 4 come from disk, 5 commands | reads are current, data meet their command, every command is done, a kill reaches every node |
| `dfc_aligned`, `dfc_tags` | the same file, two and four commands | two disagreements, see below |
| `smwriter` | 3 workers, movies of 4 and 5 frames, 2 resolutions, buffers of 2; any inputs may be bad | no abort, the movie reads back, only a bad input or an oversized batch is an error, `img2sm` ends |

Why these bounds.  In `cache_threads` three calls are enough for a job to be queued by one
request, pending during the second and awaited by the third; with two threads and three
frames one thread has two frames for its one slot (`ClearImages` gives each thread all of
`mMaxCachedImages`), so that queues hold more than one job and a slot is
reused, also between the unlock of `GetImage` and its read, and going backward from frame 0 reaches the wrap-around.  Two overlapping regions
make an image that is there but too small.  `cache_play` needs a movie longer than the
cache and a request number that goes far beyond the number of slots.  In `pool` two
pieces of work fill the queue and two more find it full, from two clients, one of which
may destroy it.  Five threads at a gate of three leave two outside while three leave.
Four threads are two that wait in the same way and two others.  Movies of four and five
frames make the last buffer full or not when the write thread is stopped; three workers
can hold a frame of the next buffer while one of this one is missing.
Three actions are a round, a second one or a stop, and an interference; the four
cues open a movie and repeat, go back and forth, play backward, and stand on a frame of
another movie.  In `dfc` one connection reads and writes 4 bytes from the middle of a
block on, over the blocks of both nodes, and the other writes one byte inside that range,
so that a node serves the other one's command while its own is under way.

Fairness.  Every thread that can run does: weak fairness of each thread's steps, no
more.  In `PtPool` every routine returns; in `PtRw` a lock that was granted is given
back, as the manual demands; in `PtGate` the threads keep coming back, without which a
gate rightly stays shut (`GateOpens` says nothing else); in `ImageCache` a wait of the
player or of a thread ends with its timeout, which `WaitForJobDone` and `WaitForJobReady` have, and a
load ends.  In `CuePlay` the player's
loop and sidecar's event loop go on; in `Dfc` the server goes on (one condition for
all of it is enough, as commands are bounded), and a send need be over only when its
message has been received.
Nobody is forced to call anything, except `img2sm`'s main thread: the user and the applications need
do nothing.  Only weak
fairness is used, as nothing in POSIX makes mutexes strongly fair.

Deadlock is checked for the gate, whose threads never stop.  In the other runs the system
may stop: all calls made, the cache or the pool or the lock destroyed, the movie made, nothing asked of
player or file server.

### Where code and documentation disagree

* `cache_discard`: a worker discards jobs of the first request, whose number is 0, since
  the threshold is 0 as well and the test is `<=`; the player may be waiting for one.
  `cache.h` says that the threshold of 0 ignores no request.
* `dfc_aligned`: a request of several blocks that begins with a whole block loses this block
  (`get_local_req_size`, line 439, tests `off0 > 0`; that these are exactly the requests counted wrong is
  the theorem `CountedRight`).
* `dfc_tags`: data are tagged with the number of a socket, and two nodes may have the same one.
* `rw_destroy`: an access refused because of the destruction wakes nobody, so that
  `pt_rw_destroy` may sleep for ever.

Six more have no run of their own; each is a behaviour of the models that TLC finds in seconds with the
property and the instance named.

* `AnswerIsRight` in the instance of `cache_threads`: `GetImage` marks the slot it has found, unlocks
  (`cache.cpp:688`) and only then reads the slot's image (line 691).  A cache thread may have given the
  slot to another frame meanwhile, whose image is returned.  `OnlyReuseMisleads` says that nothing else goes wrong.
* `MostImportantJobIsNext` with two frames preloaded: `jobComparer` (`cache.cpp:75`) puts the most
  distant frame at the head of the queue, from which the comment above it says that the "most important job is
  always next in the queue" (line 68).  Frame 0 is asked for, frame 1 is queued, and when frame 2 is queued and the
  queue sorted, frame 2 is at its head.
* `EvictsOnlyWhenFull` without threads: `PreloadImage` returns (lines 875-877) before it counts the request
  (line 924), and the cache keeps one image, where the manual says that it keeps the recent ones
  (`doc/blockbuster.html:457`).
* `FrameExists` in the instance of `cues`: `SetStartEndFrames` does not clip the end of a range to the movie
  (`Renderer.cpp:770-793`), and the player goes on to frames that do not exist, where a comment says that "the right
  thing" is done (`movie.cpp:589-590`).  `FrameInRange` says what holds.
* `ReadIsCurrent` with a read of bytes 1 to 3 through node 1: a node reads and writes its own part at the
  beginning of the buffer (`smserv.c:382`), where another's part is if that node has a lower rank.
* `SizeIsCurrent` with two connections at one node of an empty file, that write its first and its second
  byte: the file size is compared and set without a lock (`smserv.c:705-708`), and of two writes that lengthen
  the file the smaller size may stay.

### What else the checks taught

* *Cache.*  `UpcomingSurvives` holds on the first pass only: in a loop the frames at the start of
  the movie have old request numbers and go first.  And it needs room for twice the preloaded
  frames and the current one, where `main.cpp` is content when the cache is larger than the
  number of frames to preload.
* *Striping.*  Reads are right of requests that are counted right and have their own part first, on
  connections whose sockets have different numbers: `RequestsAreServed`.  Nothing in the code ensures it.
  It is no assumption of the model: it is true of the instance of `dfc`, false of those of `dfc_aligned`
  and `dfc_tags`, and a hypothesis of three theorems.
* *Killing.*  A node leaves its loop at once when it hears of a `KILL`; commands that others have
  sent it are never done, and their handlers never return.  Hence `CommandsComplete` holds until
  somebody is dying.
* *Cues without a movie* complete at once, and again when a movie is opened (`bare` in
  `InStep`).  A round that is started over one that still waits takes its completions (`nested`).
* *Stopping.*  While looping, Stop ends the cue but not the list: the loop goes on to its last
  cue, and a cue that stands still waits for another Stop.
* *Ends of cues.*  A cue of a single frame, or with the repeat count -1, does not complete until it
  is stopped.  A backward cue with an explicit end completes at once, since it begins below that frame.
  A repeated range that starts after frame 1 wraps to frame 0, is below its start, and stops there.  These are
  the conditions `EndsByItself`, `PlaysForward` and `Passes` of the properties.

## 5. Theorems

They are of the form `Spec => []P`, `Spec => [][A]_vars` or `Spec => Abstract`, for every value of the
constants that satisfies the module's assumption; three about the striping of `Dfc` are about its operators,
and five have a hypothesis on the constants beyond that: `EvictsLast`, `RightWithoutThreads`, and of `Dfc`
`BytesStayInPlace`, `DataMeetTheirCommand` and `ReadsAreCurrent`.

* `ImageCacheProofs`: `CacheTypes`, `RightUnlessReused`, `RightWithoutThreads`, `PendingExact`.  The invariant is `TypeOK`,
  that the queues and the slots hold jobs and images of the open movie only
  (`QueuesOfMovie`), `PendingIsInProgress`, that nothing is queued while there is no movie
  (`NothingQueued`), that the request is inside the
  image that is being loaded for it (`RequestOK`), and `OnlyReuseMisleads`.  That is not
  inductive by itself: a slot must be known to hold what its fields say, of this movie,
  at the moment the player looks at it, whoever filled it; and from there to the read of its image
  the slot as it was found must be known to have been the right one (`FoundHeld`), so that the
  answer is wrong only if the slot is another by then.  Without cache threads there is nobody to
  change it (`RightWithoutThreads`).
  `EvictsLast`: an image is thrown out only when all slots of its thread are taken, if each `GetImage`
  preloads at least one frame (`PreloadsAhead`), as the call in `glRenderer.cpp` does for a movie that is not
  stereo.  `GetCachedImageSlot` takes the slot of the lowest request number, and that of an
  empty slot is 0; so every image in the cache must have a positive number.  It has (`EInv`), because
  nothing is queued, loading or cached before the first request is numbered (`Unnumbered`), and
  the player has numbered one when it searches and loads (`Numbered`); and the slot that the main thread has
  chosen to overwrite stays filled while it loads (`SlotHeld`).  Without the hypothesis the statement is false: called
  with preload off, as by `x11Renderer.cpp`, the cache never raises its numbers, as it does not without threads.
* `PtPoolProofs`: `PoolTypes`, `NoLostWakeup`, `FirstInFirstOut`, `DestroyIsComplete`.  That
  nobody oversleeps is what allows the code to broadcast only on the edges (empty to one,
  full to one less); the proof shows that each step that could make a sleeper's condition
  false wakes him.
* `PtGateProofs`: `GateTypes`, `GateWakesAll` and `GateIsBarrier`, the refinement.  It needs that `ngate`
  counts the threads inside, and so cardinalities of finite sets.
* `PtRwProofs`: `RwTypes`, `WritersAreAlone`, `CountersAreExact`, `NoWakeupLost`, `DestroyIsSafe`,
  `WritersGoFirst`.  The counters are tied to the program counters (`Counted`) by one lemma
  on what happens to the size of a set when one thread moves in or out.

* `SmWriterProofs`: `NothingEverAborts` and `NoFlushMeetsAHole`.  The invariant says where every
  frame is that has been started: in the hand of one worker, in its slot of the staging buffer, or
  before the first frame of that (`FramesOK`), as long as there is no error; after one some frames are
  given up, but never one that has its slot; and that `num` counts the slots in use
  (`SlotsOK`).  A buffer that is full by its counter then has no hole, though it was
  filled in any order.
  `TypesHold`, `NothingElseFails`, `NoGapInAFile`, `EveryMovieReadsBack` are about the files
  (`FInv`).  The batch in the output buffer is exactly what precedes the staging buffer (`BatchOK`).  The
  file of a resolution holds the frames up to the batch, or with it, one after the other, and `mFrameOffsets` has for
  each frame the sum of the lengths before it (`Written`); while the resolutions are appended, the first file
  holds those already appended (`InMovie`) and the others are still as they were written
  (`Appended`).  An error of a worker does not stop the batch under way, which is written as if nothing
  had happened; so what is said of the files (`OnDisk`) holds until that flush is over.  That a bad input is an
  error for good is an invariant of its own (`InputsOK`).  The bytes of one write do not touch those of another because such sums grow with the frame (`Sums`).
* `CuePlayProofs`: `CueTypes`, `FrameStaysInRange`, `NoCueAfterStop`, `CueAndWaitAgree`.  For the first two
  the position is followed through every routine that changes it, and every event on its way is known
  to be a legal one.  For the last one, places are counted where the end of a cue may be (on its way, in the
  queue, being played, on its way back); a movie of the command line, which takes the
  place of an event in the queue, must not be a cue (`ScriptOpens`).
  `CueIsPlayedOut` (`PlayedOut`).  The invariant (`KInv`) says, while the user leaves the player alone, what is in front
  of it (`Follows`): some events MOVIE_STOP of earlier rounds and then what is left of the script of the cue that
  sidecar waits for, or only such stops while it waits for none.  For that there must be one round on
  the stack (`OneRound`), and no more than one event of sidecar's in the queue of the loop, before MOVIE_NONE
  (`QueueShort`).  Before each event of the script it is known where the player is (`Phase`): it stands still,
  at the frame and with the range and repeats set so far (`Stands`), and after MOVIE_PLAY_FORWARD it
  is on its way to the last frame or has been there often enough (`Plays`).  That the completion is sent only
  after the last event is by `InStep`: a cue that is being played has no end left to come.
* `DfcProofs`: `EveryByteHasItsPlace`, `DfcTypes`, `ListsHoldThePosted`, `BytesStayInPlace`,
  `DataMeetTheirCommand`.  Types and lists need no hypothesis.  The argument of the last: every byte in memory is where the striping puts it
  (`MemoryInPlace`), so a part that a node sends has the right bytes in the right order; `pack_buffer` lays
  the parts one after the other; the data of the writes of one connection match, in order, the
  write commands that have not been served (`Matched`, `WritesOK`); and of its reads there is at most one under
  way to or from each node, as a command or as data (`ReadsOK`), because a handler has one
  command at a time and its list holds it once; so the first receive that is posted for a source and a tag
  is that of the message that comes first.
  Of the striping: `CountedRight`, which requests `get_local_req_size` counts right, and
  `PackingLosesNothing`, that `unpack_buffer` undoes `pack_buffer`: `get_local_req_offset`, a sum over the lower
  ranks, puts the parts side by side (`OrderOfParts`).
  `ReadsAreCurrent`: a read finds, byte for byte, what the file held at some moment since it was taken up, and what its
  own connection wrote before.  The invariant (`RInv`) follows what may be found from the memory of a node
  (`MemoryAllowed`), over its answer and the buffer (`FoundAllowed`), to the application (`AnswerAllowed`).  It
  needs that writes, which are not acknowledged, are either in the hand of their handler or on their way
  (`UnstoredOK`), that the read of a connection goes to each node after them (`ReadIsLast`), and that an application
  has nothing else on its socket while it waits (`Conversation`).

Assumptions on the constants are `CacheAssumption`, `PoolAssumption`,
`GateAssumption`, `RwAssumption`, `WriterAssumption`, `CueAssumption` (of which only one limits what users
do: no cue repeats more often than `MaxSeen`, up to which showings are counted) and
`DfcAssumption`; TLC evaluates them in every run of the module.

Model-checked only: all liveness properties (`GetImageReturns`, the `DestroyReturns` of cache and pool,
`AddWorkReturns`, `GateOpens`, `AWriterWrites`, `MovieIsMade`, `WaitsEnd`, `CommandsComplete`, `KillReachesAll`), which
are out of this prover's reach; and `UpcomingSurvives`, which is true of some constants and orders of frames only
(it is checked of `PlaySpec`, in which the player shows the frames in order).

## 6. What is left out

* Memory: reference counts (the image of a slot that is filled anew may be freed while `GetImage` reads
  the pointer without the mutex), and in `SmWriter` the frames that leak when a worker gives up.
* `SmWriter`: the result of `WRITE` in `flushFrames` is ignored by the code, so that a file
  may be shorter than the model's; the length test in `combineResolutionFiles` (`AppendFails`)
  catches it for all resolutions but the first.  Of an input that is shorter than its header says, some formats
  give no error (`gzread`, `TIFFReadScanline` and `sgiGetRow` are not tested): its frame counts as read.  Unsynchronised reads of `mErrorState` and
  of the stop flag are seen as reads of the latest value; a delay is a delay of the reader,
  and so covered.  A buffer of size 0 (option `-b 0`) is always full and never ends; it is
  excluded by `WriterAssumption`.
* `ImageCache`: a thread that cannot be created; the `ImageCache(-1, -1)` of a slave before
  `CacheInit`; `GetImage` for a frame beyond the last one, which a player may ask for when a range ends beyond the movie.
* `PtPool`: a pool without threads, a second client that enters after the pool was freed,
  `pt_pool_threadnum`.
* `PtGate`: `pt_gate_destroy`.  The manual says that it releases the threads that are blocked,
  the code destroys the conditions under them.
* `CuePlay`: the options of the command line beside the movies, the stress tests, the dialogs, a
  player launched from sidecar, editing the list of cues.  Events that leave the position alone
  (window, zoom, rate, ...) are one event.  Frames have no duration.  What a frame that does not exist
  looks like: the behaviour is undefined, and the player may die of it (`ReadMissingFrame`) or go on.
* `Dfc`: writing the file back to disk at the end, the choice of a node and the connection in
  `smdfc_open`, clients that die in the middle of a message (the code then stores what is in the
  buffer), `MPI_Abort`.  Where the sizes of the parts are counted wrong a buffer may be too short
  for what is put into it, and the model cuts off what does not fit.  MPI ends the program at a message
  longer than its receive; what would come after that is left out.  The handlers of one node only set
  the file size of that node.
* DMX.  At this commit the protocol between master and slaves cannot be reached:
  `dmxRenderer::SetFrameList` (`dmxRenderer.cpp:391`) neither keeps the list nor makes a
  cache, and `DisplayLoop` then asks for the first frame (`movie.cpp:257`,
  `Renderer.cpp:938`), through a null pointer.  Beyond that, `Resize` calls itself for ever (line
  196), a slave reads one more token of `CacheInit` than it has been sent (`slave.cpp:525`), and
  nobody connects `UnexpectedDisconnect`.  A model of the swaps would be one of what the
  authors may have meant.  The hazards list what bites once it runs.
* The one-shot condition of `libpt`, which no program uses.
* The components marked "no" in the inventory: drawing, widgets, codecs, the reader and the
  loaders are sequential calls of libraries.  Most of the lines of the repository are
  third-party code (`CImg`, `splash.cpp`'s picture, lzo, libpng, `pstream.h`, ...).
