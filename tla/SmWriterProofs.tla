---------------------------- MODULE SmWriterProofs ----------------------------
(*******************************************************************************************)
(* Proofs about SmWriter, for every number of workers, resolutions and slots               *)
(* of a buffer and every movie: none of the "Bad thing" aborts is reached, no              *)
(* flush meets a hole, only a bad input or an oversized batch is an error, and the         *)
(* files hold every frame where the header of the movie says.                              *)
(*                                                                                         *)
(* The workers take the frames in order but finish in any order, so the                    *)
(* invariant says where every frame is that has been started: in the hand of one           *)
(* worker, or in its slot of the staging buffer, or before the first frame of that.        *)
(* Then a buffer that counts as many frames as it has slots has no hole, and neither       *)
(* has the last one, as the workers are done by then.  A worker may find a bad input at    *)
(* any moment of a flush: frames are given up then, but none that has its slot, and the    *)
(* flush goes on.                                                                          *)
(*                                                                                         *)
(* The files follow from that (FInv): the file of a resolution holds the frames before     *)
(* the batch under way, or with it, one after the other (Written), and the offsets are     *)
(* sums of lengths; when a resolution is appended to the first file, its offsets are       *)
(* moved by the bytes before it (InMovie).                                                 *)
(*******************************************************************************************)
EXTENDS SmWriter, TLAPS, FiniteSetTheorems, Sums

BufferTypes == [first : Nat, slots : [Slots -> Int], num : Nat]

Types ==
  /\ size \in Movies
  /\ added \in Nat /\ started \in Nat /\ started <= added /\ added <= NumFrames
  /\ worker \in [Workers -> [pc : {"idle", "read", "compress", "buffer"}, frame : Int]]
  /\ staging \in BufferTypes /\ output \in BufferTypes
  /\ writer \in {"loop", "poll", "exited"}
  /\ main \in {"add", "stop", "join", "flushed", "append", "done", "deleted"}
  /\ flush \in {"off", "swap", "write"}

Filled(buffer) == {s \in Slots : buffer.slots[s] # None}

\* A frame is in its own slot, and the buffer counts those it has.
SlotsOK(buffer) ==
  /\ \A s \in Slots : buffer.slots[s] = None \/ buffer.slots[s] = buffer.first + s
  /\ buffer.num = Cardinality(Filled(buffer))

InHand(f) == \E w \in Workers : worker[w].pc # "idle" /\ worker[w].frame = f
InStaging(f) == f - staging.first \in Slots /\ staging.slots[f - staging.first] # None

\* Where the frames are that have been started; after an error some are given up.
FramesOK ==
  /\ staging.first <= started
  /\ \A w \in Workers : worker[w].pc # "idle" =>
       /\ staging.first <= worker[w].frame /\ worker[w].frame < started
       /\ ~InStaging(worker[w].frame)
  /\ \A v, w \in Workers :
       worker[v].pc # "idle" /\ worker[w].pc # "idle" /\ worker[v].frame = worker[w].frame
         => v = w
  /\ ~error => \A f \in staging.first .. started - 1 : InHand(f) \/ InStaging(f)
  /\ \A s \in Slots : staging.slots[s] # None => staging.first + s < started

\* Once the pool has been destroyed
PoolDone ==
  main # "add" => /\ started = NumFrames /\ added = NumFrames
                  /\ \A w \in Workers : worker[w].pc = "idle"

\* Who flushes, and what is in the output buffer meanwhile
FlushOK ==
  /\ writer = "poll" => flush = "off"
  /\ flush # "off" /\ main = "flushed" => ~error
  /\ flush # "off" => \/ writer = "loop" /\ main \in {"add", "stop", "join"}
                      \/ main = "flushed"
  /\ main \notin {"add", "stop", "join"} => writer = "exited"
  /\ flush = "swap" => Full(staging) \/ main = "flushed"
  /\ flush = "swap" \/ (flush = "off" /\ ~error) => output.num = 0 /\ output.slots = EmptySlots

\* The flush that is under way meets no hole.
NoHole ==
  flush = "write" => \A s \in 0 .. output.num - 1 : s \in Slots /\ output.slots[s] # None

IInv ==
  /\ Types
  /\ SlotsOK(staging)
  /\ FramesOK
  /\ PoolDone
  /\ FlushOK
  /\ NoHole
  /\ ~aborted

-------------------------------------------------------------------------------
LEMMA SlotsAre == BufferSize \in Nat /\ BufferSize > 0 /\ Slots = 0 .. BufferSize - 1
                  /\ IsFiniteSet(Slots) /\ Cardinality(Slots) = BufferSize
<1>1. BufferSize \in Nat /\ BufferSize > 0 /\ Slots = 0 .. BufferSize - 1
  BY WriterAssumption DEF Slots
<1> QED
  BY <1>1, FS_Interval

LEMMA FilledIs ==
  ASSUME NEW buffer
  PROVE  Filled(buffer) \subseteq Slots /\ IsFiniteSet(Filled(buffer))
         /\ Cardinality(Filled(buffer)) \in Nat
<1>1. Filled(buffer) \subseteq Slots
  BY DEF Filled
<1> QED
  BY <1>1, SlotsAre, FS_Subset, FS_CardinalityType

LEMMA FramesAre ==
  ASSUME size \in Movies
  PROVE  NumFrames \in Nat /\ Frames = 0 .. NumFrames - 1
<1>1. IsFiniteSet(Frames) /\ Frames = 0 .. NumFrames - 1
  BY WriterAssumption DEF Frames, NumFrames
<1> QED
  BY <1>1, FS_CardinalityType DEF NumFrames

LEMMA EmptyIsOK ==
  ASSUME NEW n \in Nat, NEW buffer \in BufferTypes, buffer.slots = EmptySlots, buffer.num = 0
  PROVE  SlotsOK(buffer)
<1>1. \A s \in Slots : buffer.slots[s] = None
  BY DEF EmptySlots
<1>2. Filled(buffer) = {}
  BY <1>1 DEF Filled
<1> QED
  BY <1>1, <1>2, FS_EmptySet DEF SlotsOK

LEMMA InitIInv == Init => IInv
<1> SUFFICES ASSUME Init PROVE IInv
  OBVIOUS
<1>1. EmptySlots \in [Slots -> Int]
  BY DEF EmptySlots, None
<1>2. staging \in BufferTypes /\ output \in BufferTypes
  BY <1>1 DEF Init, BufferTypes
<1>3. worker \in [Workers -> [pc : {"idle", "read", "compress", "buffer"}, frame : Int]]
  BY DEF Init, Idle, None
<1>4. Types
  BY <1>2, <1>3, FramesAre DEF Init, Types
<1>5. SlotsOK(staging)
  BY <1>2, EmptyIsOK DEF Init
<1>6. \A w \in Workers : worker[w].pc = "idle"
  BY DEF Init, Idle
<1>7. FramesOK
  BY <1>6, SlotsAre DEF Init, FramesOK, EmptySlots
<1> QED
  BY <1>4, <1>5, <1>7 DEF Init, IInv, PoolDone, FlushOK, NoHole

-------------------------------------------------------------------------------
(* The pool and its workers *)

LEMMA AddWorkStep == IInv /\ AddWork => IInv'
<1> SUFFICES ASSUME IInv, AddWork PROVE IInv'
  OBVIOUS
<1>1. NumFrames \in Nat /\ NumFrames' = NumFrames
  BY FramesAre DEF IInv, Types, AddWork, NumFrames, Frames
<1>2. Types'
  BY <1>1 DEF IInv, Types, AddWork, buffers, control, disk
<1>3. SlotsOK(staging)' /\ FramesOK'
  BY DEF IInv, AddWork, buffers, SlotsOK, Filled, FramesOK, InHand, InStaging
<1> QED
  BY <1>2, <1>3 DEF IInv, AddWork, buffers, control, PoolDone, FlushOK, NoHole, Full

LEMMA PoolDestroyedStep == IInv /\ PoolDestroyed => IInv'
<1> SUFFICES ASSUME IInv, PoolDestroyed PROVE IInv'
  OBVIOUS
<1>1. Types'
  BY DEF IInv, Types, PoolDestroyed, pool, buffers, NumFrames, Frames
<1>2. SlotsOK(staging)' /\ FramesOK'
  BY DEF IInv, PoolDestroyed, pool, buffers, SlotsOK, Filled, FramesOK, InHand, InStaging
<1>3. PoolDone'
  BY DEF PoolDestroyed, PoolDone, pool, NumFrames, Frames, Idle
<1> QED
  BY <1>1, <1>2, <1>3 DEF IInv, PoolDestroyed, pool, buffers, FlushOK, NoHole, Full

LEMMA StartStep == ASSUME IInv, NEW w \in Workers, Start(w) PROVE IInv'
<1>1. worker[w].pc = "idle"
  BY DEF Start, Idle
<1>2. /\ worker'[w] = [pc |-> "read", frame |-> started]
      /\ worker'[w].pc = "read" /\ worker'[w].frame = started
      /\ \A v \in Workers : v # w => worker'[v] = worker[v]
  BY DEF Start, IInv, Types
<1>3. started' = started + 1 /\ started' \in Nat
  BY DEF Start, IInv, Types
<1>4. Types'
  <2>1. worker' \in [Workers -> [pc : {"idle", "read", "compress", "buffer"}, frame : Int]]
    BY DEF Start, IInv, Types
  <2> QED
    BY <1>3, <2>1 DEF Start, IInv, Types, buffers, control, NumFrames, Frames
<1>5. SlotsOK(staging)'
  BY DEF IInv, Start, buffers, SlotsOK, Filled
<1>6. FramesOK'
  <2>1. FramesOK /\ staging' = staging /\ error' = error
    BY DEF IInv, Start, buffers
  <2>2. staging.first \in Nat /\ started \in Nat
    BY DEF IInv, Types, BufferTypes
  <2>3. ~InStaging(started)
    BY <2>1, <2>2, SlotsAre DEF FramesOK, InStaging
  <2>4. \A v \in Workers : worker[v].frame \in Int
    BY DEF IInv, Types
  <2>5. \A f : InStaging(f)' <=> InStaging(f)
    BY <2>1 DEF InStaging
  <2>6. \A v \in Workers : worker[v].pc # "idle" =>
          /\ staging.first <= worker[v].frame /\ worker[v].frame < started
          /\ ~InStaging(worker[v].frame)
    BY <2>1 DEF FramesOK
  <2>7. \A v \in Workers : worker'[v].pc # "idle" =>
          /\ staging'.first <= worker'[v].frame /\ worker'[v].frame < started'
          /\ ~InStaging(worker'[v].frame)
    <3> TAKE v \in Workers
    <3>1. CASE v = w
      BY <3>1, <1>2, <1>3, <2>1, <2>2, <2>3 DEF FramesOK
    <3>2. CASE v # w
      BY <3>2, <1>2, <1>3, <2>1, <2>2, <2>4, <2>6
    <3> QED
      BY <3>1, <3>2
  <2>8. \A u, v \in Workers :
          worker'[u].pc # "idle" /\ worker'[v].pc # "idle" /\ worker'[u].frame = worker'[v].frame
            => u = v
    BY <1>2, <2>1, <2>2, <2>4, <2>6 DEF FramesOK
  <2>9. \A f : InHand(f) => InHand(f)'
    BY <1>1, <1>2 DEF InHand
  <2>10. ASSUME NEW f, f = started
         PROVE  InHand(f)'
    BY <1>2, <2>10 DEF InHand
  <2>11. ~error => \A f \in staging'.first .. started' - 1 : InHand(f)' \/ InStaging(f)'
    <3> HAVE ~error
    <3> TAKE f \in staging'.first .. started' - 1
    <3>1. CASE f = started
      BY <3>1, <2>10
    <3>2. CASE f # started
      <4>1. f \in staging.first .. started - 1
        BY <3>2, <1>3, <2>1, <2>2
      <4>2. InHand(f) \/ InStaging(f)
        BY <4>1, <2>1 DEF FramesOK
      <4> QED
        BY <4>2, <2>5, <2>9
    <3> QED
      BY <3>1, <3>2
  <2>12. \A s \in Slots : staging'.slots[s] # None => staging'.first + s < started'
    BY <1>3, <2>1, <2>2, SlotsAre DEF FramesOK
  <2>13. staging'.first <= started'
    BY <1>3, <2>1, <2>2 DEF FramesOK
  <2> QED
    BY <2>1, <2>5, <2>7, <2>8, <2>11, <2>12, <2>13 DEF FramesOK
<1>7. main = "add"
  BY <1>3, FramesAre DEF IInv, Types, PoolDone, Start
<1> QED
  BY <1>4, <1>5, <1>6, <1>7
  DEF IInv, Start, buffers, control, PoolDone, FlushOK, NoHole, Full

\* A worker that goes on, or gives up after an error
LEMMA HandStep ==
  ASSUME IInv, NEW w \in Workers, FillInputBuffer(w) \/ Compress(w) \/ GiveUp(w)
  PROVE  IInv'
<1> DEFINE H == [pc : {"idle", "read", "compress", "buffer"}, frame : Int]
<1>1. worker \in [Workers -> H] /\ Idle \in H /\ worker[w].pc # "idle"
  BY DEF FillInputBuffer, Compress, GiveUp, IInv, Types, Idle, None
<1>2. /\ worker' \in [Workers -> H]
      /\ \A v \in Workers : v # w => worker'[v] = worker[v]
      /\ \/ worker'[w].pc # "idle" /\ worker'[w].frame = worker[w].frame
         \/ error /\ worker'[w].pc = "idle"
  <2>1. CASE FillInputBuffer(w)
    BY <1>1, <2>1 DEF FillInputBuffer
  <2>2. CASE Compress(w)
    BY <1>1, <2>2 DEF Compress, Idle
  <2>3. CASE GiveUp(w)
    BY <1>1, <2>3 DEF GiveUp, Idle
  <2> QED
    BY <2>1, <2>2, <2>3
<1>3. /\ UNCHANGED << size, added, started, staging, output, writer, main, flush, aborted >>
      /\ error' = error \/ error' = TRUE
  BY DEF FillInputBuffer, Compress, GiveUp, buffers, control
<1>4. Types'
  BY <1>2, <1>3 DEF IInv, Types, NumFrames, Frames
<1>5. SlotsOK(staging)'
  BY <1>3 DEF IInv, SlotsOK, Filled
<1>6. FramesOK'
  <2>1. FramesOK
    BY DEF IInv
  <2>2. \A v \in Workers : worker'[v].pc # "idle" =>
          worker[v].pc # "idle" /\ worker'[v].frame = worker[v].frame
    BY <1>1, <1>2
  <2>3. ~error => \A v \in Workers : worker[v].pc # "idle" =>
          worker'[v].pc # "idle" /\ worker'[v].frame = worker[v].frame
    BY <1>2
  <2>4. ~error => \A f : InHand(f) => InHand(f)'
    BY <2>3 DEF InHand
  <2>5. \A f : InStaging(f)' <=> InStaging(f)
    BY <1>3 DEF InStaging
  <2>6. \A v \in Workers : worker'[v].pc # "idle" =>
          /\ staging'.first <= worker'[v].frame /\ worker'[v].frame < started'
          /\ ~InStaging(worker'[v].frame)
    BY <2>1, <2>2, <1>3 DEF FramesOK
  <2>7. ~error' => \A f \in staging'.first .. started' - 1 : InHand(f)' \/ InStaging(f)'
    BY <2>1, <2>4, <2>5, <1>3 DEF FramesOK
  <2>8. \A u, v \in Workers :
          worker'[u].pc # "idle" /\ worker'[v].pc # "idle" /\ worker'[u].frame = worker'[v].frame
            => u = v
    BY <2>1, <2>2 DEF FramesOK
  <2> QED
    BY <2>1, <2>5, <2>6, <2>7, <2>8, <1>3 DEF FramesOK
<1>7. main = "add"
  BY <1>1 DEF IInv, PoolDone
<1> QED
  BY <1>3, <1>4, <1>5, <1>6, <1>7 DEF IInv, PoolDone, FlushOK, NoHole, Full

LEMMA PlacedIs ==
  ASSUME NEW b \in BufferTypes, NEW f \in Int, f - b.first \in Slots
  PROVE  /\ Placed(b, f) \in BufferTypes
         /\ Placed(b, f).first = b.first /\ Placed(b, f).num = b.num + 1
         /\ Placed(b, f).slots = [b.slots EXCEPT ![f - b.first] = f]
<1> DEFINE k == f - b.first
<1>1. k \in 0 .. BufferSize - 1 /\ BufferSize \in Nat
  BY SlotsAre
<1>2. k % BufferSize = k
  BY <1>1
<1>3. Placed(b, f) = [b EXCEPT !.slots = [b.slots EXCEPT ![k] = f], !.num = b.num + 1]
  BY <1>2 DEF Placed, SlotOf, BufferTypes
<1> DEFINE slots == [b.slots EXCEPT ![k] = f]
<1>4. slots \in [Slots -> Int] /\ b.num + 1 \in Nat /\ b.first \in Nat
  BY DEF BufferTypes
<1>5. Placed(b, f) = [first |-> b.first, slots |-> slots, num |-> b.num + 1]
  BY <1>3 DEF BufferTypes
<1> HIDE DEF slots
<1>6. /\ Placed(b, f) \in BufferTypes
      /\ Placed(b, f).first = b.first /\ Placed(b, f).num = b.num + 1
      /\ Placed(b, f).slots = slots
  BY <1>4, <1>5 DEF BufferTypes
<1> QED
  BY <1>6 DEF slots

\* The frame is not misplaced, and goes to a slot of its own.
LEMMA AddFrameIs ==
  ASSUME IInv, NEW w \in Workers, AddFrame(w)
  PROVE  /\ ~error /\ worker[w].pc # "idle" /\ worker[w].frame \in Int
         /\ staging.first <= worker[w].frame /\ worker[w].frame < started
         /\ ~InStaging(worker[w].frame)
         /\ Fits(staging, worker[w].frame) /\ worker[w].frame - staging.first \in Slots
         /\ ~aborted'
         /\ staging' \in BufferTypes /\ staging'.first = staging.first
         /\ staging'.num = staging.num + 1
         /\ staging'.slots
              = [staging.slots EXCEPT ![worker[w].frame - staging.first] = worker[w].frame]
<1> DEFINE f == worker[w].frame
           k == f - staging.first
<1>1. ~error /\ FramesOK /\ worker[w].pc # "idle" /\ f \in Int /\ staging \in BufferTypes
  BY DEF AddFrame, IInv, Types
<1>2. staging.first \in Nat /\ staging.num \in Nat /\ staging.slots \in [Slots -> Int] /\ started \in Nat
  BY <1>1 DEF BufferTypes, IInv, Types
<1>3. staging.first <= f /\ f < started /\ ~InStaging(f)
  BY <1>1 DEF FramesOK
<1>4. Fits(staging, f) => k \in Slots /\ k % BufferSize = k
  <2>1. Fits(staging, f) => k \in 0 .. BufferSize - 1
    BY <1>1, <1>2, <1>3, SlotsAre DEF Fits, SlotOf
  <2>2. k \in 0 .. BufferSize - 1 => k % BufferSize = k
    BY SlotsAre
  <2> QED
    BY <2>1, <2>2, SlotsAre
<1>5. ~Misplaced(staging, f)
  BY <1>1, <1>2, <1>3, <1>4 DEF Misplaced, SlotOf, InStaging
<1>6. Fits(staging, f) /\ k \in Slots
  BY <1>4, <1>5 DEF AddFrame
<1>7. ~aborted' /\ staging' = Placed(staging, f)
  BY <1>5 DEF AddFrame
<1>8. /\ staging' \in BufferTypes /\ staging'.first = staging.first
      /\ staging'.num = staging.num + 1
      /\ staging'.slots = [staging.slots EXCEPT ![k] = f]
  BY <1>1, <1>6, <1>7, PlacedIs
<1> QED
  BY <1>1, <1>3, <1>6, <1>7, <1>8

LEMMA AddFrameStep == ASSUME IInv, NEW w \in Workers, AddFrame(w) PROVE IInv'
<1> DEFINE f == worker[w].frame
           k == f - staging.first
<1>1. ~error /\ FramesOK /\ worker[w].pc # "idle" /\ f \in Int /\ staging \in BufferTypes
  BY DEF AddFrame, IInv, Types
<1>2. staging.first \in Nat /\ staging.num \in Nat /\ staging.slots \in [Slots -> Int] /\ started \in Nat
  BY <1>1 DEF BufferTypes, IInv, Types
<1>3. staging.first <= f /\ f < started /\ ~InStaging(f)
  BY AddFrameIs
<1>6. Fits(staging, f) /\ k \in Slots
  BY AddFrameIs
<1>7. ~aborted'
  BY AddFrameIs
<1>8. /\ staging' \in BufferTypes /\ staging'.first = staging.first
      /\ staging'.num = staging.num + 1
      /\ staging'.slots = [staging.slots EXCEPT ![k] = f]
  BY AddFrameIs
<1>9. UNCHANGED << size, added, started, output, writer, main, flush, error >>
      /\ worker' = [worker EXCEPT ![w] = Idle]
  BY DEF AddFrame, control
<1>10. staging.slots[k] = None /\ f # None
  BY <1>2, <1>3, <1>6 DEF InStaging, None
<1>11. /\ staging'.slots[k] = f
       /\ \A s \in Slots : s # k => staging'.slots[s] = staging.slots[s]
  BY <1>2, <1>6, <1>8
<1>12. Types'
  <2>1. worker' \in [Workers -> [pc : {"idle", "read", "compress", "buffer"}, frame : Int]]
    BY <1>9 DEF IInv, Types, Idle, None
  <2> QED
    BY <1>8, <1>9, <2>1 DEF IInv, Types, NumFrames, Frames
<1>13. SlotsOK(staging)'
  <2>1. SlotsOK(staging)
    BY DEF IInv
  <2>2. Filled(staging') = Filled(staging) \cup {k}
    BY <1>6, <1>10, <1>11 DEF Filled
  <2>3. k \notin Filled(staging)
    BY <1>10 DEF Filled
  <2>4. Cardinality(Filled(staging')) = Cardinality(Filled(staging)) + 1
    BY <2>2, <2>3, FS_AddElement, FilledIs
  <2>5. f = staging'.first + k
    BY <1>1, <1>2, <1>8
  <2> QED
    BY <2>1, <2>4, <2>5, <1>8, <1>11 DEF SlotsOK
<1>14. FramesOK'
  <2>1. /\ worker'[w].pc = "idle"
        /\ \A v \in Workers : v # w => worker'[v] = worker[v]
    BY <1>9 DEF IInv, Types, Idle
  <2>2. ASSUME NEW g \in Int
        PROVE  InStaging(g)' <=> InStaging(g) \/ g = f
    BY <1>1, <1>2, <1>6, <1>8, <1>10, <1>11 DEF InStaging
  <2>3. ASSUME NEW g, g # f, InHand(g)
        PROVE  InHand(g)'
    BY <2>1, <2>3 DEF InHand
  <2>4. \A v \in Workers : worker'[v].pc # "idle" =>
          v # w /\ worker'[v] = worker[v] /\ worker[v].frame \in Int /\ worker[v].frame # f
    BY <2>1, <1>1 DEF FramesOK, IInv, Types
  <2>5. \A v \in Workers : worker'[v].pc # "idle" =>
          /\ staging'.first <= worker'[v].frame /\ worker'[v].frame < started'
          /\ ~InStaging(worker'[v].frame)
    BY <2>4, <1>1, <1>8, <1>9 DEF FramesOK
  <2>6. \A v \in Workers : worker'[v].pc # "idle" => ~InStaging(worker[v].frame)'
    <3> TAKE v \in Workers
    <3> HAVE worker'[v].pc # "idle"
    <3>1. worker[v].frame \in Int /\ worker[v].frame # f /\ worker'[v] = worker[v]
      BY <2>4
    <3>2. ~InStaging(worker[v].frame)
      BY <2>5, <3>1
    <3>3. worker[v].frame - staging.first \in Slots =>
            staging'.slots[worker[v].frame - staging.first] = None
      BY <1>1, <1>2, <1>11, <3>1, <3>2 DEF InStaging
    <3> QED
      BY <3>1, <3>3, <1>8 DEF InStaging
  <2>7. \A g \in staging'.first .. started' - 1 : InHand(g)' \/ InStaging(g)'
    <3> TAKE g \in staging'.first .. started' - 1
    <3>1. g \in staging.first .. started - 1 /\ g \in Int
      BY <1>2, <1>8, <1>9
    <3>2. InHand(g) \/ InStaging(g)
      BY <3>1, <1>1 DEF FramesOK
    <3> QED
      BY <3>1, <3>2, <2>2, <2>3
  <2>8. \A s \in Slots : staging'.slots[s] # None => staging'.first + s < started'
    BY <1>1, <1>2, <1>3, <1>6, <1>8, <1>9, <1>11 DEF FramesOK
  <2>9. \A u, v \in Workers :
          worker'[u].pc # "idle" /\ worker'[v].pc # "idle" /\ worker'[u].frame = worker'[v].frame
            => u = v
    BY <2>4, <1>1 DEF FramesOK
  <2> QED
    BY <2>5, <2>6, <2>7, <2>8, <2>9, <1>1, <1>8, <1>9 DEF FramesOK
<1>15. main = "add"
  BY <1>1 DEF IInv, PoolDone
<1>16. flush = "swap" => main = "flushed"
  BY <1>6 DEF IInv, FlushOK, Fits
<1> QED
  BY <1>7, <1>9, <1>12, <1>13, <1>14, <1>15, <1>16 DEF IInv, PoolDone, FlushOK, NoHole

-------------------------------------------------------------------------------
(* The flush *)

\* What is swapped has no hole, and nothing of it is still to come: the buffer is full, or
\* the workers are done.
LEMMA ReadyToSwap ==
  ASSUME IInv, flush = "swap"
  PROVE  /\ \A s \in Slots : staging.slots[s] # None <=> s < staging.num
         /\ staging.num <= BufferSize
         /\ NextFirst <= started
         /\ \A w \in Workers : worker[w].pc # "idle" => NextFirst <= worker[w].frame
<1>1. FramesOK /\ (Full(staging) \/ (main = "flushed" /\ ~error))
  BY DEF IInv, FlushOK
<1>2. /\ staging.first \in Nat /\ staging.num \in Nat /\ started \in Nat
      /\ \A w \in Workers : worker[w].frame \in Int
  BY DEF IInv, Types, BufferTypes
<1>3. SlotsOK(staging) /\ staging.num <= BufferSize
  BY SlotsAre, FilledIs, FS_Subset DEF IInv, SlotsOK
<1>4. CASE Full(staging)
  <2>1. staging.num = BufferSize
    BY <1>2, <1>3, <1>4, SlotsAre DEF Full
  <2>2. Filled(staging) = Slots
    BY <2>1, <1>3, SlotsAre, FilledIs, FS_Subset DEF SlotsOK
  <2>3. \A s \in Slots : staging.slots[s] # None
    BY <2>2 DEF Filled
  <2>4. staging.first + (BufferSize - 1) < started
    BY <2>3, <1>1, SlotsAre DEF FramesOK
  <2>5. NextFirst = staging.first + BufferSize /\ NextFirst <= started
    BY <2>1, <2>4, <1>2, SlotsAre DEF NextFirst
  <2>6. ASSUME NEW w \in Workers, worker[w].pc # "idle"
        PROVE  NextFirst <= worker[w].frame
    <3>1. staging.first <= worker[w].frame /\ ~InStaging(worker[w].frame)
      BY <2>6, <1>1 DEF FramesOK
    <3>2. worker[w].frame - staging.first \notin Slots
      BY <3>1, <2>3 DEF InStaging
    <3> QED
      BY <3>1, <3>2, <2>5, <1>2, SlotsAre
  <2> QED
    BY <2>1, <2>3, <2>5, <2>6, <1>3, SlotsAre
<1>5. CASE main = "flushed"
  <2>1. \A w \in Workers : worker[w].pc = "idle"
    BY <1>5 DEF IInv, PoolDone
  <2>2. \A f \in staging.first .. started - 1 : InStaging(f)
    BY <2>1, <1>1, <1>5 DEF FramesOK, InHand, IInv, FlushOK
  <2>3. \A s \in Slots : staging.slots[s] # None <=> staging.first + s < started
    <3> TAKE s \in Slots
    <3>1. s \in Nat
      BY SlotsAre
    <3>2. ASSUME staging.first + s < started
          PROVE  staging.slots[s] # None
      <4>1. staging.first + s \in staging.first .. started - 1
        BY <3>1, <3>2, <1>2
      <4>2. InStaging(staging.first + s)
        BY <4>1, <2>2
      <4>3. (staging.first + s) - staging.first = s
        BY <3>1, <1>2
      <4> QED
        BY <4>2, <4>3 DEF InStaging
    <3> QED
      BY <3>2, <1>1 DEF FramesOK
  <2>4. started - staging.first <= BufferSize
    <3>1. CASE started = staging.first
      BY <3>1, <1>2, SlotsAre
    <3>2. CASE started # staging.first
      <4>1. started - 1 \in staging.first .. started - 1
        BY <3>2, <1>1, <1>2 DEF FramesOK
      <4>2. (started - 1) - staging.first \in Slots
        BY <4>1, <2>2 DEF InStaging
      <4> QED
        BY <4>2, <1>2, SlotsAre
    <3> QED
      BY <3>1, <3>2
  <2>5. Filled(staging) = 0 .. (started - staging.first) - 1
    BY <2>3, <2>4, <1>2, SlotsAre DEF Filled
  <2>6. staging.first <= started
    BY <1>1 DEF FramesOK
  <2>7. Cardinality(0 .. (started - staging.first) - 1) = started - staging.first
    <3> DEFINE last == (started - staging.first) - 1
    <3>1. last \in Int /\ last + 1 >= 0 /\ last + 1 = started - staging.first
      BY <2>6, <1>2
    <3> HIDE DEF last
    <3>2. Cardinality(0 .. last) = IF 0 > last THEN 0 ELSE last - 0 + 1
      BY <3>1, FS_Interval
    <3>3. Cardinality(0 .. last) = last + 1
      BY <3>1, <3>2
    <3> QED
      BY <3>1, <3>3 DEF last
  <2>8. staging.num = started - staging.first
    BY <2>5, <2>7, <1>3 DEF SlotsOK
  <2> QED
    BY <2>1, <2>3, <2>8, <1>2, <1>3, SlotsAre DEF NextFirst
<1> QED
  BY <1>1, <1>4, <1>5

LEMMA SwapStep == IInv /\ Swap => IInv'
<1> SUFFICES ASSUME IInv, Swap PROVE IInv'
  OBVIOUS
<1>1. flush = "swap" /\ FramesOK /\ output.num = 0 /\ output.slots = EmptySlots
  BY DEF Swap, IInv, FlushOK
<1>2. /\ \A s \in Slots : staging.slots[s] # None <=> s < staging.num
      /\ staging.num <= BufferSize
      /\ NextFirst <= started
      /\ \A w \in Workers : worker[w].pc # "idle" => NextFirst <= worker[w].frame
  BY <1>1, ReadyToSwap
<1>3. /\ staging \in BufferTypes /\ output \in BufferTypes
      /\ staging.first \in Nat /\ staging.num \in Nat /\ started \in Nat
  BY DEF IInv, Types, BufferTypes
<1>4. NextFirst \in Nat /\ staging.first <= NextFirst
  BY <1>3 DEF NextFirst
<1>5. /\ staging' = [first |-> NextFirst, slots |-> EmptySlots, num |-> 0]
      /\ output' = staging /\ flush' = "write"
      /\ UNCHANGED << size, added, started, worker, writer, main, error, aborted >>
  BY <1>1, <1>3 DEF Swap, pool, BufferTypes
<1>6. EmptySlots \in [Slots -> Int] /\ \A s \in Slots : EmptySlots[s] = None
  BY DEF EmptySlots, None
<1>7. /\ staging' \in BufferTypes
      /\ staging'.first = NextFirst /\ staging'.slots = EmptySlots /\ staging'.num = 0
  BY <1>4, <1>5, <1>6 DEF BufferTypes
<1>8. Types'
  BY <1>3, <1>5, <1>7 DEF IInv, Types, NumFrames, Frames
<1>9. SlotsOK(staging)'
  BY <1>7, EmptyIsOK
<1>10. FramesOK'
  <2>1. \A f : ~InStaging(f)'
    BY <1>6, <1>7 DEF InStaging
  <2>2. \A f : InHand(f)' <=> InHand(f)
    BY <1>5 DEF InHand
  <2>3. ~error => \A f \in staging'.first .. started' - 1 : InHand(f)' \/ InStaging(f)'
    <3> HAVE ~error
    <3> TAKE f \in staging'.first .. started' - 1
    <3>1. f \in staging.first .. started - 1 /\ staging.first + staging.num <= f
      BY <1>3, <1>4, <1>5, <1>7 DEF NextFirst
    <3>2. InHand(f) \/ InStaging(f)
      BY <3>1, <1>1 DEF FramesOK
    <3>3. f - staging.first \in Slots => staging.slots[f - staging.first] = None
      BY <3>1, <1>2, <1>3, SlotsAre
    <3> QED
      BY <3>2, <3>3, <2>2 DEF InStaging
  <2>4. \A w \in Workers : worker'[w].pc # "idle" =>
          staging'.first <= worker'[w].frame /\ worker'[w].frame < started'
    BY <1>1, <1>2, <1>5, <1>7 DEF FramesOK
  <2>5. \A v, w \in Workers :
          worker'[v].pc # "idle" /\ worker'[w].pc # "idle" /\ worker'[v].frame = worker'[w].frame
            => v = w
    BY <1>1, <1>5 DEF FramesOK
  <2>6. staging'.first <= started' /\ \A s \in Slots : staging'.slots[s] = None
    BY <1>2, <1>5, <1>6, <1>7
  <2> QED
    BY <1>5, <2>1, <2>3, <2>4, <2>5, <2>6 DEF FramesOK, InStaging
<1>11. NoHole'
  BY <1>2, <1>3, <1>5, SlotsAre DEF NoHole
<1>12. PoolDone' /\ FlushOK'
  BY <1>1, <1>5 DEF IInv, PoolDone, FlushOK, NumFrames, Frames, Types
<1> QED
  BY <1>5, <1>8, <1>9, <1>10, <1>11, <1>12 DEF IInv

\* Whatever leaves the pool, the staging buffer and the number of frames alone
LEMMA PoolStays ==
  ASSUME IInv, UNCHANGED << size, started, worker, staging >>, error' \/ (error' = error)
  PROVE  SlotsOK(staging)' /\ FramesOK' /\ NumFrames' = NumFrames
<1>1. SlotsOK(staging)'
  BY DEF IInv, SlotsOK, Filled
<1>2. FramesOK'
  BY DEF IInv, FramesOK, InHand, InStaging
<1> QED
  BY <1>1, <1>2 DEF NumFrames, Frames

LEMMA FlushFailsStep == IInv /\ FlushFails => IInv'
<1> SUFFICES ASSUME IInv, FlushFails PROVE IInv'
  OBVIOUS
<1>1. /\ SlotsOK(staging)' /\ FramesOK' /\ NumFrames' = NumFrames
  BY PoolStays DEF FlushFails, pool, buffers
<1> QED
  BY <1>1 DEF IInv, Types, PoolDone, FlushOK, NoHole, FlushFails, pool, buffers

LEMMA WriteResolutionStep == IInv /\ WriteResolution => IInv'
<1> SUFFICES ASSUME IInv, WriteResolution PROVE IInv'
  OBVIOUS
<1>1. /\ SlotsOK(staging)' /\ FramesOK' /\ NumFrames' = NumFrames
  BY PoolStays DEF WriteResolution, pool, buffers
<1>2. UNCHANGED << size, added, started, worker, staging, output, writer, main, flush, error,
                   aborted >>
  BY DEF WriteResolution, pool, buffers
<1> QED
  BY <1>1, <1>2 DEF IInv, Types, PoolDone, FlushOK, NoHole, Full

LEMMA EmptiedIs ==
  ASSUME NEW b \in BufferTypes
  PROVE  Emptied(b) \in BufferTypes /\ Emptied(b).num = 0 /\ Emptied(b).slots = EmptySlots
         /\ Emptied(b).first = b.first
<1>1. EmptySlots \in [Slots -> Int]
  BY DEF EmptySlots, None
<1> DEFINE c == [b EXCEPT !.slots = EmptySlots]
<1>2. c \in BufferTypes /\ c.slots = EmptySlots /\ c.first = b.first
  BY <1>1 DEF BufferTypes
<1>3. Emptied(b) = [c EXCEPT !.num = 0]
  BY DEF Emptied, BufferTypes
<1> HIDE DEF c
<1>4. [c EXCEPT !.num = 0] \in BufferTypes /\ [c EXCEPT !.num = 0].num = 0
      /\ [c EXCEPT !.num = 0].slots = EmptySlots /\ [c EXCEPT !.num = 0].first = b.first
  BY <1>2 DEF BufferTypes
<1> QED
  BY <1>3, <1>4

LEMMA EmptyOutputStep == IInv /\ EmptyOutput => IInv'
<1> SUFFICES ASSUME IInv, EmptyOutput PROVE IInv'
  OBVIOUS
<1>1. /\ SlotsOK(staging)' /\ FramesOK' /\ NumFrames' = NumFrames
  BY PoolStays DEF EmptyOutput, pool
<1>2. UNCHANGED << size, added, started, worker, staging, writer, main, error, aborted >>
      /\ flush' = "off" /\ output' = Emptied(output)
  BY DEF EmptyOutput, pool
<1>3. EmptySlots \in [Slots -> Int] /\ output \in BufferTypes
  BY DEF EmptySlots, None, IInv, Types
<1>5. output' \in BufferTypes /\ output'.num = 0 /\ output'.slots = EmptySlots
  BY <1>2, <1>3, EmptiedIs
<1> QED
  BY <1>1, <1>2, <1>5 DEF IInv, Types, PoolDone, FlushOK, NoHole

-------------------------------------------------------------------------------
(* The write thread and the main thread *)

LEMMA WriterStep == IInv /\ (WriterLoop \/ Poll) => IInv'
<1> SUFFICES ASSUME IInv, WriterLoop \/ Poll PROVE IInv'
  OBVIOUS
<1>1. UNCHANGED << size, added, started, worker, staging, output, main, error >>
  BY DEF WriterLoop, Poll, pool, buffers
<1>2. /\ SlotsOK(staging)' /\ FramesOK' /\ NumFrames' = NumFrames
  BY <1>1, PoolStays
<1>3. CASE WriterLoop
  BY <1>1, <1>2, <1>3 DEF WriterLoop, IInv, Types, PoolDone, FlushOK, NoHole, Full
<1>4. CASE Poll
  <2>1. flush = "off" /\ (~error => output.num = 0 /\ output.slots = EmptySlots)
        /\ writer = "poll" /\ writer' = "loop" /\ main \in {"add", "stop", "join"}
    BY <1>4 DEF Poll, IInv, FlushOK, Types
  <2>2. ~aborted' /\ (flush' = "off" \/ (flush' = "swap" /\ Full(staging) /\ ~error))
    BY <1>4, <2>1 DEF Poll, Enter, IInv
  <2> QED
    BY <1>1, <1>2, <2>1, <2>2 DEF IInv, Types, PoolDone, FlushOK, NoHole, Full
<1> QED
  BY <1>3, <1>4

LEMMA FlushTheRestStep == IInv /\ FlushTheRest => IInv'
<1> SUFFICES ASSUME IInv, FlushTheRest PROVE IInv'
  OBVIOUS
<1>1. UNCHANGED << size, added, started, worker, staging, output, writer, error >>
      /\ main = "join" /\ main' = "flushed" /\ writer = "exited" /\ flush = "off"
  BY DEF FlushTheRest, pool, buffers, IInv, FlushOK
<1>2. /\ SlotsOK(staging)' /\ FramesOK' /\ NumFrames' = NumFrames
  BY <1>1, PoolStays
<1>3. ~aborted' /\ (flush' = "off" \/ (flush' = "swap" /\ ~error))
  BY <1>1 DEF FlushTheRest, Enter, IInv, FlushOK
<1> QED
  BY <1>1, <1>2, <1>3 DEF IInv, Types, PoolDone, FlushOK, NoHole, Full

\* The other steps of the main thread
LEMMA EndStep ==
  IInv /\ (StopWriteThread \/ CloseFile \/ AppendResolution \/ AppendFails \/ MovieDone) => IInv'
<1> SUFFICES ASSUME IInv,
                    StopWriteThread \/ CloseFile \/ AppendResolution \/ AppendFails \/ MovieDone
             PROVE  IInv'
  OBVIOUS
<1>1. UNCHANGED << size, added, started, worker, staging, output, writer, flush, aborted >>
  BY DEF StopWriteThread, CloseFile, AppendResolution, AppendFails, MovieDone, pool, buffers
<1>2. error' = error \/ (error' = TRUE /\ AppendFails)
  BY DEF StopWriteThread, CloseFile, AppendResolution, AppendFails, MovieDone
<1>3. /\ SlotsOK(staging)' /\ FramesOK' /\ NumFrames' = NumFrames
  BY <1>1, <1>2, PoolStays
<1>4. /\ main # "add" /\ main' # "add"
      /\ main' \in {"add", "stop", "join", "flushed", "append", "done", "deleted"}
      /\ main \in {"add", "stop", "join"} <=> main' \in {"add", "stop", "join"}
      /\ flush # "off" => main = main' \/ main' \in {"add", "stop", "join"}
  BY DEF StopWriteThread, CloseFile, AppendResolution, AppendFails, MovieDone, IInv, FlushOK
<1>5. AppendFails => flush = "off" /\ writer = "exited"
  BY DEF AppendFails, IInv, FlushOK
<1>6. Types' /\ NoHole' /\ ~aborted'
  BY <1>1, <1>3, <1>4 DEF IInv, Types, NoHole
<1>7. PoolDone'
  BY <1>1, <1>3, <1>4 DEF IInv, PoolDone
<1>8. FlushOK'
  BY <1>1, <1>2, <1>4, <1>5 DEF IInv, FlushOK, Full
<1> QED
  BY <1>2, <1>3, <1>6, <1>7, <1>8 DEF IInv

-------------------------------------------------------------------------------
LEMMA NextIInv == IInv /\ [Next]_vars => IInv'
<1> SUFFICES ASSUME IInv, [Next]_vars PROVE IInv'
  OBVIOUS
<1>1. ASSUME NEW w \in Workers, WorkerStep(w) PROVE IInv'
  BY <1>1, StartStep, HandStep, AddFrameStep DEF WorkerStep
<1>2. CASE FlusherStep
  BY <1>2, SwapStep, FlushFailsStep, WriteResolutionStep, EmptyOutputStep, WriterStep
  DEF FlusherStep, FlushStep
<1>3. CASE MainStep
  BY <1>3, AddWorkStep, PoolDestroyedStep, FlushTheRestStep, EndStep DEF MainStep
<1>4. CASE UNCHANGED vars
  <2>1. UNCHANGED << size, added, started, worker, staging, output, writer, main, flush, error,
                     aborted >>
    BY <1>4 DEF vars, pool, buffers, control
  <2>2. /\ SlotsOK(staging)' /\ FramesOK' /\ NumFrames' = NumFrames
    BY <2>1, PoolStays
  <2> QED
    BY <2>1, <2>2 DEF IInv, Types, PoolDone, FlushOK, NoHole, Full
<1> QED
  BY <1>1, <1>2, <1>3, <1>4 DEF Next

LEMMA SpecIInv == Spec => []IInv
BY InitIInv, NextIInv, PTL DEF Spec

\* However the workers overtake each other, and however many they are, no frame comes before
\* the first one of the staging buffer or finds its slot taken, and the output buffer is empty
\* whenever it is swapped (OutputBuffer::addFrame and flushFrames).
THEOREM NothingEverAborts == Spec => []NothingAborts
<1>1. IInv => NothingAborts
  BY DEF IInv, NothingAborts
<1> QED
  BY <1>1, SpecIInv, PTL

\* A flush never meets a hole, also when the last buffer is not full (the preflight check of
\* flushFrames).
THEOREM NoFlushMeetsAHole == Spec => []NoHole
<1>1. IInv => NoHole
  BY DEF IInv
<1> QED
  BY <1>1, SpecIInv, PTL

-------------------------------------------------------------------------------
(* The files: what else is an invariant *)

\* The bytes of the frames 0 .. n - 1 at resolution r
Total(r, n) == SumFunctionOnSet(Bytes(r), 0 .. n - 1)

DiskTypes ==
  /\ worker \in [Workers -> Hands]
  /\ \A s \in Slots : staging.slots[s] \in Frames \cup {None}
                      /\ output.slots[s] \in Frames \cup {None}
  /\ staging.first <= NumFrames /\ output.first <= NumFrames /\ output.num <= BufferSize
  /\ stopSignal \in BOOLEAN /\ error \in BOOLEAN /\ res \in 0 .. NumResolutions
  /\ DOMAIN files = Resolutions /\ (\A r \in Resolutions : DOMAIN files[r] \subseteq Nat)
  /\ fileBytes \in [Resolutions -> Nat]
  /\ offsets \in [Resolutions -> [Frames -> Nat]]
  /\ lengths \in [Resolutions -> [Frames -> Nat]]

\* The batch that is being written is what comes before the staging buffer, slot by slot.
BatchOK ==
  flush = "write" =>
    /\ output.first + output.num = staging.first
    /\ \A s \in 0 .. output.num - 1 : output.slots[s] = output.first + s

Flushing == main \in {"add", "stop", "join", "flushed"}

\* Nothing is left once the main thread has flushed.
AllFlushed == main = "flushed" /\ flush # "swap" /\ ~error => staging.first = NumFrames

\* The file of resolution r holds the frames 0 .. n - 1, one after the other, and
\* mFrameOffsets and mFrameLengths say where.
Written(r, n) ==
  /\ fileBytes[r] = Total(r, n)
  /\ DOMAIN files[r] = FileStart(r) .. FileStart(r) + Total(r, n) - 1
  /\ \A f \in 0 .. n - 1 :
       /\ lengths[r][f] = size[f][r]
       /\ offsets[r][f] = FileStart(r) + Total(r, f)
       /\ \A i \in 0 .. size[f][r] - 1 : files[r][FileStart(r) + Total(r, f) + i] = <<f, r, i>>

\* How many frames that is
WrittenTo(r) == IF flush = "write" /\ r >= res THEN output.first ELSE staging.first

\* A worker's error does not stop the flush under way, but the flush's own error does.
OnDisk ==
  Flushing /\ (~error \/ flush # "off") => \A r \in Resolutions : Written(r, WrittenTo(r))

\* The movie holds all frames at resolution r.
InMovie(r) ==
  \A f \in Frames :
    /\ lengths[r][f] = size[f][r]
    /\ \A i \in 0 .. size[f][r] - 1 :
         /\ offsets[r][f] + i \in DOMAIN files[0]
         /\ files[0][offsets[r][f] + i] = <<f, r, i>>

\* The movie of the resolutions that have been appended
Appended ==
  main \in {"append", "done"} =>
    /\ ~error /\ res >= 1 /\ (main = "done" => res = NumResolutions)
    /\ \E lo \in Nat, hi \in Int : DOMAIN files[0] = lo .. hi
    /\ \A r \in Resolutions : IF r < res THEN InMovie(r) ELSE Written(r, NumFrames)

FInv ==
  /\ IInv
  /\ DiskTypes
  /\ BatchOK
  /\ AllFlushed
  /\ FilesAreContiguous
  /\ OnDisk
  /\ Appended
  /\ OnlyOversizeFails

-------------------------------------------------------------------------------
(* Adding up *)

LEMMA BytesAre ==
  ASSUME size \in Movies, NEW r \in Resolutions
  PROVE  /\ Bytes(r) \in [Frames -> Nat]
         /\ \A f \in Frames : Bytes(r)[f] = size[f][r] /\ size[f][r] \in Nat
<1>1. \A f \in Frames : size[f] \in [Resolutions -> Nat]
  BY WriterAssumption DEF Frames
<1> QED
  BY <1>1 DEF Bytes

LEMMA TotalIs ==
  ASSUME size \in Movies, NEW r \in Resolutions
  PROVE  /\ Total(r, 0) = 0
         /\ \A n \in 0 .. NumFrames : Total(r, n) \in Nat
         /\ \A f \in Frames : Total(r, f + 1) = Total(r, f) + size[f][r]
         /\ \A m, n \in 0 .. NumFrames : m <= n =>
              /\ SumFunctionOnSet(Bytes(r), m .. n - 1) = Total(r, n) - Total(r, m)
              /\ Total(r, m) <= Total(r, n)
<1>1. NumFrames \in Nat /\ Frames = 0 .. NumFrames - 1 /\ Bytes(r) \in [Frames -> Nat]
  BY FramesAre, BytesAre
<1>2. Total(r, 0) = 0
  <2>1. 0 .. 0 - 1 = {}
    OBVIOUS
  <2> QED
    BY <2>1, SumEmpty DEF Total
<1>3. ASSUME NEW m \in Int, NEW n \in Int, 0 <= m, n <= NumFrames
      PROVE  SumFunctionOnSet(Bytes(r), m .. n - 1) \in Nat
  <2>1. m .. n - 1 \subseteq Frames /\ IsFiniteSet(m .. n - 1)
    BY <1>1, <1>3, FS_Interval
  <2> QED
    BY <2>1, <1>1, SumNat
<1>4. \A n \in 0 .. NumFrames : Total(r, n) \in Nat
  BY <1>1, <1>3 DEF Total
<1>5. ASSUME NEW f \in Frames
      PROVE  Total(r, f + 1) = Total(r, f) + size[f][r]
  <2>1. f \in Int /\ 0 \in Int /\ 0 <= f /\ (f + 1) - 1 = f /\ 0 .. f \subseteq Frames
    BY <1>1
  <2>2. SumFunctionOnSet(Bytes(r), 0 .. f) = SumFunctionOnSet(Bytes(r), 0 .. f - 1) + Bytes(r)[f]
    <3>1. Bytes(r) \in [Frames -> Nat]
      BY <1>1
    <3> QED
      BY <2>1, <3>1, SumLast
  <2> QED
    BY <2>1, <2>2, BytesAre DEF Total
<1>6. ASSUME NEW m \in 0 .. NumFrames, NEW n \in 0 .. NumFrames, m <= n
      PROVE  /\ SumFunctionOnSet(Bytes(r), m .. n - 1) = Total(r, n) - Total(r, m)
             /\ Total(r, m) <= Total(r, n)
  <2>1. 0 <= m /\ m <= n /\ m \in Int /\ n \in Int /\ 0 .. n - 1 \subseteq Frames
    BY <1>1, <1>6
  <2>2. Total(r, n) = Total(r, m) + SumFunctionOnSet(Bytes(r), m .. n - 1)
    BY <1>1, <2>1, SumSplit DEF Total
  <2>3. /\ SumFunctionOnSet(Bytes(r), m .. n - 1) \in Nat
        /\ Total(r, m) \in Nat /\ Total(r, n) \in Nat
    BY <1>1, <2>1, <1>3, <1>4
  <2> QED
    BY <2>2, <2>3
<1> QED
  BY <1>2, <1>4, <1>5, <1>6

LEMMA SizeStays ==
  ASSUME UNCHANGED size
  PROVE  /\ Frames' = Frames /\ NumFrames' = NumFrames
         /\ \A r, n : Total(r, n)' = Total(r, n)
BY DEF Frames, NumFrames, Total, Bytes

LEMMA DiskStays ==
  ASSUME UNCHANGED <<size, disk>>
  PROVE  \A r, n : (Written(r, n)' <=> Written(r, n)) /\ (InMovie(r)' <=> InMovie(r))
BY SizeStays DEF disk, Written, InMovie

LEMMA InitFInv == Init => FInv
<1> SUFFICES ASSUME Init PROVE FInv
  OBVIOUS
<1>1. IInv /\ size \in Movies
  BY InitIInv DEF Init
<1>2. NumFrames \in Nat /\ NumResolutions \in Nat \ {0} /\ BufferSize \in Nat
  BY <1>1, FramesAre, WriterAssumption
<1>3. DiskTypes
  <2>1. worker \in [Workers -> Hands]
    BY DEF Init, Idle, Hands
  <2>2. \A s \in Slots : staging.slots[s] = None /\ output.slots[s] = None
    BY DEF Init, EmptySlots
  <2>3. DOMAIN files = Resolutions /\ \A r \in Resolutions : DOMAIN files[r] \subseteq Nat
    BY DEF Init
  <2>4. /\ fileBytes \in [Resolutions -> Nat]
        /\ offsets \in [Resolutions -> [Frames -> Nat]]
        /\ lengths \in [Resolutions -> [Frames -> Nat]]
    BY DEF Init
  <2>5. /\ staging.first = 0 /\ output.first = 0 /\ output.num = 0 /\ res = 0
        /\ stopSignal \in BOOLEAN /\ error \in BOOLEAN
    BY DEF Init
  <2>6. /\ staging.first <= NumFrames /\ output.first <= NumFrames /\ output.num <= BufferSize
        /\ res \in 0 .. NumResolutions
    BY <1>2, <2>5
  <2> QED
    BY <2>1, <2>2, <2>3, <2>4, <2>5, <2>6 DEF DiskTypes
<1>4. \A r \in Resolutions : FileStart(r) \in Nat
  BY WriterAssumption DEF FileStart
<1>5. ASSUME NEW r \in Resolutions
      PROVE  Written(r, 0)
  <2>1. DOMAIN files[r] = {}
    BY DEF Init
  <2>2. FileStart(r) .. FileStart(r) + 0 - 1 = {}
    BY <1>4
  <2>3. Total(r, 0) = 0 /\ fileBytes[r] = 0 /\ 0 .. 0 - 1 = {}
    BY <1>1, TotalIs DEF Init
  <2> QED
    BY <2>1, <2>2, <2>3 DEF Written
<1>6. FilesAreContiguous
  BY <1>4 DEF Init, FilesAreContiguous
<1>7. OnDisk
  BY <1>5 DEF Init, OnDisk, WrittenTo
<1> QED
  BY <1>1, <1>3, <1>6, <1>7 DEF Init, FInv, BatchOK, AllFlushed, Appended, OnlyOversizeFails

-------------------------------------------------------------------------------
(* Steps that leave the files alone *)

\* What the steps that write nothing, and flush nothing, have in common
LEMMA KeepsFiles ==
  ASSUME FInv, UNCHANGED <<size, disk, output>>, res' = res,
         UNCHANGED <<error, unreadable>> \/ (error' /\ unreadable' # {} /\ main = "add"),
         staging'.first = staging.first,
         flush' = "write" <=> flush = "write",
         flush = "off" /\ flush' # "off" => ~error,
         main' = main \/ (Flushing /\ Flushing'),
         main' = "flushed" /\ flush' # "swap" /\ ~error => main = "flushed" /\ flush # "swap"
  PROVE  BatchOK' /\ AllFlushed' /\ FilesAreContiguous' /\ OnDisk' /\ Appended'
         /\ OnlyOversizeFails'
<1>1. /\ \A r, n : (Written(r, n)' <=> Written(r, n)) /\ (InMovie(r)' <=> InMovie(r))
      /\ NumFrames' = NumFrames /\ Frames' = Frames
  BY DiskStays, SizeStays
<1>2. \A r : WrittenTo(r)' = WrittenTo(r)
  BY DEF WrittenTo
<1>3. BatchOK' /\ AllFlushed'
  BY <1>1 DEF FInv, BatchOK, AllFlushed
<1>4. FilesAreContiguous'
  BY DEF FInv, FilesAreContiguous, Flushing, disk, IInv, Types
<1>5. OnDisk'
  <2> SUFFICES ASSUME Flushing', ~error' \/ flush' # "off"
               PROVE  \A r \in Resolutions : Written(r, WrittenTo(r))'
    BY DEF OnDisk
  <2>1. Flushing /\ (~error \/ flush # "off")
    BY DEF Flushing
  <2>2. \A r \in Resolutions : Written(r, WrittenTo(r))
    BY <2>1 DEF FInv, OnDisk
  <2>3. ASSUME NEW r \in Resolutions
        PROVE  Written(r, WrittenTo(r))'
    BY <2>2, <1>1, <1>2 DEF Written, disk
  <2> QED
    BY <2>3
<1>6. Appended'
  BY <1>1 DEF FInv, Appended, Flushing, disk
<1>7. OnlyOversizeFails'
  BY <1>1 DEF FInv, OnlyOversizeFails, Flushing
<1> QED
  BY <1>3, <1>4, <1>5, <1>6, <1>7

\* The types, when the files and the output buffer stay and frames are put in their slots
LEMMA KeepsTypes ==
  ASSUME FInv, UNCHANGED <<size, disk, output>>, worker' \in [Workers -> Hands],
         staging'.first = staging.first,
         \A s \in Slots : staging'.slots[s] \in Frames \cup {None},
         stopSignal' \in BOOLEAN, error' \in BOOLEAN, res' \in 0 .. NumResolutions
  PROVE  DiskTypes'
<1>1. Frames' = Frames /\ NumFrames' = NumFrames /\ Hands' = Hands
  BY SizeStays DEF Hands
<1>2. DiskTypes
  BY DEF FInv
<1> QED
  BY <1>1, <1>2 DEF DiskTypes, disk

LEMMA PoolFiles == ASSUME FInv, NEW w \in Workers, WorkerStep(w) PROVE FInv'
<1>1. IInv /\ IInv'
  BY NextIInv DEF FInv, Next
<1>2. /\ UNCHANGED <<size, disk, output, stopSignal>> /\ res' = res
      /\ main' = main /\ flush' = flush
      /\ UNCHANGED <<error, unreadable>> \/ (error' /\ unreadable' # {} /\ FillInputBuffer(w))
      /\ error' = error \/ error' = TRUE
  BY DEF WorkerStep, Start, FillInputBuffer, Compress, GiveUp, AddFrame, buffers, control
<1>3. /\ worker \in [Workers -> Hands] /\ Idle \in Hands
      /\ \A s \in Slots : staging.slots[s] \in Frames \cup {None}
      /\ NumFrames \in Nat /\ Frames = 0 .. NumFrames - 1
      /\ stopSignal \in BOOLEAN /\ error \in BOOLEAN /\ res \in 0 .. NumResolutions
  BY <1>1, FramesAre DEF FInv, IInv, Types, DiskTypes, Idle, Hands
<1>4. worker' \in [Workers -> Hands]
  <2>1. ASSUME Start(w)
        PROVE  worker' \in [Workers -> Hands]
    <3>1. started \in Frames
      BY <1>1, <1>3, <2>1 DEF Start, IInv, Types
    <3> QED
      BY <1>3, <2>1, <3>1 DEF Start, Hands
  <2>2. ASSUME FillInputBuffer(w) \/ Compress(w) \/ GiveUp(w) \/ AddFrame(w)
        PROVE  worker' \in [Workers -> Hands]
    <3>1. /\ [worker[w] EXCEPT !.pc = "buffer"] \in Hands
          /\ [worker[w] EXCEPT !.pc = "compress"] \in Hands
      BY <1>3 DEF Hands
    <3> QED
      BY <1>3, <2>2, <3>1 DEF FillInputBuffer, Compress, GiveUp, AddFrame
  <2> QED
    BY <2>1, <2>2 DEF WorkerStep
<1>5. staging'.first = staging.first /\ \A s \in Slots : staging'.slots[s] \in Frames \cup {None}
  <2>1. CASE AddFrame(w)
    <3>1. worker[w].frame \in Frames \cup {None}
      BY <1>3 DEF Hands
    <3> DEFINE f == worker[w].frame
               k == f - staging.first
    <3>2. /\ k \in Slots /\ staging'.first = staging.first
          /\ staging'.slots = [staging.slots EXCEPT ![k] = f]
      BY <1>1, <2>1, AddFrameIs
    <3>3. staging.slots \in [Slots -> Int]
      BY <1>1 DEF IInv, Types, BufferTypes
    <3> HIDE DEF f, k
    <3>4. \A s \in Slots : staging'.slots[s] = IF s = k THEN f ELSE staging.slots[s]
      BY <3>2, <3>3
    <3> QED
      BY <1>3, <3>1, <3>2, <3>4 DEF f
  <2>2. CASE ~AddFrame(w)
    <3>1. staging' = staging
      BY <2>2 DEF WorkerStep, Start, FillInputBuffer, Compress, GiveUp, buffers
    <3> QED
      BY <1>3, <3>1
  <2> QED
    BY <2>1, <2>2
<1>6. DiskTypes'
  BY <1>2, <1>3, <1>4, <1>5, KeepsTypes
<1>7. FillInputBuffer(w) => main = "add"
  BY <1>1 DEF FillInputBuffer, IInv, PoolDone
<1>8. main' = "flushed" /\ flush' # "swap" /\ ~error => main = "flushed" /\ flush # "swap"
  BY <1>2
<1> QED
  BY <1>1, <1>2, <1>5, <1>6, <1>7, <1>8, KeepsFiles DEF FInv

\* The steps of the write thread and of the main thread that only look, signal or wait
LEMMA QuietFiles ==
  ASSUME FInv, AddWork \/ PoolDestroyed \/ StopWriteThread \/ WriterLoop \/ Poll \/ FlushTheRest
  PROVE  FInv'
<1>1. IInv /\ IInv'
  BY NextIInv DEF FInv, Next, FlusherStep, MainStep
<1>2. /\ UNCHANGED <<size, disk, output, error, unreadable, worker, staging>> /\ res' = res
      /\ stopSignal' \in {stopSignal, TRUE}
  BY DEF AddWork, PoolDestroyed, StopWriteThread, WriterLoop, Poll, FlushTheRest, pool, buffers,
         control
<1>3. DiskTypes'
  <2>1. /\ worker \in [Workers -> Hands]
        /\ \A s \in Slots : staging.slots[s] \in Frames \cup {None}
        /\ stopSignal \in BOOLEAN /\ error \in BOOLEAN /\ res \in 0 .. NumResolutions
    BY DEF FInv, DiskTypes
  <2> QED
    BY <1>2, <2>1, KeepsTypes
<1>4. main' = main \/ (Flushing /\ Flushing')
  BY DEF AddWork, PoolDestroyed, StopWriteThread, WriterLoop, Poll, FlushTheRest, control, Flushing
<1>5. CASE AddWork \/ PoolDestroyed \/ StopWriteThread \/ WriterLoop
  <2>1. flush' = flush /\ (main' = "flushed" => main = "flushed")
    BY <1>5 DEF AddWork, PoolDestroyed, StopWriteThread, WriterLoop, control
  <2> QED
    BY <1>1, <1>2, <1>3, <1>4, <2>1, KeepsFiles DEF FInv
<1>6. CASE Poll \/ FlushTheRest
  <2>1. flush = "off" /\ main # "flushed" /\ (~error => output.num = 0)
    BY <1>1, <1>6 DEF Poll, FlushTheRest, IInv, FlushOK
  <2>2. /\ flush' \in {"off", "swap"} /\ (main' = "flushed" /\ ~error => flush' = "swap")
        /\ flush' # "off" => ~error
    BY <1>6, <2>1 DEF Poll, FlushTheRest, Enter
  <2> QED
    BY <1>1, <1>2, <1>3, <1>4, <2>1, <2>2, KeepsFiles DEF FInv
<1> QED
  BY <1>5, <1>6

-------------------------------------------------------------------------------
(* The flush and the files *)

LEMMA SwapFiles == FInv /\ Swap => FInv'
<1> SUFFICES ASSUME FInv, Swap PROVE FInv'
  OBVIOUS
<1>1. IInv /\ IInv'
  BY NextIInv DEF FInv, Next, FlusherStep, FlushStep
<1>2. /\ flush = "swap" /\ main' = main /\ Flushing /\ SlotsOK(staging)
      /\ FramesOK
  BY <1>1 DEF Swap, IInv, FlushOK, Flushing
<1>3. /\ \A s \in Slots : staging.slots[s] # None <=> s < staging.num
      /\ staging.num <= BufferSize /\ NextFirst <= started
  BY <1>1, <1>2, ReadyToSwap
<1>4. /\ staging \in BufferTypes /\ output \in BufferTypes /\ output.slots = EmptySlots
      /\ staging.first \in Nat /\ staging.num \in Nat /\ started \in Nat
      /\ NumFrames \in Nat /\ started <= NumFrames
  <2>1. /\ staging \in BufferTypes /\ output \in BufferTypes /\ started \in Nat /\ added <= NumFrames
        /\ started <= added /\ added \in Nat /\ NumFrames \in Nat
    BY <1>1, FramesAre DEF IInv, Types
  <2>2. output.slots = EmptySlots
    BY <1>1, <1>2 DEF IInv, FlushOK
  <2> QED
    BY <2>1, <2>2 DEF BufferTypes
<1>5. /\ output' = staging /\ flush' = "write" /\ res' = 0
      /\ staging'.first = NextFirst /\ staging'.slots = EmptySlots
      /\ UNCHANGED <<size, disk, main, stopSignal, error, unreadable, worker, started>>
  BY <1>4 DEF Swap, BufferTypes, pool
<1>6. /\ Frames' = Frames /\ NumFrames' = NumFrames /\ Hands' = Hands
      /\ \A r, n : (Written(r, n)' <=> Written(r, n)) /\ (InMovie(r)' <=> InMovie(r))
  BY <1>5, SizeStays, DiskStays DEF Hands
<1>7. DiskTypes'
  <2>1. \A s \in Slots : staging'.slots[s] = None
    BY <1>5 DEF EmptySlots
  <2>2. NextFirst <= NumFrames
    BY <1>3, <1>4 DEF NextFirst
  <2>3. 0 \in 0 .. NumResolutions
    BY WriterAssumption
  <2>4. DiskTypes
    BY DEF FInv
  <2> QED
    BY <1>3, <1>5, <1>6, <2>1, <2>2, <2>3, <2>4 DEF DiskTypes, disk
<1>8. BatchOK'
  <2>1. staging.first + staging.num = NextFirst
    BY DEF NextFirst
  <2>2. \A s \in 0 .. staging.num - 1 : staging.slots[s] = staging.first + s
    BY <1>2, <1>3, <1>4, SlotsAre DEF SlotsOK
  <2> QED
    BY <1>5, <2>1, <2>2 DEF BatchOK
<1>9. AllFlushed'
  <2> SUFFICES ASSUME main = "flushed", ~error PROVE NextFirst = NumFrames
    BY <1>5, <1>6 DEF AllFlushed
  <2>1. started = NumFrames /\ \A w \in Workers : worker[w].pc = "idle"
    BY <1>1 DEF IInv, PoolDone
  <2>2. \A f \in staging.first .. started - 1 : InStaging(f)
    BY <2>1, <1>2 DEF FramesOK, InHand
  <2>3. ASSUME NextFirst < started
        PROVE  FALSE
    <3>1. NextFirst \in staging.first .. started - 1 /\ NextFirst - staging.first = staging.num
      BY <2>3, <1>4 DEF NextFirst
    <3>2. staging.num \in Slots /\ staging.slots[staging.num] # None
      BY <3>1, <2>2 DEF InStaging
    <3> QED
      BY <3>2, <1>3, <1>4
  <2> QED
    BY <2>1, <2>3, <1>3, <1>4 DEF NextFirst
<1>10. FilesAreContiguous'
  BY <1>5 DEF FInv, FilesAreContiguous, disk
<1>11. OnDisk'
  <2>1. ASSUME NEW r \in Resolutions
        PROVE  Written(r, WrittenTo(r))'
    <3>1. WrittenTo(r) = staging.first /\ WrittenTo(r)' = staging.first
      BY <1>2, <1>5 DEF WrittenTo, Resolutions
    <3>2. Written(r, staging.first)
      BY <1>2, <3>1 DEF FInv, OnDisk
    <3>3. /\ Total(r, WrittenTo(r))' = Total(r, staging.first)
          /\ \A f : Total(r, f)' = Total(r, f)
      BY <1>5, <3>1 DEF Total, Bytes, Frames
    <3> QED
      BY <3>1, <3>2, <3>3, <1>5 DEF Written, disk
  <2> QED
    BY <2>1 DEF OnDisk
<1>12. OnlyOversizeFails'
  BY <1>5, <1>6 DEF FInv, OnlyOversizeFails
<1> QED
  BY <1>1, <1>2, <1>5, <1>7, <1>8, <1>9, <1>10, <1>11, <1>12 DEF FInv, Appended, Flushing

LEMMA BatchIs ==
  ASSUME FInv, flush = "write"
  PROVE  /\ size \in Movies /\ NumFrames \in Nat /\ Frames = 0 .. NumFrames - 1
         /\ output.first \in Nat /\ output.num \in Nat
         /\ output.first + output.num = staging.first /\ staging.first <= NumFrames
         /\ BatchFrames \subseteq Frames /\ IsFiniteSet(BatchFrames)
         /\ Flushing
<1>1. /\ size \in Movies /\ NumFrames \in Nat /\ Frames = 0 .. NumFrames - 1
      /\ output.first \in Nat /\ output.num \in Nat
  BY FramesAre DEF FInv, IInv, Types, BufferTypes
<1>2. output.first + output.num = staging.first /\ staging.first <= NumFrames
  BY DEF FInv, BatchOK, DiskTypes
<1>3. BatchFrames \subseteq Frames /\ IsFiniteSet(BatchFrames)
  <2>1. output.first + output.num - 1 \in Int /\ output.first \in Int
    BY <1>1
  <2>2. IsFiniteSet(BatchFrames)
    BY <2>1, FS_Interval DEF BatchFrames
  <2>3. staging.first \in Int
    BY <1>1, <1>2
  <2> QED
    BY <1>1, <1>2, <2>2, <2>3 DEF BatchFrames
<1>4. Flushing
  BY DEF FInv, IInv, FlushOK, Flushing
<1> QED
  BY <1>1, <1>2, <1>3, <1>4

LEMMA FlushFailsFiles == FInv /\ FlushFails => FInv'
<1> SUFFICES ASSUME FInv, FlushFails PROVE FInv'
  OBVIOUS
<1>1. IInv'
  BY NextIInv DEF FInv, Next, FlusherStep, FlushStep
<1>2. /\ flush = "write" /\ flush' = "off" /\ error' /\ main' = main
      /\ UNCHANGED <<size, disk, output, staging, worker, stopSignal>> /\ res' = res
  BY DEF FlushFails, pool, buffers
<1>3. Flushing /\ NumFrames \in Nat
  BY <1>2, BatchIs
<1>4. res < NumResolutions /\ BatchBytes > Required
  BY <1>2 DEF FlushFails, FInv, IInv, NoHole
<1>5. res \in Resolutions /\ 0 \in Resolutions
  BY <1>4, WriterAssumption DEF FInv, DiskTypes, Resolutions
<1>6. \E f \in Frames, r \in Resolutions : size[f][r] > size[f][0]
  <2> SUFFICES ASSUME \A f \in Frames : ~ (size[f][res] > size[f][0]) PROVE FALSE
    BY <1>5
  <2>1. size \in Movies /\ BatchFrames \subseteq Frames /\ IsFiniteSet(BatchFrames)
    BY <1>2, BatchIs
  <2>2. /\ Bytes(res) \in [Frames -> Nat] /\ Bytes(0) \in [Frames -> Nat]
        /\ \A f \in Frames : Bytes(res)[f] = size[f][res] /\ Bytes(0)[f] = size[f][0]
    BY <1>5, <2>1, BytesAre
  <2>3. \A f \in BatchFrames : Bytes(res)[f] <= Bytes(0)[f]
    BY <2>1, <2>2
  <2>4. BatchBytes <= Required
    BY <2>1, <2>2, <2>3, SumMonotone DEF BatchBytes, Required
  <2>5. BatchBytes \in Nat /\ Required \in Nat
    BY <2>1, <2>2, SumNat DEF BatchBytes, Required
  <2> QED
    BY <1>4, <2>4, <2>5
<1>7. DiskTypes'
  <2>1. /\ worker \in [Workers -> Hands] /\ stopSignal \in BOOLEAN
        /\ \A s \in Slots : staging.slots[s] \in Frames \cup {None}
        /\ res \in 0 .. NumResolutions
    BY DEF FInv, DiskTypes
  <2>2. error' \in BOOLEAN
    BY DEF FlushFails
  <2> QED
    BY <1>2, <2>1, <2>2, KeepsTypes
<1>8. FilesAreContiguous'
  BY <1>2 DEF FInv, FilesAreContiguous, disk
<1>9. OnlyOversizeFails'
  BY <1>2, <1>6 DEF OnlyOversizeFails, Frames
<1> QED
  BY <1>1, <1>2, <1>3, <1>7, <1>8, <1>9 DEF FInv, BatchOK, AllFlushed, OnDisk, Appended, Flushing

LEMMA EmptyOutputFiles == FInv /\ EmptyOutput => FInv'
<1> SUFFICES ASSUME FInv, EmptyOutput PROVE FInv'
  OBVIOUS
<1>1. IInv'
  BY NextIInv DEF FInv, Next, FlusherStep, FlushStep
<1>2. /\ flush = "write" /\ flush' = "off" /\ error' = error /\ main' = main
      /\ res = NumResolutions /\ res' = res /\ output' = Emptied(output)
      /\ UNCHANGED <<size, disk, staging, worker, stopSignal, unreadable>>
  BY DEF EmptyOutput, pool
<1>3. Flushing
  BY <1>2, BatchIs
<1>4. /\ output'.num = 0 /\ output'.slots = EmptySlots /\ output'.first = output.first
  BY <1>2, EmptiedIs DEF FInv, IInv, Types
<1>5. DiskTypes'
  <2>1. Frames' = Frames /\ NumFrames' = NumFrames /\ Hands' = Hands /\ DiskTypes
    BY <1>2, SizeStays DEF Hands, FInv
  <2>2. 0 <= BufferSize /\ \A s \in Slots : EmptySlots[s] = None
    BY SlotsAre DEF EmptySlots
  <2> QED
    BY <1>2, <1>4, <2>1, <2>2 DEF DiskTypes, disk
<1>6. AllFlushed'
  BY <1>2, SizeStays DEF FInv, AllFlushed
<1>7. FilesAreContiguous'
  BY <1>2 DEF FInv, FilesAreContiguous, disk
<1>8. OnDisk'
  <2>1. ASSUME NEW r \in Resolutions
        PROVE  Written(r, WrittenTo(r))'
    <3>1. WrittenTo(r) = staging.first /\ WrittenTo(r)' = staging.first
      BY <1>2, WriterAssumption DEF WrittenTo, Resolutions
    <3>2. Written(r, staging.first)
      BY <1>2, <1>3, <3>1 DEF FInv, OnDisk
    <3>3. /\ Total(r, WrittenTo(r))' = Total(r, staging.first)
          /\ \A f : Total(r, f)' = Total(r, f)
      BY <1>2, <3>1 DEF Total, Bytes, Frames
    <3> QED
      BY <3>1, <3>2, <3>3, <1>2 DEF Written, disk
  <2> QED
    BY <2>1 DEF OnDisk
<1>9. OnlyOversizeFails'
  BY <1>2, SizeStays DEF FInv, OnlyOversizeFails
<1> QED
  BY <1>1, <1>2, <1>3, <1>5, <1>6, <1>7, <1>8, <1>9 DEF FInv, BatchOK, Appended, Flushing

\* Where the batch goes: right after what has been written at this resolution
LEMMA BatchOffsets ==
  ASSUME FInv, flush = "write", res \in Resolutions
  PROVE  /\ FileStart(res) \in Nat
         /\ FirstFileOffset = FileStart(res) + Total(res, output.first)
         /\ \A k \in 0 .. output.num :
              OffsetIn(k) = FileStart(res) + Total(res, output.first + k)
         /\ BatchBytes = Total(res, staging.first) - Total(res, output.first)
         /\ BatchBytes \in Nat
<1>1. /\ size \in Movies /\ NumFrames \in Nat /\ Frames = 0 .. NumFrames - 1
      /\ output.first \in Nat /\ output.num \in Nat
      /\ output.first + output.num = staging.first /\ staging.first <= NumFrames
      /\ Flushing
  BY BatchIs
<1>2. FileStart(res) \in Nat
  BY WriterAssumption DEF FileStart
<1>3. /\ Total(res, 0) = 0
      /\ \A n \in 0 .. NumFrames : Total(res, n) \in Nat
      /\ \A f \in Frames : Total(res, f + 1) = Total(res, f) + size[f][res]
      /\ \A m, n \in 0 .. NumFrames : m <= n =>
              /\ SumFunctionOnSet(Bytes(res), m .. n - 1) = Total(res, n) - Total(res, m)
              /\ Total(res, m) <= Total(res, n)
  BY <1>1, TotalIs
<1>4. output.first \in 0 .. NumFrames /\ staging.first \in 0 .. NumFrames
  BY <1>1
<1>5. Written(res, output.first)
  BY <1>1 DEF FInv, OnDisk, WrittenTo, Resolutions
<1>6. FirstFileOffset = FileStart(res) + Total(res, output.first)
  <2>1. CASE output.first = 0
    BY <2>1, <1>2, <1>3 DEF FirstFileOffset
  <2>2. CASE output.first # 0
    <3> DEFINE last == output.first - 1
    <3>1. last \in 0 .. output.first - 1 /\ last \in Frames /\ last + 1 = output.first
          /\ last \in 0 .. NumFrames
      BY <2>2, <1>1, <1>4
    <3>2. /\ lengths[res][last] = size[last][res]
          /\ offsets[res][last] = FileStart(res) + Total(res, last)
      BY <3>1, <1>5 DEF Written
    <3>3. Total(res, output.first) = Total(res, last) + size[last][res]
      BY <3>1, <1>3
    <3>4. Total(res, last) \in Nat /\ size[last][res] \in Nat
      BY <1>1, <1>3, <3>1, BytesAre
    <3>5. FirstFileOffset = offsets[res][last] + lengths[res][last]
      BY <2>2 DEF FirstFileOffset
    <3> HIDE DEF last
    <3> QED
      BY <1>2, <3>2, <3>3, <3>4, <3>5
  <2> QED
    BY <2>1, <2>2
<1>7. ASSUME NEW k \in 0 .. output.num
      PROVE  OffsetIn(k) = FileStart(res) + Total(res, output.first + k)
  <2>1. output.first + k \in 0 .. NumFrames /\ output.first <= output.first + k
    BY <1>1
  <2>2. SumFunctionOnSet(Bytes(res), output.first .. output.first + k - 1)
          = Total(res, output.first + k) - Total(res, output.first)
    BY <1>3, <1>4, <2>1
  <2>3. Total(res, output.first + k) \in Nat /\ Total(res, output.first) \in Nat
    BY <1>3, <1>4, <2>1
  <2> QED
    BY <1>2, <1>6, <2>2, <2>3 DEF OffsetIn
<1>8. BatchBytes = Total(res, staging.first) - Total(res, output.first)
  <2>1. BatchFrames = output.first .. staging.first - 1 /\ output.first <= staging.first
    BY <1>1 DEF BatchFrames
  <2>2. SumFunctionOnSet(Bytes(res), output.first .. staging.first - 1)
          = Total(res, staging.first) - Total(res, output.first)
    BY <1>3, <1>4, <2>1, Zenon
  <2> QED
    <3>1. BatchBytes = SumFunctionOnSet(Bytes(res), BatchFrames)
      BY DEF BatchBytes
    <3> QED
      BY <2>1, <2>2, <3>1, Zenon
<1>9. BatchBytes \in Nat
  <2>1. /\ Total(res, output.first) \in Nat /\ Total(res, staging.first) \in Nat
        /\ Total(res, output.first) <= Total(res, staging.first)
    <3>1. output.first <= staging.first
      BY <1>1
    <3> QED
      BY <1>3, <1>4, <3>1, Zenon
  <2> QED
    BY <1>8, <2>1
<1> QED
  BY <1>2, <1>6, <1>7, <1>8, <1>9

\* The batch holds its frames, one after the other.
LEMMA BatchBufferIs ==
  ASSUME FInv, flush = "write", res \in Resolutions
  PROVE  /\ DOMAIN BatchBuffer = FileStart(res) + Total(res, output.first)
                                   .. FileStart(res) + Total(res, staging.first) - 1
         /\ \A f \in BatchFrames : \A i \in 0 .. size[f][res] - 1 :
              /\ FileStart(res) + Total(res, f) + i \in DOMAIN BatchBuffer
              /\ BatchBuffer[FileStart(res) + Total(res, f) + i] = <<f, res, i>>
<1> DEFINE at(slot) == FrameAt(OffsetIn(slot), output.slots[slot], res)
           P(k) == FileStart(res) + Total(res, output.first + k)
<1>1. /\ size \in Movies /\ NumFrames \in Nat /\ Frames = 0 .. NumFrames - 1
      /\ output.first \in Nat /\ output.num \in Nat
      /\ output.first + output.num = staging.first /\ staging.first <= NumFrames
      /\ BatchFrames \subseteq Frames
  BY BatchIs
<1>2. /\ FileStart(res) \in Nat
      /\ FirstFileOffset = FileStart(res) + Total(res, output.first)
      /\ \A k \in 0 .. output.num :
              OffsetIn(k) = FileStart(res) + Total(res, output.first + k)
      /\ BatchBytes = Total(res, staging.first) - Total(res, output.first)
  BY BatchOffsets
<1>3. /\ \A n \in 0 .. NumFrames : Total(res, n) \in Nat
      /\ \A f \in Frames : Total(res, f + 1) = Total(res, f) + size[f][res]
      /\ \A m, n \in 0 .. NumFrames : m <= n => Total(res, m) <= Total(res, n)
  BY <1>1, TotalIs
<1>4. /\ \A k \in 0 .. output.num : P(k) \in Nat
      /\ \A j, k \in 0 .. output.num : j <= k => P(j) <= P(k)
  <2>1. \A k \in 0 .. output.num : output.first + k \in 0 .. NumFrames
    BY <1>1
  <2>2. \A k \in 0 .. output.num : Total(res, output.first + k) \in Nat
    BY <1>3, <2>1
  <2>3. ASSUME NEW j \in 0 .. output.num, NEW k \in 0 .. output.num, j <= k
        PROVE  P(j) <= P(k)
    <3>1. output.first + j <= output.first + k
      BY <1>1, <2>3
    <3>2. Total(res, output.first + j) <= Total(res, output.first + k)
      BY <1>3, <2>1, <3>1
    <3> QED
      BY <1>2, <2>2, <3>2
  <2> QED
    BY <1>2, <2>2, <2>3
<1>5. ASSUME NEW s \in 0 .. output.num - 1
      PROVE  /\ output.first + s \in Frames /\ P(s + 1) = P(s) + size[output.first + s][res]
             /\ size[output.first + s][res] \in Nat
             /\ DOMAIN at(s) = P(s) .. P(s + 1) - 1
             /\ \A p \in P(s) .. P(s + 1) - 1 : at(s)[p] = <<output.first + s, res, p - P(s)>>
  <2>1. output.first + s \in Frames /\ output.first + (s + 1) = (output.first + s) + 1
        /\ output.first + s \in 0 .. NumFrames
    <3>1. s \in Int /\ 0 <= s /\ s + 1 <= output.num
      <4>1. output.num \in Nat
        BY <1>1
      <4> QED
        BY <4>1
    <3> DEFINE x == output.first + s
    <3>0. /\ output.first \in Nat /\ output.num \in Nat /\ NumFrames \in Nat
          /\ output.first + output.num <= NumFrames
      BY <1>1
    <3>2. /\ x \in Int /\ 0 <= x /\ x <= NumFrames - 1 /\ NumFrames \in Nat
          /\ output.first + (s + 1) = x + 1
      BY <3>0, <3>1
    <3> HIDE DEF x
    <3>3. x \in 0 .. NumFrames - 1 /\ x \in 0 .. NumFrames
      BY <3>2
    <3>4. x \in Frames
      BY <1>1, <3>3, Zenon
    <3> QED
      BY <3>2, <3>3, <3>4 DEF x
  <2>2. size[output.first + s][res] \in Nat
    BY <1>1, <2>1, BytesAre
  <2>3. P(s + 1) = P(s) + size[output.first + s][res]
    <3>1. Total(res, output.first + (s + 1))
            = Total(res, output.first + s) + size[output.first + s][res]
      BY <1>3, <2>1
    <3>2. Total(res, output.first + s) \in Nat
      BY <1>3, <2>1
    <3> QED
      BY <1>2, <2>2, <3>1, <3>2
  <2>4. output.slots[s] = output.first + s
    BY DEF FInv, BatchOK
  <2>5. OffsetIn(s) = P(s) /\ s \in 0 .. output.num /\ s + 1 \in 0 .. output.num
    BY <1>1, <1>2
  <2>6. P(s) \in Nat /\ P(s + 1) \in Nat
    BY <1>1, <1>4, <2>5
  <2> HIDE DEF P
  <2>7. at(s) = [p \in P(s) .. P(s + 1) - 1 |-> <<output.first + s, res, p - P(s)>>]
    <3>1. at(s) = FrameAt(P(s), output.first + s, res)
      BY <2>4, <2>5
    <3>2. P(s) + size[output.first + s][res] - 1 = P(s + 1) - 1
      BY <2>2, <2>3, <2>6
    <3> QED
      BY <3>1, <3>2 DEF FrameAt
  <2> HIDE DEF at
  <2> QED
    BY <2>1, <2>2, <2>3, <2>7
<1>6. BatchBuffer = [p \in FileStart(res) + Total(res, output.first)
                             .. FileStart(res) + Total(res, staging.first) - 1 |->
                       at(CHOOSE slot \in 0 .. output.num - 1 : p \in DOMAIN at(slot))[p]]
  <2>1. /\ FirstFileOffset \in Nat /\ BatchBytes \in Int /\ Total(res, staging.first) \in Nat
        /\ FirstFileOffset + BatchBytes = FileStart(res) + Total(res, staging.first)
    <3>1. Total(res, staging.first) \in Nat /\ Total(res, output.first) \in Nat
      BY <1>1, <1>3
    <3> QED
      BY <1>2, <3>1
  <2>2. FirstFileOffset .. FirstFileOffset + BatchBytes - 1
          = FileStart(res) + Total(res, output.first)
              .. FileStart(res) + Total(res, staging.first) - 1
    <3>1. FirstFileOffset + BatchBytes - 1 = FileStart(res) + Total(res, staging.first) - 1
      BY <1>2, <2>1
    <3> QED
      BY <1>2, <3>1
  <2> QED
    BY <2>2 DEF BatchBuffer
<1>7. ASSUME NEW f \in BatchFrames, NEW i \in 0 .. size[f][res] - 1
      PROVE  /\ FileStart(res) + Total(res, f) + i \in DOMAIN BatchBuffer
             /\ BatchBuffer[FileStart(res) + Total(res, f) + i] = <<f, res, i>>
  <2> DEFINE s == f - output.first
             p == P(s) + i
  <2>1. s \in 0 .. output.num - 1 /\ s \in 0 .. output.num /\ s + 1 \in 0 .. output.num
        /\ output.first + s = f
    <3>0. output.first \in Nat /\ output.num \in Nat
      BY <1>1
    <3>1. f \in Int /\ output.first <= f /\ f <= output.first + output.num - 1
      BY <3>0 DEF BatchFrames
    <3>2. s \in Int /\ 0 <= s /\ s + 1 <= output.num /\ output.first + s = f
      BY <3>0, <3>1
    <3> HIDE DEF s
    <3> QED
      BY <1>1, <3>2
  <2>2. p = FileStart(res) + Total(res, f) + i
    BY <2>1
  <2> HIDE DEF s
  <2>3. size[f][res] \in Nat /\ P(s) \in Nat /\ P(s + 1) = P(s) + size[f][res]
        /\ DOMAIN at(s) = P(s) .. P(s + 1) - 1
        /\ \A q \in P(s) .. P(s + 1) - 1 : at(s)[q] = <<f, res, q - P(s)>>
    BY <1>4, <1>5, <2>1
  <2>4. p \in P(s) .. P(s + 1) - 1 /\ p - P(s) = i
    BY <2>3
  <2>5. ASSUME NEW t \in 0 .. output.num - 1, p \in DOMAIN at(t)
        PROVE  t = s
    <3>1. DOMAIN at(t) = P(t) .. P(t + 1) - 1 /\ t \in 0 .. output.num /\ t + 1 \in 0 .. output.num
      BY <1>1, <1>5
    <3> HIDE DEF P, p, at
    <3>2. P(t) \in Nat /\ P(t + 1) \in Nat /\ P(s) \in Nat /\ P(s + 1) \in Nat
      BY <1>4, <2>1, <3>1
    <3>5. p \in P(t) .. P(t + 1) - 1
      BY <2>5, <3>1
    <3>3. s + 1 <= t => P(s + 1) <= P(t)
      BY <1>4, <2>1, <3>1
    <3>4. t + 1 <= s => P(t + 1) <= P(s)
      BY <1>4, <2>1, <3>1
    <3>6. s \in Int /\ t \in Int
      BY <2>1, <3>1
    <3> QED
      BY <2>4, <3>2, <3>3, <3>4, <3>5, <3>6
  <2>6. (CHOOSE slot \in 0 .. output.num - 1 : p \in DOMAIN at(slot)) = s
    <3> HIDE DEF P, p, at
    <3> QED
      BY <2>1, <2>3, <2>4, <2>5
  <2>7. P(0) <= P(s) /\ P(s + 1) <= P(output.num) /\ P(0) \in Nat /\ P(output.num) \in Nat
    <3>1. 0 \in 0 .. output.num /\ output.num \in 0 .. output.num /\ 0 <= s /\ s + 1 <= output.num
      BY <1>1, <2>1
    <3> HIDE DEF P
    <3> QED
      BY <1>4, <2>1, <3>1
  <2>8. /\ P(0) = FileStart(res) + Total(res, output.first)
        /\ P(output.num) = FileStart(res) + Total(res, staging.first)
    <3>1. output.first + 0 = output.first
      BY <1>1
    <3> QED
      BY <1>1, <3>1
  <2>9. p \in P(0) .. P(output.num) - 1
    <3> HIDE DEF P, p, at
    <3>2. P(s) \in Nat /\ P(s + 1) \in Nat
      BY <1>4, <2>1, Zenon
    <3>1. p \in Int /\ P(s) <= p /\ p <= P(s + 1) - 1 /\ P(s) \in Int /\ P(s + 1) \in Int
      BY <2>4, <3>2
    <3> QED
      BY <2>7, <3>1
  <2>11. Total(res, staging.first) \in Nat
    BY <1>1, <1>3
  <2>10. p \in DOMAIN BatchBuffer /\ BatchBuffer[p] = at(s)[p]
    <3> HIDE DEF p, at, P
    <3> QED
      <4>1. p \in FileStart(res) + Total(res, output.first)
                     .. FileStart(res) + Total(res, staging.first) - 1
        BY <1>2, <2>8, <2>9, <2>11
      <4>2. /\ p \in DOMAIN BatchBuffer
            /\ BatchBuffer[p]
                 = at(CHOOSE slot \in 0 .. output.num - 1 : p \in DOMAIN at(slot))[p]
        BY <1>6, <4>1
      <4> QED
        BY <2>6, <4>2
  <2> QED
    BY <2>2, <2>3, <2>4, <2>10
<1> QED
  BY <1>6, <1>7

LEMMA WriteResolutionFiles == FInv /\ WriteResolution => FInv'
<1> SUFFICES ASSUME FInv, WriteResolution PROVE FInv'
  OBVIOUS
<1>1. IInv'
  BY NextIInv DEF FInv, Next, FlusherStep, FlushStep
<1>2. /\ flush = "write" /\ flush' = flush /\ error' = error /\ main' = main
      /\ res < NumResolutions /\ res' = res + 1
      /\ UNCHANGED <<size, output, staging, worker, stopSignal, unreadable>>
  BY DEF WriteResolution, pool, buffers
<1>3. /\ size \in Movies /\ NumFrames \in Nat /\ Frames = 0 .. NumFrames - 1
      /\ output.first \in Nat /\ output.num \in Nat
      /\ output.first + output.num = staging.first /\ staging.first <= NumFrames
      /\ BatchFrames \subseteq Frames /\ Flushing
  BY <1>2, BatchIs
<1>4. /\ res \in Resolutions /\ res \in Nat /\ NumResolutions \in Nat
      /\ Resolutions = 0 .. NumResolutions - 1 /\ DiskTypes
  BY <1>2, WriterAssumption DEF FInv, DiskTypes, Resolutions
<1>5. /\ FileStart(res) \in Nat
      /\ \A k \in 0 .. output.num :
              OffsetIn(k) = FileStart(res) + Total(res, output.first + k)
      /\ BatchBytes = Total(res, staging.first) - Total(res, output.first)
      /\ BatchBytes \in Nat
  BY <1>2, <1>4, BatchOffsets
<1>6. /\ DOMAIN BatchBuffer = FileStart(res) + Total(res, output.first)
                                   .. FileStart(res) + Total(res, staging.first) - 1
      /\ \A f \in BatchFrames : \A i \in 0 .. size[f][res] - 1 :
              /\ FileStart(res) + Total(res, f) + i \in DOMAIN BatchBuffer
              /\ BatchBuffer[FileStart(res) + Total(res, f) + i] = <<f, res, i>>
  BY <1>2, <1>4, BatchBufferIs
<1>7. /\ \A n \in 0 .. NumFrames : Total(res, n) \in Nat
      /\ \A f \in Frames : Total(res, f + 1) = Total(res, f) + size[f][res]
      /\ \A m, n \in 0 .. NumFrames : m <= n => Total(res, m) <= Total(res, n)
      /\ \A f \in Frames : size[f][res] \in Nat
  BY <1>3, <1>4, TotalIs, BytesAre
<1>8. Written(res, output.first)
  BY <1>2, <1>3, <1>4 DEF FInv, OnDisk, WrittenTo
<1>9. \A r \in Resolutions : r # res =>
        /\ files'[r] = files[r] /\ fileBytes'[r] = fileBytes[r]
        /\ offsets'[r] = offsets[r] /\ lengths'[r] = lengths[r]
  BY <1>4 DEF WriteResolution, DiskTypes
<1>10. /\ files'[res] = Over(files[res], BatchBuffer)
       /\ fileBytes'[res] = fileBytes[res] + BatchBytes
       /\ offsets'[res] = [f \in Frames |-> IF f \in BatchFrames THEN OffsetIn(f - output.first)
                                           ELSE offsets[res][f]]
       /\ lengths'[res] = [f \in Frames |-> IF f \in BatchFrames THEN size[f][res]
                                           ELSE lengths[res][f]]
  BY <1>4 DEF WriteResolution, DiskTypes
<1>11. ASSUME NEW f \in BatchFrames
       PROVE  /\ f \in Frames /\ f \in 0 .. NumFrames /\ output.first <= f
              /\ offsets'[res][f] = FileStart(res) + Total(res, f)
              /\ lengths'[res][f] = size[f][res]
  <2>1. f \in Frames /\ f \in 0 .. NumFrames /\ output.first <= f
        /\ f - output.first \in 0 .. output.num /\ output.first + (f - output.first) = f
    BY <1>3 DEF BatchFrames
  <2> QED
    BY <2>1, <1>5, <1>10
<1>12. fileBytes[res] = Total(res, output.first)
       /\ DOMAIN files[res] = FileStart(res) .. FileStart(res) + Total(res, output.first) - 1
  BY <1>8 DEF Written
<1>13. /\ Total(res, output.first) \in Nat /\ Total(res, staging.first) \in Nat
       /\ Total(res, output.first) <= Total(res, staging.first)
       /\ output.first \in 0 .. NumFrames /\ staging.first \in 0 .. NumFrames
  BY <1>3, <1>7
<1>14. fileBytes'[res] = Total(res, staging.first)
  BY <1>5, <1>10, <1>12, <1>13
<1>15. /\ DOMAIN files'[res] = FileStart(res) .. FileStart(res) + Total(res, staging.first) - 1
       /\ \A p \in DOMAIN files'[res] :
             files'[res][p] = IF p \in DOMAIN BatchBuffer THEN BatchBuffer[p] ELSE files[res][p]
  <2>1. DOMAIN files[res] \cup DOMAIN BatchBuffer
          = FileStart(res) .. FileStart(res) + Total(res, staging.first) - 1
    BY <1>5, <1>6, <1>12, <1>13
  <2> QED
    BY <2>1, <1>10 DEF Over
<1>16. ASSUME NEW f \in 0 .. staging.first - 1
       PROVE  /\ lengths'[res][f] = size[f][res]
              /\ offsets'[res][f] = FileStart(res) + Total(res, f)
              /\ \A i \in 0 .. size[f][res] - 1 :
                   files'[res][FileStart(res) + Total(res, f) + i] = <<f, res, i>>
  <2>1. CASE f \in BatchFrames
    <3>1. DOMAIN BatchBuffer \subseteq DOMAIN files'[res]
      BY <1>5, <1>6, <1>13, <1>15
    <3> QED
      BY <2>1, <3>1, <1>6, <1>11, <1>15
  <2>2. CASE f \notin BatchFrames
    <3>1. f \in 0 .. output.first - 1 /\ f \in Frames /\ f \in 0 .. NumFrames
          /\ f + 1 \in 0 .. NumFrames /\ f + 1 <= output.first
      BY <2>2, <1>3 DEF BatchFrames
    <3>2. /\ lengths'[res][f] = size[f][res]
          /\ offsets'[res][f] = FileStart(res) + Total(res, f)
      BY <2>2, <3>1, <1>8, <1>10 DEF Written
    <3>3. ASSUME NEW i \in 0 .. size[f][res] - 1
          PROVE  files'[res][FileStart(res) + Total(res, f) + i] = <<f, res, i>>
      <4> DEFINE p == FileStart(res) + Total(res, f) + i
      <4>1. files[res][p] = <<f, res, i>>
        BY <3>1, <1>8 DEF Written
      <4>2. Total(res, f) + size[f][res] <= Total(res, output.first)
        BY <3>1, <1>7, <1>13
      <4>3. Total(res, f) \in Nat /\ size[f][res] \in Nat
        BY <3>1, <1>7
      <4>5. p \in Int /\ FileStart(res) <= p /\ p < FileStart(res) + Total(res, output.first)
        BY <4>2, <4>3, <1>5, <1>13
      <4> HIDE DEF p
      <4>4. p \in DOMAIN files'[res] /\ p \notin DOMAIN BatchBuffer
        BY <4>5, <1>5, <1>6, <1>13, <1>15
      <4>6. files'[res][p] = <<f, res, i>>
        BY <4>1, <4>4, <1>15
      <4> QED
        BY <4>6 DEF p
    <3> QED
      BY <3>2, <3>3
  <2> QED
    BY <2>1, <2>2
<1>17. DiskTypes'
  <2>1. Frames' = Frames /\ NumFrames' = NumFrames /\ Hands' = Hands
    BY <1>2, SizeStays DEF Hands
  <2>2. DOMAIN files' = Resolutions /\ \A r \in Resolutions : DOMAIN files'[r] \subseteq Nat
    <3>1. DOMAIN files'[res] \subseteq Nat
      BY <1>5, <1>13, <1>15
    <3>2. DOMAIN files' = Resolutions
      BY <1>4 DEF WriteResolution, DiskTypes
    <3> QED
      BY <3>1, <3>2, <1>4, <1>9 DEF DiskTypes
  <2>3. fileBytes' \in [Resolutions -> Nat]
    BY <1>4, <1>5 DEF WriteResolution, DiskTypes
  <2>4. /\ offsets'[res] \in [Frames -> Nat] /\ lengths'[res] \in [Frames -> Nat]
    <3>1. ASSUME NEW f \in BatchFrames
          PROVE  FileStart(res) + Total(res, f) \in Nat /\ size[f][res] \in Nat
      BY <1>5, <1>7, <1>11
    <3>2. offsets[res] \in [Frames -> Nat] /\ lengths[res] \in [Frames -> Nat]
      BY <1>4 DEF DiskTypes
    <3>3. \A f \in Frames : offsets'[res][f] \in Nat /\ lengths'[res][f] \in Nat
      BY <3>1, <3>2, <1>10, <1>11
    <3> QED
      BY <3>3, <1>10
  <2>5. offsets' \in [Resolutions -> [Frames -> Nat]] /\ lengths' \in [Resolutions -> [Frames -> Nat]]
    <3>1. /\ DOMAIN offsets' = Resolutions /\ DOMAIN lengths' = Resolutions
          /\ offsets' = [r \in Resolutions |-> offsets'[r]]
          /\ lengths' = [r \in Resolutions |-> lengths'[r]]
      BY <1>4 DEF WriteResolution, DiskTypes
    <3>2. ASSUME NEW r \in Resolutions
          PROVE  offsets'[r] \in [Frames -> Nat] /\ lengths'[r] \in [Frames -> Nat]
      BY <2>4, <1>4, <1>9 DEF DiskTypes
    <3> QED
      BY <3>1, <3>2
  <2>6. res' \in 0 .. NumResolutions
    BY <1>2, <1>4
  <2> QED
    BY <1>2, <1>4, <2>1, <2>2, <2>3, <2>5, <2>6 DEF DiskTypes
<1>18. BatchOK' /\ AllFlushed'
  BY <1>2, SizeStays DEF FInv, BatchOK, AllFlushed
<1>19. FilesAreContiguous'
  <2> SUFFICES ASSUME NEW r \in Resolutions
               PROVE  DOMAIN files'[r] = FileStart(r) .. FileStart(r) + fileBytes'[r] - 1
    BY DEF FilesAreContiguous
  <2>1. CASE r = res
    BY <2>1, <1>14, <1>15
  <2>2. CASE r # res
    BY <2>2, <1>3, <1>9 DEF FInv, FilesAreContiguous, Flushing
  <2> QED
    BY <2>1, <2>2
<1>20. OnDisk'
  <2>1. ASSUME NEW r \in Resolutions
        PROVE  Written(r, WrittenTo(r))'
    <3>1. \A g : Total(r, g)' = Total(r, g)
      BY <1>2, SizeStays
    <3>2. CASE r = res
      <4>1. WrittenTo(r)' = staging.first
        BY <3>2, <1>2, <1>4 DEF WrittenTo
      <4>2. Total(r, WrittenTo(r))' = Total(r, staging.first)
        BY <4>1, <1>2 DEF Total, Bytes, Frames
      <4> QED
        BY <3>1, <3>2, <4>1, <4>2, <1>2, <1>14, <1>15, <1>16 DEF Written
    <3>3. CASE r # res
      <4>1. WrittenTo(r)' = WrittenTo(r)
        BY <3>3, <1>2, <1>4 DEF WrittenTo
      <4>2. Total(r, WrittenTo(r))' = Total(r, WrittenTo(r))
        BY <4>1, <1>2 DEF Total, Bytes, Frames
      <4>3. Written(r, WrittenTo(r))
        BY <1>2, <1>3 DEF FInv, OnDisk
      <4> QED
        BY <3>1, <3>3, <4>1, <4>2, <4>3, <1>2, <1>9 DEF Written
    <3> QED
      BY <3>2, <3>3
  <2> QED
    BY <2>1 DEF OnDisk
<1>21. OnlyOversizeFails'
  BY <1>2, SizeStays DEF FInv, OnlyOversizeFails
<1> QED
  BY <1>1, <1>2, <1>3, <1>17, <1>18, <1>19, <1>20, <1>21 DEF FInv, Appended, Flushing

-------------------------------------------------------------------------------
(* The movie *)

\* Both files there are of a resolution and of the movie are as long as their bytes.
LEMMA FileLengthIs ==
  ASSUME NEW file, NEW lo \in Nat, NEW hi \in Int, DOMAIN file = lo .. hi
  PROVE  /\ FileLength(file) \in Nat
         /\ \A p \in DOMAIN file : p < FileLength(file)
         /\ FileLength(file) = IF lo <= hi THEN hi + 1 ELSE 0
<1>1. CASE lo <= hi
  <2>1. hi \in DOMAIN file /\ \A p \in DOMAIN file : hi >= p /\ p \in Int
    BY <1>1
  <2>2. Max(DOMAIN file) \in DOMAIN file /\ \A p \in DOMAIN file : Max(DOMAIN file) >= p
    BY <2>1 DEF Max
  <2>3. Max(DOMAIN file) = hi
    BY <2>1, <2>2
  <2>4. DOMAIN file # {}
    BY <2>1
  <2>5. FileLength(file) = 1 + hi
    BY <2>3, <2>4 DEF FileLength
  <2> QED
    BY <1>1, <2>1, <2>5
<1>2. CASE ~ (lo <= hi)
  <2>1. DOMAIN file = {}
    BY <1>2
  <2> QED
    BY <1>2, <2>1 DEF FileLength
<1> QED
  BY <1>1, <1>2

\* What has been written of a resolution can be read back.
LEMMA WrittenReads ==
  ASSUME size \in Movies, NEW r \in Resolutions, Written(r, NumFrames),
         NEW f \in Frames, NEW i \in 0 .. size[f][r] - 1
  PROVE  /\ lengths[r][f] = size[f][r] /\ offsets[r][f] = FileStart(r) + Total(r, f)
         /\ offsets[r][f] + i \in DOMAIN files[r]
         /\ files[r][offsets[r][f] + i] = <<f, r, i>>
<1>1. NumFrames \in Nat /\ Frames = 0 .. NumFrames - 1 /\ FileStart(r) \in Nat
  BY FramesAre, WriterAssumption DEF FileStart
<1>2. /\ lengths[r][f] = size[f][r] /\ offsets[r][f] = FileStart(r) + Total(r, f)
      /\ files[r][offsets[r][f] + i] = <<f, r, i>>
      /\ DOMAIN files[r] = FileStart(r) .. FileStart(r) + Total(r, NumFrames) - 1
  BY <1>1 DEF Written
<1>3. /\ Total(r, f) \in Nat /\ Total(r, NumFrames) \in Nat /\ size[f][r] \in Nat
      /\ Total(r, f) + size[f][r] <= Total(r, NumFrames)
  <2>1. f + 1 \in 0 .. NumFrames /\ f \in 0 .. NumFrames /\ NumFrames \in 0 .. NumFrames
        /\ f + 1 <= NumFrames
    BY <1>1
  <2>2. Total(r, f) \in Nat /\ Total(r, NumFrames) \in Nat /\ size[f][r] \in Nat
    BY <1>1, <2>1, TotalIs, BytesAre
  <2>3. Total(r, f + 1) = Total(r, f) + size[f][r] /\ Total(r, f + 1) <= Total(r, NumFrames)
    BY <1>1, <2>1, TotalIs
  <2> QED
    BY <2>2, <2>3
<1>4. offsets[r][f] + i \in DOMAIN files[r]
  <2>1. FileStart(r) + Total(r, f) + i \in FileStart(r) .. FileStart(r) + Total(r, NumFrames) - 1
    <3>1. i \in Nat /\ i < size[f][r]
      BY <1>3
    <3>2. Total(r, f) + i < Total(r, NumFrames)
      BY <1>3, <3>1
    <3> QED
      BY <1>1, <1>3, <3>1, <3>2
  <2> QED
    BY <1>2, <2>1
<1> QED
  BY <1>2, <1>4

LEMMA CloseFileFiles == FInv /\ CloseFile => FInv'
<1> SUFFICES ASSUME FInv, CloseFile PROVE FInv'
  OBVIOUS
<1>1. IInv'
  BY NextIInv DEF FInv, Next, MainStep
<1>2. /\ UNCHANGED <<size, disk, output, staging, worker, stopSignal, error, unreadable>>
      /\ flush = "off" /\ flush' = "off" /\ main = "flushed" /\ res' = 1
      /\ main' = IF error THEN "deleted" ELSE "append"
  BY DEF CloseFile, pool, buffers
<1>3. /\ size \in Movies /\ NumFrames \in Nat /\ Frames = 0 .. NumFrames - 1
      /\ NumResolutions \in Nat \ {0} /\ Resolutions = 0 .. NumResolutions - 1
  BY FramesAre, WriterAssumption DEF FInv, IInv, Types, Resolutions
<1>4. /\ \A r, n : (Written(r, n)' <=> Written(r, n)) /\ (InMovie(r)' <=> InMovie(r))
      /\ NumFrames' = NumFrames /\ Frames' = Frames
  BY <1>2, DiskStays, SizeStays
<1>5. DiskTypes'
  <2>1. /\ worker \in [Workers -> Hands] /\ stopSignal \in BOOLEAN /\ error \in BOOLEAN
        /\ \A s \in Slots : staging.slots[s] \in Frames \cup {None}
    BY DEF FInv, DiskTypes
  <2>2. 1 \in 0 .. NumResolutions
    BY <1>3
  <2> QED
    BY <1>2, <2>1, <2>2, KeepsTypes
<1>6. Appended'
  <2> SUFFICES ASSUME ~error PROVE Appended'
    BY <1>2 DEF Appended
  <2>1. \A r \in Resolutions : Written(r, NumFrames)
    <3>1. staging.first = NumFrames
      BY <1>2 DEF FInv, AllFlushed
    <3> QED
      BY <1>2, <3>1 DEF FInv, OnDisk, Flushing, WrittenTo
  <2>2. 0 \in Resolutions
    BY <1>3
  <2>3. InMovie(0)
    <3>1. \A f \in Frames : lengths[0][f] = size[f][0]
      BY <1>3, <2>1, <2>2 DEF Written
    <3> QED
      BY <1>3, <2>1, <2>2, <3>1, WrittenReads DEF InMovie
  <2>4. \E lo \in Nat, hi \in Int : DOMAIN files[0] = lo .. hi
    <3>1. DOMAIN files[0] = FileStart(0) .. FileStart(0) + Total(0, NumFrames) - 1
      BY <2>1, <2>2 DEF Written
    <3>2. FileStart(0) \in Nat /\ Total(0, NumFrames) \in Nat
      BY <1>3, <2>2, TotalIs, WriterAssumption DEF FileStart
    <3>3. FileStart(0) + Total(0, NumFrames) - 1 \in Int
      BY <3>2
    <3> QED
      BY <3>1, <3>2, <3>3
  <2>5. (\E lo \in Nat, hi \in Int : DOMAIN files[0] = lo .. hi)'
    BY <1>2, <2>4 DEF disk
  <2>6. ASSUME NEW r \in Resolutions
        PROVE  IF r < res' THEN InMovie(r)' ELSE Written(r, NumFrames)'
    <3>1. r < res' => r = 0
      BY <1>2, <1>3
    <3>2. Written(r, NumFrames)'
      BY <1>2, <1>4, <2>1, SizeStays DEF Written, disk
    <3> QED
      BY <3>1, <3>2, <1>4, <2>3
  <2> QED
    BY <1>2, <2>5, <2>6 DEF Appended
<1> QED
  BY <1>1, <1>2, <1>5, <1>6
  DEF FInv, BatchOK, AllFlushed, FilesAreContiguous, OnDisk, Flushing, OnlyOversizeFails, Frames

LEMMA AppendResolutionFiles == FInv /\ AppendResolution => FInv'
<1> SUFFICES ASSUME FInv, AppendResolution PROVE FInv'
  OBVIOUS
<1> DEFINE L == FileLength(files[0])
           moved == [i \in {L + j : j \in DOMAIN files[res]} |-> files[res][i - L]]
<1>1. IInv'
  BY NextIInv DEF FInv, Next, MainStep
<1>2. /\ UNCHANGED <<size, fileBytes, lengths, output, staging, worker, stopSignal, error,
                     unreadable>>
      /\ main = "append" /\ main' = "append" /\ flush' = flush
      /\ res < NumResolutions /\ res' = res + 1
  BY DEF AppendResolution, pool, buffers
<1>3. /\ size \in Movies /\ NumFrames \in Nat /\ Frames = 0 .. NumFrames - 1
      /\ NumResolutions \in Nat \ {0} /\ Resolutions = 0 .. NumResolutions - 1
      /\ DiskTypes /\ ~error /\ res \in Nat /\ res >= 1 /\ res \in Resolutions /\ res # 0
      /\ 0 \in Resolutions
  <2>1. size \in Movies /\ DiskTypes /\ ~error /\ res >= 1
    BY <1>2 DEF FInv, IInv, Types, Appended
  <2>2. res \in Int /\ NumResolutions \in Nat \ {0} /\ res < NumResolutions
    BY <1>2, <2>1, WriterAssumption DEF DiskTypes
  <2>3. res \in Nat /\ res \in 0 .. NumResolutions - 1 /\ res # 0 /\ 0 \in 0 .. NumResolutions - 1
    BY <2>1, <2>2
  <2> QED
    BY <2>1, <2>2, <2>3, FramesAre DEF Resolutions
<1>4. \A r \in Resolutions : IF r < res THEN InMovie(r) ELSE Written(r, NumFrames)
  BY <1>2 DEF FInv, Appended
<1>5. PICK lo \in Nat, hi \in Int : DOMAIN files[0] = lo .. hi
  BY <1>2 DEF FInv, Appended
<1>6. /\ L \in Nat /\ \A p \in DOMAIN files[0] : p < L
      /\ L = IF lo <= hi THEN hi + 1 ELSE 0
  BY <1>5, FileLengthIs
<1>7. /\ Written(res, NumFrames) /\ DOMAIN files[res] = 0 .. Total(res, NumFrames) - 1
      /\ Total(res, NumFrames) \in Nat
  <2>1. Written(res, NumFrames)
    BY <1>3, <1>4
  <2>2. Total(res, NumFrames) \in Nat
    <3>1. NumFrames \in 0 .. NumFrames
      BY <1>3
    <3> QED
      BY <1>3, <3>1, TotalIs
  <2> QED
    BY <1>3, <2>1, <2>2 DEF Written, FileStart
<1>8. /\ files'[0] = Over(files[0], moved)
      /\ \A r \in Resolutions : r # 0 => files'[r] = files[r]
      /\ offsets'[res] = [f \in Frames |-> offsets[res][f] + L]
      /\ \A r \in Resolutions : r # res => offsets'[r] = offsets[r]
      /\ DOMAIN files' = Resolutions /\ DOMAIN offsets' = Resolutions
  BY <1>3 DEF AppendResolution, DiskTypes, Moved
<1> HIDE DEF L
<1>9. /\ DOMAIN moved = L .. L + Total(res, NumFrames) - 1
      /\ \A j \in DOMAIN files[res] : L + j \in DOMAIN moved /\ moved[L + j] = files[res][j]
  <2>1. {L + j : j \in DOMAIN files[res]} = L .. L + Total(res, NumFrames) - 1
    <3>1. ASSUME NEW p \in L .. L + Total(res, NumFrames) - 1
          PROVE  p - L \in DOMAIN files[res] /\ p = L + (p - L)
      BY <1>6, <1>7
    <3>2. \A j \in DOMAIN files[res] : L + j \in L .. L + Total(res, NumFrames) - 1
      BY <1>6, <1>7
    <3> QED
      BY <3>1, <3>2
  <2>2. \A j \in DOMAIN files[res] : (L + j) - L = j
    BY <1>6, <1>7
  <2> QED
    BY <2>1, <2>2
<1> HIDE DEF moved
<1>10. /\ DOMAIN files'[0] = DOMAIN files[0] \cup DOMAIN moved
       /\ \A p \in DOMAIN files[0] : files'[0][p] = files[0][p]
       /\ \A p \in DOMAIN moved : files'[0][p] = moved[p]
  <2>1. \A p \in DOMAIN files[0] : p \notin DOMAIN moved
    <3>1. \A p \in DOMAIN moved : ~ (p < L)
      BY <1>6, <1>7, <1>9
    <3> QED
      BY <1>6, <3>1
  <2> QED
    BY <2>1, <1>8 DEF Over
<1>11. \E a \in Nat, b \in Int : DOMAIN files'[0] = a .. b
  <2>1. CASE lo <= hi
    <3>1. DOMAIN files'[0] = lo .. hi + Total(res, NumFrames)
      BY <2>1, <1>5, <1>6, <1>7, <1>9, <1>10
    <3>2. hi + Total(res, NumFrames) \in Int
      BY <1>7
    <3> QED
      BY <3>1, <3>2
  <2>2. CASE ~ (lo <= hi)
    <3>1. DOMAIN files[0] = {} /\ L = 0
      BY <2>2, <1>5, <1>6
    <3>2. DOMAIN files'[0] = 0 .. Total(res, NumFrames) - 1
      BY <3>1, <1>7, <1>9, <1>10
    <3>3. Total(res, NumFrames) - 1 \in Int
      BY <1>7
    <3> QED
      BY <3>2, <3>3
  <2> QED
    BY <2>1, <2>2
<1>12. \A f \in Frames : /\ lengths'[res][f] = size[f][res]
                        /\ \A i \in 0 .. size[f][res] - 1 :
                             /\ offsets'[res][f] + i \in DOMAIN files'[0]
                             /\ files'[0][offsets'[res][f] + i] = <<f, res, i>>
  <2> TAKE f \in Frames
  <2>1. lengths'[res][f] = size[f][res]
    BY <1>2, <1>3, <1>7 DEF Written
  <2>2. ASSUME NEW i \in 0 .. size[f][res] - 1
        PROVE  /\ offsets'[res][f] + i \in DOMAIN files'[0]
               /\ files'[0][offsets'[res][f] + i] = <<f, res, i>>
    <3>1. /\ offsets[res][f] + i \in DOMAIN files[res]
          /\ files[res][offsets[res][f] + i] = <<f, res, i>>
      BY <1>3, <1>7, WrittenReads
    <3>2. offsets[res][f] \in Nat
      BY <1>3 DEF DiskTypes
    <3>3. offsets'[res][f] + i = L + (offsets[res][f] + i)
      BY <1>6, <1>8, <3>2
    <3> QED
      BY <3>1, <3>3, <1>9, <1>10
  <2> QED
    BY <2>1, <2>2
<1>13. Appended'
  <2>1. Frames' = Frames /\ NumFrames' = NumFrames /\ \A r, n : Total(r, n)' = Total(r, n)
    BY <1>2, SizeStays
  <2>2. ASSUME NEW r \in Resolutions
        PROVE  IF r < res' THEN InMovie(r)' ELSE Written(r, NumFrames)'
    <3>1. CASE r = res
      <4>1. InMovie(r)'
        BY <3>1, <1>2, <1>12, <2>1 DEF InMovie
      <4> QED
        BY <3>1, <4>1, <1>2, <1>3
    <3>2. CASE r < res
      <4>1. InMovie(r) /\ r # res
        BY <3>2, <1>3, <1>4
      <4>2. InMovie(r)'
        BY <4>1, <1>2, <1>8, <1>10, <2>1 DEF InMovie
      <4>3. r < res'
        BY <3>2, <1>2, <1>3
      <4> QED
        BY <4>2, <4>3
    <3>3. CASE r > res
      <4>1. Written(r, NumFrames) /\ r # res /\ r # 0
        BY <3>3, <1>3, <1>4
      <4>2. Total(r, NumFrames)' = Total(r, NumFrames)
        BY <1>2 DEF Total, Bytes, NumFrames, Frames
      <4>3. Written(r, NumFrames)'
        BY <4>1, <4>2, <1>2, <1>8, <2>1 DEF Written
      <4>4. ~ (r < res')
        BY <3>3, <1>2, <1>3
      <4> QED
        BY <4>3, <4>4
    <3> QED
      BY <1>3, <3>1, <3>2, <3>3
  <2>3. res' >= 1 /\ ~error'
    BY <1>2, <1>3
  <2> QED
    BY <1>2, <1>11, <2>2, <2>3 DEF Appended
<1>14. DiskTypes'
  <2>1. Frames' = Frames /\ NumFrames' = NumFrames /\ Hands' = Hands
    BY <1>2, SizeStays DEF Hands
  <2>2. \A r \in Resolutions : DOMAIN files'[r] \subseteq Nat
    <3>1. DOMAIN files'[0] \subseteq Nat
      BY <1>11
    <3> QED
      BY <3>1, <1>3, <1>8 DEF DiskTypes
  <2>3. offsets' \in [Resolutions -> [Frames -> Nat]]
    <3>1. offsets[res] \in [Frames -> Nat]
      BY <1>3 DEF DiskTypes
    <3>2. offsets'[res] \in [Frames -> Nat]
      BY <3>1, <1>6, <1>8
    <3>3. \A r \in Resolutions : offsets'[r] \in [Frames -> Nat]
      BY <3>2, <1>3, <1>8 DEF DiskTypes
    <3>4. offsets' = [r \in Resolutions |-> offsets'[r]]
      BY <1>3 DEF AppendResolution, DiskTypes
    <3> QED
      BY <3>3, <3>4
  <2>4. res' \in 0 .. NumResolutions
    BY <1>2, <1>3
  <2> QED
    BY <1>2, <1>3, <1>8, <2>1, <2>2, <2>3, <2>4 DEF DiskTypes
<1> QED
  BY <1>1, <1>2, <1>3, <1>13, <1>14
  DEF FInv, BatchOK, AllFlushed, FilesAreContiguous, OnDisk, Flushing, OnlyOversizeFails, IInv, FlushOK

\* The movie is done, or deleted after all.
LEMMA LastFiles == FInv /\ (MovieDone \/ AppendFails) => FInv'
<1> SUFFICES ASSUME FInv, MovieDone \/ AppendFails PROVE FInv'
  OBVIOUS
<1>1. IInv /\ IInv'
  BY NextIInv DEF FInv, Next, MainStep
<1>2. /\ UNCHANGED <<size, disk, output, staging, worker, stopSignal, unreadable>> /\ res' = res
      /\ flush' = flush /\ main = "append" /\ error' \in BOOLEAN
      /\ \/ main' = "done" /\ res = NumResolutions /\ error' = error
         \/ main' = "deleted"
  BY DEF MovieDone, AppendFails, pool, buffers, FInv, DiskTypes
<1>3. /\ \A r, n : (Written(r, n)' <=> Written(r, n)) /\ (InMovie(r)' <=> InMovie(r))
      /\ NumFrames' = NumFrames
  BY <1>2, DiskStays, SizeStays
<1>4. DiskTypes'
  <2>1. /\ worker \in [Workers -> Hands] /\ stopSignal \in BOOLEAN /\ res \in 0 .. NumResolutions
        /\ \A s \in Slots : staging.slots[s] \in Frames \cup {None}
    BY DEF FInv, DiskTypes
  <2> QED
    BY <1>2, <2>1, KeepsTypes
<1>5. Appended'
  <2> SUFFICES ASSUME main' = "done" PROVE Appended'
    BY <1>2 DEF Appended
  <2>1. /\ ~error' /\ res' >= 1 /\ res' = NumResolutions
        /\ \E lo \in Nat, hi \in Int : DOMAIN files'[0] = lo .. hi
    BY <1>2 DEF FInv, Appended, disk
  <2>2. ASSUME NEW r \in Resolutions
        PROVE  IF r < res' THEN InMovie(r)' ELSE Written(r, NumFrames)'
    <3>1. r < res
      BY <1>2, <2>1, WriterAssumption DEF Resolutions
    <3>2. InMovie(r)
      BY <3>1, <1>2 DEF FInv, Appended
    <3> QED
      BY <3>1, <3>2, <1>2, <1>3
  <2> QED
    BY <2>1, <2>2 DEF Appended
<1>6. ~error => ~error' \/ main' = "deleted"
  BY <1>2
<1> QED
  BY <1>1, <1>2, <1>4, <1>5
  DEF FInv, BatchOK, AllFlushed, FilesAreContiguous, OnDisk, Flushing, OnlyOversizeFails, IInv,
      FlushOK, Appended

LEMMA NextFInv == FInv /\ [Next]_vars => FInv'
<1> SUFFICES ASSUME FInv, [Next]_vars PROVE FInv'
  OBVIOUS
<1>1. ASSUME NEW w \in Workers, WorkerStep(w) PROVE FInv'
  BY <1>1, PoolFiles
<1>2. CASE FlusherStep
  BY <1>2, SwapFiles, FlushFailsFiles, WriteResolutionFiles, EmptyOutputFiles, QuietFiles
  DEF FlusherStep, FlushStep
<1>3. CASE MainStep
  BY <1>3, QuietFiles, CloseFileFiles, AppendResolutionFiles, LastFiles DEF MainStep
<1>4. CASE UNCHANGED vars
  <2>1. /\ UNCHANGED <<size, disk, output, error, unreadable, worker, staging, stopSignal>>
        /\ res' = res /\ main' = main /\ flush' = flush
    BY <1>4 DEF vars, pool, buffers, control
  <2>2. IInv'
    BY <1>4, NextIInv DEF FInv
  <2>3. DiskTypes'
    <3>1. /\ worker \in [Workers -> Hands] /\ stopSignal \in BOOLEAN /\ res \in 0 .. NumResolutions
          /\ error \in BOOLEAN /\ \A s \in Slots : staging.slots[s] \in Frames \cup {None}
      BY DEF FInv, DiskTypes
    <3> QED
      BY <2>1, <3>1, KeepsTypes
  <2> QED
    BY <2>1, <2>2, <2>3, KeepsFiles DEF FInv
<1> QED
  BY <1>1, <1>2, <1>3, <1>4 DEF Next

LEMMA SpecFInv == Spec => []FInv
BY InitFInv, NextFInv, PTL DEF Spec

\* A frame that could not be read is an error for good.
InputsOK == unreadable \subseteq Frames /\ (unreadable # {} => error)

LEMMA SpecInputs == Spec => []InputsOK
<1>1. Init => InputsOK
  BY DEF Init, InputsOK
<1>2. IInv /\ InputsOK /\ [Next]_vars => InputsOK'
  <2> SUFFICES ASSUME IInv, InputsOK, [Next]_vars PROVE InputsOK'
    OBVIOUS
  <2>1. ASSUME NEW w \in Workers, FillInputBuffer(w)
        PROVE  InputsOK'
    <3>1. worker[w].frame \in Frames
      <4>1. /\ staging.first <= worker[w].frame /\ worker[w].frame < started
            /\ worker[w].frame \in Int
        BY <2>1 DEF FillInputBuffer, IInv, FramesOK, Types
      <4>2. /\ staging.first \in Nat /\ started \in Nat /\ started <= NumFrames
            /\ NumFrames \in Nat /\ Frames = 0 .. NumFrames - 1
        BY FramesAre DEF IInv, Types, BufferTypes
      <4> QED
        BY <4>1, <4>2
    <3> QED
      BY <2>1, <3>1, SizeStays DEF FillInputBuffer, InputsOK
  <2>2. ASSUME UNCHANGED <<size, unreadable>>, error' = error \/ error' = TRUE
        PROVE  InputsOK'
    BY <2>2, SizeStays DEF InputsOK
  <2>3. ASSUME NEW w \in Workers, Start(w) \/ Compress(w) \/ GiveUp(w) \/ AddFrame(w)
        PROVE  InputsOK'
    BY <2>3, <2>2 DEF Start, Compress, GiveUp, AddFrame
  <2>4. CASE FlusherStep
    BY <2>4, <2>2 DEF FlusherStep, FlushStep, Swap, FlushFails, WriteResolution, EmptyOutput,
                      WriterLoop, Poll, pool
  <2>5. CASE MainStep
    BY <2>5, <2>2 DEF MainStep, AddWork, PoolDestroyed, StopWriteThread, FlushTheRest, CloseFile,
                      AppendResolution, AppendFails, MovieDone, pool
  <2>6. CASE UNCHANGED vars
    BY <2>6, <2>2 DEF vars, pool
  <2> QED
    BY <2>1, <2>3, <2>4, <2>5, <2>6 DEF Next, WorkerStep
<1> QED
  BY <1>1, <1>2, SpecIInv, PTL DEF Spec

AbortedOK == aborted \in BOOLEAN

LEMMA AbortedIsBoolean == Spec => []AbortedOK
<1>1. Init => AbortedOK
  BY DEF Init, AbortedOK
<1>2. AbortedOK /\ [Next]_vars => AbortedOK'
  <2> SUFFICES ASSUME aborted \in BOOLEAN, [Next]_vars PROVE aborted' \in BOOLEAN
    BY DEF AbortedOK
  <2>1. ASSUME NEW w \in Workers, WorkerStep(w) PROVE aborted' \in BOOLEAN
    BY <2>1 DEF WorkerStep, Start, FillInputBuffer, Compress, GiveUp, AddFrame, Misplaced
  <2>2. CASE FlusherStep
    BY <2>2 DEF FlusherStep, FlushStep, Swap, FlushFails, WriteResolution, EmptyOutput, WriterLoop,
                Poll, Enter
  <2>3. CASE MainStep
    BY <2>3 DEF MainStep, AddWork, PoolDestroyed, StopWriteThread, FlushTheRest, CloseFile,
                AppendResolution, AppendFails, MovieDone, Enter
  <2> QED
    BY <2>1, <2>2, <2>3 DEF Next, vars
<1> QED
  BY <1>1, <1>2, PTL DEF Spec

\* Every variable has its type: a buffer counts no more frames than it has slots, and does
\* not start after the last frame (OutputBuffer).
THEOREM TypesHold == Spec => []TypeOK
<1>1. FInv /\ AbortedOK /\ InputsOK => TypeOK
  <2> SUFFICES ASSUME FInv, aborted \in BOOLEAN, unreadable \subseteq Frames PROVE TypeOK
    BY DEF AbortedOK, InputsOK
  <2>1. IInv /\ Types /\ DiskTypes /\ SlotsOK(staging)
    BY DEF FInv, IInv
  <2>2. NumFrames \in Nat /\ BufferSize \in Nat
    BY <2>1, FramesAre, SlotsAre DEF Types
  <2>3. staging.num <= BufferSize
    BY <2>1, SlotsAre, FilledIs, FS_Subset DEF SlotsOK
  <2>4. ASSUME NEW b \in BufferTypes, b.first <= NumFrames, b.num <= BufferSize,
               \A s \in Slots : b.slots[s] \in Frames \cup {None}
        PROVE  b \in Buffers
    <3>1. b = [first |-> b.first, slots |-> b.slots, num |-> b.num] /\ b.slots \in [Slots -> Int]
          /\ b.first \in Nat /\ b.num \in Nat
      BY DEF BufferTypes
    <3>2. b.slots \in [Slots -> Frames \cup {None}]
      BY <3>1, <2>4
    <3>3. b.first \in 0 .. NumFrames /\ b.num \in 0 .. BufferSize
      BY <3>1, <2>2, <2>4
    <3> QED
      BY <3>1, <3>2, <3>3 DEF Buffers
  <2>5. staging \in Buffers /\ output \in Buffers
    BY <2>1, <2>3, <2>4 DEF Types, DiskTypes
  <2>6. added \in 0 .. NumFrames /\ started \in 0 .. added
    BY <2>1, <2>2 DEF Types
  <2> QED
    BY <2>1, <2>5, <2>6 DEF Types, DiskTypes, TypeOK
<1> QED
  BY <1>1, SpecFInv, SpecInputs, AbortedIsBoolean, PTL

\* However long the movie, whatever the frames compress to and however the workers overtake
\* each other, making it fails only at an input that FillInputBuffer cannot use, at a batch
\* that takes more room at a lower resolution than at the first one (flushFrames), or when a
\* file operation does.
THEOREM NothingElseFails == Spec => []OnlyOversizeFails
<1>1. FInv => OnlyOversizeFails
  BY DEF FInv
<1> QED
  BY <1>1, SpecFInv, PTL

\* The file of a resolution never has a gap and is as long as mResFileBytes says, batch after
\* batch (flushFrames, and the check of combineResolutionFiles).
THEOREM NoGapInAFile == Spec => []FilesAreContiguous
<1>1. FInv => FilesAreContiguous
  BY DEF FInv
<1> QED
  BY <1>1, SpecFInv, PTL

\* Every movie that img2sm reports as made reads back: every input was good, and at the offset
\* in its header every frame has, at every resolution, the bytes it was compressed to, for
\* every number of frames, resolutions, workers and slots (flushFrames,
\* combineResolutionFiles).
THEOREM EveryMovieReadsBack == Spec => []MovieReadsBack
<1>1. FInv /\ InputsOK => MovieReadsBack
  <2> SUFFICES ASSUME FInv, InputsOK, main = "done"
               PROVE  unreadable = {} /\ \A r \in Resolutions : InMovie(r)
    BY DEF MovieReadsBack, InMovie
  <2>1. unreadable = {}
    BY DEF InputsOK, FInv, Appended
  <2>2. ASSUME NEW r \in Resolutions
        PROVE  InMovie(r)
    <3>1. r < res
      BY WriterAssumption DEF FInv, Appended, Resolutions
    <3> QED
      BY <3>1 DEF FInv, Appended
  <2> QED
    BY <2>1, <2>2
<1> QED
  BY <1>1, SpecFInv, SpecInputs, PTL
===============================================================================
