---------------------------- MODULE CuePlayProofs ----------------------------
(***************************************************************************)
(* What holds of playing cues for every list of cues, every set of movies   *)
(* and whatever the user does: the types, that the frame stays in its range, *)
(* that a round that was stopped sends nothing, that sidecar waits for the   *)
(* cue that is under way; and of a cue that is left alone, that it is played *)
(* to its last frame before it is completed.                                 *)
(***************************************************************************)
EXTENDS CuePlay, FiniteSetTheorems, SequenceTheorems, TLAPS

-------------------------------------------------------------------------------
(* The position stays in its range, whatever is done to it. *)

\* A position whose range has just been changed: the frame may be beyond its end.
Loose(p) ==
  /\ p \in Positions
  /\ p.start \in 0 .. p.last /\ p.start <= p.end
  /\ p.cur \in Nat

\* p has become q, in the same movie.
Keeps(p, q) == Loose(q) /\ q.last = p.last
Enters(p, q) == InRange(q) /\ q.last = p.last

LEMMA RangeIsLoose ==
  ASSUME NEW p
  PROVE  InRange(p) => Loose(p)
BY DEF InRange, Loose, Positions

\* Two fields at a time.
LEMMA Turns ==
  ASSUME NEW p, Loose(p), NEW c \in 0 .. p.end, NEW d \in {-1, 0, 1}
  PROVE  Enters(p, [p EXCEPT !.cur = c, !.dir = d])
<1> DEFINE q == [p EXCEPT !.cur = c, !.dir = d]
<1>1. /\ p \in Positions /\ c \in Int /\ p.start \in 0 .. p.last /\ p.start <= p.end
  BY DEF Loose, Positions
<1>2. q \in Positions
  BY <1>1 DEF Positions
<1>3. q.cur = c /\ q.start = p.start /\ q.end = p.end /\ q.last = p.last
  BY <1>1 DEF Positions
<1> HIDE DEF q
<1>4. Enters(p, q)
  BY <1>1, <1>2, <1>3 DEF Enters, InRange
<1> QED BY <1>4 DEF q

LEMMA Wraps ==
  ASSUME NEW p, Loose(p), NEW c \in 0 .. p.end, NEW r \in Int
  PROVE  Enters(p, [p EXCEPT !.cur = c, !.repeats = r])
<1> DEFINE q == [p EXCEPT !.cur = c, !.repeats = r]
<1>1. /\ p \in Positions /\ c \in Int /\ p.start \in 0 .. p.last /\ p.start <= p.end
  BY DEF Loose, Positions
<1>2. q \in Positions
  BY <1>1 DEF Positions
<1>3. q.cur = c /\ q.start = p.start /\ q.end = p.end /\ q.last = p.last
  BY <1>1 DEF Positions
<1> HIDE DEF q
<1>4. Enters(p, q)
  BY <1>1, <1>2, <1>3 DEF Enters, InRange
<1> QED BY <1>4 DEF q

LEMMA Ranges ==
  ASSUME NEW p, Loose(p), NEW s \in 0 .. p.last, NEW e \in Int, s <= e
  PROVE  Keeps(p, [p EXCEPT !.start = s, !.end = e])
<1> DEFINE q == [p EXCEPT !.start = s, !.end = e]
<1>1. p \in Positions /\ s \in Int /\ p.cur \in Nat
  BY DEF Loose, Positions
<1>2. q \in Positions
  BY <1>1 DEF Positions
<1>3. q.cur = p.cur /\ q.start = s /\ q.end = e /\ q.last = p.last
  BY <1>1 DEF Positions
<1> HIDE DEF q
<1>4. Keeps(p, q)
  BY <1>1, <1>2, <1>3 DEF Keeps, Loose
<1> QED BY <1>4 DEF q

LEMMA Repeats ==
  ASSUME NEW p, Loose(p), NEW on \in BOOLEAN, NEW r \in Int
  PROVE  Keeps(p, [p EXCEPT !.pingpong = on, !.repeats = r])
<1> DEFINE q == [p EXCEPT !.pingpong = on, !.repeats = r]
<1>1. /\ p \in Positions /\ p.cur \in Nat /\ p.start \in 0 .. p.last /\ p.start <= p.end
  BY DEF Loose
<1>2. q \in Positions
  BY <1>1 DEF Positions
<1>3. q.cur = p.cur /\ q.start = p.start /\ q.end = p.end /\ q.last = p.last
  BY <1>1 DEF Positions
<1> HIDE DEF q
<1>4. Keeps(p, q)
  BY <1>1, <1>2, <1>3 DEF Keeps, Loose
<1> QED BY <1>4 DEF q

LEMMA SetFrameEnters ==
  ASSUME NEW p, Loose(p), NEW n \in Int
  PROVE  Enters(p, SetFrame(p, n))
<1>1. /\ p \in Positions /\ p.start \in 0 .. p.last /\ p.start <= p.end
      /\ p.cur \in Nat /\ p.last \in Int /\ p.start \in Int /\ p.end \in Int
      /\ p.dir \in {-1, 0, 1} /\ p.repeats \in Int /\ p.pingpong \in BOOLEAN
  BY DEF Loose, Positions
<1>2. \A c \in 0 .. p.end : Enters(p, [p EXCEPT !.cur = c])
  <2> TAKE c \in 0 .. p.end
  <2>1. [p EXCEPT !.cur = c] = [p EXCEPT !.cur = c, !.repeats = p.repeats]
    BY <1>1 DEF Positions
  <2>2. Enters(p, [p EXCEPT !.cur = c, !.repeats = p.repeats])
    BY <1>1, Wraps, Zenon
  <2> QED BY <2>1, <2>2, Zenon
<1>3. CASE n \in p.start .. p.end
  <2>1. n \in 0 .. p.end
    BY <1>1, <1>3
  <2> QED BY <1>2, <1>3, <2>1 DEF SetFrame
<1>4. CASE n \notin p.start .. p.end
  <2> DEFINE below == n < p.start
  <2>1. below \in BOOLEAN
    OBVIOUS
  <2>2. SetFrame(p, n) = Beyond(p, below)
    BY <1>4 DEF SetFrame
  <2> HIDE DEF below
  <2>3. CASE p.end = p.start
    BY <1>1, <1>2, <2>2, <2>3 DEF Beyond, BeyondSingle
  <2>4. CASE p.end # p.start /\ p.pingpong
    <3> DEFINE c == IF below THEN 1 ELSE p.end - 1
               d == -p.dir
    <3>1. Beyond(p, below) = [p EXCEPT !.cur = c, !.dir = d]
      BY <2>4 DEF Beyond, TurnRound
    <3>2. d \in {-1, 0, 1} /\ c \in 0 .. p.end
      BY <1>1, <2>4
    <3> HIDE DEF c, d
    <3>3. Enters(p, [p EXCEPT !.cur = c, !.dir = d])
      BY <3>2, Turns, Zenon
    <3> QED BY <2>2, <3>1, <3>3, Zenon
  <2>5. CASE p.end # p.start /\ ~p.pingpong /\ p.repeats # 0
    <3> DEFINE c == IF below THEN p.end ELSE 0
               r == IF p.repeats > 0 THEN p.repeats - 1 ELSE p.repeats
    <3>1. Beyond(p, below) = [p EXCEPT !.cur = c, !.repeats = r]
      BY <2>5 DEF Beyond, Wrap
    <3>2. r \in Int /\ c \in 0 .. p.end
      BY <1>1
    <3> HIDE DEF c, r
    <3>3. Enters(p, [p EXCEPT !.cur = c, !.repeats = r])
      BY <3>2, Wraps, Zenon
    <3> QED BY <2>2, <3>1, <3>3, Zenon
  <2>6. CASE p.end # p.start /\ ~p.pingpong /\ p.repeats = 0
    <3> DEFINE c == IF below THEN 0 ELSE p.end
    <3>1. Beyond(p, below) = [p EXCEPT !.cur = c, !.dir = 0]
      BY <2>6 DEF Beyond, StopThere
    <3>2. c \in 0 .. p.end
      BY <1>1
    <3> HIDE DEF c
    <3>3. Enters(p, [p EXCEPT !.cur = c, !.dir = 0])
      BY <3>2, Turns, 0 \in {-1, 0, 1}, Zenon
    <3> QED BY <2>2, <3>1, <3>3, Zenon
  <2> QED BY <1>1, <2>3, <2>4, <2>5, <2>6
<1> QED BY <1>3, <1>4

LEMMA AdvanceFrameEnters ==
  ASSUME NEW p, Loose(p), NEW n \in Int
  PROVE  Enters(p, AdvanceFrame(p, n))
<1>1. p.cur + n \in Int
  BY DEF Loose, Positions
<1> QED BY <1>1, SetFrameEnters DEF AdvanceFrame

LEMMA SetPlayDirectionKeeps ==
  ASSUME NEW p, Loose(p), NEW d \in {-1, 0, 1}
  PROVE  Keeps(p, SetPlayDirection(p, d))
BY DEF Loose, Positions, Keeps, SetPlayDirection

LEMMA SetStartEndFramesKeeps ==
  ASSUME NEW p, Loose(p), NEW s \in Int, NEW e \in Int
  PROVE  Keeps(p, SetStartEndFrames(p, s, e))
<1> DEFINE a == CASE s < 0 -> 0 [] s >= 0 /\ s > p.last -> p.last [] OTHER -> s
           b == IF e < 0 THEN p.last ELSE e
           c == IF b < a THEN a ELSE b
<1>1. p.last \in Nat
  BY DEF Loose, Positions
<1>2. a \in 0 .. p.last
  BY <1>1
<1>3. b \in Int
  BY <1>1
<1>4. SetStartEndFrames(p, s, e) = [p EXCEPT !.start = a, !.end = c]
  BY DEF SetStartEndFrames
<1> HIDE DEF a, b
<1>5. c \in Int /\ a <= c
  BY <1>1, <1>2, <1>3
<1> HIDE DEF c
<1>6. Keeps(p, [p EXCEPT !.start = a, !.end = c])
  BY <1>2, <1>5, Ranges, Zenon
<1> QED BY <1>4, <1>6, Zenon

LEMMA OpenMovieInRange ==
  ASSUME NEW p \in Positions, NEW n \in Nat \ {0}
  PROVE  InRange(OpenMovie(p, n)) /\ OpenMovie(p, n).last = n - 1
<1> DEFINE l == n - 1
           a == [p EXCEPT !.cur = 0, !.dir = 0]
           b == [a EXCEPT !.repeats = 0, !.start = 0]
           q == [b EXCEPT !.end = l, !.last = l]
<1>1. 0 \in Int /\ 0 \in {-1, 0, 1} /\ l \in Int /\ l >= 0
  OBVIOUS
<1>2. OpenMovie(p, n) = q
  BY DEF Positions, OpenMovie
<1>3. a = [p EXCEPT !.cur = 0, !.dir = 0]
  OBVIOUS
<1>8. b = [a EXCEPT !.repeats = 0, !.start = 0]
  OBVIOUS
<1>9. q = [b EXCEPT !.end = l, !.last = l]
  OBVIOUS
<1> HIDE DEF l, a, b, q
<1>4. a \in Positions /\ a.cur = 0
  BY <1>1, <1>3 DEF Positions
<1>5. b \in Positions /\ b.cur = a.cur /\ b.start = 0
  BY <1>1, <1>4, <1>8 DEF Positions
<1>6. q \in Positions /\ q.cur = b.cur /\ q.start = b.start /\ q.end = l /\ q.last = l
  BY <1>1, <1>5, <1>9 DEF Positions
<1>7. InRange(q) /\ q.last = l
  BY <1>1, <1>4, <1>5, <1>6 DEF InRange
<1> QED BY <1>2, <1>7 DEF l

\* An event may change the range, but the frame is not moved out of it.
LEMMA EffectKeeps ==
  ASSUME NEW p, Loose(p), NEW e \in Events,
         e.mEventType = "MOVIE_CUE_PLAY_ON_LOAD" => e.mHeight \in {-1, 0, 1}
  PROVE  Keeps(p, Effect(p, e))
<1>1. /\ e.mNumber \in Int /\ e.mWidth \in Int /\ e.mHeight \in Int
      /\ p.dir \in {-1, 0, 1} /\ p.pingpong \in BOOLEAN /\ p.repeats \in Int /\ p.last \in Nat
  BY DEF Events, Loose, Positions
<1>2. Keeps(p, p)
  BY DEF Keeps
<1>3. Keeps(p, SetPingPong(p, e.mNumber # 0))
  <2> DEFINE on == e.mNumber # 0
             r == IF on THEN 0 ELSE p.repeats
  <2>1. on \in BOOLEAN /\ r \in Int
    BY <1>1
  <2>2. SetPingPong(p, on) = [p EXCEPT !.pingpong = on, !.repeats = r]
    BY DEF SetPingPong
  <2> HIDE DEF on, r
  <2>3. Keeps(p, [p EXCEPT !.pingpong = on, !.repeats = r])
    BY <2>1, Repeats, Zenon
  <2>4. Keeps(p, SetPingPong(p, on))
    BY <2>2, <2>3, Zenon
  <2> QED BY <2>4 DEF on
<1>4. Keeps(p, SetRepeat(p, e.mNumber))
  <2> DEFINE on == p.pingpong /\ e.mNumber = 0
  <2>1. on \in BOOLEAN
    OBVIOUS
  <2>2. SetRepeat(p, e.mNumber) = [p EXCEPT !.repeats = e.mNumber, !.pingpong = on]
    BY DEF SetRepeat
  <2>3. @ = [p EXCEPT !.pingpong = on, !.repeats = e.mNumber]
    BY <1>1 DEF Loose, Positions
  <2> HIDE DEF on
  <2>4. Keeps(p, [p EXCEPT !.pingpong = on, !.repeats = e.mNumber])
    BY <1>1, <2>1, Repeats, Zenon
  <2> QED BY <2>2, <2>3, <2>4, Zenon
<1>5. Keeps(p, StepForward(p)) /\ Keeps(p, StepBackward(p))
  <2> DEFINE q == SetPlayDirection(p, 0)
  <2>1. Keeps(p, q)
    BY SetPlayDirectionKeeps
  <2>2. Loose(q) /\ q.last = p.last
    BY <2>1 DEF Keeps
  <2>3. \A n \in {-1, 1} : Keeps(q, AdvanceFrame(q, n)) /\ Keeps(p, AdvanceFrame(p, n))
    <3> HIDE DEF q
    <3> QED BY <2>2, AdvanceFrameEnters, RangeIsLoose DEF Enters, Keeps
  <2>4. \A n \in {-1, 1} : Keeps(p, AdvanceFrame(q, n)) /\ Keeps(p, AdvanceFrame(p, n))
    BY <2>2, <2>3 DEF Keeps
  <2> QED BY <2>4 DEF StepForward, StepBackward
<1>6. \A d \in {-1, 0, 1} : Keeps(p, SetPlayDirection(p, d))
  BY SetPlayDirectionKeeps
<1>7. \A n \in Int : Keeps(p, SetFrame(p, n)) /\ Keeps(p, AdvanceFrame(p, n))
  BY SetFrameEnters, AdvanceFrameEnters, RangeIsLoose DEF Enters, Keeps
<1>8. SectionLength(p) \in Int
  BY <1>1 DEF SectionLength
<1>9. -SectionLength(p) \in Int
  BY <1>8
<1>10. e.mEventType = "MOVIE_START_END_FRAMES"
         => Keeps(p, SetStartEndFrames(p, e.mWidth, e.mHeight))
  BY <1>1, SetStartEndFramesKeeps
<1> DEFINE t == e.mEventType
<1>11. CASE t \in {"MOVIE_CUE_PLAY_ON_LOAD", "MOVIE_PLAY_FORWARD", "MOVIE_PLAY_BACKWARD",
                   "MOVIE_STOP", "MOVIE_STOP_ERROR", "MOVIE_PAUSE"}
  BY <1>6, <1>11 DEF Effect
<1>12. CASE t \in {"MOVIE_START_END_FRAMES", "MOVIE_SET_PINGPONG", "MOVIE_SET_REPEAT"}
  BY <1>3, <1>4, <1>10, <1>12 DEF Effect
<1>13. CASE t \in {"MOVIE_STEP_FORWARD", "MOVIE_STEP_BACKWARD", "MOVIE_SKIP_FORWARD",
                   "MOVIE_SKIP_BACKWARD"}
  BY <1>5, <1>7, <1>13 DEF Effect
<1>14. CASE t \in {"MOVIE_SECTION_FORWARD", "MOVIE_SECTION_BACKWARD"}
  BY <1>7, <1>8, <1>9, <1>14 DEF Effect
<1>15. CASE t \in {"MOVIE_GOTO_START", "MOVIE_GOTO_END", "MOVIE_GOTO_FRAME"}
  BY <1>1, <1>7, <1>15 DEF Effect
<1>16. \/ t \in {"MOVIE_CUE_PLAY_ON_LOAD", "MOVIE_PLAY_FORWARD", "MOVIE_PLAY_BACKWARD",
                 "MOVIE_STOP", "MOVIE_STOP_ERROR", "MOVIE_PAUSE"}
       \/ t \in {"MOVIE_START_END_FRAMES", "MOVIE_SET_PINGPONG", "MOVIE_SET_REPEAT"}
       \/ t \in {"MOVIE_STEP_FORWARD", "MOVIE_STEP_BACKWARD", "MOVIE_SKIP_FORWARD",
                 "MOVIE_SKIP_BACKWARD"}
       \/ t \in {"MOVIE_SECTION_FORWARD", "MOVIE_SECTION_BACKWARD"}
       \/ t \in {"MOVIE_GOTO_START", "MOVIE_GOTO_END", "MOVIE_GOTO_FRAME"}
       \/ Effect(p, e) = p
  BY DEF Effect
<1> QED BY <1>2, <1>11, <1>12, <1>13, <1>14, <1>15, <1>16
-------------------------------------------------------------------------------
(* The inductive invariant *)

Rounds == [kind : {"execute", "loop"}, next : Nat \ {0}, pc : {"send", "wait"},
           stopped : BOOLEAN, halted : BOOLEAN]

\* Events that are harmless in every movie
Good == {e \in Events : EventOK(e)}

\* What is on its way to the player, and where the player is
PlayerOK ==
  /\ script \in Seq(Good) /\ events \in Seq(Good) /\ toPlayer \in Seq(Good)
  /\ InRange(position)

\* The rest of the types
FlagsOK ==
  /\ renderer \in BOOLEAN /\ cuePlaying \in BOOLEAN /\ cueEndFrame \in Int
  /\ done \in BOOLEAN /\ toSidecar \in Seq(Events) /\ connected \in BOOLEAN
  /\ seen \in 0 .. MaxSeen /\ clicks \in Nat
  /\ touched \in BOOLEAN /\ bare \in BOOLEAN /\ nested \in BOOLEAN
  /\ running \in BOOLEAN /\ mStopLooping \in BOOLEAN /\ mCueExecuting \in BOOLEAN

RoundsOK ==
  /\ rounds \in Seq(Rounds)
  /\ rounds # << >> /\ Top.stopped => mStopLooping
  /\ ~nested => /\ Len(rounds) <= 1
                /\ mCueExecuting => rounds # << >> /\ Top.pc = "wait"

IInv == PlayerOK /\ FlagsOK /\ RoundsOK

LEMMA TypesFollow == IInv => TypeOK /\ FrameInRange
<1> SUFFICES ASSUME IInv PROVE TypeOK /\ FrameInRange
  OBVIOUS
<1>1. Good \subseteq Events
  BY DEF Good
<1>2. script \in Seq(Events) /\ events \in Seq(Events) /\ toPlayer \in Seq(Events)
  BY <1>1, SeqMonotonic DEF IInv, PlayerOK
<1> QED BY <1>2 DEF IInv, PlayerOK, FlagsOK, RoundsOK, TypeOK, Rounds, FrameInRange, InRange

LEMMA PlainTypes ==
  {"MOVIE_NONE", "MOVIE_QUIT", "MOVIE_FULLSCREEN", "MOVIE_CUE_BEGIN", "MOVIE_CUE_END",
   "MOVIE_CUE_COMPLETE", "MOVIE_SET_REPEAT", "MOVIE_SET_PINGPONG", "MOVIE_PLAY_FORWARD",
   "MOVIE_PLAY_BACKWARD", "MOVIE_STOP", "MOVIE_STOP_ERROR", "MOVIE_GOTO_FRAME"}
  \subseteq EventTypes \ {"MOVIE_CUE_PLAY_ON_LOAD", "MOVIE_START_END_FRAMES"}
BY DEF EventTypes

LEMMA EventGood ==
  ASSUME NEW type \in EventTypes, NEW n \in Int, NEW w \in Int, NEW h \in Int,
         NEW m \in Movies \cup {NoMovie},
         type = "MOVIE_CUE_PLAY_ON_LOAD" => h \in {-1, 0, 1},
         type = "MOVIE_START_END_FRAMES" => \A k \in Movies : Frames[k] > 0 => h < Frames[k]
  PROVE  Event(type, n, w, h, m) \in Good
<1> DEFINE e == Event(type, n, w, h, m)
<1>1. e \in Events /\ e.mEventType = type /\ e.mHeight = h
  BY DEF Event, Events
<1> HIDE DEF e
<1>2. EventOK(e)
  BY <1>1 DEF EventOK
<1>3. e \in Good
  BY <1>1, <1>2 DEF Good
<1> QED BY <1>3 DEF e

\* Events that change no range are good.
LEMMA GoodEvents ==
  ASSUME NEW type \in EventTypes, type \notin {"MOVIE_CUE_PLAY_ON_LOAD", "MOVIE_START_END_FRAMES"}
  PROVE  /\ \A n \in Int : Numbered(type, n) \in Good
         /\ Plain(type) \in Good
<1>1. \A n \in Int : Event(type, n, 0, 0, NoMovie) \in Good
  BY EventGood
<1>2. Event(type, 0, 0, 0, NoMovie) \in Good
  BY <1>1
<1> QED BY <1>1, <1>2, Zenon DEF Numbered, Plain

LEMMA GoodOpen == \A m \in Movies : Open(m) \in Good
<1> TAKE m \in Movies
<1>1. "MOVIE_OPEN_FILE" \in EventTypes /\ 0 \in Int /\ m \in Movies \cup {NoMovie}
  BY DEF EventTypes
<1>2. Event("MOVIE_OPEN_FILE", 0, 0, 0, m) \in Good
  BY <1>1, EventGood
<1> QED BY <1>2 DEF Open

LEMMA GoodScripts ==
  ASSUME NEW c \in CueRecords
  PROVE  GenerateScript(c) \in Seq(Good) /\ Len(GenerateScript(c)) > 1
<1> DEFINE a == << Numbered("MOVIE_CUE_BEGIN", c.end) >>
           b == IF c.movie # NoMovie THEN << Open(c.movie) >> ELSE << >>
           p == IF c.backward THEN -1 ELSE 1
           d == IF c.play THEN << Numbered("MOVIE_CUE_PLAY_ON_LOAD", p) >> ELSE << >>
           g == IF c.pingpong THEN 1 ELSE 0
           f == << Numbered("MOVIE_SET_REPEAT", c.repeats), Numbered("MOVIE_SET_PINGPONG", g),
                   Numbered("MOVIE_FULLSCREEN", 0), Numbered("MOVIE_GOTO_FRAME", c.current),
                   Event("MOVIE_START_END_FRAMES", 0, c.start, c.end, NoMovie) >>
           t == IF c.backward THEN "MOVIE_PLAY_BACKWARD" ELSE "MOVIE_PLAY_FORWARD"
           h == IF c.play THEN << Plain(t) >> ELSE << >>
           i == << Plain("MOVIE_CUE_END") >>
<1>1. /\ c.end \in Int /\ c.repeats \in Int /\ c.current \in Int /\ c.start \in Int
      /\ c.movie \in Movies \cup {NoMovie} /\ p \in Int /\ g \in Int
      /\ t \in {"MOVIE_PLAY_BACKWARD", "MOVIE_PLAY_FORWARD"}
  BY DEF CueRecords
<1>2. GenerateScript(c) = a \o b \o d \o f \o h \o i
  BY DEF GenerateScript
<1> HIDE DEF p, g, t
<1>3. Numbered("MOVIE_CUE_BEGIN", c.end) \in Good
  BY <1>1, PlainTypes, GoodEvents
<1>4. c.movie # NoMovie => Open(c.movie) \in Good
  BY <1>1, GoodOpen
<1>5. Numbered("MOVIE_CUE_PLAY_ON_LOAD", p) \in Good
  BY <1>1 DEF Good, Event, EventOK, Events, Numbered, EventTypes
<1>6. /\ Numbered("MOVIE_SET_REPEAT", c.repeats) \in Good
      /\ Numbered("MOVIE_SET_PINGPONG", g) \in Good
      /\ Numbered("MOVIE_FULLSCREEN", 0) \in Good
      /\ Numbered("MOVIE_GOTO_FRAME", c.current) \in Good
  BY <1>1, PlainTypes, GoodEvents
<1>7. Event("MOVIE_START_END_FRAMES", 0, c.start, c.end, NoMovie) \in Good
  BY <1>1 DEF Good, Event, EventOK, Events, EventTypes
<1>8. Plain(t) \in Good /\ Plain("MOVIE_CUE_END") \in Good
  BY <1>1, PlainTypes, GoodEvents
<1>9. a \in Seq(Good) /\ Len(a) = 1
  BY <1>3
<1>10. b \in Seq(Good) /\ Len(b) >= 0
  BY <1>4
<1>11. d \in Seq(Good) /\ Len(d) >= 0
  BY <1>5
<1>12. f \in Seq(Good) /\ Len(f) = 5
  BY <1>6, <1>7
<1>13. h \in Seq(Good) /\ Len(h) >= 0
  BY <1>8
<1>14. i \in Seq(Good) /\ Len(i) = 1
  BY <1>8
<1> HIDE DEF a, b, d, f, h, i
<1>15. \A x, y \in Seq(Good) :
          /\ x \o y \in Seq(Good) /\ Len(x \o y) = Len(x) + Len(y)
          /\ Len(x) \in Nat /\ Len(y) \in Nat
  BY ConcatProperties, LenProperties
<1>16. a \o b \in Seq(Good) /\ Len(a \o b) >= 1
  <2>1. a \in Seq(Good) /\ b \in Seq(Good)
    BY <1>9, <1>10
  <2>2. /\ a \o b \in Seq(Good) /\ Len(a \o b) = Len(a) + Len(b)
        /\ Len(b) \in Nat
    BY <2>1, <1>15, Zenon
  <2> QED BY <2>2, <1>9
<1>17. a \o b \o d \in Seq(Good) /\ Len(a \o b \o d) >= 1
  BY <1>16, <1>11, <1>15
<1>18. a \o b \o d \o f \in Seq(Good) /\ Len(a \o b \o d \o f) >= 1
  BY <1>17, <1>12, <1>15
<1>19. a \o b \o d \o f \o h \in Seq(Good) /\ Len(a \o b \o d \o f \o h) >= 1
  BY <1>18, <1>13, <1>15
<1>20. a \o b \o d \o f \o h \o i \in Seq(Good) /\ Len(a \o b \o d \o f \o h \o i) >= 2
  BY <1>19, <1>14, <1>15
<1> QED BY <1>2, <1>20

LEMMA SendsGood ==
  ASSUME NEW S, NEW c \in Seq(S), NEW es \in Seq(S)
  PROVE  Send(c, es) \in Seq(S) /\ Len(Send(c, es)) <= Len(c) + Len(es)
<1>1. Len(c) \in Nat /\ Len(es) \in Nat
  BY LenProperties
<1>2. CASE connected
  BY <1>1, <1>2, ConcatProperties DEF Send
<1>3. CASE ~connected
  BY <1>1, <1>3 DEF Send
<1> QED BY <1>2, <1>3
-------------------------------------------------------------------------------
(* The player *)

LEMMA FinishTypes ==
  ASSUME IInv, NEW e, NEW p, Loose(p), e.mEventType = "MOVIE_NONE" => InRange(p),
         NEW playing \in BOOLEAN, NEW sent \in Seq(Events),
         NEW n \in 0 .. MaxSeen, Finish(e, p, playing, sent, n)
  PROVE  /\ cuePlaying' \in BOOLEAN /\ toSidecar' \in Seq(Events) /\ seen' \in 0 .. MaxSeen
         /\ Enters(p, position')
<1>1. cuePlaying' \in BOOLEAN /\ seen' \in 0 .. MaxSeen
  BY CueAssumption DEF Finish, Shown
<1>2. toSidecar' \in Seq(Events)
  <2> DEFINE over == playing /\ CueIsOver(p)
             more == IF over THEN << Complete >> ELSE << >>
  <2>1. Complete \in Events
    BY PlainTypes, GoodEvents DEF Complete, Good
  <2>2. more \in Seq(Events)
    BY <2>1
  <2>3. toSidecar' = Send(toSidecar, sent \o more)
    BY DEF Finish
  <2> HIDE DEF more
  <2>4. sent \o more \in Seq(Events) /\ toSidecar \in Seq(Events)
    BY <2>2, ConcatProperties DEF IInv, FlagsOK
  <2> QED BY <2>3, <2>4, SendsGood
<1>3. Enters(p, position')
  <2>1. (e.mEventType = "MOVIE_NONE" => Enters(p, p)) /\ p.dir \in Int
    BY DEF Enters, Loose, Positions
  <2>2. Enters(p, AdvanceFrame(p, p.dir))
    BY <2>1, AdvanceFrameEnters
  <2>3. \/ e.mEventType = "MOVIE_NONE" /\ position' = p
       \/ position' = AdvanceFrame(p, p.dir)
    BY DEF Finish
  <2> QED BY <2>1, <2>2, <2>3
<1> QED BY <1>1, <1>2, <1>3

LEMMA FinishOrNotTypes ==
  ASSUME IInv, NEW e, NEW p, renderer => Keeps(position, p),
         e.mEventType = "MOVIE_NONE" => InRange(p),
         NEW playing \in BOOLEAN, NEW sent \in Seq(Events),
         NEW n \in 0 .. MaxSeen, FinishOrNot(e, p, playing, sent, n)
  PROVE  /\ cuePlaying' \in BOOLEAN /\ toSidecar' \in Seq(Events) /\ seen' \in 0 .. MaxSeen
         /\ Enters(position, position')
<1>1. CASE renderer
  <2>1. Loose(p) /\ p.last = position.last
    BY <1>1 DEF Keeps
  <2>2. Finish(e, p, playing, sent, n)
    BY <1>1 DEF FinishOrNot
  <2>3. /\ cuePlaying' \in BOOLEAN /\ toSidecar' \in Seq(Events) /\ seen' \in 0 .. MaxSeen
        /\ Enters(p, position')
    BY <2>1, <2>2, FinishTypes
  <2> QED BY <2>1, <2>3 DEF Enters
<1>2. CASE ~renderer
  <2>1. toSidecar' \in Seq(Events)
    BY <1>2, SendsGood DEF FinishOrNot, IInv, FlagsOK
  <2> QED BY <1>2, <2>1 DEF FinishOrNot, Enters, IInv, PlayerOK
<1> QED BY <1>1, <1>2

\* What an event does, however it is handled.
LEMMA HandleEventKeeps ==
  ASSUME IInv, HandleEvent
  PROVE  IInv'
<1> DEFINE e == Current
<1>1. /\ events # << >> /\ events \in Seq(Good) /\ script \in Seq(Good)
      /\ position \in Positions /\ InRange(position)
  BY DEF HandleEvent, IInv, PlayerOK, InRange
<1>2. Head(events) \in Good /\ Tail(events) \in Seq(Good)
  BY <1>1, HeadTailProperties
<1>3. script # << >> => Head(script) \in Good /\ Tail(script) \in Seq(Good)
  BY <1>1, HeadTailProperties
<1>4. e \in Good
  BY <1>2, <1>3 DEF Current, Scripted
<1>5. script' \in Seq(Good) /\ events' \in Seq(Good)
  <2>1. << >> \in Seq(Good)
    BY EmptySeq
  <2>2. script' = script \/ (script # << >> /\ script' = Tail(script))
    BY DEF HandleEvent, Scripted
  <2>3. events' = << >> \/ events' = Tail(events)
    BY DEF HandleEvent
  <2> QED BY <1>1, <1>2, <1>3, <2>1, <2>2, <2>3
<1>6. /\ OpenFile(e) \/ OpenFails(e) \/ CueBegin(e) \/ CueEnd(e) \/ Quit(e) \/ Reposition(e)
      /\ UNCHANGED <<toPlayer, connected, sidecarVars, clicks>> /\ touched' \in BOOLEAN
  BY DEF HandleEvent, IInv, FlagsOK
<1>7. e \in Events /\ EventOK(e) /\ e.mNumber \in Int
  BY <1>4 DEF Good, Events
<1> HIDE DEF e
<1>8. Keeps(position, position) /\ Loose(position) /\ 0 \in 0 .. MaxSeen /\ seen \in 0 .. MaxSeen /\ cuePlaying \in BOOLEAN
  BY <1>1, RangeIsLoose, CueAssumption DEF Keeps, IInv, FlagsOK
<1>9. /\ << >> \in Seq(Events) /\ << Complete >> \in Seq(Events) /\ << e >> \in Seq(Events)
      /\ << Plain("MOVIE_STOP_ERROR") >> \in Seq(Events)
  <2>1. Complete \in Events /\ Plain("MOVIE_STOP_ERROR") \in Events
    BY PlainTypes, GoodEvents DEF Complete, Good
  <2> HIDE DEF Complete
  <2> QED BY <1>7, <2>1
<1>10. /\ InRange(position')
       /\ renderer' \in BOOLEAN /\ cuePlaying' \in BOOLEAN /\ cueEndFrame' \in Int
       /\ done' \in BOOLEAN /\ toSidecar' \in Seq(Events) /\ seen' \in 0 .. MaxSeen /\ bare' \in BOOLEAN
  <2>1. CASE OpenFile(e)
    <3> DEFINE m == e.mString
    <3>1. m \in Movies /\ Frames[m] \in Nat \ {0} /\ renderer' = TRUE
      BY <2>1, CueAssumption DEF OpenFile
    <3> DEFINE p == OpenMovie(position, Frames[m])
    <3>2. InRange(p) /\ Loose(p)
      BY <1>1, <3>1, OpenMovieInRange, RangeIsLoose
    <3>3. Finish(e, p, cuePlaying, << >>, 0)
      BY <2>1 DEF OpenFile
    <3> HIDE DEF p
    <3>4. /\ cuePlaying' \in BOOLEAN /\ toSidecar' \in Seq(Events) /\ seen' \in 0 .. MaxSeen
          /\ Enters(p, position')
      BY <1>8, <1>9, <3>2, <3>3, FinishTypes
    <3>5. InRange(position')
      BY <3>4 DEF Enters
    <3>6. cueEndFrame' \in Int /\ done' \in BOOLEAN /\ bare' \in BOOLEAN
      BY <2>1 DEF OpenFile, IInv, FlagsOK
    <3> HIDE DEF m
    <3> QED BY <3>1, <3>4, <3>5, <3>6
  <2>2. CASE OpenFails(e)
    <3>1. toSidecar' \in Seq(Events)
      BY <2>2, <1>9, SendsGood DEF OpenFails, IInv, FlagsOK
    <3> QED BY <2>2, <3>1 DEF OpenFails, IInv, FlagsOK, PlayerOK
  <2>3. CASE CueBegin(e) \/ CueEnd(e) \/ Quit(e) \/ Reposition(e)
    <3>1. Keeps(position, Effect(position, e))
      BY <1>7, <1>8, EffectKeeps DEF EventOK
    <3>2. /\ cuePlaying' \in BOOLEAN /\ toSidecar' \in Seq(Events) /\ seen' \in 0 .. MaxSeen
          /\ Enters(position, position')
      <4>1. CASE CueBegin(e)
        <5>1. FinishOrNot(e, position, cuePlaying, << >>, 0)
          BY <4>1 DEF CueBegin
        <5> QED BY <5>1, <1>1, <1>8, <1>9, FinishOrNotTypes
      <4>2. CASE CueEnd(e)
        <5> DEFINE sent == IF renderer THEN << >> ELSE << Complete >>
        <5>1. FinishOrNot(e, position, TRUE, sent, seen)
          BY <4>2 DEF CueEnd
        <5>2. sent \in Seq(Events)
          BY <1>9
        <5> HIDE DEF sent
        <5> QED BY <5>1, <5>2, <1>1, <1>8, FinishOrNotTypes
      <4>3. CASE Quit(e)
        <5>1. FinishOrNot(e, position, cuePlaying, << >>, seen)
          BY <4>3 DEF Quit
        <5> QED BY <5>1, <1>1, <1>8, <1>9, FinishOrNotTypes
      <4>4. CASE Reposition(e)
        <5> DEFINE sent == IF e.mEventType = "MOVIE_STOP_ERROR" THEN << e >> ELSE << >>
                   p == Effect(position, e)
        <5>1. FinishOrNot(e, p, cuePlaying, sent, seen)
          BY <4>4 DEF Reposition
        <5>2. sent \in Seq(Events)
          BY <1>9
        <5>3. Keeps(position, p) /\ (e.mEventType = "MOVIE_NONE" => InRange(p))
          BY <1>1, <3>1 DEF Effect
        <5> HIDE DEF sent, p
        <5> QED BY <5>1, <5>2, <5>3, <1>8, FinishOrNotTypes
      <4> QED BY <2>3, <4>1, <4>2, <4>3, <4>4
    <3>4. renderer' = renderer /\ cueEndFrame' \in Int /\ done' \in BOOLEAN /\ bare' \in BOOLEAN
      BY <2>3, <1>7 DEF CueBegin, CueEnd, Quit, Reposition, IInv, FlagsOK
    <3> QED BY <3>2, <3>4 DEF Enters, IInv, PlayerOK, FlagsOK
  <2> QED BY <1>6, <2>1, <2>2, <2>3
<1>11. RoundsOK'
  BY <1>6 DEF IInv, RoundsOK, sidecarVars, Top
<1>12. PlayerOK'
  BY <1>5, <1>6, <1>10 DEF IInv, PlayerOK
<1>13. FlagsOK'
  BY <1>6, <1>10 DEF IInv, FlagsOK, sidecarVars
<1> QED BY <1>11, <1>12, <1>13 DEF IInv
LEMMA UserEventsGood == UserEvents \subseteq Good
BY CueAssumption DEF Good, EventOK

LEMMA CollectKeeps ==
  ASSUME IInv, Collect
  PROVE  IInv'
<1>1. PICK windows, keys \in {<< >>} \cup {<< e >> : e \in UserEvents} :
        /\ clicks' = clicks + Len(windows) + Len(keys)
        /\ events' = windows
                       \o (IF toPlayer = << >> THEN << >> ELSE << Head(toPlayer) >>)
                       \o (IF keys = << >> THEN << None >> ELSE keys)
  BY DEF Collect
<1>2. windows \in Seq(Good) /\ keys \in Seq(Good)
  <2>1. \A e \in UserEvents : << e >> \in Seq(Good)
    BY UserEventsGood
  <2> QED BY <2>1, EmptySeq
<1>3. clicks' \in Nat
  BY <1>1, <1>2, LenProperties DEF IInv, FlagsOK
<1>4. toPlayer \in Seq(Good)
  BY DEF IInv, PlayerOK
<1>5. events' \in Seq(Good)
  <2> DEFINE a == IF toPlayer = << >> THEN << >> ELSE << Head(toPlayer) >>
             b == IF keys = << >> THEN << None >> ELSE keys
  <2>1. a \in Seq(Good)
    <3>1. CASE toPlayer # << >>
      <4>1. Head(toPlayer) \in Good
        BY <1>4, <3>1, HeadTailProperties
      <4> QED BY <4>1, <3>1
    <3> QED BY <3>1
  <2>2. b \in Seq(Good)
    <3>1. None \in Good
      BY PlainTypes, GoodEvents DEF None
    <3> QED BY <3>1, <1>2
  <2>3. events' = windows \o a \o b
    BY <1>1
  <2> HIDE DEF a, b
  <2>4. windows \o a \in Seq(Good)
    BY <1>2, <2>1, ConcatProperties
  <2> QED BY <2>2, <2>3, <2>4, ConcatProperties
<1>6. toPlayer' \in Seq(Good)
  BY <1>4, HeadTailProperties DEF Collect
<1>7. touched' \in BOOLEAN
  BY DEF Collect, IInv, FlagsOK
<1>8. /\ UNCHANGED <<script, renderer, position, cuePlaying, cueEndFrame, done, seen, bare>>
      /\ UNCHANGED <<toSidecar, connected, rounds, running, mStopLooping, mCueExecuting, nested>>
  BY DEF Collect, sidecarVars
<1>9. PlayerOK'
  BY <1>5, <1>6, <1>8 DEF IInv, PlayerOK
<1>10. FlagsOK'
  BY <1>3, <1>7, <1>8 DEF IInv, FlagsOK
<1>11. RoundsOK'
  BY <1>8 DEF IInv, RoundsOK, Top
<1> QED BY <1>9, <1>10, <1>11 DEF IInv

-------------------------------------------------------------------------------
(* Sidecar *)

\* Rounds come and go at the end of the stack.
LEMMA TopOf ==
  ASSUME rounds \in Seq(Rounds), rounds # << >>
  PROVE  /\ Len(rounds) \in Nat \ {0}
         /\ Top = rounds[Len(rounds)] /\ Top \in Rounds
         /\ \A r \in Rounds :
              /\ SetTop(r) \in Seq(Rounds) /\ SetTop(r) # << >>
              /\ Len(SetTop(r)) = Len(rounds) /\ Last(SetTop(r)) = r
<1>1. Len(rounds) \in Nat \ {0} /\ Len(rounds) \in 1 .. Len(rounds)
  BY EmptySeq
<1>2. Top = rounds[Len(rounds)] /\ Top \in Rounds
  BY <1>1, ElementOfSeq DEF Top, Last
<1>3. ASSUME NEW r \in Rounds
      PROVE  /\ SetTop(r) \in Seq(Rounds) /\ SetTop(r) # << >>
             /\ Len(SetTop(r)) = Len(rounds) /\ Last(SetTop(r)) = r
  <2>1. SetTop(r) \in Seq(Rounds) /\ Len(SetTop(r)) = Len(rounds) /\ SetTop(r)[Len(rounds)] = r
    BY <1>1, ExceptSeq DEF SetTop
  <2>2. SetTop(r) # << >>
    BY <1>1, <2>1, EmptySeq
  <2> QED BY <2>1, <2>2 DEF Last
<1> QED BY <1>1, <1>2, <1>3

LEMMA PushPop ==
  ASSUME rounds \in Seq(Rounds), NEW r \in Rounds
  PROVE  /\ Append(rounds, r) \in Seq(Rounds) /\ Append(rounds, r) # << >>
         /\ Last(Append(rounds, r)) = r /\ Len(Append(rounds, r)) = Len(rounds) + 1
         /\ rounds # << >> => Front(rounds) \in Seq(Rounds) /\ Len(Front(rounds)) = Len(rounds) - 1
<1>1. Append(rounds, r) \in Seq(Rounds) /\ Append(rounds, r) # << >>
      /\ Len(Append(rounds, r)) = Len(rounds) + 1 /\ Append(rounds, r)[Len(rounds) + 1] = r
  BY AppendProperties
<1>2. ASSUME rounds # << >>
      PROVE  Front(rounds) \in Seq(Rounds) /\ Len(Front(rounds)) = Len(rounds) - 1
  <2>1. Len(rounds) \in Nat \ {0}
    BY <1>2, EmptySeq
  <2>2. \A i \in 1 .. Len(rounds) - 1 : rounds[i] \in Rounds
    BY <2>1, ElementOfSeq
  <2> DEFINE n == Len(rounds) - 1
  <2>3. n \in Nat /\ 1 \in Int
    BY <2>1
  <2>4. \A i \in 1 .. n : rounds[i] \in Rounds
    BY <2>2
  <2>5. Front(rounds) = SubSeq(rounds, 1, n)
    BY DEF Front
  <2> HIDE DEF n
  <2>6. /\ SubSeq(rounds, 1, n) \in Seq(Rounds)
        /\ Len(SubSeq(rounds, 1, n)) = IF 1 <= n THEN n - 1 + 1 ELSE 0
    BY <2>3, <2>4, SubSeqProperties
  <2>7. Len(SubSeq(rounds, 1, n)) = n
    BY <2>3, <2>6
  <2> QED BY <2>5, <2>6, <2>7 DEF n
<1> QED BY <1>1, <1>2 DEF Last

LEMMA StopGood ==
  ASSUME IInv
  PROVE  Send(toPlayer, << Stop >>) \in Seq(Good)
<1>1. Stop \in Good
  BY PlainTypes, GoodEvents DEF Stop
<1>2. << Stop >> \in Seq(Good)
  BY <1>1
<1> QED BY <1>2, SendsGood DEF IInv, PlayerOK

\* Stopping the rounds changes nothing but the history.
LEMMA StoppedRounds ==
  ASSUME rounds \in Seq(Rounds)
  PROVE  /\ Stopped \in Seq(Rounds) /\ Len(Stopped) = Len(rounds)
         /\ (rounds = << >>) <=> (Stopped = << >>)
         /\ rounds # << >> => Last(Stopped).pc = Top.pc
<1>1. DOMAIN rounds = 1 .. Len(rounds) /\ Len(rounds) \in Nat
  BY LenProperties
<1>2. \A i \in 1 .. Len(rounds) :
        /\ [rounds[i] EXCEPT !.stopped = TRUE, !.halted = TRUE] \in Rounds
        /\ [rounds[i] EXCEPT !.stopped = TRUE, !.halted = TRUE].pc = rounds[i].pc
  <2> TAKE i \in 1 .. Len(rounds)
  <2> DEFINE r == rounds[i]
  <2>1. r \in Rounds
    BY ElementOfSeq
  <2> HIDE DEF r
  <2>2. /\ [r EXCEPT !.stopped = TRUE, !.halted = TRUE] \in Rounds
        /\ [r EXCEPT !.stopped = TRUE, !.halted = TRUE].pc = r.pc
    BY <2>1 DEF Rounds
  <2> QED BY <2>2 DEF r
<1>3. Stopped \in [1 .. Len(rounds) -> Rounds]
  BY <1>1, <1>2 DEF Stopped
<1>4. Stopped \in Seq(Rounds) /\ Len(Stopped) = Len(rounds)
  BY <1>1, <1>3
<1>5. (rounds = << >>) <=> (Stopped = << >>)
  BY <1>4, EmptySeq
<1>6. ASSUME rounds # << >> PROVE Last(Stopped).pc = Top.pc
  <2>1. Len(rounds) \in 1 .. Len(rounds)
    BY <1>6, EmptySeq
  <2>2. Stopped[Len(rounds)].pc = rounds[Len(rounds)].pc
    BY <1>1, <1>2, <2>1 DEF Stopped
  <2> QED BY <2>2, <1>4 DEF Last, Top
<1> QED BY <1>4, <1>5, <1>6
LEMMA ClickKeeps ==
  ASSUME IInv, Click
  PROVE  IInv'
<1>1. /\ rounds \in Seq(Rounds) /\ Len(rounds) \in Nat /\ (rounds = << >> => Len(rounds) = 0)
      /\ toPlayer \in Seq(Good) /\ clicks \in Nat
  BY LenProperties DEF IInv, RoundsOK, PlayerOK, FlagsOK
<1>2. ASSUME NEW kind \in {"execute", "loop"}, ClickExecute(kind)
      PROVE  IInv'
  <2> DEFINE r == [kind |-> kind, next |-> 1, pc |-> "send", stopped |-> FALSE, halted |-> FALSE]
  <2>1. r \in Rounds /\ ~r.stopped
    BY DEF Rounds
  <2>2. rounds' = Append(rounds, r)
    BY <1>2 DEF ClickExecute
  <2> HIDE DEF r
  <2>3. /\ rounds' \in Seq(Rounds) /\ Last(rounds') = r /\ Len(rounds') = Len(rounds) + 1
    BY <1>1, <2>1, <2>2, PushPop
  <2>4. Top' = r
    BY <2>3 DEF Top
  <2>5. ~nested' => ~nested /\ rounds = << >>
    BY <1>2 DEF ClickExecute
  <2>9. mCueExecuting' = mCueExecuting
    BY <1>2 DEF ClickExecute
  <2>6. RoundsOK'
    BY <1>1, <2>1, <2>3, <2>4, <2>5, <2>9 DEF IInv, RoundsOK
  <2>7. PlayerOK'
    BY <1>2 DEF ClickExecute, IInv, PlayerOK, playerVars
  <2>8. FlagsOK'
    <3>1. clicks' \in Nat
      BY <1>1, <1>2 DEF ClickExecute
    <3>2. running' \in BOOLEAN /\ mStopLooping' \in BOOLEAN /\ nested' \in BOOLEAN
      BY <1>2 DEF ClickExecute
    <3> QED BY <1>2, <3>1, <3>2 DEF ClickExecute, IInv, FlagsOK, playerVars
  <2> QED BY <2>6, <2>7, <2>8 DEF IInv
<1>3. ASSUME ClickStop \/ StopButton
      PROVE  IInv'
  <2>1. /\ rounds' = Stopped /\ mStopLooping' = TRUE
        /\ nested' = nested /\ mCueExecuting' = mCueExecuting
        /\ toPlayer' = Send(toPlayer, << Stop >>)
    BY <1>3 DEF ClickStop, StopButton, SetCueNotRunning
  <2>2. /\ rounds' \in Seq(Rounds) /\ Len(rounds') = Len(rounds)
        /\ (rounds = << >>) <=> (rounds' = << >>)
        /\ rounds # << >> => Top'.pc = Top.pc
    BY <1>1, <2>1, StoppedRounds DEF Top
  <2>3. RoundsOK'
    BY <2>1, <2>2 DEF IInv, RoundsOK
  <2>4. PlayerOK'
    BY <1>3, <2>1, StopGood DEF ClickStop, StopButton, IInv, PlayerOK, playerVars
  <2>5. FlagsOK'
    <3>1. clicks' \in Nat
      BY <1>1, <1>3 DEF ClickStop, StopButton
    <3>2. running' \in BOOLEAN /\ mStopLooping' \in BOOLEAN /\ touched' \in BOOLEAN
      BY <1>3 DEF ClickStop, StopButton, SetCueNotRunning, IInv, FlagsOK
    <3> QED BY <1>3, <3>1, <3>2 DEF ClickStop, StopButton, IInv, FlagsOK, playerVars
  <2> QED BY <2>3, <2>4, <2>5 DEF IInv
<1>4. ASSUME OtherButton
      PROVE  IInv'
  <2>1. PICK e \in UserEvents : toPlayer' = Send(toPlayer, << e >>)
    BY <1>4 DEF OtherButton
  <2>2. << e >> \in Seq(Good)
    BY <2>1, UserEventsGood
  <2>3. toPlayer' \in Seq(Good)
    BY <1>1, <2>1, <2>2, SendsGood
  <2>4. RoundsOK'
    BY <1>4 DEF OtherButton, IInv, RoundsOK, sidecarVars, Top
  <2>5. PlayerOK'
    BY <1>4, <2>3 DEF OtherButton, IInv, PlayerOK, playerVars
  <2>6. FlagsOK'
    BY <1>1, <1>4 DEF OtherButton, IInv, FlagsOK, playerVars, sidecarVars
  <2> QED BY <2>4, <2>5, <2>6 DEF IInv
<1>5. ASSUME Disconnect
      PROVE  IInv'
  <2>1. RoundsOK'
    BY <1>5 DEF Disconnect, IInv, RoundsOK, sidecarVars, Top
  <2>2. PlayerOK'
    BY <1>5 DEF Disconnect, IInv, PlayerOK, playerVars
  <2>3. FlagsOK'
    <3>1. clicks' \in Nat
      BY <1>1, <1>5 DEF Disconnect
    <3>2. connected' \in BOOLEAN /\ touched' \in BOOLEAN /\ toSidecar' \in Seq(Events)
      BY <1>5, EmptySeq DEF Disconnect
    <3> QED BY <1>5, <3>1, <3>2 DEF Disconnect, IInv, FlagsOK, playerVars, sidecarVars
  <2> QED BY <2>1, <2>2, <2>3 DEF IInv
<1> QED BY <1>2, <1>3, <1>4, <1>5 DEF Click

\* A script is sent while the round was not stopped.
LEMMA ExecuteCueKeeps ==
  ASSUME IInv, ExecuteCue
  PROVE  IInv'
<1>1. /\ rounds \in Seq(Rounds) /\ rounds # << >> /\ Top.pc = "send" /\ Top.next <= Len(Cues)
      /\ toPlayer \in Seq(Good) /\ mStopLooping \in BOOLEAN
  BY DEF IInv, RoundsOK, PlayerOK, FlagsOK, ExecuteCue
<1>2. Top \in Rounds
  BY <1>1, TopOf
<1>3. /\ UNCHANGED <<script, events, renderer, position, cuePlaying, cueEndFrame, done, seen, bare>>
      /\ UNCHANGED <<toSidecar, connected, nested, clicks, touched>>
  BY DEF ExecuteCue, playerVars
<1>4. CASE connected
  <2> DEFINE c == Cues[Top.next]
             r == [Top EXCEPT !.pc = "wait", !.halted = FALSE]
  <2>1. c \in CueRecords
    <3>1. Top.next \in 1 .. Len(Cues)
      <4>1. Top.next \in Nat \ {0} /\ Len(Cues) \in Nat
        BY <1>2, CueAssumption, LenProperties DEF Rounds
      <4> QED BY <1>1, <4>1
    <3> QED BY <3>1, CueAssumption, LenProperties, ElementOfSeq
  <2>2. toPlayer' = toPlayer \o GenerateScript(c) /\ rounds' = SetTop(r)
        /\ mCueExecuting' = TRUE /\ UNCHANGED <<running, mStopLooping>>
    BY <1>4 DEF ExecuteCue
  <2>3. r \in Rounds /\ r.stopped = Top.stopped /\ r.pc = "wait"
    BY <1>2 DEF Rounds
  <2> HIDE DEF c, r
  <2>4. toPlayer' \in Seq(Good)
    BY <1>1, <2>1, <2>2, GoodScripts, ConcatProperties
  <2>5. rounds' \in Seq(Rounds) /\ rounds' # << >> /\ Len(rounds') = Len(rounds) /\ Top' = r
    BY <1>1, <2>2, <2>3, TopOf DEF Top
  <2>6. RoundsOK'
    BY <1>1, <1>3, <2>2, <2>3, <2>5 DEF IInv, RoundsOK
  <2>7. PlayerOK'
    BY <1>3, <2>4 DEF IInv, PlayerOK
  <2>8. FlagsOK'
    BY <1>3, <2>2 DEF IInv, FlagsOK
  <2> QED BY <2>6, <2>7, <2>8 DEF IInv
<1>5. CASE ~connected
  <2> DEFINE r == [Top EXCEPT !.next = Top.next + 1]
  <2>1. r \in Rounds /\ r.pc = "send"
    BY <1>1, <1>2 DEF Rounds
  <2>2. /\ rounds' = SetTop(r) /\ mCueExecuting' = mCueExecuting
        /\ running' = FALSE /\ mStopLooping' = TRUE /\ toPlayer' = Send(toPlayer, << Stop >>)
    BY <1>5 DEF ExecuteCue, SetCueNotRunning
  <2> HIDE DEF r
  <2>3. rounds' \in Seq(Rounds) /\ rounds' # << >> /\ Len(rounds') = Len(rounds) /\ Top' = r
    BY <1>1, <2>1, <2>2, TopOf DEF Top
  <2>4. RoundsOK'
    BY <1>1, <1>3, <2>1, <2>2, <2>3 DEF IInv, RoundsOK
  <2>5. PlayerOK'
    BY <1>3, <2>2, StopGood DEF IInv, PlayerOK
  <2>6. FlagsOK'
    BY <1>3, <2>2 DEF IInv, FlagsOK
  <2> QED BY <2>4, <2>5, <2>6 DEF IInv
<1> QED BY <1>4, <1>5

LEMMA WaitEndsKeeps ==
  ASSUME IInv, WaitEnds
  PROVE  IInv'
<1>1. /\ rounds \in Seq(Rounds) /\ rounds # << >> /\ mStopLooping \in BOOLEAN
      /\ toPlayer \in Seq(Good) /\ running \in BOOLEAN
  BY DEF IInv, RoundsOK, PlayerOK, FlagsOK, WaitEnds
<1>2. Top \in Rounds
  BY <1>1, TopOf
<1>3. /\ UNCHANGED <<script, events, renderer, position, cuePlaying, cueEndFrame, done, seen, bare>>
      /\ UNCHANGED <<toSidecar, connected, nested, clicks, touched>> /\ ~mCueExecuting'
      /\ mCueExecuting' \in BOOLEAN
  BY DEF WaitEnds, playerVars
<1> DEFINE n == Top.next + 1
           r == [Top EXCEPT !.pc = "send", !.next = n]
<1>11. n \in Nat \ {0}
  BY <1>2 DEF Rounds
<1>5. rounds' = SetTop(r)
  BY DEF WaitEnds
<1> HIDE DEF n
<1>4. r \in Rounds /\ r.stopped = Top.stopped
  BY <1>2, <1>11 DEF Rounds
<1> HIDE DEF r
<1>6. rounds' \in Seq(Rounds) /\ rounds' # << >> /\ Len(rounds') = Len(rounds) /\ Top' = r
  BY <1>1, <1>4, <1>5, TopOf DEF Top
<1>7. /\ running' \in BOOLEAN /\ toPlayer' \in Seq(Good)
      /\ mStopLooping' \in BOOLEAN
      /\ mStopLooping => mStopLooping'
  BY <1>1, StopGood DEF WaitEnds, SetCueNotRunning
<1>8. RoundsOK'
  BY <1>3, <1>4, <1>6, <1>7 DEF IInv, RoundsOK
<1>9. PlayerOK'
  BY <1>3, <1>7 DEF IInv, PlayerOK
<1>10. FlagsOK'
  BY <1>3, <1>7 DEF IInv, FlagsOK
<1> QED BY <1>8, <1>9, <1>10 DEF IInv

LEMMA LoopAgainKeeps ==
  ASSUME IInv, LoopAgain
  PROVE  IInv'
<1>1. rounds \in Seq(Rounds) /\ rounds # << >> /\ Top.pc = "send"
  BY DEF IInv, RoundsOK, LoopAgain
<1>2. Top \in Rounds
  BY <1>1, TopOf
<1> DEFINE r == [Top EXCEPT !.next = 1]
<1>3. r \in Rounds /\ r.stopped = Top.stopped /\ r.pc = "send"
  BY <1>1, <1>2 DEF Rounds
<1>4. rounds' = SetTop(r)
  BY DEF LoopAgain
<1> HIDE DEF r
<1>5. rounds' \in Seq(Rounds) /\ rounds' # << >> /\ Len(rounds') = Len(rounds) /\ Top' = r
  BY <1>1, <1>3, <1>4, TopOf DEF Top
<1>6. RoundsOK'
  BY <1>1, <1>3, <1>5 DEF LoopAgain, IInv, RoundsOK
<1> QED BY <1>6 DEF LoopAgain, IInv, PlayerOK, FlagsOK, playerVars

LEMMA EndRoundKeeps ==
  ASSUME IInv, EndRound
  PROVE  IInv'
<1>1. rounds \in Seq(Rounds) /\ rounds # << >> /\ Top.pc = "send"
  BY DEF IInv, RoundsOK, EndRound
<1>2. /\ rounds' = Front(rounds) /\ mStopLooping' = TRUE /\ running' = FALSE
      /\ toPlayer' = Send(toPlayer, << Stop >>)
  BY DEF EndRound, SetCueNotRunning
<1>3. Top \in Rounds /\ Len(rounds) \in Nat
  BY <1>1, TopOf
<1>4. rounds' \in Seq(Rounds) /\ Len(rounds') = Len(rounds) - 1
  BY <1>1, <1>2, <1>3, PushPop
<1>5. RoundsOK'
  BY <1>1, <1>2, <1>3, <1>4 DEF EndRound, IInv, RoundsOK
<1>6. PlayerOK'
  BY <1>2, StopGood DEF EndRound, IInv, PlayerOK, playerVars
<1>7. FlagsOK'
  BY <1>2 DEF EndRound, IInv, FlagsOK, playerVars
<1> QED BY <1>5, <1>6, <1>7 DEF IInv

LEMMA OtherStepsKeep ==
  ASSUME IInv, Receive \/ LosePlayer \/ PlayerDies \/ UNCHANGED vars
  PROVE  IInv'
<1>1. toSidecar' \in Seq(Events)
  <2>1. toSidecar \in Seq(Events)
    BY DEF IInv, FlagsOK
  <2>2. CASE Receive
    BY <2>1, <2>2, HeadTailProperties DEF Receive
  <2>3. CASE LosePlayer
    BY <2>3, EmptySeq DEF LosePlayer
  <2>4. CASE PlayerDies \/ UNCHANGED vars
    BY <2>1, <2>4 DEF PlayerDies, vars
  <2> QED BY <2>2, <2>3, <2>4
<1>2. PlayerOK'
  BY DEF Receive, LosePlayer, PlayerDies, vars, IInv, PlayerOK, playerVars
<1>3. RoundsOK'
  BY DEF Receive, LosePlayer, PlayerDies, vars, IInv, RoundsOK, FlagsOK, sidecarVars, Top
<1>4. FlagsOK'
  BY <1>1 DEF Receive, LosePlayer, PlayerDies, vars, IInv, FlagsOK, playerVars, sidecarVars
<1> QED BY <1>2, <1>3, <1>4 DEF IInv

LEMMA Start == Init => IInv
<1> SUFFICES ASSUME Init PROVE IInv
  OBVIOUS
<1>1. script \in Seq(Good)
  <2>1. PICK movies \in Scripts : script = [i \in DOMAIN movies |-> Open(movies[i])]
    BY DEF Init
  <2>2. movies \in Seq(Movies)
    BY CueAssumption
  <2>3. Len(movies) \in Nat /\ DOMAIN movies = 1 .. Len(movies)
        /\ \A i \in 1 .. Len(movies) : Open(movies[i]) \in Good
    BY <2>2, LenProperties, ElementOfSeq, GoodOpen
  <2>4. script \in [1 .. Len(movies) -> Good]
    BY <2>1, <2>3
  <2> QED BY <2>3, <2>4
<1>2. InRange(position)
  BY DEF Init, NoPosition, InRange, Positions
<1>3. /\ events \in Seq(Good) /\ toPlayer \in Seq(Good) /\ toSidecar \in Seq(Events)
      /\ rounds \in Seq(Rounds) /\ Len(rounds) = 0
  BY EmptySeq DEF Init
<1>4. PlayerOK
  BY <1>1, <1>2, <1>3 DEF Init, PlayerOK
<1>5. FlagsOK
  <2>1. /\ renderer \in BOOLEAN /\ cuePlaying \in BOOLEAN /\ done \in BOOLEAN
        /\ connected \in BOOLEAN /\ touched \in BOOLEAN /\ bare \in BOOLEAN
        /\ nested \in BOOLEAN /\ running \in BOOLEAN /\ mStopLooping \in BOOLEAN
        /\ mCueExecuting \in BOOLEAN
    BY DEF Init
  <2>2. cueEndFrame \in Int /\ seen \in 0 .. MaxSeen /\ clicks \in Nat
    BY CueAssumption DEF Init
  <2> QED BY <1>3, <2>1, <2>2 DEF FlagsOK
<1>6. RoundsOK
  BY <1>3 DEF Init, RoundsOK
<1> QED BY <1>4, <1>5, <1>6 DEF IInv

LEMMA Steps == IInv /\ [Next]_vars => IInv'
<1> SUFFICES ASSUME IInv, [Next]_vars PROVE IInv'
  OBVIOUS
<1> QED BY CollectKeeps, HandleEventKeeps, ClickKeeps, ExecuteCueKeeps, WaitEndsKeeps,
           LoopAgainKeeps, EndRoundKeeps, OtherStepsKeep
        DEF Next, PlayerStep, ReadMissingFrame, LoseSidecar, SidecarStep

LEMMA Invariance == Spec => []IInv
BY Start, Steps, PTL DEF Spec

(* The types of the variables: no event that any of the scripts, the buttons or the player
   make up is of a kind the other side does not know. *)
THEOREM CueTypes == Spec => []TypeOK
BY Invariance, TypesFollow, PTL

(* The range that is played starts in the movie and the frame is not beyond its end
   (Renderer::SetFrame, SetStartEndFrames and SetFrameList), for every list of cues and any
   movies, also when a range ends beyond the movie: GetFrameInfoPtr reads a frame that exists
   unless it does. *)
THEOREM FrameStaysInRange == Spec => []FrameInRange
BY Invariance, TypesFollow, PTL
-------------------------------------------------------------------------------
(* A round that was stopped sends nothing. *)

\* Beside a script, events are sent one at a time.
LEMMA OneAtATime ==
  ASSUME IInv, Next, ~ExecuteCue
  PROVE  Len(toPlayer') <= Len(toPlayer) + 1
<1>1. toPlayer \in Seq(Good) /\ Len(toPlayer) \in Nat
  BY LenProperties DEF IInv, PlayerOK
<1>2. \A e \in Good : Len(Send(toPlayer, << e >>)) <= Len(toPlayer) + 1
  <2> TAKE e \in Good
  <2>1. << e >> \in Seq(Good) /\ Len(<< e >>) = 1
    OBVIOUS
  <2> QED BY <1>1, <2>1, SendsGood
<1>3. Stop \in Good
  BY PlainTypes, GoodEvents DEF Stop
<1>4. toPlayer' = toPlayer => Len(toPlayer') <= Len(toPlayer) + 1
  BY <1>1
<1>5. CASE Collect
  <2>1. toPlayer = << >> => toPlayer' = toPlayer
    BY <1>5 DEF Collect
  <2>2. toPlayer # << >> => toPlayer' = Tail(toPlayer)
    BY <1>5 DEF Collect
  <2>3. toPlayer # << >> => Len(Tail(toPlayer)) = Len(toPlayer) - 1
    BY <1>1, HeadTailProperties
  <2> QED BY <1>1, <1>4, <2>1, <2>2, <2>3
<1>6. CASE HandleEvent \/ PlayerDies \/ LoopAgain \/ Receive \/ LosePlayer \/ Disconnect
  BY <1>4, <1>6 DEF HandleEvent, PlayerDies, LoopAgain, Receive, LosePlayer, Disconnect
<1>7. CASE OtherButton
  BY <1>2, <1>7, UserEventsGood DEF OtherButton
<1>8. CASE ClickStop \/ StopButton \/ EndRound
  BY <1>2, <1>3, <1>8 DEF ClickStop, StopButton, EndRound, SetCueNotRunning
<1>9. CASE WaitEnds
  BY <1>2, <1>3, <1>4, <1>9 DEF WaitEnds, SetCueNotRunning
<1>10. CASE \E kind \in {"execute", "loop"} : ClickExecute(kind)
  BY <1>4, <1>10 DEF ClickExecute
<1> QED BY <1>5, <1>6, <1>7, <1>8, <1>9, <1>10
        DEF Next, PlayerStep, ReadMissingFrame, LoseSidecar, SidecarStep, Click

(* Once the user has stopped a round of cues, no other cue of it is sent: the one flag
   mStopLooping (MovieCues.cpp) serves all the rounds on the stack, however deep they
   nest. *)
THEOREM NoCueAfterStop == Spec => StopEndsRound
<1> DEFINE A == Len(toPlayer') > Len(toPlayer) + 1 => ~(Top.kind = "execute" /\ Top.stopped)
<1>1. IInv /\ [Next]_vars => [A]_vars
  <2> SUFFICES ASSUME IInv, Next PROVE A
    OBVIOUS
  <2>1. toPlayer \in Seq(Good) /\ Len(toPlayer) \in Nat
    BY LenProperties DEF IInv, PlayerOK
  <2>2. CASE ExecuteCue
    BY <2>2 DEF ExecuteCue, IInv, RoundsOK
  <2>3. CASE ~ExecuteCue
    <3>1. Len(toPlayer') <= Len(toPlayer) + 1
      BY <2>3, OneAtATime
    <3>2. IInv'
      BY Steps
    <3>3. Len(toPlayer') \in Nat
      BY <3>2, LenProperties DEF IInv, PlayerOK
    <3> QED BY <2>1, <3>1, <3>3
  <2> QED BY <2>2, <2>3
<1> QED BY <1>1, Invariance, PTL DEF Spec, StopEndsRound
-------------------------------------------------------------------------------
(* Counting the events of a kind in a queue *)

LEMMA CountIsNat ==
  ASSUME NEW t, NEW s \in Seq(Events)
  PROVE  /\ IsFiniteSet({i \in DOMAIN s : s[i].mEventType = t})
         /\ HowMany(t, s) \in Nat
<1>1. DOMAIN s = 1 .. Len(s) /\ Len(s) \in Nat
  BY LenProperties
<1>2. IsFiniteSet(DOMAIN s)
  BY <1>1, FS_Interval
<1>3. IsFiniteSet({i \in DOMAIN s : s[i].mEventType = t})
  BY <1>2, FS_Subset
<1> QED BY <1>3, FS_CardinalityType DEF HowMany

LEMMA CountNone ==
  ASSUME NEW t, NEW s \in Seq(Events), \A i \in DOMAIN s : s[i].mEventType # t
  PROVE  HowMany(t, s) = 0
<1>1. {i \in DOMAIN s : s[i].mEventType = t} = {}
  OBVIOUS
<1> QED BY <1>1, FS_EmptySet DEF HowMany

LEMMA CountOne ==
  ASSUME NEW t, NEW e \in Events
  PROVE  HowMany(t, << e >>) = IF e.mEventType = t THEN 1 ELSE 0
<1>1. DOMAIN << e >> = {1} /\ << e >>[1] = e
  OBVIOUS
<1>2. CASE e.mEventType = t
  <2>1. {i \in DOMAIN << e >> : << e >>[i].mEventType = t} = {1}
    BY <1>1, <1>2
  <2> QED BY <1>2, <2>1, FS_Singleton DEF HowMany
<1>3. CASE e.mEventType # t
  <2>1. {i \in DOMAIN << e >> : << e >>[i].mEventType = t} = {}
    BY <1>1, <1>3
  <2> QED BY <1>3, <2>1, FS_EmptySet DEF HowMany
<1> QED BY <1>2, <1>3

LEMMA CountConcat ==
  ASSUME NEW t, NEW a \in Seq(Events), NEW b \in Seq(Events)
  PROVE  HowMany(t, a \o b) = HowMany(t, a) + HowMany(t, b)
<1> DEFINE n == Len(a)
           A == {i \in DOMAIN a : a[i].mEventType = t}
           B == {i \in DOMAIN b : b[i].mEventType = t}
           C == {i \in DOMAIN (a \o b) : (a \o b)[i].mEventType = t}
           D == C \ A
           f == [i \in B |-> n + i]
<1>1. /\ DOMAIN a = 1 .. n /\ n \in Nat /\ DOMAIN b = 1 .. Len(b) /\ Len(b) \in Nat
      /\ a \o b \in Seq(Events) /\ DOMAIN (a \o b) = 1 .. n + Len(b)
      /\ \A i \in 1 .. n + Len(b) : (a \o b)[i] = IF i <= n THEN a[i] ELSE b[i - n]
  BY LenProperties, ConcatProperties
<1>2. IsFiniteSet(A) /\ IsFiniteSet(B) /\ IsFiniteSet(C)
  BY <1>1, CountIsNat
<1>3. A \subseteq C
  BY <1>1
<1>4. D = {i \in n + 1 .. n + Len(b) : b[i - n].mEventType = t}
  <2>1. \A i \in C : i \in A <=> i <= n
    BY <1>1
  <2>2. \A i \in D : i \in n + 1 .. n + Len(b) /\ b[i - n].mEventType = t
    BY <1>1, <2>1
  <2>3. \A i \in n + 1 .. n + Len(b) : b[i - n].mEventType = t => i \in C /\ i \notin A
    BY <1>1
  <2> QED BY <2>2, <2>3
<1>5. f \in Bijection(B, D)
  <2>1. \A i \in B : i \in 1 .. Len(b) /\ b[i].mEventType = t
    BY <1>1
  <2>2. f \in [B -> D]
    <3>1. \A i \in B : n + i \in n + 1 .. n + Len(b) /\ (n + i) - n = i
      BY <1>1, <2>1
    <3>2. \A i \in B : n + i \in D
      BY <1>4, <2>1, <3>1
    <3> QED BY <3>2
  <2>3. \A i, j \in B : f[i] = f[j] => i = j
    BY <1>1, <2>1
  <2>4. \A j \in D : \E i \in B : f[i] = j
    <3> TAKE j \in D
    <3>1. j \in n + 1 .. n + Len(b) /\ b[j - n].mEventType = t
      BY <1>4
    <3>2. j - n \in 1 .. Len(b) /\ n + (j - n) = j
      BY <1>1, <3>1
    <3>3. j - n \in B
      BY <1>1, <3>1, <3>2
    <3> QED BY <3>2, <3>3
  <2> HIDE DEF B, D, f
  <2> QED BY <2>2, <2>3, <2>4 DEF Bijection, Injection, Surjection, IsInjective
<1>6. Cardinality(D) = Cardinality(B)
  BY <1>2, <1>5, FS_Bijection DEF ExistsBijection
<1>7. Cardinality(D) = Cardinality(C) - Cardinality(A)
  <2>1. C \cap A = A
    BY <1>3
  <2> QED BY <1>2, <2>1, FS_Difference
<1>8. HowMany(t, a) = Cardinality(A) /\ HowMany(t, b) = Cardinality(B)
      /\ HowMany(t, a \o b) = Cardinality(C)
  BY DEF HowMany
<1>9. Cardinality(A) \in Nat /\ Cardinality(B) \in Nat /\ Cardinality(C) \in Nat
  BY <1>2, FS_CardinalityType
<1> HIDE DEF A, B, C, D
<1>10. Cardinality(C) = Cardinality(A) + Cardinality(B)
  BY <1>6, <1>7, <1>9
<1> QED BY <1>8, <1>10

LEMMA CountHead ==
  ASSUME NEW t, NEW s \in Seq(Events), s # << >>
  PROVE  /\ HowMany(t, s) = HowMany(t, << Head(s) >>) + HowMany(t, Tail(s))
         /\ HowMany(t, << Head(s) >>) = IF Head(s).mEventType = t THEN 1 ELSE 0
         /\ HowMany(t, Tail(s)) \in Nat /\ Tail(s) \in Seq(Events)
<1>1. Head(s) \in Events /\ Tail(s) \in Seq(Events) /\ << Head(s) >> \in Seq(Events)
  BY HeadTailProperties
<1>2. s = << Head(s) >> \o Tail(s)
  <2>1. /\ << Head(s) >> \o Tail(s) \in Seq(Events)
        /\ Len(<< Head(s) >> \o Tail(s)) = Len(s)
        /\ \A i \in 1 .. Len(s) : (<< Head(s) >> \o Tail(s))[i] = s[i]
    BY <1>1, ConcatProperties, HeadTailProperties, LenProperties
  <2> QED BY <2>1, SeqEqual
<1>3. HowMany(t, << Head(s) >> \o Tail(s)) = HowMany(t, << Head(s) >>) + HowMany(t, Tail(s))
  BY <1>1, CountConcat
<1> QED BY <1>1, <1>2, <1>3, CountOne, CountIsNat

LEMMA CountEmpty == \A t : HowMany(t, << >>) = 0
<1> TAKE t
<1>1. << >> \in Seq(Events) /\ DOMAIN << >> = {}
  BY EmptySeq
<1> QED BY <1>1, CountNone
-------------------------------------------------------------------------------
(* Sidecar waits for the cue that is under way. *)

Ends(es) == HowMany("MOVIE_CUE_END", es)
Completions(es) == HowMany("MOVIE_CUE_COMPLETE", es)
One(b) == IF b THEN 1 ELSE 0

\* The cues under way, wherever they are
UnderWay == Ends(toPlayer) + Ends(events) + One(cuePlaying) + Completions(toSidecar)

Usual == connected /\ ~done /\ ~bare /\ ~nested

\* What is still to open is no cue.
ScriptOpens == \A i \in DOMAIN script : script[i].mEventType = "MOVIE_OPEN_FILE"

JInv == IInv /\ ScriptOpens /\ InStep

LEMMA InStepIs == InStep <=> (Usual => UnderWay = One(mCueExecuting))
BY DEF InStep, Usual, UnderWay, Ends, Completions, One

LEMMA Counts ==
  ASSUME IInv
  PROVE  /\ toPlayer \in Seq(Events) /\ events \in Seq(Events) /\ toSidecar \in Seq(Events)
         /\ Ends(toPlayer) \in Nat /\ Ends(events) \in Nat /\ Completions(toSidecar) \in Nat
         /\ \A b \in BOOLEAN : One(b) \in {0, 1}
<1>1. toPlayer \in Seq(Events) /\ events \in Seq(Events) /\ toSidecar \in Seq(Events)
  BY TypesFollow DEF TypeOK
<1>2. \A b \in BOOLEAN : One(b) \in {0, 1}
  BY DEF One
<1> QED BY <1>1, <1>2, CountIsNat DEF Ends, Completions

\* Exactly one event of a script ends a cue.
LEMMA ScriptEndsOnce ==
  ASSUME NEW c \in CueRecords
  PROVE  /\ Ends(GenerateScript(c)) = 1 /\ GenerateScript(c) \in Seq(Events)
         /\ Len(GenerateScript(c)) \in Nat \ {0}
         /\ GenerateScript(c)[Len(GenerateScript(c))].mEventType = "MOVIE_CUE_END"
<1> DEFINE a == << Numbered("MOVIE_CUE_BEGIN", c.end) >>
           b == IF c.movie # NoMovie THEN << Open(c.movie) >> ELSE << >>
           p == IF c.backward THEN -1 ELSE 1
           d == IF c.play THEN << Numbered("MOVIE_CUE_PLAY_ON_LOAD", p) >> ELSE << >>
           g == IF c.pingpong THEN 1 ELSE 0
           f == << Numbered("MOVIE_SET_REPEAT", c.repeats), Numbered("MOVIE_SET_PINGPONG", g),
                   Numbered("MOVIE_FULLSCREEN", 0), Numbered("MOVIE_GOTO_FRAME", c.current),
                   Event("MOVIE_START_END_FRAMES", 0, c.start, c.end, NoMovie) >>
           t == IF c.backward THEN "MOVIE_PLAY_BACKWARD" ELSE "MOVIE_PLAY_FORWARD"
           h == IF c.play THEN << Plain(t) >> ELSE << >>
           i == << Plain("MOVIE_CUE_END") >>
           E == "MOVIE_CUE_END"
<1>1. /\ c.end \in Int /\ c.repeats \in Int /\ c.current \in Int /\ c.start \in Int
      /\ c.movie \in Movies \cup {NoMovie} /\ p \in Int /\ g \in Int
      /\ t \in EventTypes /\ t # E
  BY DEF CueRecords, EventTypes
<1>2. GenerateScript(c) = a \o b \o d \o f \o h \o i
  BY DEF GenerateScript
<1> HIDE DEF p, g, t
<1>3. \A type \in EventTypes, n \in Int :
        /\ Numbered(type, n) \in Events /\ Numbered(type, n).mEventType = type
        /\ Plain(type) \in Events /\ Plain(type).mEventType = type
  BY DEF Numbered, Plain, Event, Events
<1>4. {"MOVIE_CUE_BEGIN", "MOVIE_CUE_PLAY_ON_LOAD", "MOVIE_SET_REPEAT", "MOVIE_SET_PINGPONG",
       "MOVIE_FULLSCREEN", "MOVIE_GOTO_FRAME", "MOVIE_CUE_END"} \subseteq EventTypes
  BY DEF EventTypes
<1>5. a \in Seq(Events) /\ \A k \in DOMAIN a : a[k].mEventType # E
  BY <1>1, <1>3, <1>4
<1>6. b \in Seq(Events) /\ \A k \in DOMAIN b : b[k].mEventType # E
  <2>1. c.movie # NoMovie => Open(c.movie) \in Events /\ Open(c.movie).mEventType # E
    BY <1>1 DEF Open, Event, Events, EventTypes
  <2> QED BY <2>1
<1>7. d \in Seq(Events) /\ \A k \in DOMAIN d : d[k].mEventType # E
  BY <1>1, <1>3, <1>4
<1>8. f \in Seq(Events) /\ \A k \in DOMAIN f : f[k].mEventType # E
  <2> DEFINE f1 == Numbered("MOVIE_SET_REPEAT", c.repeats)
             f2 == Numbered("MOVIE_SET_PINGPONG", g)
             f3 == Numbered("MOVIE_FULLSCREEN", 0)
             f4 == Numbered("MOVIE_GOTO_FRAME", c.current)
             f5 == Event("MOVIE_START_END_FRAMES", 0, c.start, c.end, NoMovie)
  <2>1. \A x \in {f1, f2, f3, f4} : x \in Events /\ x.mEventType # E
    BY <1>1, <1>3, <1>4
  <2>2. f5 \in Events /\ f5.mEventType # E
    BY <1>1 DEF Event, Events, EventTypes
  <2>3. f = << f1, f2, f3, f4, f5 >>
    OBVIOUS
  <2> HIDE DEF f1, f2, f3, f4, f5, f
  <2> QED BY <2>1, <2>2, <2>3
<1>9. h \in Seq(Events) /\ \A k \in DOMAIN h : h[k].mEventType # E
  BY <1>1, <1>3
<1>10. i \in Seq(Events) /\ Ends(i) = 1 /\ Len(i) = 1 /\ i[1].mEventType = E
  <2>1. Plain(E) \in Events /\ Plain(E).mEventType = E
    BY <1>3, <1>4
  <2> QED BY <2>1, CountOne DEF Ends
<1> HIDE DEF a, b, d, f, h, i, E
<1>11. /\ Ends(a) = 0 /\ Ends(b) = 0 /\ Ends(d) = 0 /\ Ends(f) = 0 /\ Ends(h) = 0
  BY <1>5, <1>6, <1>7, <1>8, <1>9, CountNone DEF Ends, E
<1>12. \A x, y \in Seq(Events) : x \o y \in Seq(Events) /\ Ends(x \o y) = Ends(x) + Ends(y)
  BY ConcatProperties, CountConcat DEF Ends
<1> DEFINE x == a \o b
           y == x \o d
           z == y \o f
           w == z \o h
           v == w \o i
<1>13. x \in Seq(Events) /\ Ends(x) = 0
  BY <1>5, <1>6, <1>11, <1>12
<1> HIDE DEF x
<1>14. y \in Seq(Events) /\ Ends(y) = 0
  BY <1>7, <1>11, <1>12, <1>13
<1> HIDE DEF y
<1>15. z \in Seq(Events) /\ Ends(z) = 0
  BY <1>8, <1>11, <1>12, <1>14
<1> HIDE DEF z
<1>16. w \in Seq(Events) /\ Ends(w) = 0
  BY <1>9, <1>11, <1>12, <1>15
<1> HIDE DEF w
<1>17. v \in Seq(Events) /\ Ends(v) = 1
  BY <1>10, <1>12, <1>16
<1>19. Len(v) \in Nat \ {0} /\ v[Len(v)] = i[1]
  <2>1. /\ Len(w) \in Nat /\ Len(v) = Len(w) + Len(i)
        /\ \A k \in 1 .. Len(w) + Len(i) : v[k] = IF k <= Len(w) THEN w[k] ELSE i[k - Len(w)]
    BY <1>10, <1>16, ConcatProperties, LenProperties
  <2> HIDE DEF v
  <2>2. Len(v) \in 1 .. Len(w) + Len(i) /\ ~(Len(v) <= Len(w)) /\ Len(v) - Len(w) = 1
    BY <1>10, <2>1
  <2>3. v[Len(v)] = i[Len(v) - Len(w)] /\ Len(v) \in Nat \ {0}
    BY <1>10, <2>1, <2>2
  <2> QED BY <2>2, <2>3
<1> HIDE DEF v
<1>18. GenerateScript(c) = v
  BY <1>2 DEF v, w, z, y, x
<1> QED BY <1>10, <1>17, <1>18, <1>19 DEF E

\* Other events that are sent end nothing.
LEMMA SendsNoEnd ==
  ASSUME IInv, NEW e \in Events, e.mEventType # "MOVIE_CUE_END"
  PROVE  Ends(Send(toPlayer, << e >>)) = Ends(toPlayer)
<1>1. << e >> \in Seq(Events) /\ Ends(<< e >>) = 0
  BY CountOne DEF Ends
<1>2. Ends(toPlayer \o << e >>) = Ends(toPlayer) + 0
  BY <1>1, Counts, CountConcat DEF Ends
<1>3. Ends(toPlayer) + 0 = Ends(toPlayer)
  BY Counts
<1> QED BY <1>2, <1>3 DEF Send

\* The rest of the loop turns the cue that plays into a completion.
LEMMA FinishCounts ==
  ASSUME IInv, connected, NEW e, NEW p, NEW playing \in BOOLEAN, NEW sent \in Seq(Events),
         NEW n, FinishOrNot(e, p, playing, sent, n) \/ Finish(e, p, playing, sent, n)
  PROVE  One(cuePlaying') + Completions(toSidecar')
           = One(playing) + Completions(toSidecar) + Completions(sent)
<1>1. /\ Completions(sent) \in Nat /\ Completions(toSidecar) \in Nat
      /\ toSidecar \in Seq(Events) /\ One(playing) \in {0, 1}
  BY Counts, CountIsNat DEF Completions
<1>2. CASE Finish(e, p, playing, sent, n)
  <2> DEFINE over == playing /\ CueIsOver(p)
             more == IF over THEN << Complete >> ELSE << >>
  <2>1. toSidecar' = toSidecar \o (sent \o more) /\ cuePlaying' = (playing /\ ~over)
    BY <1>2 DEF Finish, Send
  <2>2. Complete \in Events /\ Complete.mEventType = "MOVIE_CUE_COMPLETE"
    BY DEF Complete, Plain, Event, Events, EventTypes
  <2>3. over \in BOOLEAN /\ (over => playing)
    OBVIOUS
  <2>4. more \in Seq(Events) /\ Completions(more) = One(over)
    <3>1. << Complete >> \in Seq(Events) /\ Completions(<< Complete >>) = 1
      BY <2>2, CountOne DEF Completions
    <3>2. << >> \in Seq(Events) /\ Completions(<< >>) = 0
      BY EmptySeq, CountEmpty DEF Completions
    <3> HIDE DEF over
    <3> QED BY <2>3, <3>1, <3>2 DEF One
  <2> HIDE DEF over, more
  <2>5. sent \o more \in Seq(Events) /\ Completions(sent \o more) = Completions(sent) + One(over)
    BY <2>4, ConcatProperties, CountConcat DEF Completions
  <2>6. Completions(toSidecar') = Completions(toSidecar) + (Completions(sent) + One(over))
    BY <1>1, <2>1, <2>5, CountConcat DEF Completions
  <2>7. One(cuePlaying') + One(over) = One(playing)
    <3>1. over => ~cuePlaying' /\ playing
      BY <2>1, <2>3
    <3>2. ~over => cuePlaying' = playing
      BY <2>1
    <3> QED BY <2>3, <3>1, <3>2 DEF One
  <2>8. One(over) \in {0, 1} /\ One(cuePlaying') \in {0, 1}
    BY DEF One
  <2> QED BY <1>1, <2>6, <2>7, <2>8
<1>3. CASE ~renderer /\ FinishOrNot(e, p, playing, sent, n)
  <2>1. toSidecar' = toSidecar \o sent /\ cuePlaying' = playing
    BY <1>3 DEF FinishOrNot, Send
  <2>2. Completions(toSidecar') = Completions(toSidecar) + Completions(sent)
    BY <1>1, <2>1, CountConcat DEF Completions
  <2> QED BY <1>1, <2>1, <2>2
<1> QED BY <1>2, <1>3 DEF FinishOrNot
\* The usual state is never entered.
LEMMA UsualBefore ==
  ASSUME IInv, Next, Usual'
  PROVE  Usual
<1> USE DEF Usual
<1>1. CASE Collect
  BY <1>1 DEF Collect, sidecarVars
<1>2. CASE HandleEvent
  <2> DEFINE e == Current
  <2>1. /\ OpenFile(e) \/ OpenFails(e) \/ CueBegin(e) \/ CueEnd(e) \/ Quit(e) \/ Reposition(e)
        /\ ~done /\ connected' = connected /\ nested' = nested
    BY <1>2 DEF HandleEvent, sidecarVars
  <2> HIDE DEF e
  <2>2. bare => bare'
    BY <2>1 DEF OpenFile, OpenFails, CueBegin, CueEnd, Quit, Reposition
  <2> QED BY <2>1, <2>2
<1>3. CASE PlayerDies
  BY <1>3 DEF PlayerDies
<1>4. CASE SidecarStep
  <2>1. done' = done /\ bare' = bare
    BY <1>4 DEF SidecarStep, ExecuteCue, WaitEnds, LoopAgain, EndRound, Receive, LosePlayer,
                playerVars
  <2>2. nested' = nested /\ (connected' => connected)
    BY <1>4 DEF SidecarStep, ExecuteCue, WaitEnds, LoopAgain, EndRound, Receive, LosePlayer,
                sidecarVars
  <2> QED BY <2>1, <2>2
<1>5. CASE Click
  <2>1. done' = done /\ bare' = bare
    BY <1>5 DEF Click, ClickExecute, ClickStop, StopButton, OtherButton, Disconnect, playerVars
  <2>2. (nested => nested') /\ (connected' => connected)
    <3>1. ASSUME NEW kind, ClickExecute(kind)
          PROVE  (nested => nested') /\ (connected' => connected)
      BY <3>1 DEF ClickExecute
    <3>2. ASSUME ClickStop \/ StopButton \/ OtherButton
          PROVE  (nested => nested') /\ (connected' => connected)
      <4>1. nested' = nested /\ connected' = connected
        BY <3>2 DEF ClickStop, StopButton, OtherButton, sidecarVars
      <4> QED BY <4>1
    <3>3. ASSUME Disconnect
          PROVE  (nested => nested') /\ (connected' => connected)
      BY <3>3 DEF Disconnect, sidecarVars
    <3> QED BY <1>5, <3>1, <3>2, <3>3, Zenon DEF Click
  <2> QED BY <2>1, <2>2
<1> QED BY <1>1, <1>2, <1>3, <1>4, <1>5 DEF Next, PlayerStep, ReadMissingFrame, LoseSidecar

LEMMA ScriptStays ==
  ASSUME IInv, ScriptOpens, [Next]_vars
  PROVE  ScriptOpens'
<1>1. script \in Seq(Good)
  BY DEF IInv, PlayerOK
<1>2. script' = script \/ (script # << >> /\ script' = Tail(script))
  <2>1. CASE HandleEvent
    BY <2>1 DEF HandleEvent, Scripted
  <2>2. CASE Collect \/ PlayerDies \/ UNCHANGED vars
    BY <2>2 DEF Collect, PlayerDies, vars, playerVars
  <2>3. CASE SidecarStep
    BY <2>3 DEF SidecarStep, ExecuteCue, WaitEnds, LoopAgain, EndRound, Receive, LosePlayer,
                playerVars
  <2>4. CASE Click
    BY <2>4 DEF Click, ClickExecute, ClickStop, StopButton, OtherButton, Disconnect, playerVars
  <2> QED BY <2>1, <2>2, <2>3, <2>4 DEF Next, PlayerStep, ReadMissingFrame, LoseSidecar
<1>3. CASE script' = script
  BY <1>3 DEF ScriptOpens
<1>4. CASE script # << >> /\ script' = Tail(script)
  <2>1. /\ script' \in Seq(Good) /\ Len(script') = Len(script) - 1
        /\ \A i \in 1 .. Len(script') : script'[i] = script[i + 1]
    BY <1>1, <1>4, HeadTailProperties
  <2>2. DOMAIN script' = 1 .. Len(script') /\ DOMAIN script = 1 .. Len(script)
        /\ Len(script) \in Nat /\ Len(script') \in Nat
    BY <1>1, <2>1, LenProperties
  <2> SUFFICES ASSUME NEW i \in DOMAIN script'
               PROVE  script'[i].mEventType = "MOVIE_OPEN_FILE"
    BY DEF ScriptOpens
  <2>3. i \in 1 .. Len(script') /\ i + 1 \in DOMAIN script
    BY <2>1, <2>2
  <2> QED BY <2>1, <2>3 DEF ScriptOpens
<1> QED BY <1>2, <1>3, <1>4

LEMMA CollectInStep ==
  ASSUME IInv, Usual, UnderWay = One(mCueExecuting), Collect
  PROVE  UnderWay' = One(mCueExecuting')
<1>1. PICK windows, keys \in {<< >>} \cup {<< e >> : e \in UserEvents} :
        events' = windows
                    \o (IF toPlayer = << >> THEN << >> ELSE << Head(toPlayer) >>)
                    \o (IF keys = << >> THEN << None >> ELSE keys)
  BY DEF Collect
<1> DEFINE a == IF toPlayer = << >> THEN << >> ELSE << Head(toPlayer) >>
           b == IF keys = << >> THEN << None >> ELSE keys
<1>2. \A k \in {<< >>} \cup {<< e >> : e \in UserEvents} : k \in Seq(Events) /\ Ends(k) = 0
  <2>1. << >> \in Seq(Events) /\ Ends(<< >>) = 0
    BY EmptySeq, CountEmpty DEF Ends
  <2>2. ASSUME NEW e \in UserEvents PROVE << e >> \in Seq(Events) /\ Ends(<< e >>) = 0
    <3>1. e \in Events /\ e.mEventType # "MOVIE_CUE_END"
      BY CueAssumption DEF EventOK
    <3> QED BY <3>1, CountOne DEF Ends
  <2> TAKE k \in {<< >>} \cup {<< e >> : e \in UserEvents}
  <2>3. CASE k = << >>
    BY <2>1, <2>3
  <2>4. CASE \E e \in UserEvents : k = << e >>
    <3>1. PICK e \in UserEvents : k = << e >>
      BY <2>4
    <3>2. << e >> \in Seq(Events) /\ Ends(<< e >>) = 0
      BY <2>2
    <3> QED BY <3>1, <3>2, Zenon
  <2> QED BY <2>3, <2>4
<1>3. b \in Seq(Events) /\ Ends(b) = 0
  <2>1. None \in Events /\ None.mEventType = "MOVIE_NONE"
    BY DEF None, Plain, Event, Events, EventTypes
  <2>2. << None >> \in Seq(Events) /\ Ends(<< None >>) = 0
    BY <2>1, CountOne DEF Ends
  <2> QED BY <1>2, <2>2
<1>4. /\ a \in Seq(Events) /\ Ends(a) \in Nat
      /\ Ends(toPlayer) = Ends(a) + Ends(toPlayer') /\ Ends(toPlayer') \in Nat
  <2>1. CASE toPlayer = << >>
    <3>1. toPlayer' = << >> /\ a = << >>
      BY <2>1 DEF Collect
    <3> QED BY <2>1, <3>1, EmptySeq, CountEmpty DEF Ends
  <2>2. CASE toPlayer # << >>
    <3>1. toPlayer' = Tail(toPlayer) /\ a = << Head(toPlayer) >>
      BY <2>2 DEF Collect
    <3>2. toPlayer \in Seq(Events)
      BY Counts
    <3>3. Head(toPlayer) \in Events
      BY <2>2, <3>2, HeadTailProperties
    <3>4. << Head(toPlayer) >> \in Seq(Events)
      BY <3>3
    <3>5. /\ Ends(toPlayer) = Ends(<< Head(toPlayer) >>) + Ends(Tail(toPlayer))
          /\ Ends(<< Head(toPlayer) >>) \in Nat /\ Ends(Tail(toPlayer)) \in Nat
      BY <2>2, <3>2, <3>4, CountHead, CountIsNat DEF Ends
    <3> HIDE DEF a
    <3> QED BY <3>1, <3>4, <3>5
  <2> QED BY <2>1, <2>2
<1>5. events' = windows \o a \o b /\ windows \in Seq(Events) /\ Ends(windows) = 0
  BY <1>1, <1>2
<1> HIDE DEF a, b
<1>6. windows \o a \in Seq(Events) /\ Ends(windows \o a) = 0 + Ends(a)
  BY <1>4, <1>5, ConcatProperties, CountConcat DEF Ends
<1>7. Ends(events') = (0 + Ends(a)) + 0
  BY <1>3, <1>5, <1>6, CountConcat DEF Ends
<1>8. Ends(events) = 0
  BY CountEmpty DEF Collect, Ends
<1>9. UNCHANGED <<cuePlaying, toSidecar, mCueExecuting>>
  BY DEF Collect, sidecarVars
<1>10. One(cuePlaying) \in {0, 1} /\ Completions(toSidecar) \in Nat
  BY Counts DEF IInv, FlagsOK
<1> QED BY <1>4, <1>7, <1>8, <1>9, <1>10 DEF UnderWay
LEMMA HandleEventInStep ==
  ASSUME IInv, ScriptOpens, Usual, Usual', UnderWay = One(mCueExecuting), HandleEvent
  PROVE  UnderWay' = One(mCueExecuting')
<1> DEFINE e == Current
           E == "MOVIE_CUE_END"
<1>1. /\ events # << >> /\ events \in Seq(Events) /\ script \in Seq(Good)
      /\ toPlayer' = toPlayer /\ mCueExecuting' = mCueExecuting /\ connected
  BY Counts DEF HandleEvent, sidecarVars, Usual, IInv, PlayerOK
<1>2. Head(events) \in Events /\ Tail(events) \in Seq(Events)
  BY <1>1, HeadTailProperties
<1>3. e \in Events /\ (e.mEventType = E <=> Head(events).mEventType = E)
  <2>1. CASE Scripted
    <3>1. Head(script) \in Good /\ Head(script).mEventType = "MOVIE_OPEN_FILE"
      <4>1. script # << >>
        BY <2>1 DEF Scripted
      <4>2. Head(script) \in Good /\ Head(script) = script[1] /\ 1 \in DOMAIN script
        BY <1>1, <4>1, HeadTailProperties, LenProperties, EmptySeq
      <4> QED BY <4>2 DEF ScriptOpens
    <3> QED BY <2>1, <3>1 DEF Current, Scripted, Good
  <2>2. CASE ~Scripted
    BY <1>2, <2>2 DEF Current
  <2> QED BY <2>1, <2>2
<1>4. e.mEventType # "MOVIE_QUIT"
  BY DEF HandleEvent, Usual, Quit, OpenFile, OpenFails, CueBegin, CueEnd, Reposition
<1>5. events' = Tail(events)
  BY <1>4 DEF HandleEvent
<1>6. /\ OpenFile(e) \/ OpenFails(e) \/ CueBegin(e) \/ CueEnd(e) \/ Quit(e) \/ Reposition(e)
  BY DEF HandleEvent
<1> HIDE DEF e
<1>7. /\ Ends(events) = (IF e.mEventType = E THEN 1 ELSE 0) + Ends(events')
      /\ Ends(events') \in Nat
  BY <1>1, <1>3, <1>5, CountHead DEF Ends
<1>8. /\ Ends(toPlayer) \in Nat /\ Completions(toSidecar) \in Nat
      /\ One(cuePlaying) \in {0, 1} /\ One(mCueExecuting) \in {0, 1}
      /\ cuePlaying \in BOOLEAN /\ One(TRUE) = 1
  BY Counts DEF IInv, FlagsOK, One
<1>9. << >> \in Seq(Events) /\ Completions(<< >>) = 0
  BY EmptySeq, CountEmpty DEF Completions
\* It is enough that what is played and what is completed keep their sum, but for the cue
\* whose script has just ended.
<1> DEFINE d == IF e.mEventType = E THEN 1 ELSE 0
<1>10. ASSUME One(cuePlaying') + Completions(toSidecar')
                = One(cuePlaying) + Completions(toSidecar) + d
       PROVE  UnderWay' = One(mCueExecuting')
  <2>1. d \in {0, 1} /\ Ends(events) = d + Ends(events')
    BY <1>7
  <2> HIDE DEF d
  <2>2. One(cuePlaying') \in Int /\ Completions(toSidecar') \in Int
    <3>1. toSidecar' \in Seq(Events) /\ cuePlaying' \in BOOLEAN
      BY HandleEventKeeps DEF IInv, FlagsOK
    <3>2. \A b \in BOOLEAN : One(b) \in Int
      BY DEF One
    <3>3. One(cuePlaying') \in Int
      BY <3>1, <3>2, Zenon
    <3>4. \A s \in Seq(Events) : Completions(s) \in Nat
      BY CountIsNat DEF Completions
    <3>5. Completions(toSidecar') \in Nat
      BY <3>1, <3>4, Zenon
    <3> QED BY <3>3, <3>5
  <2>3. /\ UnderWay' = Ends(toPlayer') + Ends(events') + One(cuePlaying') + Completions(toSidecar')
        /\ UnderWay = Ends(toPlayer) + Ends(events) + One(cuePlaying) + Completions(toSidecar)
    BY DEF UnderWay
  <2>4. Ends(toPlayer') = Ends(toPlayer) /\ One(mCueExecuting') = One(mCueExecuting)
    BY <1>1
  <2>5. One(cuePlaying') + Completions(toSidecar') = One(cuePlaying) + Completions(toSidecar) + d
    BY <1>10
  <2>6. /\ Ends(toPlayer) \in Int /\ Ends(events) \in Int /\ Ends(events') \in Int
        /\ Completions(toSidecar) \in Int /\ d \in Int
    BY <1>7, <1>8, <2>1, Counts
  <2>7. PICK p \in Int : p = One(cuePlaying)
    BY <1>8
  <2>8. PICK q \in Int : q = One(cuePlaying')
    BY <2>2
  <2>9. q + Completions(toSidecar') = p + Completions(toSidecar) + d
    BY <2>5, <2>7, <2>8, Zenon
  <2>10. Ends(toPlayer) + Ends(events') + q + Completions(toSidecar')
           = Ends(toPlayer) + Ends(events) + p + Completions(toSidecar)
    BY <2>1, <2>2, <2>6, <2>9
  <2>11. UnderWay' = UnderWay
    BY <2>3, <2>4, <2>7, <2>8, <2>10, Zenon
  <2> QED BY <2>4, <2>11
<1>11. CASE OpenFile(e)
  <2>1. /\ d = 0 /\ Frames[e.mString] \in Nat
        /\ Finish(e, OpenMovie(position, Frames[e.mString]), cuePlaying, << >>, 0)
    BY <1>11, CueAssumption DEF OpenFile
  <2> DEFINE p == OpenMovie(position, Frames[e.mString])
  <2>2. Finish(e, p, cuePlaying, << >>, 0)
    BY <2>1
  <2> HIDE DEF p, d
  <2>3. One(cuePlaying') + Completions(toSidecar')
          = One(cuePlaying) + Completions(toSidecar) + Completions(<< >>)
    BY <1>1, <1>8, <1>9, <2>2, FinishCounts
  <2> QED BY <1>9, <1>10, <2>1, <2>3
<1>12. CASE OpenFails(e)
  <2> DEFINE f == Plain("MOVIE_STOP_ERROR")
  <2>1. d = 0 /\ toSidecar' = toSidecar \o << f >> /\ cuePlaying' = cuePlaying
    BY <1>1, <1>12 DEF OpenFails, Send
  <2>2. f \in Events /\ f.mEventType = "MOVIE_STOP_ERROR"
    BY DEF Plain, Event, Events, EventTypes
  <2> HIDE DEF f
  <2>3. << f >> \in Seq(Events) /\ Completions(<< f >>) = 0
    BY <2>2, CountOne DEF Completions
  <2>4. Completions(toSidecar') = Completions(toSidecar) + 0
    BY <2>1, <2>3, Counts, CountConcat DEF Completions
  <2> HIDE DEF d
  <2> QED BY <1>8, <1>10, <2>1, <2>4
<1>13. CASE CueBegin(e)
  <2>1. d = 0 /\ FinishOrNot(e, position, cuePlaying, << >>, 0)
    BY <1>13 DEF CueBegin
  <2> HIDE DEF d
  <2>2. One(cuePlaying') + Completions(toSidecar')
          = One(cuePlaying) + Completions(toSidecar) + Completions(<< >>)
    BY <1>1, <1>8, <1>9, <2>1, FinishCounts
  <2> QED BY <1>9, <1>10, <2>1, <2>2
<1>14. CASE CueEnd(e)
  <2>1. renderer
    BY <1>14 DEF CueEnd, Usual
  <2> DEFINE yes == TRUE
  <2>2. d = 1 /\ FinishOrNot(e, position, yes, << >>, seen)
    BY <1>14, <2>1 DEF CueEnd
  <2>3. One(cuePlaying) = 0
    <3>1. Ends(events) >= 1 /\ Ends(events) \in Nat
      BY <1>7, <2>2
    <3> QED BY <1>8, <3>1 DEF UnderWay
  <2>4. yes \in BOOLEAN /\ One(yes) = 1
    BY DEF One
  <2> HIDE DEF d, yes
  <2>5. One(cuePlaying') + Completions(toSidecar')
          = One(yes) + Completions(toSidecar) + Completions(<< >>)
    BY <1>1, <1>9, <2>2, <2>4, FinishCounts
  <2>6. One(cuePlaying') + Completions(toSidecar') = One(cuePlaying) + Completions(toSidecar) + d
    BY <1>8, <1>9, <2>2, <2>3, <2>4, <2>5
  <2> QED BY <1>10, <2>6
<1>15. CASE Reposition(e)
  <2> DEFINE sent == IF e.mEventType = "MOVIE_STOP_ERROR" THEN << e >> ELSE << >>
             p == Effect(position, e)
  <2>1. d = 0 /\ FinishOrNot(e, p, cuePlaying, sent, seen)
    BY <1>15 DEF Reposition
  <2>2. sent \in Seq(Events) /\ Completions(sent) = 0
    <3>1. CASE e.mEventType = "MOVIE_STOP_ERROR"
      <4>1. << e >> \in Seq(Events) /\ Completions(<< e >>) = 0
        BY <1>3, <3>1, CountOne DEF Completions
      <4> QED BY <3>1, <4>1
    <3>2. CASE e.mEventType # "MOVIE_STOP_ERROR"
      BY <1>9, <3>2
    <3> QED BY <3>1, <3>2
  <2> HIDE DEF d, sent, p
  <2>3. One(cuePlaying') + Completions(toSidecar')
          = One(cuePlaying) + Completions(toSidecar) + Completions(sent)
    BY <1>1, <1>8, <2>1, <2>2, FinishCounts
  <2> QED BY <1>8, <1>10, <2>1, <2>2, <2>3
<1>16. ~Quit(e)
  BY <1>4 DEF Quit, e
<1> QED BY <1>6, <1>11, <1>12, <1>13, <1>14, <1>15, <1>16
\* Steps that leave the cue under way where it is.
LEMMA SameUnderWay ==
  ASSUME IInv, UnderWay = One(mCueExecuting), Ends(toPlayer') = Ends(toPlayer),
         UNCHANGED <<events, cuePlaying, toSidecar, mCueExecuting>>
  PROVE  UnderWay' = One(mCueExecuting')
<1>1. /\ UnderWay' = Ends(toPlayer') + Ends(events') + One(cuePlaying') + Completions(toSidecar')
      /\ UnderWay = Ends(toPlayer) + Ends(events) + One(cuePlaying) + Completions(toSidecar)
  BY DEF UnderWay
<1>2. /\ Ends(events') = Ends(events) /\ One(cuePlaying') = One(cuePlaying)
      /\ Completions(toSidecar') = Completions(toSidecar)
      /\ One(mCueExecuting') = One(mCueExecuting)
  OBVIOUS
<1> QED BY <1>1, <1>2, Zenon

LEMMA ClickInStep ==
  ASSUME IInv, Usual, Usual', UnderWay = One(mCueExecuting), Click
  PROVE  UnderWay' = One(mCueExecuting')
<1>1. Stop \in Events /\ Stop.mEventType # "MOVIE_CUE_END"
  BY DEF Stop, Plain, Event, Events, EventTypes
<1>2. ASSUME NEW kind, ClickExecute(kind)
      PROVE  UnderWay' = One(mCueExecuting')
  BY <1>2, SameUnderWay DEF ClickExecute, playerVars
<1>3. ASSUME ClickStop \/ StopButton
      PROVE  UnderWay' = One(mCueExecuting')
  <2>1. toPlayer' = Send(toPlayer, << Stop >>)
        /\ UNCHANGED <<events, cuePlaying, toSidecar, mCueExecuting>>
    BY <1>3 DEF ClickStop, StopButton, SetCueNotRunning, playerVars
  <2>2. Ends(toPlayer') = Ends(toPlayer)
    BY <1>1, <2>1, SendsNoEnd
  <2> QED BY <2>1, <2>2, SameUnderWay
<1>4. ASSUME OtherButton
      PROVE  UnderWay' = One(mCueExecuting')
  <2>1. UNCHANGED <<events, cuePlaying, toSidecar, mCueExecuting>>
    BY <1>4 DEF OtherButton, playerVars, sidecarVars
  <2>2. PICK e \in UserEvents : toPlayer' = Send(toPlayer, << e >>)
    BY <1>4 DEF OtherButton
  <2>3. e \in Events /\ e.mEventType # "MOVIE_CUE_END"
    BY CueAssumption DEF EventOK
  <2>4. Ends(toPlayer') = Ends(toPlayer)
    BY <2>2, <2>3, SendsNoEnd
  <2> QED BY <2>1, <2>4, SameUnderWay
<1>5. ~Disconnect
  BY DEF Disconnect, Usual
<1> QED BY <1>2, <1>3, <1>4, <1>5, Zenon DEF Click

LEMMA ExecuteCueInStep ==
  ASSUME IInv, Usual, UnderWay = One(mCueExecuting), ExecuteCue
  PROVE  UnderWay' = One(mCueExecuting')
<1> DEFINE c == Cues[Top.next]
<1>1. /\ toPlayer' = toPlayer \o GenerateScript(c) /\ mCueExecuting' = TRUE
      /\ UNCHANGED <<events, cuePlaying, toSidecar>>
  BY DEF ExecuteCue, Usual, playerVars
<1>2. c \in CueRecords
  <2>1. Top \in Rounds /\ Top.next <= Len(Cues)
    BY TopOf DEF ExecuteCue, IInv, RoundsOK
  <2>2. Top.next \in 1 .. Len(Cues)
    BY <2>1, CueAssumption, LenProperties DEF Rounds
  <2> QED BY <2>2, CueAssumption, LenProperties, ElementOfSeq
<1> HIDE DEF c
<1>3. Ends(GenerateScript(c)) = 1 /\ GenerateScript(c) \in Seq(Events)
  BY <1>2, ScriptEndsOnce
<1>4. Ends(toPlayer') = Ends(toPlayer) + 1
  BY <1>1, <1>3, Counts, CountConcat DEF Ends
<1>5. ~mCueExecuting
  BY DEF ExecuteCue, Usual, IInv, RoundsOK
<1>6. UnderWay = 0 /\ One(mCueExecuting') = 1
  BY <1>1, <1>5 DEF One
<1>7. /\ Ends(toPlayer) \in Int /\ Ends(events) \in Int /\ Completions(toSidecar) \in Int
      /\ One(cuePlaying) \in Int
  BY Counts DEF IInv, FlagsOK
<1>8. UnderWay' = Ends(toPlayer') + Ends(events) + One(cuePlaying) + Completions(toSidecar)
  BY <1>1 DEF UnderWay
<1>9. PICK p \in Int : p = One(cuePlaying)
  BY <1>7
<1>10. Ends(toPlayer) + Ends(events) + p + Completions(toSidecar) = 0
  BY <1>6, <1>9, Zenon DEF UnderWay
<1>11. Ends(toPlayer') + Ends(events) + p + Completions(toSidecar) = 1
  BY <1>4, <1>7, <1>10
<1> QED BY <1>6, <1>8, <1>9, <1>11, Zenon

LEMMA ReceiveInStep ==
  ASSUME IInv, Usual, UnderWay = One(mCueExecuting), Receive
  PROVE  UnderWay' = One(mCueExecuting')
<1> DEFINE K == "MOVIE_CUE_COMPLETE"
           h == Head(toSidecar)
           d == IF h.mEventType = K THEN 1 ELSE 0
<1>1. /\ toSidecar # << >> /\ toSidecar' = Tail(toSidecar)
      /\ mCueExecuting' = (mCueExecuting /\ h.mEventType # K)
      /\ UNCHANGED <<events, cuePlaying, toPlayer>>
  BY DEF Receive, playerVars
<1>2. /\ Completions(toSidecar) = d + Completions(toSidecar') /\ Completions(toSidecar') \in Nat
  BY <1>1, Counts, CountHead DEF Completions
<1>3. mCueExecuting \in BOOLEAN /\ d \in {0, 1}
  BY DEF IInv, FlagsOK
<1>4. /\ Ends(toPlayer) \in Nat /\ Ends(events) \in Nat /\ One(cuePlaying) \in Nat
      /\ One(mCueExecuting) \in {0, 1}
  BY Counts DEF IInv, FlagsOK
<1>5. PICK p \in Nat : p = One(cuePlaying)
  BY <1>4
<1>6. PICK x \in {0, 1} : x = One(mCueExecuting)
  BY <1>4
<1>7. Ends(toPlayer) + Ends(events) + p + Completions(toSidecar) = x
  BY <1>5, <1>6, Zenon DEF UnderWay
<1>8. UnderWay' = Ends(toPlayer) + Ends(events) + p + Completions(toSidecar')
  BY <1>1, <1>5, Zenon DEF UnderWay
<1>9. One(mCueExecuting') = x - d
  <2>1. CASE h.mEventType = K
    <3>1. d = 1 /\ ~mCueExecuting'
      BY <1>1, <2>1
    <3> HIDE DEF d
    <3>2. x = 1
      BY <1>2, <1>4, <1>6, <1>7, <3>1
    <3> QED BY <3>1, <3>2 DEF One
  <2>2. CASE h.mEventType # K
    <3>1. d = 0 /\ (mCueExecuting' <=> mCueExecuting)
      BY <1>1, <2>2
    <3> HIDE DEF d
    <3> QED BY <1>6, <3>1 DEF One
  <2> QED BY <2>1, <2>2
<1> HIDE DEF d, h, K
<1>10. Ends(toPlayer) + Ends(events) + p + Completions(toSidecar') = x - d
  BY <1>2, <1>3, <1>4, <1>6, <1>7
<1> QED BY <1>8, <1>9, <1>10, Zenon

LEMMA OtherInStep ==
  ASSUME IInv, Usual, Usual', UnderWay = One(mCueExecuting),
         WaitEnds \/ LoopAgain \/ EndRound
  PROVE  UnderWay' = One(mCueExecuting')
<1>1. Stop \in Events /\ Stop.mEventType # "MOVIE_CUE_END"
  BY DEF Stop, Plain, Event, Events, EventTypes
<1>2. CASE WaitEnds
  <2>1. /\ UNCHANGED <<events, cuePlaying, toSidecar>> /\ toPlayer' = toPlayer
        /\ ~mCueExecuting /\ ~mCueExecuting'
    BY <1>2 DEF WaitEnds, Usual, playerVars
  <2>2. One(mCueExecuting') = One(mCueExecuting)
    BY <2>1 DEF One
  <2>3. UnderWay' = UnderWay
    BY <2>1 DEF UnderWay
  <2> QED BY <2>2, <2>3
<1>3. CASE LoopAgain
  BY <1>3, SameUnderWay DEF LoopAgain, playerVars
<1>4. CASE EndRound
  <2>1. toPlayer' = Send(toPlayer, << Stop >>)
        /\ UNCHANGED <<events, cuePlaying, toSidecar, mCueExecuting>>
    BY <1>4 DEF EndRound, SetCueNotRunning, playerVars
  <2>2. Ends(toPlayer') = Ends(toPlayer)
    BY <1>1, <2>1, SendsNoEnd
  <2> QED BY <2>1, <2>2, SameUnderWay
<1> QED BY <1>2, <1>3, <1>4

LEMMA StepsInStep == JInv /\ [Next]_vars => JInv'
<1> SUFFICES ASSUME JInv, [Next]_vars PROVE JInv'
  OBVIOUS
<1>1. IInv /\ ScriptOpens /\ InStep /\ IInv' /\ ScriptOpens'
  BY Steps, ScriptStays DEF JInv
<1>2. InStep'
  <2>1. CASE UNCHANGED vars
    BY <1>1, <2>1 DEF InStep, vars, playerVars, sidecarVars
  <2>2. CASE Next
    <3> SUFFICES ASSUME Usual' PROVE UnderWay' = One(mCueExecuting')
      <4>1. InStep' <=> (Usual' => UnderWay' = One(mCueExecuting'))
        BY DEF InStep, Usual, UnderWay, Ends, Completions, One
      <4> QED BY <4>1
    <3>1. Usual
      BY <1>1, <2>2, UsualBefore
    <3>2. UnderWay = One(mCueExecuting)
      BY <1>1, <3>1, InStepIs
    <3>3. ~PlayerDies /\ ~LosePlayer
      BY <3>1 DEF PlayerDies, LosePlayer, Usual
    <3> QED BY <1>1, <2>2, <3>1, <3>2, <3>3, CollectInStep, HandleEventInStep, ClickInStep,
               ExecuteCueInStep, ReceiveInStep, OtherInStep
        DEF Next, PlayerStep, ReadMissingFrame, LoseSidecar, SidecarStep
  <2> QED BY <2>1, <2>2
<1> QED BY <1>1, <1>2 DEF JInv

LEMMA StartInStep == Init => JInv
<1> SUFFICES ASSUME Init PROVE JInv
  OBVIOUS
<1>1. IInv
  BY Start
<1>2. ScriptOpens
  <2>1. PICK movies \in Scripts : script = [i \in DOMAIN movies |-> Open(movies[i])]
    BY DEF Init
  <2> QED BY <2>1 DEF ScriptOpens, Open, Event
<1>3. InStep
  <2>1. toPlayer = << >> /\ events = << >> /\ toSidecar = << >>
        /\ ~cuePlaying /\ ~mCueExecuting
    BY DEF Init
  <2>2. HowMany("MOVIE_CUE_END", << >>) = 0 /\ HowMany("MOVIE_CUE_COMPLETE", << >>) = 0
    BY CountEmpty
  <2> QED BY <2>1, <2>2 DEF InStep
<1> QED BY <1>1, <1>2, <1>3 DEF JInv

(* Sidecar and the player agree on whether a cue is under way: the wait of executeCue is
   for one cue, that is in one place, and the completion that comes back is its own. *)
THEOREM CueAndWaitAgree == Spec => []InStep
<1>1. JInv => InStep
  BY DEF JInv
<1> QED BY <1>1, StartInStep, StepsInStep, PTL DEF Spec
-------------------------------------------------------------------------------
(* A cue is played to its end.                                                *)

\* The script of a cue that opens its movie and plays it forward, event by event
Opening(c) == c.movie # NoMovie /\ c.play /\ ~c.backward /\ Frames[c.movie] > 0

ScriptItem(c, k) ==
  CASE k = 1 -> Numbered("MOVIE_CUE_BEGIN", c.end)
    [] k = 2 -> Open(c.movie)
    [] k = 3 -> Numbered("MOVIE_CUE_PLAY_ON_LOAD", 1)
    [] k = 4 -> Numbered("MOVIE_SET_REPEAT", c.repeats)
    [] k = 5 -> Numbered("MOVIE_SET_PINGPONG", IF c.pingpong THEN 1 ELSE 0)
    [] k = 6 -> Numbered("MOVIE_FULLSCREEN", 0)
    [] k = 7 -> Numbered("MOVIE_GOTO_FRAME", c.current)
    [] k = 8 -> Event("MOVIE_START_END_FRAMES", 0, c.start, c.end, NoMovie)
    [] k = 9 -> Plain("MOVIE_PLAY_FORWARD")
    [] OTHER -> Plain("MOVIE_CUE_END")

LEMMA OneMore ==
  ASSUME NEW S, NEW s \in Seq(S), NEW x \in S
  PROVE  /\ s \o << x >> \in Seq(S) /\ Len(s \o << x >>) = Len(s) + 1
         /\ (s \o << x >>)[Len(s) + 1] = x
         /\ \A i \in 1 .. Len(s) : (s \o << x >>)[i] = s[i]
<1> DEFINE y == << x >>
<1>1. y \in Seq(S) /\ Len(y) = 1 /\ y[1] = x
  OBVIOUS
<1> HIDE DEF y
<1>2. Len(s) \in Nat
  BY LenProperties
<1>3. /\ s \o y \in Seq(S) /\ Len(s \o y) = Len(s) + Len(y)
      /\ \A i \in 1 .. Len(s) + Len(y) :
           (s \o y)[i] = IF i <= Len(s) THEN s[i] ELSE y[i - Len(s)]
  BY <1>1, ConcatProperties
<1>4. /\ s \o y \in Seq(S) /\ Len(s \o y) = Len(s) + 1
      /\ (s \o y)[Len(s) + 1] = y[1]
      /\ \A i \in 1 .. Len(s) : (s \o y)[i] = s[i]
  BY <1>1, <1>2, <1>3
<1> QED BY <1>1, <1>4 DEF y

LEMMA FiveMore ==
  ASSUME NEW S, NEW b \in Seq(S), Len(b) = 3, NEW f \in Seq(S), Len(f) = 5
  PROVE  /\ b \o f \in Seq(S) /\ Len(b \o f) = 8
         /\ \A i \in 1 .. 3 : (b \o f)[i] = b[i]
         /\ (b \o f)[4] = f[1] /\ (b \o f)[5] = f[2] /\ (b \o f)[6] = f[3]
         /\ (b \o f)[7] = f[4] /\ (b \o f)[8] = f[5]
<1> DEFINE d == b \o f
<1>1. d \in Seq(S) /\ Len(d) = Len(b) + Len(f)
      /\ \A i \in 1 .. Len(b) + Len(f) : d[i] = IF i <= Len(b) THEN b[i] ELSE f[i - Len(b)]
  BY ConcatProperties
<1> HIDE DEF d
<1>2. d \in Seq(S) /\ Len(d) = 8 /\ \A i \in 1 .. 8 : d[i] = IF i <= 3 THEN b[i] ELSE f[i - 3]
  BY <1>1
<1>3. /\ \A i \in 1 .. 3 : d[i] = b[i]
      /\ d[4] = f[1] /\ d[5] = f[2] /\ d[6] = f[3] /\ d[7] = f[4] /\ d[8] = f[5]
  BY <1>2
<1> QED BY <1>2, <1>3 DEF d

LEMMA ScriptIs ==
  ASSUME NEW c \in CueRecords, Opening(c)
  PROVE  /\ GenerateScript(c) \in Seq(Events) /\ Len(GenerateScript(c)) = 10
         /\ \A k \in 1 .. 10 : GenerateScript(c)[k] = ScriptItem(c, k)
<1> DEFINE g == IF c.pingpong THEN 1 ELSE 0
           x1 == Numbered("MOVIE_CUE_BEGIN", c.end)
           x2 == Open(c.movie)
           x3 == Numbered("MOVIE_CUE_PLAY_ON_LOAD", 1)
           x4 == Numbered("MOVIE_SET_REPEAT", c.repeats)
           x5 == Numbered("MOVIE_SET_PINGPONG", g)
           x6 == Numbered("MOVIE_FULLSCREEN", 0)
           x7 == Numbered("MOVIE_GOTO_FRAME", c.current)
           x8 == Event("MOVIE_START_END_FRAMES", 0, c.start, c.end, NoMovie)
           x9 == Plain("MOVIE_PLAY_FORWARD")
           x10 == Plain("MOVIE_CUE_END")
           s == GenerateScript(c)
<1>1. /\ c.end \in Int /\ c.repeats \in Int /\ c.current \in Int /\ c.start \in Int
      /\ c.movie \in Movies \cup {NoMovie} /\ g \in Int
      /\ c.movie # NoMovie /\ c.play = TRUE /\ c.backward = FALSE
  BY DEF CueRecords, Opening
<1>2. s = << x1 >> \o << x2 >> \o << x3 >> \o << x4, x5, x6, x7, x8 >> \o << x9 >> \o << x10 >>
  BY <1>1 DEF GenerateScript
<1>3. \A k \in 1 .. 10 :
        ScriptItem(c, k) = CASE k = 1 -> x1 [] k = 2 -> x2 [] k = 3 -> x3 [] k = 4 -> x4
                             [] k = 5 -> x5 [] k = 6 -> x6 [] k = 7 -> x7 [] k = 8 -> x8
                             [] k = 9 -> x9 [] OTHER -> x10
  BY DEF ScriptItem
<1> HIDE DEF g
<1>4. \A type \in EventTypes, n \in Int : Numbered(type, n) \in Events /\ Plain(type) \in Events
  BY DEF Numbered, Plain, Event, Events
<1>5. {"MOVIE_CUE_BEGIN", "MOVIE_CUE_PLAY_ON_LOAD", "MOVIE_SET_REPEAT", "MOVIE_SET_PINGPONG",
       "MOVIE_FULLSCREEN", "MOVIE_GOTO_FRAME", "MOVIE_PLAY_FORWARD", "MOVIE_CUE_END"} \subseteq EventTypes
  BY DEF EventTypes
<1>6. /\ x1 \in Events /\ x3 \in Events /\ x4 \in Events /\ x5 \in Events /\ x6 \in Events
      /\ x7 \in Events /\ x9 \in Events /\ x10 \in Events
  BY <1>1, <1>4, <1>5
<1>7. x2 \in Events /\ x8 \in Events
  BY <1>1 DEF Open, Event, Events, EventTypes
<1> HIDE DEF x1, x2, x3, x4, x5, x6, x7, x8, x9, x10, s
<1>8. /\ s \in Seq(Events) /\ Len(s) = 10
      /\ s[1] = x1 /\ s[2] = x2 /\ s[3] = x3 /\ s[4] = x4 /\ s[5] = x5
      /\ s[6] = x6 /\ s[7] = x7 /\ s[8] = x8 /\ s[9] = x9 /\ s[10] = x10
  <2> DEFINE More(y, v) == y \o << v >>
             z == << x1 >>
             f == << x4, x5, x6, x7, x8 >>
             a == More(z, x2)
             b == More(a, x3)
             d == b \o f
             h == More(d, x9)
             t == More(h, x10)
             r == << x1 >> \o << x2 >> \o << x3 >> \o << x4, x5, x6, x7, x8 >>
                    \o << x9 >> \o << x10 >>
  <2>1. z \in Seq(Events) /\ Len(z) = 1 /\ z[1] = x1
    BY <1>6
  <2>2. /\ f \in Seq(Events) /\ Len(f) = 5
        /\ f[1] = x4 /\ f[2] = x5 /\ f[3] = x6 /\ f[4] = x7 /\ f[5] = x8
    BY <1>6, <1>7
  <2>3. \A y \in Seq(Events), v \in Events :
          /\ More(y, v) \in Seq(Events) /\ Len(More(y, v)) = Len(y) + 1
          /\ More(y, v)[Len(y) + 1] = v
          /\ \A i \in 1 .. Len(y) : More(y, v)[i] = y[i]
    BY OneMore
  <2>4. r = t
    OBVIOUS
  <2> HIDE DEF More, r, z, f
  <2>5. a \in Seq(Events) /\ Len(a) = 2 /\ a[1] = x1 /\ a[2] = x2
    <3>1. a \in Seq(Events) /\ Len(a) = Len(z) + 1 /\ a[Len(z) + 1] = x2 /\ \A i \in 1 .. Len(z) : a[i] = z[i]
      BY <1>7, <2>1, <2>3
    <3> HIDE DEF a
    <3> QED BY <2>1, <3>1
  <2> HIDE DEF a
  <2>6. b \in Seq(Events) /\ Len(b) = 3 /\ b[1] = x1 /\ b[2] = x2 /\ b[3] = x3
    <3>1. b \in Seq(Events) /\ Len(b) = Len(a) + 1 /\ b[Len(a) + 1] = x3 /\ \A i \in 1 .. Len(a) : b[i] = a[i]
      BY <1>6, <2>5, <2>3
    <3> HIDE DEF b
    <3> QED BY <2>5, <3>1
  <2> HIDE DEF b
  <2>7. /\ d \in Seq(Events) /\ Len(d) = 8
        /\ d[1] = x1 /\ d[2] = x2 /\ d[3] = x3
        /\ d[4] = x4 /\ d[5] = x5 /\ d[6] = x6 /\ d[7] = x7 /\ d[8] = x8
    <3>1. /\ d \in Seq(Events) /\ Len(d) = 8
          /\ \A i \in 1 .. 3 : d[i] = b[i]
          /\ d[4] = f[1] /\ d[5] = f[2] /\ d[6] = f[3] /\ d[7] = f[4] /\ d[8] = f[5]
      BY <2>2, <2>6, FiveMore
    <3> HIDE DEF d
    <3> QED BY <2>2, <2>6, <3>1
  <2> HIDE DEF d
  <2>8. /\ h \in Seq(Events) /\ Len(h) = 9 /\ h[9] = x9 /\ \A i \in 1 .. 8 : h[i] = d[i]
    <3>1. h \in Seq(Events) /\ Len(h) = Len(d) + 1 /\ h[Len(d) + 1] = x9 /\ \A i \in 1 .. Len(d) : h[i] = d[i]
      BY <1>6, <2>7, <2>3
    <3> HIDE DEF h
    <3> QED BY <2>7, <3>1
  <2> HIDE DEF h
  <2>9. /\ t \in Seq(Events) /\ Len(t) = 10 /\ t[10] = x10 /\ \A i \in 1 .. 9 : t[i] = h[i]
    <3>1. t \in Seq(Events) /\ Len(t) = Len(h) + 1 /\ t[Len(h) + 1] = x10 /\ \A i \in 1 .. Len(h) : t[i] = h[i]
      BY <1>6, <2>8, <2>3
    <3> HIDE DEF t
    <3> QED BY <2>8, <3>1
  <2> HIDE DEF t
  <2>10. /\ t[1] = x1 /\ t[2] = x2 /\ t[3] = x3 /\ t[4] = x4 /\ t[5] = x5
         /\ t[6] = x6 /\ t[7] = x7 /\ t[8] = x8 /\ t[9] = x9
    BY <2>7, <2>8, <2>9
  <2>11. s = r
    BY <1>2 DEF r
  <2> HIDE DEF r
  <2> QED BY <2>4, <2>9, <2>10, <2>11, Zenon
<1>9. \A k \in 1 .. 10 : s[k] = ScriptItem(c, k)
  BY <1>3, <1>8
<1> QED BY <1>8, <1>9 DEF s

-------------------------------------------------------------------------------
(* What is on its way to the player *)

\* q is what is left of script s, after n more events MOVIE_STOP, or -n events into it.
RestOf(q, s, n) ==
  /\ n \in Int /\ 0 <= Len(s) + n /\ Len(q) = Len(s) + n
  /\ \A i \in 1 .. Len(q) : q[i] = IF i <= n THEN Stop ELSE s[i - n]

LEMMA RestTail ==
  ASSUME NEW q \in Seq(Events), NEW s \in Seq(Events), NEW n, RestOf(q, s, n), q # << >>
  PROVE  /\ RestOf(Tail(q), s, n - 1)
         /\ Head(q) = (IF n >= 1 THEN Stop ELSE s[1 - n])
         /\ n <= 0 => 1 - n \in 1 .. Len(s)
<1>1. /\ Len(q) \in Nat /\ Len(s) \in Nat /\ n \in Int /\ 0 <= Len(s) + n /\ Len(q) = Len(s) + n
      /\ \A i \in 1 .. Len(q) : q[i] = IF i <= n THEN Stop ELSE s[i - n]
  BY LenProperties DEF RestOf
<1>2. Len(q) >= 1
  BY <1>1, EmptySeq
<1> DEFINE t == Tail(q)
           m == n - 1
<1>3. /\ t \in Seq(Events) /\ Len(t) = Len(q) - 1 /\ Head(q) = q[1]
      /\ \A i \in 1 .. Len(t) : t[i] = q[i + 1]
  BY HeadTailProperties
<1> HIDE DEF t
<1>4. m \in Int /\ m = n - 1
  BY <1>1
<1> HIDE DEF m
<1>5. \A i \in 1 .. Len(t) : t[i] = IF i <= m THEN Stop ELSE s[i - m]
  <2> TAKE i \in 1 .. Len(t)
  <2>1. /\ i \in Nat /\ i + 1 \in 1 .. Len(q) /\ (i + 1 <= n <=> i <= m) /\ (i + 1) - n = i - m
    BY <1>1, <1>3, <1>4
  <2>2. t[i] = q[i + 1]
    BY <1>3
  <2> QED BY <1>1, <2>1, <2>2
<1>6. Len(s) + m = Len(t) /\ 0 <= Len(s) + m
  BY <1>1, <1>2, <1>3, <1>4
<1>7. RestOf(t, s, m)
  BY <1>4, <1>5, <1>6 DEF RestOf
<1>8. /\ Head(q) = (IF n >= 1 THEN Stop ELSE s[1 - n])
      /\ n <= 0 => 1 - n \in 1 .. Len(s)
  BY <1>1, <1>2, <1>3
<1> QED BY <1>7, <1>8 DEF t, m

LEMMA RestStart ==
  ASSUME NEW q \in Seq(Events), NEW s \in Seq(Events), \A i \in 1 .. Len(q) : q[i] = Stop
  PROVE  RestOf(q \o s, s, Len(q))
<1> DEFINE t == q \o s
<1>1. /\ Len(q) \in Nat /\ Len(s) \in Nat /\ Len(t) = Len(q) + Len(s)
      /\ \A i \in 1 .. Len(q) + Len(s) : t[i] = IF i <= Len(q) THEN q[i] ELSE s[i - Len(q)]
  BY LenProperties, ConcatProperties
<1> HIDE DEF t
<1>2. RestOf(t, s, Len(q))
  BY <1>1 DEF RestOf
<1> QED BY <1>2 DEF t

\* When the end of the cue is gone, nothing is left of its script.
LEMMA RestOver ==
  ASSUME NEW q \in Seq(Events), NEW s \in Seq(Events), NEW n, RestOf(q, s, n),
         Len(s) \in Nat \ {0}, s[Len(s)].mEventType = "MOVIE_CUE_END", Ends(q) = 0
  PROVE  q = << >> /\ n = -Len(s)
<1>1. /\ Len(q) \in Nat /\ n \in Int /\ Len(q) = Len(s) + n
      /\ \A i \in 1 .. Len(q) : q[i] = IF i <= n THEN Stop ELSE s[i - n]
  BY LenProperties DEF RestOf
<1>2. Len(q) = 0
  <2> SUFFICES ASSUME Len(q) # 0 PROVE FALSE
    OBVIOUS
  <2>1. Len(q) \in 1 .. Len(q) /\ ~(Len(q) <= n) /\ Len(q) - n = Len(s)
    BY <1>1
  <2>2. q[Len(q)] = s[Len(s)]
    BY <1>1, <2>1
  <2>3. Len(q) \in {i \in DOMAIN q : q[i].mEventType = "MOVIE_CUE_END"}
    BY <2>1, <2>2, LenProperties
  <2>4. IsFiniteSet({i \in DOMAIN q : q[i].mEventType = "MOVIE_CUE_END"})
    BY CountIsNat
  <2>5. {i \in DOMAIN q : q[i].mEventType = "MOVIE_CUE_END"} = {}
    BY <2>4, FS_EmptySet DEF Ends, HowMany
  <2> QED BY <2>3, <2>5
<1> QED BY <1>1, <1>2, EmptySeq

LEMMA ConsIs ==
  ASSUME NEW x \in Events, NEW q \in Seq(Events)
  PROVE  /\ << x >> \o q \in Seq(Events) /\ << x >> \o q # << >>
         /\ Head(<< x >> \o q) = x /\ Tail(<< x >> \o q) = q
<1> DEFINE y == << x >>
           t == y \o q
<1>1. y \in Seq(Events) /\ Len(y) = 1 /\ y[1] = x
  OBVIOUS
<1> HIDE DEF y
<1>2. /\ t \in Seq(Events) /\ Len(t) = Len(y) + Len(q) /\ Len(q) \in Nat
      /\ \A i \in 1 .. Len(y) + Len(q) : t[i] = IF i <= Len(y) THEN y[i] ELSE q[i - Len(y)]
  BY <1>1, ConcatProperties, LenProperties
<1> HIDE DEF t
<1>3. Len(t) = 1 + Len(q) /\ t # << >> /\ t[1] = x /\ \A i \in 1 .. Len(q) : t[i + 1] = q[i]
  BY <1>1, <1>2, EmptySeq
<1>4. /\ Head(t) = t[1] /\ Tail(t) \in Seq(Events) /\ Len(Tail(t)) = Len(t) - 1
      /\ \A i \in 1 .. Len(Tail(t)) : Tail(t)[i] = t[i + 1]
  BY <1>2, <1>3, HeadTailProperties
<1>5. Tail(t) = q
  BY <1>2, <1>3, <1>4, SeqEqual
<1> QED BY <1>2, <1>3, <1>4, <1>5 DEF t, y

LEMMA HeadAndRest ==
  ASSUME NEW s \in Seq(Events), s # << >>
  PROVE  << Head(s) >> \o Tail(s) = s
<1>1. Head(s) \in Events /\ Tail(s) \in Seq(Events) /\ << Head(s) >> \in Seq(Events)
  BY HeadTailProperties
<1>2. /\ << Head(s) >> \o Tail(s) \in Seq(Events)
      /\ Len(<< Head(s) >> \o Tail(s)) = Len(s)
      /\ \A i \in 1 .. Len(s) : (<< Head(s) >> \o Tail(s))[i] = s[i]
  BY <1>1, ConcatProperties, HeadTailProperties, LenProperties
<1> QED BY <1>2, SeqEqual

-------------------------------------------------------------------------------
(* Without the user the queues are short, and there is one round. *)

\* Nobody has interfered, and the player goes on.
Calm == ~touched /\ ~done /\ ~bare

\* Then there is one round at a time
OneRound == ~touched /\ ~done => connected /\ ~nested /\ (rounds # << >> => running)

\* Without the user the player's loop has at most the event from sidecar and MOVIE_NONE.
QueueShort ==
  ~touched => /\ Len(events) <= 2
              /\ \A i \in DOMAIN events : i = Len(events) => events[i] = None

\* What comes from sidecar and has not been handled
InFront == IF Len(events) = 2 THEN << Head(events) >> \o toPlayer ELSE toPlayer

LEMMA InFrontIs ==
  ASSUME IInv
  PROVE  /\ InFront \in Seq(Events)
         /\ Ends(toPlayer) + Ends(events) = 0 => Ends(InFront) = 0
         /\ Len(events) = 2 => /\ InFront # << >> /\ Head(InFront) = Head(events)
                               /\ Tail(InFront) = toPlayer
<1>1. /\ toPlayer \in Seq(Events) /\ events \in Seq(Events)
      /\ Ends(toPlayer) \in Nat /\ Ends(events) \in Nat
  BY Counts
<1>2. CASE Len(events) # 2
  BY <1>1, <1>2 DEF InFront
<1>3. CASE Len(events) = 2
  <2> DEFINE e == Head(events)
  <2>0. events # << >>
    BY <1>3, EmptySeq
  <2>1. events # << >> /\ e \in Events
    BY <1>1, <2>0, HeadTailProperties
  <2>2. InFront = << e >> \o toPlayer
    BY <1>3 DEF InFront
  <2>3. /\ Ends(events) = Ends(<< e >>) + Ends(Tail(events))
        /\ Ends(<< e >>) = (IF e.mEventType = "MOVIE_CUE_END" THEN 1 ELSE 0)
        /\ Ends(Tail(events)) \in Nat
    BY <1>1, <2>1, CountHead DEF Ends
  <2> HIDE DEF e
  <2>4. /\ InFront \in Seq(Events) /\ InFront # << >> /\ Head(InFront) = e
        /\ Tail(InFront) = toPlayer
    BY <1>1, <2>1, <2>2, ConsIs
  <2>5. Ends(InFront) = Ends(<< Head(InFront) >>) + Ends(Tail(InFront))
    BY <2>4, CountHead DEF Ends
  <2>8. Ends(<< e >>) \in Nat
    BY <2>3
  <2>6. Ends(InFront) = Ends(<< e >>) + Ends(toPlayer) /\ Ends(<< e >>) \in Nat
    BY <2>4, <2>5, <2>8
  <2>7. Ends(toPlayer) + Ends(events) = 0 => Ends(InFront) = 0
    BY <1>1, <2>3, <2>6
  <2> QED BY <2>4, <2>7 DEF e
<1> QED BY <1>2, <1>3

LEMMA SendFront ==
  ASSUME IInv, NEW q \in Seq(Events), events' = events, toPlayer' = toPlayer \o q
  PROVE  InFront' = InFront \o q
<1>1. toPlayer \in Seq(Events) /\ events \in Seq(Events)
  BY Counts
<1>2. CASE Len(events) # 2
  BY <1>2 DEF InFront
<1>3. CASE Len(events) = 2
  <2> DEFINE y == << Head(events) >>
  <2>4. Len(<< >>) = 0
    BY EmptySeq
  <2>6. events = << >> => Len(events) = 0
    BY <2>4, Zenon
  <2>0. events # << >>
    BY <1>3, <2>6
  <2>1. events # << >> /\ Head(events) \in Events
    BY <1>1, <2>0, HeadTailProperties
  <2>2. y \in Seq(Events)
    BY <2>1
  <2>3. InFront = y \o toPlayer /\ InFront' = y \o (toPlayer \o q)
    BY <1>3 DEF InFront
  <2> HIDE DEF y
  <2>5. (y \o toPlayer) \o q = y \o (toPlayer \o q)
    BY <1>1, <2>2, ConcatAssociative
  <2> QED BY <2>3, <2>5
<1> QED BY <1>2, <1>3

LEMMA CollectFront ==
  ASSUME IInv, Collect, ~touched'
  PROVE  QueueShort' /\ InFront' = InFront
<1>1. PICK windows, keys \in {<< >>} \cup {<< e >> : e \in UserEvents} :
        /\ clicks' = clicks + Len(windows) + Len(keys)
        /\ touched' = (touched \/ clicks' > clicks)
        /\ events' = windows
                       \o (IF toPlayer = << >> THEN << >> ELSE << Head(toPlayer) >>)
                       \o (IF keys = << >> THEN << None >> ELSE keys)
  BY DEF Collect
<1>2. events = << >> /\ Len(events) = 0 /\ toPlayer \in Seq(Events)
      /\ toPlayer' = (IF toPlayer = << >> THEN << >> ELSE Tail(toPlayer))
  BY Counts, EmptySeq DEF Collect
<1>3. windows = << >> /\ keys = << >>
  <2>1. \A k \in {<< >>} \cup {<< e >> : e \in UserEvents} : k = << >> \/ Len(k) = 1
    OBVIOUS
  <2>2. Len(windows) \in Nat /\ Len(keys) \in Nat
    <3>1. \A e \in UserEvents : << e >> \in Seq(UserEvents)
      OBVIOUS
    <3> QED BY <3>1, EmptySeq, <2>1
  <2>3. clicks \in Nat /\ ~(clicks' > clicks)
    BY <1>1 DEF IInv, FlagsOK
  <2>4. Len(windows) + Len(keys) = 0
    BY <1>1, <2>2, <2>3
  <2> QED BY <2>1, <2>2, <2>4
<1>4. None \in Events /\ << None >> \in Seq(Events) /\ Len(<< None >>) = 1 /\ << None >>[1] = None
  <2>1. None \in Events
    BY DEF None, Plain, Event, Events, EventTypes
  <2> QED BY <2>1
<1>5. CASE toPlayer = << >>
  <2>1. events' = << >> \o << >> \o << None >> /\ toPlayer' = << >>
    BY <1>1, <1>2, <1>3, <1>5
  <2>2. events' = << None >>
    BY <2>1
  <2> QED BY <1>2, <1>4, <1>5, <2>1, <2>2 DEF QueueShort, InFront
<1>6. CASE toPlayer # << >>
  <2> DEFINE h == Head(toPlayer)
  <2>1. events' = << >> \o << h >> \o << None >> /\ toPlayer' = Tail(toPlayer)
    BY <1>1, <1>2, <1>3, <1>6
  <2>2. h \in Events /\ << h >> \o Tail(toPlayer) = toPlayer
    BY <1>2, <1>6, HeadTailProperties, HeadAndRest
  <2> HIDE DEF h
  <2> DEFINE n == None
  <2>4. n = None
    OBVIOUS
  <2>7. events' = << >> \o << h >> \o << n >>
    BY <2>1
  <2> DEFINE a == << >> \o << h >>
  <2>3. << >> \in Seq(Events) /\ Len(<< >>) = 0 /\ n \in Events
    BY <1>4, EmptySeq
  <2>5. a \in Seq(Events) /\ Len(a) = 1 /\ a[1] = h
    BY <2>2, <2>3, OneMore
  <2> HIDE DEF n, a
  <2> DEFINE b == a \o << n >>
  <2>11. \A y \in Seq(Events), v \in Events :
           /\ y \o << v >> \in Seq(Events) /\ Len(y \o << v >>) = Len(y) + 1
           /\ (y \o << v >>)[Len(y) + 1] = v
           /\ \A i \in 1 .. Len(y) : (y \o << v >>)[i] = y[i]
    BY OneMore
  <2>10. /\ b \in Seq(Events) /\ Len(b) = Len(a) + 1 /\ b[Len(a) + 1] = n
         /\ \A i \in 1 .. Len(a) : b[i] = a[i]
    BY <2>3, <2>5, <2>11
  <2> HIDE DEF b
  <2>8. b \in Seq(Events) /\ Len(b) = 2 /\ b[2] = n /\ b[1] = a[1]
    BY <2>5, <2>10
  <2>9. events' = b
    BY <2>7 DEF a, b
  <2>6. Len(events') = 2 /\ events'[2] = None /\ Head(events') = h
    BY <2>4, <2>5, <2>8, <2>9, HeadTailProperties
  <2> QED BY <1>2, <2>1, <2>2, <2>6 DEF QueueShort, InFront
<1> QED BY <1>5, <1>6

LEMMA HandleFront ==
  ASSUME IInv, HandleEvent, QueueShort, ~touched
  PROVE  /\ QueueShort'
         /\ \/ Len(events) = 1 /\ Head(events) = None /\ InFront' = InFront
            \/ /\ Len(events) = 2 /\ InFront # << >> /\ Head(events) = Head(InFront)
               /\ InFront' = Tail(InFront)
<1>1. /\ events \in Seq(Events) /\ events # << >> /\ Len(events) \in Nat /\ Len(events) <= 2
      /\ \A i \in DOMAIN events : i = Len(events) => events[i] = None
      /\ DOMAIN events = 1 .. Len(events)
      /\ toPlayer' = toPlayer /\ (events' = << >> \/ events' = Tail(events))
  BY Counts, LenProperties DEF HandleEvent, QueueShort
<1>2. /\ Len(events) \in {1, 2} /\ Head(events) = events[1]
      /\ Tail(events) \in Seq(Events) /\ Len(Tail(events)) = Len(events) - 1
      /\ \A i \in 1 .. Len(Tail(events)) : Tail(events)[i] = events[i + 1]
  BY <1>1, EmptySeq, HeadTailProperties
<1>3. /\ Len(events') \in {0, 1} /\ DOMAIN events' = 1 .. Len(events')
      /\ Len(events') = 1 => events' = Tail(events) /\ Len(events) = 2
  <2>1. CASE events' = << >>
    BY <2>1, EmptySeq
  <2>2. CASE events' = Tail(events)
    <3>1. Len(events') = Len(events) - 1 /\ events' \in Seq(Events)
      BY <1>2, <2>2
    <3> QED BY <1>2, <2>2, <3>1, LenProperties
  <2> QED BY <1>1, <2>1, <2>2
<1>4. QueueShort'
  <2>1. \A i \in DOMAIN events' : i = Len(events') => events'[i] = None
    <3> SUFFICES ASSUME Len(events') = 1 PROVE events'[1] = None
      BY <1>3
    <3>1. events'[1] = events[2] /\ Len(events) = 2 /\ 2 \in DOMAIN events
      BY <1>1, <1>2, <1>3
    <3> QED BY <1>1, <3>1
  <2> QED BY <1>3, <2>1 DEF QueueShort
<1>5. InFront' = toPlayer
  <2>1. Len(events') # 2
    BY <1>3
  <2> QED BY <1>1, <2>1 DEF InFront
<1>6. CASE Len(events) = 1
  BY <1>1, <1>2, <1>4, <1>5, <1>6 DEF InFront
<1>7. CASE Len(events) = 2
  BY <1>4, <1>5, <1>7, InFrontIs
<1> QED BY <1>2, <1>6, <1>7

-------------------------------------------------------------------------------
(* Where a cue leads *)

\* A cue of the list that opens its movie and plays it forward
Fit(c) ==
  c \in CueRecords /\ Opening(c) /\ c.repeats < MaxSeen

\* The last frame of its range, and that its range is one, and of the movie
LastIn(c) == IF c.end = -1 THEN Frames[c.movie] - 1 ELSE c.end
Ranged(c) ==
  /\ 0 <= c.start /\ c.start <= c.current /\ c.current <= LastIn(c) /\ c.start < LastIn(c)
  /\ c.end < Frames[c.movie]

\* Where the player stands before event k of the cue
Stands(c, k, p) ==
  /\ p.dir = 0 /\ p.last = Frames[c.movie] - 1
  /\ p.start = (IF k >= 9 THEN c.start ELSE 0)
  /\ p.end = (IF k >= 9 THEN LastIn(c) ELSE Frames[c.movie] - 1)
  /\ p.cur = (IF k >= 8 THEN c.current ELSE 0)
  /\ k >= 5 => p.repeats = (IF k >= 6 /\ c.pingpong THEN 0 ELSE c.repeats)
  /\ k >= 6 => p.pingpong = c.pingpong

\* The last frame has been shown often enough, or the player is on its way to it.
Plays(c, p, n) ==
  \/ n >= Passes(c)
  \/ /\ p.dir = 1 /\ p.start = c.start /\ p.end = LastIn(c) /\ p.cur <= LastIn(c)
     /\ Passes(c) = 1 => c.start <= p.cur
     /\ Passes(c) # 1 => /\ ~p.pingpong /\ p.repeats \in 0 .. c.repeats
                         /\ n >= c.repeats - p.repeats

LEMMA FitIs ==
  ASSUME NEW c, Fit(c)
  PROVE  /\ c.movie \in Movies /\ Frames[c.movie] \in Nat \ {0} /\ LastIn(c) \in Int
         /\ c.start \in Int /\ c.end \in Int /\ c.current \in Int /\ c.repeats \in Int
         /\ c.pingpong \in BOOLEAN
         /\ Ranged(c) => LastIn(c) <= Frames[c.movie] - 1 /\ (c.end = -1 \/ c.end >= 0)
         /\ Passes(c) \in Nat \ {0} /\ Passes(c) <= MaxSeen
         /\ Passes(c) # 1 => /\ Passes(c) = c.repeats + 1 /\ c.repeats > 0
                             /\ ~c.pingpong /\ c.start <= 1
<1>1. /\ c.movie \in Movies /\ Frames[c.movie] \in Nat \ {0}
      /\ c.start \in Int /\ c.end \in Int /\ c.current \in Int /\ c.repeats \in Int
      /\ c.pingpong \in BOOLEAN /\ c.repeats < MaxSeen
      /\ MaxSeen \in Nat \ {0}
  BY CueAssumption DEF Fit, Opening, CueRecords
<1>2. LastIn(c) \in Int
  BY <1>1 DEF LastIn
<1>3. Ranged(c) => LastIn(c) <= Frames[c.movie] - 1 /\ (c.end = -1 \/ c.end >= 0)
  BY <1>1 DEF LastIn, Ranged
<1>4. /\ Passes(c) \in Nat \ {0} /\ Passes(c) <= MaxSeen
      /\ Passes(c) # 1 => /\ Passes(c) = c.repeats + 1 /\ c.repeats > 0
                          /\ ~c.pingpong /\ c.start <= 1
  BY <1>1 DEF Passes
<1> QED BY <1>1, <1>2, <1>3, <1>4

\* A player that does not play stays where it is.
LEMMA StandStill ==
  ASSUME NEW p \in Positions, p.dir = 0, p.cur \in p.start .. p.end
  PROVE  AdvanceFrame(p, p.dir) = p
<1>1. p.cur \in Int /\ p.cur + p.dir = p.cur
  BY DEF Positions
<1>2. [p EXCEPT !.cur = p.cur] = p
  BY DEF Positions
<1> QED BY <1>1, <1>2 DEF AdvanceFrame, SetFrame

\* A player that plays goes on to the last frame, and on to the next pass.
LEMMA PlaysOn ==
  ASSUME NEW c, Fit(c), Ranged(c), NEW p, Loose(p), p.last = Frames[c.movie] - 1,
         NEW n \in 0 .. MaxSeen, cueEndFrame' = c.end, Plays(c, p, n)
  PROVE  Plays(c, AdvanceFrame(p, p.dir), Shown(p, n))
<1> DEFINE l == LastIn(c)
           g == Passes(c)
<1>1. /\ p \in Positions /\ p.cur \in Int /\ p.start \in Int /\ p.end \in Int /\ p.cur >= 0
      /\ p.repeats \in Int /\ p.pingpong \in BOOLEAN
  BY DEF Loose, Positions
<1>2. /\ MaxSeen \in Nat \ {0} /\ n \in Nat /\ n <= MaxSeen
      /\ l \in Int /\ g \in Nat \ {0} /\ g <= MaxSeen /\ c.repeats \in Int /\ c.start \in Int
      /\ g # 1 => g = c.repeats + 1 /\ c.repeats > 0 /\ c.start <= 1
      /\ 0 <= c.start /\ c.start < l
  BY FitIs, CueAssumption DEF Ranged
<1>3. CueLast(p) = l
  BY DEF CueLast, LastIn
<1>4. Shown(p, n) = (IF p.dir > 0 /\ p.cur = l /\ n < MaxSeen THEN n + 1 ELSE n)
  BY <1>3 DEF Shown
<1>5. CASE n >= g
  BY <1>2, <1>4, <1>5 DEF Plays
<1>6. CASE ~(n >= g)
  <2>1. /\ p.dir = 1 /\ p.start = c.start /\ p.end = l /\ p.cur <= l
        /\ g = 1 => c.start <= p.cur
        /\ g # 1 => ~p.pingpong /\ p.repeats \in 0 .. c.repeats /\ n >= c.repeats - p.repeats
    BY <1>6 DEF Plays
  <2>2. n < MaxSeen
    BY <1>2, <1>6
  <2>3. CASE p.cur < l
    <3>1. Shown(p, n) = n
      BY <1>1, <1>2, <1>4, <2>3
    <3>2. p.cur + 1 \in p.start .. p.end
      BY <1>1, <1>2, <2>1, <2>3
    <3> DEFINE q == [p EXCEPT !.cur = p.cur + 1]
    <3>3. AdvanceFrame(p, p.dir) = q
      BY <2>1, <3>2 DEF AdvanceFrame, SetFrame
    <3>4. /\ q.dir = p.dir /\ q.start = p.start /\ q.end = p.end /\ q.cur = p.cur + 1
          /\ q.pingpong = p.pingpong /\ q.repeats = p.repeats
      BY <1>1 DEF Positions
    <3> HIDE DEF q
    <3>5. q.cur <= l /\ (g = 1 => c.start <= q.cur)
      BY <1>1, <1>2, <2>1, <2>3, <3>4
    <3>6. Plays(c, q, n)
      BY <2>1, <3>4, <3>5 DEF Plays
    <3> QED BY <3>1, <3>3, <3>6
  <2>4. CASE p.cur = l
    <3>1. Shown(p, n) = n + 1
      BY <1>4, <2>1, <2>2, <2>4
    <3>2. CASE g = 1
      <4>1. n + 1 >= g
        BY <1>2, <3>2
      <4> QED BY <3>1, <4>1 DEF Plays
    <3>3. CASE g # 1 /\ p.repeats = 0
      <4>1. n + 1 >= g
        BY <1>2, <2>1, <3>3
      <4> QED BY <3>1, <4>1 DEF Plays
    <3>4. CASE g # 1 /\ p.repeats # 0
      <4> DEFINE q == [p EXCEPT !.cur = 0, !.repeats = p.repeats - 1]
      <4>1. p.cur + 1 \notin p.start .. p.end /\ ~(p.cur + 1 < p.start) /\ p.end # p.start
        BY <1>1, <1>2, <2>1, <2>4
      <4>2. ~p.pingpong /\ p.repeats > 0
        BY <1>1, <1>2, <2>1, <3>4
      <4> DEFINE below == p.cur + 1 < p.start
      <4>3. AdvanceFrame(p, p.dir) = Beyond(p, below)
        BY <2>1, <4>1 DEF AdvanceFrame, SetFrame
      <4>8. ~below
        BY <4>1
      <4> HIDE DEF below
      <4>4. Beyond(p, below) = q
        BY <4>1, <4>2, <4>8, <3>4 DEF Beyond, Wrap
      <4>5. /\ q.dir = p.dir /\ q.start = p.start /\ q.end = p.end /\ q.cur = 0
            /\ q.pingpong = p.pingpong /\ q.repeats = p.repeats - 1
        BY <1>1 DEF Positions
      <4> HIDE DEF q
      <4>6. q.cur <= l /\ q.repeats \in 0 .. c.repeats /\ n + 1 >= c.repeats - q.repeats
        BY <1>1, <1>2, <2>1, <3>4, <4>2, <4>5
      <4>7. Plays(c, q, n + 1)
        BY <2>1, <3>4, <4>2, <4>5, <4>6 DEF Plays
      <4> QED BY <3>1, <4>3, <4>4, <4>7
    <3> QED BY <3>2, <3>3, <3>4
  <2> QED BY <1>1, <1>2, <2>1, <2>3, <2>4
<1> QED BY <1>5, <1>6

\* What the events of the cue do to a player that stands where it should.
LEMMA StandsNext ==
  ASSUME NEW c, Fit(c), Ranged(c), NEW p, Loose(p), NEW k \in 3 .. 8, Stands(c, k, p)
  PROVE  Stands(c, k + 1, Effect(p, ScriptItem(c, k)))
<1> DEFINE f == Frames[c.movie] - 1
           l == LastIn(c)
           e == ScriptItem(c, k)
<1>1. /\ p \in Positions /\ p.dir = 0 /\ p.last = f
      /\ f \in Int /\ f >= 0 /\ l \in Int /\ l <= f /\ c.start \in Int /\ c.end \in Int
      /\ c.current \in Int /\ c.repeats \in Int /\ c.pingpong \in BOOLEAN
      /\ 0 <= c.start /\ c.start <= c.current /\ c.current <= l /\ c.start < l
      /\ c.end = -1 \/ c.end >= 0
      /\ l = IF c.end = -1 THEN f ELSE c.end
  BY FitIs DEF Loose, Stands, Ranged, LastIn
<1> HIDE DEF f, l
<1>2. CASE k = 3
  <2>1. e.mEventType = "MOVIE_CUE_PLAY_ON_LOAD" /\ e.mHeight = 0
    BY <1>2 DEF ScriptItem, Numbered, Event
  <2>2. Effect(p, e) = [p EXCEPT !.dir = 0]
    BY <2>1 DEF Effect, SetPlayDirection
  <2>3. [p EXCEPT !.dir = 0] = p
    BY <1>1 DEF Positions
  <2> QED BY <1>2, <2>2, <2>3 DEF Stands
<1>3. CASE k = 4
  <2>1. e.mEventType = "MOVIE_SET_REPEAT" /\ e.mNumber = c.repeats
    BY <1>3 DEF ScriptItem, Numbered, Event
  <2> DEFINE q == SetRepeat(p, c.repeats)
  <2>2. Effect(p, e) = q
    BY <2>1 DEF Effect
  <2>3. /\ q.dir = p.dir /\ q.last = p.last /\ q.start = p.start /\ q.end = p.end
        /\ q.cur = p.cur /\ q.repeats = c.repeats
    BY <1>1 DEF Positions, SetRepeat
  <2> HIDE DEF q
  <2> QED BY <1>3, <2>2, <2>3 DEF Stands
<1>4. CASE k = 5
  <2>1. e.mEventType = "MOVIE_SET_PINGPONG" /\ (e.mNumber # 0 <=> c.pingpong)
    BY <1>1, <1>4 DEF ScriptItem, Numbered, Event
  <2> DEFINE q == SetPingPong(p, e.mNumber # 0)
  <2>2. Effect(p, e) = q
    BY <2>1 DEF Effect
  <2>3. /\ q.dir = p.dir /\ q.last = p.last /\ q.start = p.start /\ q.end = p.end
        /\ q.cur = p.cur /\ q.pingpong = (e.mNumber # 0)
        /\ q.repeats = IF e.mNumber # 0 THEN 0 ELSE p.repeats
    BY <1>1 DEF Positions, SetPingPong
  <2> HIDE DEF q
  <2>4. q.pingpong = c.pingpong
    BY <1>1, <2>1, <2>3
  <2> QED BY <1>4, <2>1, <2>2, <2>3, <2>4 DEF Stands
<1>5. CASE k = 6
  <2>1. e.mEventType = "MOVIE_FULLSCREEN"
    BY <1>5 DEF ScriptItem, Numbered, Event
  <2>2. Effect(p, e) = p
    BY <2>1 DEF Effect
  <2> QED BY <1>5, <2>2 DEF Stands
<1>6. CASE k = 7
  <2>1. e.mEventType = "MOVIE_GOTO_FRAME" /\ e.mNumber = c.current
    BY <1>6 DEF ScriptItem, Numbered, Event
  <2>2. Effect(p, e) = SetFrame(p, c.current)
    BY <2>1 DEF Effect
  <2>3. p.start = 0 /\ p.end = f
    BY <1>6 DEF Stands, f
  <2>4. c.current \in p.start .. p.end
    BY <1>1, <2>3
  <2> DEFINE q == [p EXCEPT !.cur = c.current]
  <2>5. Effect(p, e) = q
    BY <2>2, <2>4 DEF SetFrame
  <2>6. /\ q.dir = p.dir /\ q.last = p.last /\ q.start = p.start /\ q.end = p.end
        /\ q.cur = c.current /\ q.repeats = p.repeats /\ q.pingpong = p.pingpong
    BY <1>1 DEF Positions
  <2> HIDE DEF q
  <2> QED BY <1>6, <2>5, <2>6 DEF Stands
<1>7. CASE k = 8
  <2>1. e.mEventType = "MOVIE_START_END_FRAMES" /\ e.mWidth = c.start /\ e.mHeight = c.end
    BY <1>7 DEF ScriptItem, Event
  <2>2. Effect(p, e) = SetStartEndFrames(p, c.start, c.end)
    BY <2>1 DEF Effect
  <2> DEFINE q == [p EXCEPT !.start = c.start, !.end = l]
  <2>3. SetStartEndFrames(p, c.start, c.end) = q
    <3> DEFINE a == CASE c.start < 0 -> 0 [] c.start >= 0 /\ c.start > p.last -> p.last
                      [] OTHER -> c.start
               b == IF c.end < 0 THEN p.last ELSE c.end
               d == IF b < a THEN a ELSE b
    <3>1. SetStartEndFrames(p, c.start, c.end) = [p EXCEPT !.start = a, !.end = d]
      BY DEF SetStartEndFrames
    <3>2. a = c.start /\ b = l
      BY <1>1
    <3> HIDE DEF a, b
    <3>3. d = l
      BY <1>1, <3>2
    <3> HIDE DEF d
    <3> QED BY <3>1, <3>2, <3>3
  <2>4. /\ q.dir = p.dir /\ q.last = p.last /\ q.start = c.start /\ q.end = l
        /\ q.cur = p.cur /\ q.repeats = p.repeats /\ q.pingpong = p.pingpong
    BY <1>1 DEF Positions
  <2> HIDE DEF q
  <2> QED BY <1>7, <2>2, <2>3, <2>4 DEF Stands, l
<1> QED BY <1>2, <1>3, <1>4, <1>5, <1>6, <1>7

\* The player stands inside its range.
LEMMA StandsInside ==
  ASSUME NEW c, Fit(c), Ranged(c), NEW p \in Positions, NEW k \in 3 .. 9, Stands(c, k, p)
  PROVE  p.dir = 0 /\ p.cur \in p.start .. p.end
<1>1. /\ Frames[c.movie] \in Nat \ {0} /\ LastIn(c) \in Int /\ LastIn(c) <= Frames[c.movie] - 1
      /\ c.start \in Int /\ c.current \in Int
      /\ 0 <= c.start /\ c.start <= c.current /\ c.current <= LastIn(c)
  BY FitIs DEF Ranged
<1> QED BY <1>1 DEF Stands

\* From there it plays.
LEMMA StandsPlays ==
  ASSUME NEW c, Fit(c), Ranged(c), NEW p \in Positions, Stands(c, 9, p), NEW n \in Nat
  PROVE  Plays(c, SetPlayDirection(p, 1), n)
<1> DEFINE q == SetPlayDirection(p, 1)
<1>1. /\ q.dir = 1 /\ q.start = p.start /\ q.end = p.end /\ q.cur = p.cur
      /\ q.repeats = p.repeats /\ q.pingpong = p.pingpong
  BY DEF SetPlayDirection, Positions
<1> HIDE DEF q
<1>2. /\ p.start = c.start /\ p.end = LastIn(c) /\ p.cur = c.current
      /\ p.repeats = (IF c.pingpong THEN 0 ELSE c.repeats) /\ p.pingpong = c.pingpong
  BY DEF Stands
<1>3. /\ c.start <= c.current /\ c.current <= LastIn(c) /\ c.repeats \in Int
      /\ Passes(c) # 1 => c.repeats > 0 /\ ~c.pingpong
  BY FitIs DEF Ranged
<1>4. Passes(c) # 1 => ~q.pingpong /\ q.repeats = c.repeats /\ q.repeats \in 0 .. c.repeats
                       /\ n >= c.repeats - q.repeats
  BY <1>1, <1>2, <1>3
<1>5. Plays(c, q, n)
  BY <1>1, <1>2, <1>3, <1>4 DEF Plays
<1> QED BY <1>5 DEF q

-------------------------------------------------------------------------------
(* The events of a cue, one after the other *)

\* What is so before event k of cue c is handled
Phase(c, k) ==
  /\ k >= 2 => cueEndFrame = c.end
  /\ k >= 3 => renderer /\ position.last = Frames[c.movie] - 1
  /\ k >= 3 /\ k <= 9 /\ Ranged(c) => Stands(c, k, position)
  /\ k >= 10 /\ Ranged(c) => Plays(c, position, seen)

LEMMA Handled ==
  ASSUME HandleEvent
  PROVE  /\ Current.mEventType = "MOVIE_OPEN_FILE" => OpenFile(Current) \/ OpenFails(Current)
         /\ Current.mEventType = "MOVIE_CUE_BEGIN" => CueBegin(Current)
         /\ Current.mEventType = "MOVIE_CUE_END" => CueEnd(Current)
         /\ Current.mEventType \notin {"MOVIE_OPEN_FILE", "MOVIE_CUE_BEGIN", "MOVIE_CUE_END",
                                       "MOVIE_QUIT"} => Reposition(Current)
<1> DEFINE e == Current
<1>1. OpenFile(e) \/ OpenFails(e) \/ CueBegin(e) \/ CueEnd(e) \/ Quit(e) \/ Reposition(e)
  BY DEF HandleEvent
<1> HIDE DEF e
<1>2. OpenFile(e) \/ OpenFails(e) => e.mEventType = "MOVIE_OPEN_FILE"
  BY DEF OpenFile, OpenFails
<1>3. CueBegin(e) => e.mEventType = "MOVIE_CUE_BEGIN"
  BY DEF CueBegin
<1>4. CueEnd(e) => e.mEventType = "MOVIE_CUE_END"
  BY DEF CueEnd
<1>5. Quit(e) => e.mEventType = "MOVIE_QUIT"
  BY DEF Quit
<1>6. Reposition(e) =>
        e.mEventType \notin {"MOVIE_OPEN_FILE", "MOVIE_CUE_BEGIN", "MOVIE_CUE_END", "MOVIE_QUIT"}
  BY DEF Reposition
<1>7. /\ e.mEventType = "MOVIE_OPEN_FILE" => OpenFile(e) \/ OpenFails(e)
      /\ e.mEventType = "MOVIE_CUE_BEGIN" => CueBegin(e)
      /\ e.mEventType = "MOVIE_CUE_END" => CueEnd(e)
      /\ e.mEventType \notin {"MOVIE_OPEN_FILE", "MOVIE_CUE_BEGIN", "MOVIE_CUE_END",
                              "MOVIE_QUIT"} => Reposition(e)
  BY <1>1, <1>2, <1>3, <1>4, <1>5, <1>6
<1> QED BY <1>7 DEF e

\* An event that is for the position moves a player that has a movie in that movie only.
LEMMA Moves ==
  ASSUME IInv, HandleEvent, renderer, Reposition(Current), Current \in Good
  PROVE  /\ Loose(Effect(position, Current)) /\ Effect(position, Current).last = position.last
         /\ position'.last = position.last
         /\ \E sent : Finish(Current, Effect(position, Current), cuePlaying, sent, seen)
         /\ renderer' = TRUE /\ cueEndFrame' = cueEndFrame
<1> DEFINE e == Current
           sent == IF e.mEventType = "MOVIE_STOP_ERROR" THEN << e >> ELSE << >>
           p == Effect(position, e)
<1>1. e \in Events /\ EventOK(e) /\ Loose(position)
  BY RangeIsLoose DEF Good, IInv, PlayerOK
<1>4. Keeps(position, p)
  BY <1>1, EffectKeeps DEF EventOK
<1>5. Finish(e, p, cuePlaying, sent, seen) /\ renderer' = renderer /\ cueEndFrame' = cueEndFrame
  BY DEF Reposition, FinishOrNot
<1> HIDE DEF e, sent, p
<1>6. Loose(p) /\ p.last = position.last
  BY <1>4 DEF Keeps
<1>7. p.dir \in Int
  BY <1>6 DEF Loose, Positions
<1>8. position' = p \/ position' = AdvanceFrame(p, p.dir)
  BY <1>5 DEF Finish
<1>9. AdvanceFrame(p, p.dir).last = p.last
  BY <1>6, <1>7, AdvanceFrameEnters DEF Enters
<1>10. position'.last = position.last
  BY <1>6, <1>8, <1>9
<1>11. /\ Loose(p) /\ p.last = position.last /\ position'.last = position.last
       /\ Finish(e, p, cuePlaying, sent, seen) /\ renderer' = TRUE /\ cueEndFrame' = cueEndFrame
  BY <1>5, <1>6, <1>10
<1> QED BY <1>11 DEF e, p

LEMMA FinishStill ==
  ASSUME NEW e, NEW p \in Positions, NEW playing, NEW sent, NEW n,
         Finish(e, p, playing, sent, n), p.dir = 0, p.cur \in p.start .. p.end
  PROVE  position' = p
BY StandStill DEF Finish

LEMMA FinishOn ==
  ASSUME NEW c, Fit(c), Ranged(c), NEW e, NEW p, Loose(p), p.last = Frames[c.movie] - 1,
         NEW playing, NEW sent, NEW n \in 0 .. MaxSeen,
         Finish(e, p, playing, sent, n), cueEndFrame' = c.end, Plays(c, p, n)
  PROVE  Plays(c, position', seen')
<1>1. Plays(c, AdvanceFrame(p, p.dir), Shown(p, n))
  BY PlaysOn
<1> QED BY <1>1 DEF Finish

\* A turn of the player's loop without an event
LEMMA NoneStep ==
  ASSUME IInv, HandleEvent, Current = None, NEW c, Fit(c), NEW k \in Int, Phase(c, k)
  PROVE  Phase(c, k)'
<1>1. /\ None.mEventType = "MOVIE_NONE" /\ None \in Good
  BY PlainTypes, GoodEvents DEF None, Plain, Event
<1>2. Reposition(None)
  BY <1>1, Handled
<1>3. Effect(position, None) = position
  BY <1>1 DEF Effect
<1>4. CASE k < 3
  <2>1. cueEndFrame' = cueEndFrame
    BY <1>2 DEF Reposition
  <2> QED BY <1>4, <2>1 DEF Phase
<1>5. CASE k >= 3
  <2>1. renderer /\ position.last = Frames[c.movie] - 1 /\ cueEndFrame = c.end
    BY <1>5 DEF Phase
  <2>2. /\ Loose(position) /\ position'.last = position.last
        /\ renderer' = TRUE /\ cueEndFrame' = cueEndFrame
    BY <1>1, <1>2, <1>3, <2>1, Moves
  <2>3. PICK sent : Finish(None, position, cuePlaying, sent, seen)
    BY <1>1, <1>2, <1>3, <2>1, Moves
  <2>4. seen \in 0 .. MaxSeen /\ position \in Positions
    BY <2>2 DEF IInv, FlagsOK, Loose
  <2>5. ASSUME k <= 9, Ranged(c) PROVE Stands(c, k, position')
    <3>1. Stands(c, k, position) /\ k \in 3 .. 9
      BY <1>5, <2>5 DEF Phase
    <3>2. position.dir = 0 /\ position.cur \in position.start .. position.end
      BY <2>4, <2>5, <3>1, StandsInside
    <3>3. position' = position
      BY <2>3, <2>4, <3>2, FinishStill
    <3> QED BY <3>1, <3>3
  <2>6. ASSUME k >= 10, Ranged(c) PROVE Plays(c, position', seen')
    <3>1. Plays(c, position, seen)
      BY <2>6 DEF Phase
    <3> QED BY <2>1, <2>2, <2>3, <2>4, <2>6, <3>1, FinishOn
  <2> QED BY <2>1, <2>2, <2>5, <2>6 DEF Phase
<1> QED BY <1>4, <1>5

LEMMA ItemIs ==
  ASSUME NEW c, NEW k \in 1 .. 10
  PROVE  /\ ScriptItem(c, k).mEventType = "MOVIE_CUE_BEGIN" <=> k = 1
         /\ ScriptItem(c, k).mEventType = "MOVIE_OPEN_FILE" <=> k = 2
         /\ ScriptItem(c, k).mEventType = "MOVIE_CUE_END" <=> k = 10
         /\ ScriptItem(c, k).mEventType \notin {"MOVIE_QUIT", "MOVIE_NONE"}
         /\ k = 1 => ScriptItem(c, k).mNumber = c.end
         /\ k = 2 => ScriptItem(c, k).mString = c.movie
BY DEF ScriptItem, Numbered, Open, Plain, Event

\* An event of the cue
CueStep(c, k) == HandleEvent /\ Current = ScriptItem(c, k) /\ Current \in Good

LEMMA OpenStep ==
  ASSUME IInv, NEW c, Fit(c), CueStep(c, 2), Phase(c, 2)
  PROVE  Phase(c, 3)'
<1> DEFINE e == Current
           f == Frames[c.movie]
           p == OpenMovie(position, f)
<1>1. e.mEventType = "MOVIE_OPEN_FILE" /\ e.mString = c.movie
  <2>1. e = ScriptItem(c, 2) /\ 2 \in 1 .. 10
    BY DEF CueStep
  <2> HIDE DEF e
  <2> QED BY <2>1, ItemIs
<1>2. c.movie \in Movies /\ f \in Nat \ {0}
  BY FitIs
<1>3. ~OpenFails(e)
  BY <1>1, <1>2 DEF OpenFails
<1>4. OpenFile(e)
  BY <1>1, <1>3, Handled DEF CueStep
<1>5. Finish(e, p, cuePlaying, << >>, 0) /\ renderer' = TRUE /\ cueEndFrame' = cueEndFrame
  BY <1>1, <1>4 DEF OpenFile
<1>6. position \in Positions
  BY DEF IInv, PlayerOK, InRange
<1>7. /\ p \in Positions /\ p.last = f - 1 /\ p.dir = 0 /\ p.cur = 0 /\ p.start = 0
      /\ p.end = f - 1
  <2>1. InRange(p) /\ p.last = f - 1
    BY <1>2, <1>6, OpenMovieInRange
  <2>2. p.dir = 0 /\ p.cur = 0 /\ p.start = 0 /\ p.end = f - 1
    BY <1>6 DEF OpenMovie, Positions
  <2> QED BY <2>1, <2>2 DEF InRange
<1> HIDE DEF e, p, f
<1>8. p.cur \in p.start .. p.end
  BY <1>2, <1>7
<1>9. position' = p
  BY <1>5, <1>7, <1>8, FinishStill
<1>10. Stands(c, 3, position')
  BY <1>7, <1>9 DEF Stands, f
<1>11. cueEndFrame' = c.end
  BY <1>5 DEF Phase
<1> QED BY <1>5, <1>7, <1>9, <1>10, <1>11 DEF Phase, f

LEMMA SetStep ==
  ASSUME IInv, NEW c, Fit(c), NEW k \in 3 .. 9, CueStep(c, k), Phase(c, k)
  PROVE  Phase(c, k + 1)'
<1> DEFINE e == Current
           p == Effect(position, e)
<1>1. e \in Good /\ e = ScriptItem(c, k) /\ HandleEvent
  BY DEF CueStep
<1>2. Reposition(e)
  <2>1. e.mEventType \notin {"MOVIE_OPEN_FILE", "MOVIE_CUE_BEGIN", "MOVIE_CUE_END", "MOVIE_QUIT"}
    <3>1. k \in 1 .. 10 /\ k # 1 /\ k # 2 /\ k # 10
      OBVIOUS
    <3> HIDE DEF e
    <3> QED BY <1>1, <3>1, ItemIs
  <2> QED BY <1>1, <2>1, Handled
<1>3. renderer /\ position.last = Frames[c.movie] - 1 /\ cueEndFrame = c.end
  BY DEF Phase
<1>4. /\ Loose(p) /\ p.last = position.last /\ position'.last = position.last
      /\ renderer' = TRUE /\ cueEndFrame' = cueEndFrame
  BY <1>1, <1>2, <1>3, Moves
<1>5. PICK sent : Finish(e, p, cuePlaying, sent, seen)
  BY <1>1, <1>2, <1>3, Moves
<1>6. seen \in 0 .. MaxSeen /\ Loose(position) /\ position \in Positions /\ p \in Positions
  BY <1>4, RangeIsLoose DEF IInv, FlagsOK, PlayerOK, Loose
<1>7. ASSUME Ranged(c), k <= 8 PROVE Stands(c, k + 1, position')
  <2>1. Stands(c, k, position) /\ k \in 3 .. 8
    BY <1>7 DEF Phase
  <2>2. Stands(c, k + 1, p)
    BY <1>1, <1>6, <1>7, <2>1, StandsNext
  <2>3. p.dir = 0 /\ p.cur \in p.start .. p.end
    <3>1. k + 1 \in 3 .. 9
      BY <2>1
    <3> HIDE DEF p
    <3> QED BY <1>6, <1>7, <2>2, <3>1, StandsInside
  <2>4. position' = p
    BY <1>5, <1>6, <2>3, FinishStill
  <2> QED BY <2>2, <2>4
<1>8. ASSUME Ranged(c), k = 9 PROVE Plays(c, position', seen')
  <2>1. Stands(c, 9, position)
    BY <1>8 DEF Phase
  <2>2. p = SetPlayDirection(position, 1)
    <3>1. e.mEventType = "MOVIE_PLAY_FORWARD"
      BY <1>1, <1>8 DEF ScriptItem, Plain, Event
    <3> QED BY <3>1 DEF Effect
  <2>3. Plays(c, p, seen)
    BY <1>6, <1>8, <2>1, <2>2, StandsPlays
  <2>4. p.last = Frames[c.movie] - 1 /\ cueEndFrame' = c.end
    BY <1>3, <1>4
  <2> HIDE DEF p
  <2> QED BY <1>4, <1>5, <1>6, <1>8, <2>3, <2>4, FinishOn
<1>9. position'.last = Frames[c.movie] - 1 /\ cueEndFrame' = c.end /\ renderer'
  BY <1>3, <1>4
<1> HIDE DEF p, e
<1>10. (k + 1 <= 9 <=> k <= 8) /\ (k + 1 >= 10 <=> k = 9)
  OBVIOUS
<1> QED BY <1>7, <1>8, <1>9, <1>10 DEF Phase

LEMMA LastStep ==
  ASSUME IInv, NEW c, Fit(c), CueStep(c, 10), Phase(c, 10)
  PROVE  Phase(c, 11)'
<1> DEFINE e == Current
           sent == IF renderer THEN << >> ELSE << Complete >>
<1>1. CueEnd(e)
  <2>1. e = ScriptItem(c, 10) /\ 10 \in 1 .. 10
    BY DEF CueStep
  <2>2. ScriptItem(c, 10).mEventType = "MOVIE_CUE_END"
    BY <2>1, ItemIs
  <2> QED BY <2>1, <2>2, Handled DEF CueStep
<1>2. renderer /\ position.last = Frames[c.movie] - 1 /\ cueEndFrame = c.end
      /\ (Ranged(c) => Plays(c, position, seen))
  BY DEF Phase
<1>3. Finish(e, position, TRUE, sent, seen) /\ renderer' = TRUE /\ cueEndFrame' = c.end
  BY <1>1, <1>2 DEF CueEnd, FinishOrNot
<1>4. Loose(position) /\ position.dir \in Int /\ seen \in 0 .. MaxSeen
  BY RangeIsLoose DEF IInv, PlayerOK, FlagsOK, Loose, Positions
<1> HIDE DEF e, sent
<1>5. position'.last = position.last
  <2>1. position' = position \/ position' = AdvanceFrame(position, position.dir)
    BY <1>3 DEF Finish
  <2>2. AdvanceFrame(position, position.dir).last = position.last
    BY <1>4, AdvanceFrameEnters DEF Enters
  <2> QED BY <2>1, <2>2
<1>6. ASSUME Ranged(c) PROVE Plays(c, position', seen')
  BY <1>2, <1>3, <1>4, <1>6, FinishOn
<1> QED BY <1>2, <1>3, <1>5, <1>6 DEF Phase

LEMMA EventStep ==
  ASSUME IInv, NEW c, Fit(c), NEW k \in Int, k <= 10, HandleEvent, Current \in Good,
         k >= 1 => Current = ScriptItem(c, k), Phase(c, k)
  PROVE  Phase(c, k + 1)'
<1>1. CASE k <= 0
  BY <1>1 DEF Phase
<1>2. CASE k = 1
  <2>1. Current.mEventType = "MOVIE_CUE_BEGIN" /\ Current.mNumber = c.end
    <3>1. Current = ScriptItem(c, 1) /\ 1 \in 1 .. 10
      BY <1>2
    <3> QED BY <3>1, ItemIs
  <2>2. cueEndFrame' = c.end
    BY <2>1, Handled DEF CueBegin
  <2> QED BY <1>2, <2>2 DEF Phase
<1>3. CASE k = 2
  BY <1>3, OpenStep DEF CueStep
<1>4. CASE k \in 3 .. 9
  BY <1>4, SetStep DEF CueStep
<1>5. CASE k = 10
  BY <1>5, LastStep DEF CueStep
<1> QED BY <1>1, <1>2, <1>3, <1>4, <1>5

\* The events of the cue arrive one after the other; between two cues there are only stops.
Follows ==
  Calm => IF mCueExecuting
          THEN /\ Top.next <= Len(Cues)
               /\ \E n \in Int : /\ RestOf(InFront, GenerateScript(TopCue), n)
                                 /\ Opening(TopCue) => Phase(TopCue, 1 - n)
          ELSE \A i \in 1 .. Len(InFront) : InFront[i] = Stop

KInv == JInv /\ OneRound /\ QueueShort /\ Follows

LEMMA CalmBefore ==
  ASSUME IInv, [Next]_vars, ~touched', ~done'
  PROVE  /\ ~touched /\ ~done /\ (bare => bare')
         /\ ~PlayerDies /\ ~LosePlayer
         /\ ~ClickStop /\ ~StopButton /\ ~OtherButton /\ ~Disconnect
<1>1. ~PlayerDies /\ ~LosePlayer /\ ~ClickStop /\ ~StopButton /\ ~OtherButton /\ ~Disconnect
  BY DEF PlayerDies, LosePlayer, playerVars, ClickStop, StopButton, OtherButton, Disconnect
<1>2. CASE Collect
  BY <1>1, <1>2 DEF Collect
<1>3. CASE HandleEvent
  <2> DEFINE e == Current
  <2>1. /\ OpenFile(e) \/ OpenFails(e) \/ CueBegin(e) \/ CueEnd(e) \/ Quit(e) \/ Reposition(e)
        /\ ~done /\ ~touched
    BY <1>3 DEF HandleEvent
  <2> HIDE DEF e
  <2>2. bare => bare'
    BY <2>1 DEF OpenFile, OpenFails, CueBegin, CueEnd, Quit, Reposition
  <2> QED BY <1>1, <2>1, <2>2
<1>4. CASE SidecarStep
  <2>1. done' = done /\ bare' = bare /\ touched' = touched
    BY <1>4 DEF SidecarStep, ExecuteCue, WaitEnds, LoopAgain, EndRound, Receive, LosePlayer,
                playerVars
  <2> QED BY <1>1, <2>1
<1>5. ASSUME NEW kind, ClickExecute(kind)
      PROVE  ~touched /\ ~done /\ (bare => bare')
  BY <1>5 DEF ClickExecute, playerVars
<1>6. CASE UNCHANGED vars
  BY <1>1, <1>6 DEF vars, playerVars
<1> QED BY <1>1, <1>2, <1>3, <1>4, <1>5, <1>6
        DEF Next, PlayerStep, ReadMissingFrame, LoseSidecar, Click

LEMMA OneRoundStays ==
  ASSUME IInv, OneRound, [Next]_vars
  PROVE  OneRound'
<1> SUFFICES ASSUME ~touched', ~done'
             PROVE  connected' /\ ~nested' /\ (rounds' # << >> => running')
  BY DEF OneRound
<1>1. ~touched /\ ~done /\ ~PlayerDies /\ ~LosePlayer
      /\ ~ClickStop /\ ~StopButton /\ ~OtherButton /\ ~Disconnect
  BY CalmBefore
<1>2. connected /\ ~nested /\ (rounds # << >> => running)
  BY <1>1 DEF OneRound
<1>3. CASE Collect \/ HandleEvent \/ UNCHANGED vars
  <2>1. UNCHANGED <<connected, sidecarVars>>
    <3>1. HandleEvent => UNCHANGED <<connected, sidecarVars>>
      BY DEF HandleEvent
    <3>2. Collect => UNCHANGED <<connected, sidecarVars>>
      BY DEF Collect
    <3> QED BY <1>3, <3>1, <3>2 DEF vars
  <2> QED BY <1>2, <2>1 DEF sidecarVars
<1>4. CASE ExecuteCue
  BY <1>2, <1>4 DEF ExecuteCue
<1>5. CASE WaitEnds
  BY <1>2, <1>5 DEF WaitEnds
<1>6. CASE LoopAgain
  BY <1>2, <1>6 DEF LoopAgain
<1>7. CASE Receive
  BY <1>2, <1>7 DEF Receive
<1>8. CASE EndRound
  <2>1. /\ rounds' = Front(rounds) /\ rounds \in Seq(Rounds) /\ rounds # << >>
        /\ connected' = connected /\ nested' = nested /\ Len(rounds) <= 1
    BY <1>2, <1>8 DEF EndRound, IInv, RoundsOK
  <2>2. Len(rounds) \in Nat /\ Top \in Rounds
    BY <2>1, TopOf
  <2>3. rounds' \in Seq(Rounds) /\ Len(rounds') = Len(rounds) - 1
    BY <2>1, <2>2, PushPop
  <2>4. rounds' = << >>
    BY <2>1, <2>2, <2>3, EmptySeq
  <2> QED BY <1>2, <2>1, <2>4
<1>9. ASSUME NEW kind, ClickExecute(kind)
      PROVE  connected' /\ ~nested' /\ (rounds' # << >> => running')
  BY <1>2, <1>9 DEF ClickExecute
<1> QED BY <1>1, <1>3, <1>4, <1>5, <1>6, <1>7, <1>8, <1>9
        DEF Next, PlayerStep, ReadMissingFrame, LoseSidecar, SidecarStep, Click

LEMMA QueueStaysShort ==
  ASSUME IInv, QueueShort, [Next]_vars
  PROVE  QueueShort'
<1> SUFFICES ASSUME ~touched' PROVE QueueShort'
  BY DEF QueueShort
<1>1. CASE Collect
  BY <1>1, CollectFront
<1>2. CASE HandleEvent
  <2>1. ~touched
    BY <1>2 DEF HandleEvent
  <2> QED BY <1>2, <2>1, HandleFront
<1>3. CASE PlayerDies
  BY <1>3 DEF PlayerDies, QueueShort
<1>4. CASE SidecarStep
  <2>1. events' = events /\ touched' = touched
    BY <1>4 DEF SidecarStep, ExecuteCue, WaitEnds, LoopAgain, EndRound, Receive, LosePlayer,
                playerVars
  <2> QED BY <2>1 DEF QueueShort
<1>5. CASE Click
  <2>1. ASSUME NEW kind, ClickExecute(kind) PROVE QueueShort'
    BY <2>1 DEF ClickExecute, playerVars, QueueShort
  <2>2. ~ClickStop /\ ~StopButton /\ ~OtherButton /\ ~Disconnect
    BY DEF ClickStop, StopButton, OtherButton, Disconnect
  <2> QED BY <1>5, <2>1, <2>2 DEF Click
<1>6. CASE UNCHANGED vars
  BY <1>6 DEF vars, playerVars, QueueShort
<1> QED BY <1>1, <1>2, <1>3, <1>4, <1>5, <1>6 DEF Next, PlayerStep, ReadMissingFrame, LoseSidecar

\* The cue that sidecar executes is in the list.
LEMMA TopCueIs ==
  ASSUME IInv, rounds # << >>, Top.next <= Len(Cues)
  PROVE  /\ TopCue \in CueRecords /\ TopCue.repeats < MaxSeen
         /\ Opening(TopCue) => Fit(TopCue)
<1>1. Top \in Rounds
  BY TopOf DEF IInv, RoundsOK
<1>2. Len(Cues) \in Nat /\ DOMAIN Cues = 1 .. Len(Cues)
  BY CueAssumption, LenProperties
<1>3. Top.next \in 1 .. Len(Cues)
  BY <1>1, <1>2 DEF Rounds
<1>4. TopCue \in CueRecords
  BY <1>3, CueAssumption, ElementOfSeq DEF TopCue
<1>5. TopCue.repeats < MaxSeen
  BY <1>2, <1>3, CueAssumption DEF TopCue
<1> QED BY <1>4, <1>5 DEF Fit

\* What changes neither the player nor the events on their way
LEMMA FollowsSame ==
  ASSUME Follows, UNCHANGED playerVars, InFront' = InFront,
         touched => touched',
         mCueExecuting' = mCueExecuting, mCueExecuting => Top' = Top
  PROVE  Follows'
<1> SUFFICES ASSUME Calm'
             PROVE  IF mCueExecuting'
                    THEN /\ Top'.next <= Len(Cues)
                         /\ \E n \in Int : /\ RestOf(InFront', GenerateScript(TopCue'), n)
                                           /\ Opening(TopCue') => Phase(TopCue, 1 - n)'
                    ELSE \A i \in 1 .. Len(InFront') : InFront'[i] = Stop
  BY DEF Follows
<1>1. Calm
  BY DEF Calm, playerVars
<1>2. CASE ~mCueExecuting
  BY <1>1, <1>2 DEF Follows
<1>3. CASE mCueExecuting
  <2>1. Top' = Top /\ TopCue' = TopCue
    BY <1>3 DEF TopCue
  <2>2. PICK n \in Int : /\ RestOf(InFront, GenerateScript(TopCue), n)
                         /\ Opening(TopCue) => Phase(TopCue, 1 - n)
    BY <1>1, <1>3 DEF Follows
  <2>3. Top.next <= Len(Cues)
    BY <1>1, <1>3 DEF Follows
  <2>4. Phase(TopCue, 1 - n)' <=> Phase(TopCue, 1 - n)
    BY <2>1 DEF Phase, playerVars
  <2> QED BY <1>3, <2>1, <2>2, <2>3, <2>4
<1> QED BY <1>2, <1>3

LEMMA InFrontSame ==
  ASSUME UNCHANGED <<events, toPlayer>>
  PROVE  InFront' = InFront
BY DEF InFront

\* While nothing is under way, one more stop
LEMMA FollowsStop ==
  ASSUME IInv, Follows, Calm, ~mCueExecuting, ~mCueExecuting', InFront' = InFront \o << Stop >>
  PROVE  Follows'
<1> DEFINE q == InFront
           t == q \o << Stop >>
<1>1. Stop \in Events
  BY DEF Stop, Plain, Event, Events, EventTypes
<1>2. q \in Seq(Events) /\ Len(q) \in Nat /\ \A i \in 1 .. Len(q) : q[i] = Stop
  BY InFrontIs, LenProperties DEF Follows
<1>3. /\ Len(t) = Len(q) + 1 /\ t[Len(q) + 1] = Stop /\ \A i \in 1 .. Len(q) : t[i] = q[i]
  <2> HIDE DEF q
  <2> QED BY <1>1, <1>2, OneMore
<1>4. InFront' = t
  OBVIOUS
<1> HIDE DEF q, t
<1>5. \A i \in 1 .. Len(t) : t[i] = Stop
  BY <1>2, <1>3
<1> QED BY <1>4, <1>5 DEF Follows

LEMMA ExecuteCueFollows ==
  ASSUME IInv, OneRound, Follows, ExecuteCue
  PROVE  Follows'
<1> SUFFICES ASSUME Calm'
             PROVE  /\ mCueExecuting' /\ Top'.next <= Len(Cues)
                    /\ \E n \in Int : /\ RestOf(InFront', GenerateScript(TopCue'), n)
                                      /\ Opening(TopCue') => Phase(TopCue, 1 - n)'
  BY DEF Follows
<1>1. UNCHANGED <<events, done, bare, touched>>
  BY DEF ExecuteCue, playerVars
<1>2. Calm /\ connected /\ ~nested
  BY <1>1 DEF Calm, OneRound
<1>3. /\ rounds # << >> /\ rounds \in Seq(Rounds) /\ Top.pc = "send" /\ Top.next <= Len(Cues)
      /\ mCueExecuting' = TRUE /\ toPlayer' = toPlayer \o GenerateScript(TopCue)
      /\ rounds' = SetTop([Top EXCEPT !.pc = "wait", !.halted = FALSE])
  BY <1>2 DEF ExecuteCue, TopCue, IInv, RoundsOK
<1>4. ~mCueExecuting
  BY <1>2, <1>3 DEF IInv, RoundsOK
<1> DEFINE r == [Top EXCEPT !.pc = "wait", !.halted = FALSE]
<1>5. Top \in Rounds
  BY <1>3, TopOf
<1>6. r \in Rounds /\ r.next = Top.next
  BY <1>5 DEF Rounds
<1>7. rounds' = SetTop(r)
  BY <1>3
<1> HIDE DEF r
<1>8. Top' = r
  BY <1>3, <1>6, <1>7, TopOf DEF Top
<1>9. TopCue' = TopCue /\ Top'.next = Top.next
  BY <1>6, <1>8 DEF TopCue
<1> DEFINE s == GenerateScript(TopCue)
           q == InFront
<1>10. s \in Seq(Events)
  BY <1>3, TopCueIs, ScriptEndsOnce
<1>11. q \in Seq(Events) /\ \A i \in 1 .. Len(q) : q[i] = Stop
  BY <1>2, <1>4, InFrontIs DEF Follows
<1>12. InFront' = q \o s
  BY <1>1, <1>3, <1>10, SendFront
<1>13. GenerateScript(TopCue') = s
  BY <1>9
<1> HIDE DEF s, q
<1>14. PICK n \in Nat : n = Len(q)
  BY <1>11, LenProperties
<1>15. RestOf(q \o s, s, n)
  BY <1>10, <1>11, <1>14, RestStart
<1>16. Phase(TopCue, 1 - n)'
  <2>1. ~(1 - n >= 2) /\ ~(1 - n >= 3) /\ ~(1 - n >= 10)
    OBVIOUS
  <2> QED BY <2>1 DEF Phase
<1>17. RestOf(InFront', GenerateScript(TopCue'), n) /\ n \in Int
  BY <1>12, <1>13, <1>15
<1> QED BY <1>3, <1>9, <1>16, <1>17

\* The wait is over: all of the cue has been handled.
LEMMA ReceiveFollows ==
  ASSUME IInv, InStep, OneRound, Follows, Receive
  PROVE  Follows'
<1> DEFINE K == "MOVIE_CUE_COMPLETE"
           h == Head(toSidecar)
<1>1. /\ UNCHANGED <<playerVars, toPlayer, rounds, touched, connected, nested>>
      /\ toSidecar # << >> /\ mCueExecuting' = (mCueExecuting /\ h.mEventType # K)
  BY DEF Receive
<1>2. UNCHANGED <<events, done, bare>> /\ InFront' = InFront /\ Top' = Top
  BY <1>1, InFrontSame DEF playerVars, Top
<1>3. CASE mCueExecuting' = mCueExecuting
  BY <1>1, <1>2, <1>3, FollowsSame
<1>4. CASE mCueExecuting' # mCueExecuting
  <2>1. mCueExecuting /\ ~mCueExecuting' /\ h.mEventType = K
    BY <1>1, <1>4 DEF IInv, FlagsOK
  <2> SUFFICES ASSUME Calm' PROVE \A i \in 1 .. Len(InFront') : InFront'[i] = Stop
    BY <2>1 DEF Follows
  <2>2. Calm /\ Usual
    BY <1>1, <1>2 DEF Calm, OneRound, Usual
  <2>3. UnderWay = 1
    BY <2>1, <2>2, InStepIs DEF One
  <2>4. Completions(toSidecar) = 1 + Completions(Tail(toSidecar))
        /\ Completions(Tail(toSidecar)) \in Nat
    BY <1>1, <2>1, Counts, CountHead DEF Completions
  <2>5. Ends(toPlayer) + Ends(events) = 0
    <3>1. PICK p \in {0, 1} : p = One(cuePlaying)
      BY DEF One
    <3>2. Ends(toPlayer) + Ends(events) + p + Completions(toSidecar) = 1
      BY <2>3, <3>1, Zenon DEF UnderWay
    <3>3. Ends(toPlayer) \in Nat /\ Ends(events) \in Nat
      BY Counts
    <3> QED BY <2>4, <3>2, <3>3
  <2>6. InFront \in Seq(Events) /\ Ends(InFront) = 0
    BY <2>5, InFrontIs
  <2>7. /\ Top.next <= Len(Cues) /\ rounds # << >>
        /\ \E n \in Int : RestOf(InFront, GenerateScript(TopCue), n)
    BY <2>1, <2>2 DEF Follows, Usual, IInv, RoundsOK
  <2>8. PICK n \in Int : RestOf(InFront, GenerateScript(TopCue), n)
    BY <2>7
  <2> DEFINE s == GenerateScript(TopCue)
  <2>9. s \in Seq(Events) /\ Len(s) \in Nat \ {0} /\ s[Len(s)].mEventType = "MOVIE_CUE_END"
    BY <2>7, TopCueIs, ScriptEndsOnce
  <2>12. RestOf(InFront, s, n)
    BY <2>8
  <2> HIDE DEF s
  <2>10. InFront = << >>
    BY <2>6, <2>9, <2>12, RestOver
  <2>11. Len(InFront') = 0
    BY <1>2, <2>10, EmptySeq
  <2> QED BY <2>11
<1> QED BY <1>3, <1>4

LEMMA HandleFollows ==
  ASSUME IInv, OneRound, QueueShort, Follows, HandleEvent
  PROVE  Follows'
<1> SUFFICES ASSUME Calm' PROVE Follows'
  BY DEF Follows
<1>1. /\ Calm /\ ~touched
      /\ UNCHANGED <<rounds, mCueExecuting>> /\ ~(Scripted /\ mCueExecuting)
  <2>1. ~touched' /\ ~done' /\ ~bare' /\ [Next]_vars
    BY DEF Calm, Next, PlayerStep, ReadMissingFrame, LoseSidecar
  <2>2. ~touched /\ ~done /\ ~bare
    BY <2>1, CalmBefore
  <2>3. UNCHANGED sidecarVars /\ ~(Scripted /\ mCueExecuting)
    BY <2>1 DEF HandleEvent
  <2> QED BY <2>2, <2>3 DEF Calm, sidecarVars
<1>2. \/ Len(events) = 1 /\ Head(events) = None /\ InFront' = InFront
      \/ /\ Len(events) = 2 /\ InFront # << >> /\ Head(events) = Head(InFront)
         /\ InFront' = Tail(InFront)
  BY <1>1, HandleFront
<1>3. InFront \in Seq(Events)
  BY InFrontIs
<1>4. CASE ~mCueExecuting
  <2>1. \A i \in 1 .. Len(InFront) : InFront[i] = Stop
    BY <1>1, <1>4 DEF Follows
  <2>2. \A i \in 1 .. Len(InFront') : InFront'[i] = Stop
    <3>1. CASE InFront' = InFront
      BY <2>1, <3>1
    <3>2. CASE InFront # << >> /\ InFront' = Tail(InFront)
      <4> DEFINE q == InFront
                 t == Tail(q)
      <4>1. Len(q) \in Nat /\ Len(t) = Len(q) - 1 /\ \A i \in 1 .. Len(t) : t[i] = q[i + 1]
        BY <1>3, <3>2, HeadTailProperties, LenProperties
      <4>2. InFront' = t
        BY <3>2
      <4>3. \A i \in 1 .. Len(q) : q[i] = Stop
        BY <2>1
      <4> HIDE DEF t, q
      <4>4. \A i \in 1 .. Len(t) : t[i] = Stop
        <5> TAKE i \in 1 .. Len(t)
        <5>1. i + 1 \in 1 .. Len(q)
          BY <4>1
        <5> QED BY <4>1, <4>3, <5>1
      <4> QED BY <4>2, <4>4
    <3> QED BY <1>2, <3>1, <3>2
  <2> QED BY <1>1, <1>4, <2>2 DEF Follows
<1>5. CASE mCueExecuting
  <2>1. PICK c : c = TopCue
    OBVIOUS
  <2>2. Top' = Top /\ TopCue' = c /\ mCueExecuting'
    BY <1>1, <1>5, <2>1 DEF Top, TopCue
  <2>3. Top.next <= Len(Cues) /\ rounds # << >>
    BY <1>1, <1>5 DEF Follows, OneRound, Calm, IInv, RoundsOK
  <2>4. PICK n \in Int : /\ RestOf(InFront, GenerateScript(c), n)
                         /\ Opening(c) => Phase(c, 1 - n)
    BY <1>1, <1>5, <2>1 DEF Follows
  <2>5. c \in CueRecords /\ (Opening(c) => Fit(c))
    BY <2>1, <2>3, TopCueIs
  <2>6. Current = Head(events) /\ Current \in Good
    <3>1. events # << >> /\ events \in Seq(Good)
      BY DEF HandleEvent, IInv, PlayerOK
    <3> QED BY <1>1, <1>5, <3>1, HeadTailProperties DEF Current
  <2>7. \E m \in Int : /\ RestOf(InFront', GenerateScript(c), m)
                       /\ Opening(c) => Phase(c, 1 - m)'
    <3>1. CASE Head(events) = None /\ InFront' = InFront
      <4>1. Opening(c) => Phase(c, 1 - n)'
        <5> SUFFICES ASSUME Opening(c) PROVE Phase(c, 1 - n)'
          OBVIOUS
        <5>1. Fit(c) /\ Phase(c, 1 - n) /\ 1 - n \in Int /\ Current = None
          BY <2>4, <2>5, <2>6, <3>1
        <5> QED BY <5>1, NoneStep
      <4> QED BY <2>4, <3>1, <4>1
    <3>2. CASE /\ InFront # << >> /\ Head(events) = Head(InFront)
               /\ InFront' = Tail(InFront)
      <4> DEFINE s == GenerateScript(c)
      <4>1. s \in Seq(Events)
        BY <2>5, ScriptEndsOnce
      <4>2. RestOf(InFront, s, n)
        BY <2>4
      <4> HIDE DEF s
      <4>3. /\ RestOf(Tail(InFront), s, n - 1)
            /\ Head(InFront) = (IF n >= 1 THEN Stop ELSE s[1 - n])
            /\ n <= 0 => 1 - n \in 1 .. Len(s)
        BY <1>3, <3>2, <4>1, <4>2, RestTail
      <4>4. Opening(c) => Phase(c, 1 - (n - 1))'
        <5> SUFFICES ASSUME Opening(c) PROVE Phase(c, 1 - (n - 1))'
          OBVIOUS
        <5>1. Len(s) = 10 /\ \A k \in 1 .. 10 : s[k] = ScriptItem(c, k)
          BY <2>5, ScriptIs DEF s
        <5>2. PICK k \in Int : k = 1 - n
          OBVIOUS
        <5>3. k <= 10 /\ (k >= 1 => Current = ScriptItem(c, k)) /\ Phase(c, k) /\ Fit(c)
          BY <2>4, <2>5, <2>6, <3>2, <4>3, <5>1, <5>2
        <5>4. Phase(c, k + 1)'
          BY <2>6, <5>3, EventStep
        <5>5. k + 1 = 1 - (n - 1)
          BY <5>2
        <5> QED BY <5>4, <5>5
      <4>5. RestOf(InFront', GenerateScript(c), n - 1) /\ n - 1 \in Int
        BY <3>2, <4>3 DEF s
      <4> QED BY <4>4, <4>5
    <3> QED BY <1>2, <3>1, <3>2
  <2>8. Opening(TopCue') => \A m \in Int : Phase(TopCue, 1 - m)' <=> Phase(c, 1 - m)'
    BY <2>2
  <2> QED BY <2>2, <2>3, <2>7, <2>8 DEF Follows
<1> QED BY <1>4, <1>5

LEMMA FollowsStays ==
  ASSUME IInv, InStep, OneRound, QueueShort, Follows, [Next]_vars
  PROVE  Follows'
<1> SUFFICES ASSUME Calm' PROVE Follows'
  BY DEF Follows
<1>1. /\ Calm /\ connected /\ ~nested /\ ~touched'
      /\ ~PlayerDies /\ ~LosePlayer /\ ~ClickStop /\ ~StopButton /\ ~OtherButton /\ ~Disconnect
  <2>1. ~touched' /\ ~done' /\ ~bare'
    BY DEF Calm
  <2> QED BY <2>1, CalmBefore DEF Calm, OneRound
<1>2. Stop \in Events /\ << Stop >> \in Seq(Events)
  <2>1. Stop \in Events
    BY DEF Stop, Plain, Event, Events, EventTypes
  <2> QED BY <2>1
<1>3. mCueExecuting => rounds # << >> /\ Top.pc = "wait"
  BY <1>1 DEF IInv, RoundsOK
<1>4. CASE Collect
  <2>1. InFront' = InFront
    BY <1>1, <1>4, CollectFront
  <2>2. Follows /\ Calm
    BY <1>1
  <2>3. UNCHANGED <<renderer, position, cueEndFrame, seen, done, bare, sidecarVars>>
    BY <1>4 DEF Collect
  <2>4. mCueExecuting' = mCueExecuting /\ Top' = Top /\ TopCue' = TopCue
    BY <2>3 DEF sidecarVars, Top, TopCue
  <2>5. CASE ~mCueExecuting
    BY <2>1, <2>2, <2>4, <2>5 DEF Follows
  <2>6. CASE mCueExecuting
    <3>1. PICK n \in Int : /\ RestOf(InFront, GenerateScript(TopCue), n)
                           /\ Opening(TopCue) => Phase(TopCue, 1 - n)
      BY <2>2, <2>6 DEF Follows
    <3>2. Top.next <= Len(Cues)
      BY <2>2, <2>6 DEF Follows
    <3>3. Phase(TopCue, 1 - n)' <=> Phase(TopCue, 1 - n)
      BY <2>3, <2>4 DEF Phase
    <3> QED BY <2>1, <2>4, <2>6, <3>1, <3>2, <3>3 DEF Follows
  <2> QED BY <2>5, <2>6
<1>5. CASE HandleEvent
  BY <1>5, HandleFollows
<1>6. CASE ExecuteCue
  BY <1>6, ExecuteCueFollows
<1>7. CASE WaitEnds
  <2>1. ~mCueExecuting /\ ~mCueExecuting' /\ UNCHANGED <<playerVars, toPlayer, touched>>
    BY <1>1, <1>7 DEF WaitEnds
  <2>2. InFront' = InFront
    BY <2>1, InFrontSame DEF playerVars
  <2>3. mCueExecuting' = mCueExecuting
    BY <1>7, <2>1 DEF WaitEnds, IInv, FlagsOK
  <2> QED BY <2>1, <2>2, <2>3, FollowsSame
<1>8. CASE LoopAgain
  <2>1. UNCHANGED <<playerVars, toPlayer, touched, mCueExecuting>> /\ ~mCueExecuting
    BY <1>3, <1>8 DEF LoopAgain
  <2>2. InFront' = InFront
    BY <2>1, InFrontSame DEF playerVars
  <2> QED BY <2>1, <2>2, FollowsSame
<1>9. CASE EndRound
  <2>1. /\ ~mCueExecuting /\ ~mCueExecuting' /\ events' = events
        /\ toPlayer' = toPlayer \o << Stop >>
    BY <1>1, <1>3, <1>9 DEF EndRound, SetCueNotRunning, Send, playerVars
  <2>2. InFront' = InFront \o << Stop >>
    BY <1>2, <2>1, SendFront
  <2> QED BY <1>1, <2>1, <2>2, FollowsStop
<1>10. CASE Receive
  BY <1>10, ReceiveFollows
<1>11. ASSUME NEW kind, ClickExecute(kind) PROVE Follows'
  <2>1. UNCHANGED <<playerVars, toPlayer, touched, mCueExecuting>> /\ ~running
    BY <1>11 DEF ClickExecute
  <2>2. ~mCueExecuting
    BY <1>1, <1>3, <2>1 DEF OneRound, Calm
  <2>3. InFront' = InFront
    BY <2>1, InFrontSame DEF playerVars
  <2> QED BY <2>1, <2>2, <2>3, FollowsSame
<1>12. CASE UNCHANGED vars
  <2>1. UNCHANGED <<playerVars, toPlayer, touched, mCueExecuting, rounds>>
    BY <1>12 DEF vars, sidecarVars
  <2>2. InFront' = InFront /\ Top' = Top
    BY <2>1, InFrontSame DEF playerVars, Top
  <2> QED BY <2>1, <2>2, FollowsSame
<1> QED BY <1>1, <1>4, <1>5, <1>6, <1>7, <1>8, <1>9, <1>10, <1>11, <1>12
        DEF Next, PlayerStep, ReadMissingFrame, LoseSidecar, SidecarStep, Click

LEMMA StepsFollow == KInv /\ [Next]_vars => KInv'
<1> SUFFICES ASSUME KInv, [Next]_vars PROVE KInv'
  OBVIOUS
<1>1. JInv /\ IInv /\ InStep /\ OneRound /\ QueueShort /\ Follows
  BY DEF KInv, JInv
<1> QED BY <1>1, StepsInStep, OneRoundStays, QueueStaysShort, FollowsStays DEF KInv

LEMMA StartFollows == Init => KInv
<1> SUFFICES ASSUME Init PROVE KInv
  OBVIOUS
<1>1. /\ events = << >> /\ toPlayer = << >> /\ rounds = << >> /\ connected = TRUE
      /\ nested = FALSE /\ mCueExecuting = FALSE
  BY DEF Init
<1>2. Len(<< >>) = 0 /\ DOMAIN << >> = {}
  BY EmptySeq
<1>3. OneRound /\ QueueShort
  BY <1>1, <1>2 DEF OneRound, QueueShort
<1>4. Len(InFront) = 0
  BY <1>1, <1>2 DEF InFront
<1>5. Follows
  BY <1>1, <1>4 DEF Follows
<1> QED BY <1>3, <1>5, StartInStep DEF KInv
-------------------------------------------------------------------------------
(* When the completion is sent *)

\* What is over has been shown often enough.
LEMMA OverIsShown ==
  ASSUME NEW c, Fit(c), Ranged(c), NEW p \in Positions, NEW n \in Nat, Plays(c, p, n),
         cueEndFrame' = c.end, CueIsOver(p)
  PROVE  n >= Passes(c)
<1> SUFFICES ASSUME ~(n >= Passes(c)) PROVE FALSE
  OBVIOUS
<1>1. p.dir = 1 /\ p.cur <= LastIn(c) /\ p.cur \in Int
  BY DEF Plays, Positions
<1>2. c.end # -1 /\ p.cur > c.end
  BY <1>1 DEF CueIsOver
<1>3. c.end \in Int /\ LastIn(c) = c.end
  BY <1>2, FitIs DEF LastIn
<1> QED BY <1>1, <1>2, <1>3

\* Only the loop that has handled an event completes a cue.
LEMMA CompletionIs ==
  ASSUME IInv, [Next]_vars, Completions(toSidecar') > Completions(toSidecar)
  PROVE  HandleEvent
<1>1. /\ toSidecar \in Seq(Events) /\ Completions(toSidecar) \in Nat
      /\ Completions(<< >>) = 0
  BY Counts, CountEmpty DEF Completions
<1>2. CASE toSidecar' = toSidecar
  BY <1>1, <1>2
<1>3. CASE toSidecar' = << >>
  BY <1>1, <1>3
<1>4. CASE Receive
  <2> DEFINE t == Tail(toSidecar)
  <2>1. toSidecar # << >> /\ toSidecar' = t
    BY <1>4 DEF Receive
  <2>2. /\ Completions(toSidecar) = Completions(<< Head(toSidecar) >>) + Completions(t)
        /\ Completions(<< Head(toSidecar) >>) \in {0, 1} /\ Completions(t) \in Nat
    BY <1>1, <2>1, CountHead DEF Completions
  <2> HIDE DEF t
  <2> QED BY <1>1, <2>1, <2>2
<1>5. Collect \/ PlayerDies \/ WaitEnds \/ LoopAgain \/ EndRound \/ ExecuteCue
        => toSidecar' = toSidecar
  BY DEF Collect, PlayerDies, WaitEnds, LoopAgain, EndRound, ExecuteCue
<1>6. LosePlayer \/ Disconnect => toSidecar' = << >>
  BY DEF LosePlayer, Disconnect
<1>7. ClickStop \/ StopButton \/ OtherButton \/ UNCHANGED vars => toSidecar' = toSidecar
  BY DEF ClickStop, StopButton, OtherButton, vars
<1>8. ASSUME NEW kind, ClickExecute(kind) PROVE toSidecar' = toSidecar
  BY <1>8 DEF ClickExecute
<1> QED BY <1>2, <1>3, <1>4, <1>5, <1>6, <1>7, <1>8
        DEF Next, PlayerStep, ReadMissingFrame, LoseSidecar, SidecarStep, Click

\* It sends one completion, of a cue that is over.
LEMMA FinishCompletes ==
  ASSUME IInv, connected, NEW e, NEW p, NEW playing \in BOOLEAN, NEW sent \in Seq(Events),
         NEW n, Completions(sent) = 0,
         FinishOrNot(e, p, playing, sent, n) \/ Finish(e, p, playing, sent, n),
         Completions(toSidecar') > Completions(toSidecar)
  PROVE  playing /\ CueIsOver(p)
<1>1. Completions(toSidecar) \in Nat /\ toSidecar \in Seq(Events)
  BY Counts
<1> SUFFICES ASSUME ~(playing /\ CueIsOver(p)) PROVE FALSE
  OBVIOUS
<1>2. toSidecar' = toSidecar \o (sent \o << >>) \/ toSidecar' = toSidecar \o sent
  <2>1. Finish(e, p, playing, sent, n) => toSidecar' = toSidecar \o (sent \o << >>)
    BY DEF Finish, Send
  <2>2. ~renderer /\ FinishOrNot(e, p, playing, sent, n) => toSidecar' = toSidecar \o sent
    BY DEF FinishOrNot, Send
  <2>3. renderer /\ FinishOrNot(e, p, playing, sent, n) => Finish(e, p, playing, sent, n)
    BY DEF FinishOrNot
  <2> QED BY <2>1, <2>2, <2>3
<1>3. sent \o << >> = sent
  BY ConcatEmptySeq
<1>4. Completions(toSidecar \o sent) = Completions(toSidecar) + 0
  BY <1>1, CountConcat DEF Completions
<1>5. toSidecar' = toSidecar \o sent
  BY <1>2, <1>3, Zenon
<1>6. Completions(toSidecar') = Completions(toSidecar) + 0
  BY <1>4, <1>5, Zenon
<1> QED BY <1>1, <1>6

\* Then a cue was played, or has just come to its last event.
LEMMA WhoCompletes ==
  ASSUME IInv, connected, HandleEvent, ~bare', Current \in Good,
         Completions(toSidecar') > Completions(toSidecar)
  PROVE  \/ cuePlaying
         \/ Current.mEventType = "MOVIE_CUE_END" /\ CueIsOver(position) /\ cueEndFrame' = cueEndFrame
<1> DEFINE e == Current
<1>1. /\ cuePlaying \in BOOLEAN /\ toSidecar \in Seq(Events) /\ Completions(toSidecar) \in Nat
      /\ << >> \in Seq(Events) /\ Completions(<< >>) = 0 /\ e \in Events
      /\ e.mEventType # "MOVIE_CUE_COMPLETE" => Completions(<< e >>) = 0 /\ << e >> \in Seq(Events)
  <2>1. e \in Events
    BY DEF Good
  <2> HIDE DEF e
  <2>2. << e >> \in Seq(Events)
    BY <2>1
  <2> QED BY <2>1, <2>2, Counts, CountEmpty, CountOne, EmptySeq DEF IInv, FlagsOK, Completions
<1>2. OpenFile(e) \/ OpenFails(e) \/ CueBegin(e) \/ CueEnd(e) \/ Quit(e) \/ Reposition(e)
  BY DEF HandleEvent
<1> HIDE DEF e
<1>3. CASE OpenFile(e)
  <2> DEFINE p == OpenMovie(position, Frames[e.mString])
  <2>1. Finish(e, p, cuePlaying, << >>, 0)
    BY <1>3 DEF OpenFile
  <2> HIDE DEF p
  <2> QED BY <1>1, <2>1, FinishCompletes
<1>4. ~OpenFails(e)
  <2> SUFFICES ASSUME OpenFails(e) PROVE FALSE
    OBVIOUS
  <2> DEFINE x == Plain("MOVIE_STOP_ERROR")
  <2>1. toSidecar' = toSidecar \o << x >>
    BY DEF OpenFails, Send
  <2>2. x \in Events /\ x.mEventType # "MOVIE_CUE_COMPLETE"
    BY DEF Plain, Event, Events, EventTypes
  <2> HIDE DEF x
  <2>3. << x >> \in Seq(Events) /\ Completions(<< x >>) = 0
    BY <2>2, CountOne DEF Completions
  <2>4. Completions(toSidecar \o << x >>) = Completions(toSidecar) + 0
    BY <1>1, <2>3, CountConcat DEF Completions
  <2>5. Completions(toSidecar') = Completions(toSidecar) + 0
    BY <2>1, <2>4, Zenon
  <2> QED BY <1>1, <2>5
<1>5. CASE CueBegin(e)
  <2>1. FinishOrNot(e, position, cuePlaying, << >>, 0)
    BY <1>5 DEF CueBegin
  <2> QED BY <1>1, <2>1, FinishCompletes
<1>6. CASE CueEnd(e)
  <2>1. renderer /\ e.mEventType = "MOVIE_CUE_END" /\ cueEndFrame' = cueEndFrame
    BY <1>6 DEF CueEnd, IInv, FlagsOK
  <2>2. FinishOrNot(e, position, TRUE, << >>, seen)
    BY <1>6, <2>1 DEF CueEnd
  <2>3. CueIsOver(position)
    BY <1>1, <2>2, FinishCompletes
  <2> QED BY <2>1, <2>3 DEF e
<1>7. CASE Quit(e)
  <2>1. FinishOrNot(e, position, cuePlaying, << >>, seen)
    BY <1>7 DEF Quit
  <2> QED BY <1>1, <2>1, FinishCompletes
<1>8. CASE Reposition(e)
  <2> DEFINE sent == IF e.mEventType = "MOVIE_STOP_ERROR" THEN << e >> ELSE << >>
             p == Effect(position, e)
  <2>1. FinishOrNot(e, p, cuePlaying, sent, seen)
    BY <1>8 DEF Reposition
  <2>2. sent \in Seq(Events) /\ Completions(sent) = 0
    BY <1>1
  <2> HIDE DEF p, sent
  <2> QED BY <1>1, <2>1, <2>2, FinishCompletes
<1> QED BY <1>2, <1>3, <1>4, <1>5, <1>6, <1>7, <1>8

\* A turn without an event, of a player that plays a cue
LEMMA NoneCompletes ==
  ASSUME IInv, connected, HandleEvent, Current = None, renderer,
         Completions(toSidecar') > Completions(toSidecar)
  PROVE  CueIsOver(position) /\ cueEndFrame' = cueEndFrame
<1>1. None.mEventType = "MOVIE_NONE"
  BY DEF None, Plain, Event
<1>2. Reposition(None)
  BY <1>1, Handled
<1>3. /\ FinishOrNot(None, position, cuePlaying, << >>, seen) /\ cueEndFrame' = cueEndFrame
  <2>1. Effect(position, None) = position
    BY <1>1 DEF Effect
  <2> QED BY <1>1, <1>2, <2>1 DEF Reposition
<1>4. << >> \in Seq(Events) /\ Completions(<< >>) = 0 /\ cuePlaying \in BOOLEAN
  BY EmptySeq, CountEmpty DEF Completions, IInv, FlagsOK
<1>5. CueIsOver(position)
  BY <1>3, <1>4, FinishCompletes
<1> QED BY <1>3, <1>5

LEMMA HeadEnds ==
  ASSUME NEW q \in Seq(Events), q # << >>, Head(q).mEventType = "MOVIE_CUE_END"
  PROVE  Ends(q) >= 1
<1>1. Ends(q) = Ends(<< Head(q) >>) + Ends(Tail(q)) /\ Ends(Tail(q)) \in Nat
      /\ Ends(<< Head(q) >>) = 1
  BY CountHead DEF Ends
<1> QED BY <1>1

\* What is so when a completion is sent
PlayedOutNow ==
  /\ HowMany("MOVIE_CUE_COMPLETE", toSidecar') > HowMany("MOVIE_CUE_COMPLETE", toSidecar)
  /\ ~touched' /\ ~bare'
  /\ rounds # << >> /\ Top.pc = "wait" /\ PlaysForward(TopCue)
  => seen >= Passes(TopCue)

LEMMA CompletesPlayed ==
  ASSUME KInv, [Next]_vars
  PROVE  PlayedOutNow
<1> SUFFICES ASSUME Completions(toSidecar') > Completions(toSidecar), ~touched', ~bare',
                    rounds # << >>, PlaysForward(TopCue)
             PROVE  seen >= Passes(TopCue)
  BY DEF PlayedOutNow, Completions
<1>1. IInv /\ ScriptOpens /\ InStep /\ OneRound /\ QueueShort /\ Follows
  BY DEF KInv, JInv
<1>2. HandleEvent
  BY <1>1, CompletionIs
<1>3. /\ ~touched /\ ~done /\ ~bare /\ connected /\ ~nested /\ Calm /\ Usual
      /\ ~(Scripted /\ mCueExecuting)
  <2>1. ~touched /\ ~done /\ ~(Scripted /\ mCueExecuting)
    BY <1>2 DEF HandleEvent
  <2>2. ~bare
    <3> DEFINE e == Current
    <3>1. OpenFile(e) \/ OpenFails(e) \/ CueBegin(e) \/ CueEnd(e) \/ Quit(e) \/ Reposition(e)
      BY <1>2 DEF HandleEvent
    <3> HIDE DEF e
    <3>2. bare => bare'
      BY <3>1 DEF OpenFile, OpenFails, CueBegin, CueEnd, Quit, Reposition
    <3> QED BY <3>2
  <2> QED BY <1>1, <2>1, <2>2 DEF OneRound, Calm, Usual
<1>4. UnderWay = One(mCueExecuting)
  BY <1>1, <1>3, InStepIs
<1>5. /\ Ends(toPlayer) \in Nat /\ Ends(events) \in Nat /\ Completions(toSidecar) \in Nat
      /\ cuePlaying \in BOOLEAN /\ mCueExecuting \in BOOLEAN /\ events \in Seq(Events)
      /\ events # << >> /\ InFront \in Seq(Events)
  BY <1>1, <1>2, Counts, InFrontIs DEF IInv, FlagsOK, HandleEvent
<1>6. cuePlaying => mCueExecuting /\ Ends(toPlayer) + Ends(events) = 0
  <2> SUFFICES ASSUME cuePlaying PROVE mCueExecuting /\ Ends(toPlayer) + Ends(events) = 0
    OBVIOUS
  <2>1. One(cuePlaying) = 1
    BY DEF One
  <2>2. Ends(toPlayer) + Ends(events) + 1 + Completions(toSidecar) = One(mCueExecuting)
    BY <1>4, <2>1, Zenon DEF UnderWay
  <2>3. One(mCueExecuting) = IF mCueExecuting THEN 1 ELSE 0
    BY DEF One
  <2> QED BY <1>5, <2>2, <2>3
<1>7. Ends(events) >= 1 => mCueExecuting
  <2> SUFFICES ASSUME Ends(events) >= 1 PROVE mCueExecuting
    OBVIOUS
  <2>1. PICK p \in {0, 1} : p = One(cuePlaying)
    BY DEF One
  <2>2. Ends(toPlayer) + Ends(events) + p + Completions(toSidecar) = One(mCueExecuting)
    BY <1>4, <2>1, Zenon DEF UnderWay
  <2>3. One(mCueExecuting) = IF mCueExecuting THEN 1 ELSE 0
    BY DEF One
  <2> QED BY <1>5, <2>1, <2>2, <2>3
<1>8. Current \in Good
  <2>1. events \in Seq(Good) /\ script \in Seq(Good)
    BY <1>1 DEF IInv, PlayerOK
  <2>2. Head(events) \in Good
    BY <1>5, <2>1, HeadTailProperties
  <2>3. script # << >> => Head(script) \in Good
    BY <2>1, HeadTailProperties
  <2> QED BY <2>2, <2>3 DEF Current, Scripted
<1>9. \/ cuePlaying
      \/ Current.mEventType = "MOVIE_CUE_END" /\ CueIsOver(position) /\ cueEndFrame' = cueEndFrame
  BY <1>1, <1>2, <1>3, <1>8, WhoCompletes
<1>10. \/ Len(events) = 1 /\ Head(events) = None
       \/ Len(events) = 2 /\ InFront # << >> /\ Head(events) = Head(InFront)
  BY <1>1, <1>2, <1>3, HandleFront
<1>11. Scripted => Current.mEventType = "MOVIE_OPEN_FILE"
  <2> SUFFICES ASSUME Scripted PROVE Current.mEventType = "MOVIE_OPEN_FILE"
    OBVIOUS
  <2>1. script # << >> /\ Current = Head(script) /\ script \in Seq(Good)
    BY <1>1 DEF Scripted, Current, IInv, PlayerOK
  <2>2. 1 \in DOMAIN script
    BY <2>1, EmptySeq, LenProperties
  <2> QED BY <1>1, <2>1, <2>2 DEF ScriptOpens
<1>12. mCueExecuting /\ Current = Head(events)
  <2>1. CASE cuePlaying
    BY <1>3, <1>6, <2>1 DEF Current
  <2>2. CASE Current.mEventType = "MOVIE_CUE_END"
    <3>1. Current = Head(events)
      BY <1>11, <2>2 DEF Current
    <3>2. Ends(events) >= 1
      BY <1>5, <2>2, <3>1, HeadEnds
    <3> QED BY <1>7, <3>1, <3>2
  <2> QED BY <1>9, <2>1, <2>2
<1>13. PICK c : c = TopCue
  OBVIOUS
<1>14. Top.next <= Len(Cues) /\ \E n \in Int : /\ RestOf(InFront, GenerateScript(c), n)
                                               /\ Opening(c) => Phase(c, 1 - n)
  BY <1>1, <1>3, <1>12, <1>13 DEF Follows
<1>15. Opening(c) /\ Fit(c) /\ c \in CueRecords
  <2>1. Opening(c)
    BY <1>13 DEF PlaysForward, Opening
  <2> QED BY <1>1, <1>13, <1>14, <2>1, TopCueIs
<1> DEFINE s == GenerateScript(c)
<1>16. s \in Seq(Events) /\ Len(s) = 10 /\ \A k \in 1 .. 10 : s[k] = ScriptItem(c, k)
  BY <1>15, ScriptIs
<1>17. PICK n \in Int : RestOf(InFront, s, n) /\ Phase(c, 1 - n)
  BY <1>14, <1>15
<1> HIDE DEF s
<1>18. /\ 1 - n >= 10 /\ CueIsOver(position) /\ cueEndFrame' = cueEndFrame
  <2>1. CASE cuePlaying
    <3>1. InFront \in Seq(Events) /\ Ends(InFront) = 0
      BY <1>1, <1>6, <2>1, InFrontIs
    <3>2. s[Len(s)].mEventType = "MOVIE_CUE_END" /\ Len(s) \in Nat \ {0}
      <4>1. Len(s) = 10 /\ 10 \in 1 .. 10 /\ s[10] = ScriptItem(c, 10)
        BY <1>16
      <4>2. ScriptItem(c, 10).mEventType = "MOVIE_CUE_END"
        BY <4>1, ItemIs
      <4> QED BY <4>1, <4>2
    <3>3. InFront = << >> /\ n = -10
      BY <1>16, <1>17, <3>1, <3>2, RestOver
    <3>4. Current = None
      BY <1>10, <1>12, <3>3
    <3>5. renderer
      BY <1>17, <3>3 DEF Phase
    <3>6. CueIsOver(position) /\ cueEndFrame' = cueEndFrame
      BY <1>1, <1>2, <1>3, <3>4, <3>5, NoneCompletes
    <3> QED BY <3>3, <3>6
  <2>2. CASE Current.mEventType = "MOVIE_CUE_END" /\ CueIsOver(position) /\ cueEndFrame' = cueEndFrame
    <3>1. None.mEventType # "MOVIE_CUE_END" /\ Stop.mEventType # "MOVIE_CUE_END"
      BY DEF None, Stop, Plain, Event
    <3>2. InFront # << >> /\ Current = Head(InFront)
      BY <1>10, <1>12, <2>2, <3>1
    <3>3. /\ Head(InFront) = (IF n >= 1 THEN Stop ELSE s[1 - n])
          /\ n <= 0 => 1 - n \in 1 .. Len(s)
      BY <1>5, <1>16, <1>17, <3>2, RestTail
    <3>4. 1 - n \in 1 .. 10 /\ Current = ScriptItem(c, 1 - n)
      BY <1>16, <2>2, <3>1, <3>2, <3>3
    <3>5. PICK k \in 1 .. 10 : k = 1 - n
      BY <3>4
    <3>6. k = 10
      BY <2>2, <3>4, <3>5, ItemIs
    <3> QED BY <2>2, <3>5, <3>6
  <2> QED BY <1>9, <2>1, <2>2
<1>19. /\ cueEndFrame = c.end /\ position.last = Frames[c.movie] - 1
       /\ Ranged(c) => Plays(c, position, seen)
  BY <1>17, <1>18 DEF Phase
<1>20. Ranged(c)
  BY <1>13, <1>19 DEF PlaysForward, Ranged, LastFrameOf, LastIn
<1>21. position \in Positions /\ seen \in Nat
  BY <1>1, CueAssumption DEF IInv, PlayerOK, FlagsOK, InRange
<1>22. seen >= Passes(c)
  BY <1>15, <1>18, <1>19, <1>20, <1>21, OverIsShown
<1> QED BY <1>13, <1>22

(* A cue that opens its movie and plays it forward is not completed before its last frame
   has been shown, as often as it repeats (SetFrame, and the test of DisplayLoop for the end
   of the cue), for every list of cues and any movies. *)
THEOREM CueIsPlayedOut == Spec => PlayedOut
<1>1. KInv /\ [Next]_vars =>
        [ /\ HowMany("MOVIE_CUE_COMPLETE", toSidecar') > HowMany("MOVIE_CUE_COMPLETE", toSidecar)
          /\ ~touched' /\ ~bare'
          /\ rounds # << >> /\ Top.pc = "wait" /\ PlaysForward(TopCue)
          => seen >= Passes(TopCue) ]_vars
  BY CompletesPlayed DEF PlayedOutNow
<1> QED BY <1>1, StartFollows, StepsFollow, PTL DEF Spec, PlayedOut
===============================================================================
