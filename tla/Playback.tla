------------------------------- MODULE Playback -------------------------------
(***************************************************************************)
(* Where the player is in its movie: the part of Renderer                   *)
(* (src/blockbuster/Renderer.cpp) that chooses the next frame, and what the  *)
(* events of DisplayLoop (movie.cpp) do to it.                                *)
(*                                                                         *)
(* Pure operators on a record: the current frame, the range that is played,  *)
(* the last frame of the movie, the direction, the number of repeats (-1 for  *)
(* ever) and the ping-pong flag.  CuePlay.tla is the loop that applies them.   *)
(***************************************************************************)
EXTENDS Integers

\* mCurrentFrame, mStartFrame, mEndFrame, NumStereoFrames() - 1, mPlayDirection,
\* mNumRepeats, mDoPingPong
Positions ==
  [cur : Int, start : Int, end : Int, last : Int, dir : {-1, 0, 1},
   repeats : Int, pingpong : BOOLEAN]

\* Renderer::Init, before any movie
NoPosition ==
  [cur |-> 0, start |-> 0, end |-> 0, last |-> 0, dir |-> 0, repeats |-> 0, pingpong |-> FALSE]

\* MOVIE_OPEN_FILE, and the SetFrameList it calls
OpenMovie(p, frames) ==
  [p EXCEPT !.cur = 0, !.start = 0, !.end = frames - 1, !.last = frames - 1,
            !.dir = 0, !.repeats = 0]

-------------------------------------------------------------------------------
(* SetFrame.  Beyond the range the player stays, turns round, wraps or stops;  *)
(* stopFrame - step is 1 below the range, where both are unsigned.             *)

BeyondSingle(p) == [p EXCEPT !.cur = p.start]

TurnRound(p, below) ==
  [p EXCEPT !.cur = IF below THEN 1 ELSE p.end - 1, !.dir = -p.dir]

Wrap(p, below) ==
  [p EXCEPT !.cur = IF below THEN p.end ELSE 0,
            !.repeats = IF p.repeats > 0 THEN p.repeats - 1 ELSE p.repeats]

StopThere(p, below) == [p EXCEPT !.cur = IF below THEN 0 ELSE p.end, !.dir = 0]

Beyond(p, below) ==
  CASE p.end = p.start  -> BeyondSingle(p)
    [] p.end # p.start /\ p.pingpong -> TurnRound(p, below)
    [] p.end # p.start /\ ~p.pingpong /\ p.repeats # 0 -> Wrap(p, below)
    [] OTHER -> StopThere(p, below)

SetFrame(p, n) ==
  IF n \in p.start .. p.end THEN [p EXCEPT !.cur = n] ELSE Beyond(p, n < p.start)

\* Mutant of AdvanceFrame: the range is not looked at.
AdvanceAnyway(p, n) == [p EXCEPT !.cur = p.cur + n]

AdvanceFrame(p, n) == SetFrame(p, p.cur + n)

-------------------------------------------------------------------------------
(* The other setters *)

SetPlayDirection(p, direction) == [p EXCEPT !.dir = direction]

SetRepeat(p, repeat) ==
  [p EXCEPT !.repeats = repeat, !.pingpong = p.pingpong /\ repeat = 0]

SetPingPong(p, on) ==
  [p EXCEPT !.pingpong = on, !.repeats = IF on THEN 0 ELSE p.repeats]

\* The start is brought into the movie, the end is not unless it is negative.
SetStartEndFrames(p, start, end) ==
  LET s == CASE start < 0 -> 0
             [] start >= 0 /\ start > p.last -> p.last
             [] OTHER -> start
      e == IF end < 0 THEN p.last ELSE end
  IN [p EXCEPT !.start = s, !.end = IF e < s THEN s ELSE e]

\* MOVIE_SECTION_FORWARD and BACKWARD: a quarter of the movie.  (After a movie could not be
\* opened allFrames is empty and this is 1.)
SectionLength(p) == IF (p.last + 1) \div 4 > 1 THEN (p.last + 1) \div 4 ELSE 1

-------------------------------------------------------------------------------
(* What an event of DisplayLoop does to the position *)

\* A step against the direction of play stops it.
StepForward(p) ==
  AdvanceFrame(IF p.dir < 0 THEN SetPlayDirection(p, 0) ELSE p, 1)

StepBackward(p) ==
  AdvanceFrame(IF p.dir > 0 THEN SetPlayDirection(p, 0) ELSE p, -1)

Effect(p, e) ==
  CASE e.mEventType = "MOVIE_CUE_PLAY_ON_LOAD" -> SetPlayDirection(p, e.mHeight)
    [] e.mEventType = "MOVIE_START_END_FRAMES" -> SetStartEndFrames(p, e.mWidth, e.mHeight)
    [] e.mEventType = "MOVIE_SET_PINGPONG"     -> SetPingPong(p, e.mNumber # 0)
    [] e.mEventType = "MOVIE_SET_REPEAT"       -> SetRepeat(p, e.mNumber)
    [] e.mEventType = "MOVIE_PLAY_FORWARD"     -> SetPlayDirection(p, 1)
    [] e.mEventType = "MOVIE_PLAY_BACKWARD"    -> SetPlayDirection(p, -1)
    [] e.mEventType = "MOVIE_STOP"             -> SetPlayDirection(p, 0)
    [] e.mEventType = "MOVIE_STOP_ERROR"       -> SetPlayDirection(p, 0)
    [] e.mEventType = "MOVIE_PAUSE"            -> SetPlayDirection(p, IF p.dir = 0 THEN 1 ELSE 0)
    [] e.mEventType = "MOVIE_STEP_FORWARD"     -> StepForward(p)
    [] e.mEventType = "MOVIE_STEP_BACKWARD"    -> StepBackward(p)
    [] e.mEventType = "MOVIE_SKIP_FORWARD"     -> AdvanceFrame(p, 20)
    [] e.mEventType = "MOVIE_SKIP_BACKWARD"    -> AdvanceFrame(p, -20)
    [] e.mEventType = "MOVIE_SECTION_FORWARD"  -> AdvanceFrame(p, SectionLength(p))
    [] e.mEventType = "MOVIE_SECTION_BACKWARD" -> AdvanceFrame(p, -SectionLength(p))
    [] e.mEventType = "MOVIE_GOTO_START"       -> SetFrame(p, 0)
    [] e.mEventType = "MOVIE_GOTO_END"         -> SetFrame(p, -1)
    [] e.mEventType = "MOVIE_GOTO_FRAME"       -> SetFrame(p, e.mNumber)
    [] OTHER -> p

\* The range starts in the movie, and the frame is not beyond the end of the range.
InRange(p) ==
  /\ p \in Positions
  /\ p.start \in 0 .. p.last /\ p.start <= p.end
  /\ p.cur \in 0 .. p.end
===============================================================================
