------------------------------- MODULE CuePlay -------------------------------
(***************************************************************************)
(* Playing cues: sidecar, the remote control (src/sidecar/sidecar.cpp and    *)
(* src/blockbuster/MovieCues.cpp), and the player it drives (DisplayLoop in   *)
(* src/blockbuster/movie.cpp, with SidecarServer.cpp).                        *)
(*                                                                         *)
(* A cue says which movie to open, at which frame, which range to play and    *)
(* how.  Sidecar executes a round of cues: it sends the events of a cue and     *)
(* waits, with its own event loop running, until the player has sent            *)
(* MOVIE_CUE_COMPLETE; then comes the next cue.  The user can stop the round,    *)
(* and then start another one while the old one still waits below it on the      *)
(* stack; and he can play with the player itself.                                *)
(*                                                                         *)
(* The two sockets are sequences, and so is the queue of DisplayLoop.  What the   *)
(* events do to the position in the movie is in Playback.tla.  Events that leave    *)
(* it alone (window, zoom, rate...) are one event here, MOVIE_FULLSCREEN.  The       *)
(* player is started without options beside movies, and a movie that cannot be          *)
(* opened is one without frames.                                                           *)
(***************************************************************************)
EXTENDS Playback, FiniteSets, Sequences, SequencesExt

CONSTANTS
  Frames,       \* how many frames each movie has, none if it cannot be opened
  NoMovie,      \* no movie is named
  Cues,         \* the cues that are selected in the list, in order
  Scripts,      \* how the player may be started: sequences of movies
  UserEvents,   \* what the user does at the player and with sidecar's buttons
  MaxClicks,    \* how often he does anything
  MaxSeen       \* seen is counted up to this

Movies == DOMAIN Frames

\* MovieEvent, with the fields that matter here
Event(type, number, width, height, string) ==
  [mEventType |-> type, mNumber |-> number, mWidth |-> width, mHeight |-> height,
   mString |-> string]
Plain(type) == Event(type, 0, 0, 0, NoMovie)
Numbered(type, number) == Event(type, number, 0, 0, NoMovie)
Open(movie) == Event("MOVIE_OPEN_FILE", 0, 0, 0, movie)

\* MovieEventType.  MOVIE_FULLSCREEN stands for all that leave the position alone.
EventTypes ==
  {"MOVIE_NONE", "MOVIE_OPEN_FILE", "MOVIE_QUIT", "MOVIE_FULLSCREEN",
   "MOVIE_CUE_BEGIN", "MOVIE_CUE_PLAY_ON_LOAD", "MOVIE_CUE_END", "MOVIE_CUE_COMPLETE",
   "MOVIE_SET_REPEAT", "MOVIE_SET_PINGPONG", "MOVIE_START_END_FRAMES",
   "MOVIE_PLAY_FORWARD", "MOVIE_PLAY_BACKWARD", "MOVIE_PAUSE", "MOVIE_STOP",
   "MOVIE_STOP_ERROR", "MOVIE_STEP_FORWARD", "MOVIE_STEP_BACKWARD",
   "MOVIE_SKIP_FORWARD", "MOVIE_SKIP_BACKWARD",
   "MOVIE_SECTION_FORWARD", "MOVIE_SECTION_BACKWARD",
   "MOVIE_GOTO_START", "MOVIE_GOTO_END", "MOVIE_GOTO_FRAME"}

Events == [mEventType : EventTypes, mNumber : Int, mWidth : Int, mHeight : Int,
           mString : Movies \cup {NoMovie}]

\* A direction is one; a range may be any, and end beyond every movie.
EventOK(e) ==
  /\ e \in Events
  /\ e.mEventType = "MOVIE_CUE_PLAY_ON_LOAD" => e.mHeight \in {-1, 0, 1}

CueRecords ==
  [movie : Movies \cup {NoMovie}, play : BOOLEAN, backward : BOOLEAN, current : Int,
   start : Int, end : Int, repeats : Int, pingpong : BOOLEAN]

ASSUME CueAssumption ==
  /\ Frames \in [Movies -> Nat]
  /\ NoMovie \notin Movies
  /\ Cues \in Seq(CueRecords)
  /\ Scripts \subseteq Seq(Movies)
  /\ \A e \in UserEvents : EventOK(e) /\ e.mEventType # "MOVIE_CUE_BEGIN"
                                      /\ e.mEventType # "MOVIE_CUE_END"
  /\ MaxClicks \in Nat
  /\ MaxSeen \in Nat \ {0}
  /\ \A i \in DOMAIN Cues : Cues[i].repeats < MaxSeen

\* MovieCue::GenerateScript.  The number of MOVIE_CUE_PLAY_ON_LOAD is in mNumber.
GenerateScript(c) ==
  << Numbered("MOVIE_CUE_BEGIN", c.end) >>
  \o (IF c.movie # NoMovie THEN << Open(c.movie) >> ELSE << >>)
  \o (IF c.play
        THEN << Numbered("MOVIE_CUE_PLAY_ON_LOAD", IF c.backward THEN -1 ELSE 1) >>
        ELSE << >>)
  \o << Numbered("MOVIE_SET_REPEAT", c.repeats),
        Numbered("MOVIE_SET_PINGPONG", IF c.pingpong THEN 1 ELSE 0),
        Numbered("MOVIE_FULLSCREEN", 0),
        Numbered("MOVIE_GOTO_FRAME", c.current),
        Event("MOVIE_START_END_FRAMES", 0, c.start, c.end, NoMovie) >>
  \o (IF c.play
        THEN << Plain(IF c.backward THEN "MOVIE_PLAY_BACKWARD" ELSE "MOVIE_PLAY_FORWARD") >>
        ELSE << >>)
  \o << Plain("MOVIE_CUE_END") >>

Complete == Plain("MOVIE_CUE_COMPLETE")
Stop == Plain("MOVIE_STOP")
None == Plain("MOVIE_NONE")

VARIABLES
  \* the player
  script,      \* movies still to open
  events,      \* the queue of DisplayLoop
  renderer,    \* there is one, and so a movie
  position,    \* where it is
  cuePlaying, cueEndFrame,
  done,        \* the player has ended
  \* between them
  toPlayer,    \* the socket, and mPendingEvents
  toSidecar,
  connected,   \* mState is BB_CONNECTED
  \* sidecar
  rounds,      \* the rounds of cues on its stack, the running one last
  running,     \* the button says "Stop Cues"
  mStopLooping,
  mCueExecuting,
  \* history
  clicks,      \* what the user has done so far
  seen,        \* how often the cue's last frame was shown going forward since the cue's movie
               \* was opened
  touched,     \* the user, or a movie of the command line, has interfered
  bare,        \* a cue has ended without a movie
  nested       \* a round was started over one that still waits

playerVars == <<script, events, renderer, position, cuePlaying, cueEndFrame, done, seen, bare>>
sidecarVars == <<rounds, running, mStopLooping, mCueExecuting, nested>>
vars == <<playerVars, toPlayer, toSidecar, connected, sidecarVars, clicks, touched>>

Init ==
  /\ \E movies \in Scripts : script = [i \in DOMAIN movies |-> Open(movies[i])]
  /\ events = << >>
  /\ renderer = FALSE
  /\ position = NoPosition
  /\ cuePlaying = FALSE /\ cueEndFrame = 0
  /\ done = FALSE
  /\ toPlayer = << >> /\ toSidecar = << >>
  /\ connected = TRUE
  /\ rounds = << >>
  /\ running = FALSE /\ mStopLooping = FALSE /\ mCueExecuting = FALSE
  /\ clicks = 0 /\ seen = 0
  /\ touched = FALSE /\ bare = FALSE /\ nested = FALSE

\* SendEvent on either side: without a connection nothing is sent.
Send(channel, es) == IF connected THEN channel \o es ELSE channel

-------------------------------------------------------------------------------
(* The player *)

\* The events a round of the outer loop may collect: one from the main window, one from
\* sidecar, and one from the X window or MOVIE_NONE.
Collect ==
  /\ ~done /\ events = << >>
  /\ \E windows, keys \in {<< >>} \cup {<< e >> : e \in UserEvents} :
       /\ keys # << >> => renderer
       /\ clicks' = clicks + Len(windows) + Len(keys)
       /\ clicks' <= MaxClicks
       /\ touched' = (touched \/ clicks' > clicks)
       /\ events' = windows
                      \o (IF toPlayer = << >> THEN << >> ELSE << Head(toPlayer) >>)
                      \o (IF keys = << >> THEN << None >> ELSE keys)
  /\ toPlayer' = IF toPlayer = << >> THEN << >> ELSE Tail(toPlayer)
  /\ UNCHANGED <<script, renderer, position, cuePlaying, cueEndFrame, done, seen, bare,
                 toSidecar, connected, sidecarVars>>

\* Without another event the next movie of the command line is opened.
Scripted == Head(events).mEventType = "MOVIE_NONE" /\ script # << >>
Current == IF Scripted THEN Head(script) ELSE Head(events)

\* Mutant of CueIsOver: the last frame is taken for the end.
CueIsNearlyOver(p) ==
  \/ p.dir = 0
  \/ /\ p.repeats = 0 /\ cueEndFrame' # -1
     /\ \/ p.dir > 0 /\ p.cur >= cueEndFrame'
        \/ p.dir < 0 /\ p.cur < cueEndFrame'

\* Mutant of CueIsOver: a player that has come to a stop is not looked at.
CueIsPassed(p) ==
  /\ p.repeats = 0 /\ cueEndFrame' # -1
  /\ \/ p.dir > 0 /\ p.cur > cueEndFrame'
     \/ p.dir < 0 /\ p.cur < cueEndFrame'

\* The cue is over: the player stands still, or is beyond the last frame of the cue (which
\* MOVIE_CUE_BEGIN has just set).
CueIsOver(p) ==
  \/ p.dir = 0
  \/ /\ p.repeats = 0 /\ cueEndFrame' # -1
     /\ \/ p.dir > 0 /\ p.cur > cueEndFrame'
        \/ p.dir < 0 /\ p.cur < cueEndFrame'

\* The last frame of the cue in the movie that is open
CueLast(p) == IF cueEndFrame' = -1 THEN p.last ELSE cueEndFrame'

\* For the history: the current frame is rendered.
Shown(p, n) == IF p.dir > 0 /\ p.cur = CueLast(p) /\ n < MaxSeen THEN n + 1 ELSE n

\* Mutant of Finish: a cue that is over is still played.
FinishAndGoOn(e, p, playing, sent, n) ==
  LET over == playing /\ CueIsOver(p)
      idle == e.mEventType = "MOVIE_NONE" /\ p.dir = 0
  IN /\ cuePlaying' = playing
     /\ toSidecar' = Send(toSidecar, sent \o (IF over THEN << Complete >> ELSE << >>))
     /\ position' = IF idle THEN p ELSE AdvanceFrame(p, p.dir)
     /\ seen' = IF idle THEN n ELSE Shown(p, n)

\* The rest of the loop's body for event e, that has brought the player to p: is the cue
\* over, render the frame, advance.
Finish(e, p, playing, sent, n) ==
  LET over == playing /\ CueIsOver(p)
      idle == e.mEventType = "MOVIE_NONE" /\ p.dir = 0
  IN /\ cuePlaying' = (playing /\ ~over)
     /\ toSidecar' = Send(toSidecar, sent \o (IF over THEN << Complete >> ELSE << >>))
     /\ position' = IF idle THEN p ELSE AdvanceFrame(p, p.dir)
     /\ seen' = IF idle THEN n ELSE Shown(p, n)

\* There is nothing to finish before a movie has been opened.
FinishOrNot(e, p, playing, sent, n) ==
  IF renderer THEN Finish(e, p, playing, sent, n)
  ELSE /\ cuePlaying' = playing /\ toSidecar' = Send(toSidecar, sent)
       /\ seen' = n /\ UNCHANGED position

\* MOVIE_OPEN_FILE
OpenFile(e) ==
  /\ e.mEventType = "MOVIE_OPEN_FILE" /\ e.mString \in Movies /\ Frames[e.mString] > 0
  /\ renderer' = TRUE
  /\ UNCHANGED <<cueEndFrame, done, bare>>
  /\ Finish(e, OpenMovie(position, Frames[e.mString]), cuePlaying, << >>, 0)

\* It cannot be opened: the rest of the loop's body is skipped.
OpenFails(e) ==
  /\ e.mEventType = "MOVIE_OPEN_FILE"
  /\ e.mString \in Movies => Frames[e.mString] = 0
  /\ toSidecar' = Send(toSidecar, << Plain("MOVIE_STOP_ERROR") >>)
  /\ UNCHANGED <<renderer, position, cuePlaying, cueEndFrame, done, seen, bare>>

CueBegin(e) ==
  /\ e.mEventType = "MOVIE_CUE_BEGIN"
  /\ cueEndFrame' = e.mNumber
  /\ FinishOrNot(e, position, cuePlaying, << >>, 0)
  /\ UNCHANGED <<renderer, done, bare>>

CueEnd(e) ==
  /\ e.mEventType = "MOVIE_CUE_END"
  /\ UNCHANGED <<renderer, cueEndFrame, done>>
  /\ FinishOrNot(e, position, TRUE, IF renderer THEN << >> ELSE << Complete >>, seen)
  /\ bare' = (bare \/ ~renderer)

\* The event is finished like any other before the loop ends.
Quit(e) ==
  /\ e.mEventType = "MOVIE_QUIT"
  /\ done' = TRUE
  /\ UNCHANGED <<renderer, cueEndFrame, bare>>
  /\ FinishOrNot(e, position, cuePlaying, << >>, seen)

\* All the events that only change the position, or nothing.  MOVIE_STOP_ERROR is also
\* passed on.
Reposition(e) ==
  /\ e.mEventType \notin {"MOVIE_OPEN_FILE", "MOVIE_CUE_BEGIN", "MOVIE_CUE_END", "MOVIE_QUIT"}
  /\ UNCHANGED <<renderer, cueEndFrame, done, bare>>
  /\ FinishOrNot(e, Effect(position, e), cuePlaying,
                 IF e.mEventType = "MOVIE_STOP_ERROR" THEN << e >> ELSE << >>, seen)

HandleEvent ==
  /\ ~done /\ events # << >>
  /\ script' = IF Scripted THEN Tail(script) ELSE script
  /\ events' = IF Current.mEventType = "MOVIE_QUIT" THEN << >> ELSE Tail(events)
  /\ \/ OpenFile(Current)
     \/ OpenFails(Current)
     \/ CueBegin(Current)
     \/ CueEnd(Current)
     \/ Quit(Current)
     \/ Reposition(Current)
  /\ touched' = (touched \/ (Scripted /\ mCueExecuting))
  /\ UNCHANGED <<toPlayer, connected, sidecarVars, clicks>>

\* The player ends, whatever it was doing; sidecar sees the connection close.
PlayerDies ==
  /\ ~done /\ done' = TRUE
  /\ UNCHANGED <<script, events, renderer, position, cuePlaying, cueEndFrame, seen, bare,
                 toPlayer, toSidecar, connected, sidecarVars, clicks, touched>>

\* GetFrameInfoPtr(mCurrentFrame) reads beyond the list of frames: what is there may kill the
\* player, or may pass, and then the event is handled like any other.
ReadMissingFrame ==
  /\ events # << >> /\ renderer /\ Current.mEventType # "MOVIE_OPEN_FILE"
  /\ Effect(position, Current).cur > position.last
  /\ PlayerDies

\* SidecarServer::socketError: a player that loses sidecar exits.
LoseSidecar == ~connected /\ PlayerDies

PlayerStep == Collect \/ HandleEvent \/ ReadMissingFrame \/ LoseSidecar

-------------------------------------------------------------------------------
(* Sidecar *)

Top == Last(rounds)
SetTop(r) == [rounds EXCEPT ![Len(rounds)] = r]

\* Its event loop runs when no round is on the stack, or the last one waits.
Responsive == rounds # << >> => Top.pc = "wait"

\* Mutant of SetCueNotRunning: the round is not told.
SetCueNotRunningOnly ==
  /\ running' = FALSE
  /\ toPlayer' = Send(toPlayer, << Stop >>)
  /\ UNCHANGED mStopLooping

\* setCueRunning(FALSE) presses the Stop button too.
SetCueNotRunning ==
  /\ running' = FALSE
  /\ toPlayer' = Send(toPlayer, << Stop >>)
  /\ mStopLooping' = TRUE

\* A click on Execute or on Loop.  Both are disabled, or mean Stop, while a round runs.
ClickExecute(kind) ==
  /\ Responsive /\ ~running /\ clicks < MaxClicks /\ Len(Cues) > 0
  /\ running' = TRUE
  /\ mStopLooping' = FALSE
  /\ rounds' = Append(rounds, [kind |-> kind, next |-> 1, pc |-> "send",
                              stopped |-> FALSE, halted |-> FALSE])
  /\ clicks' = clicks + 1
  /\ nested' = (nested \/ rounds # << >>)
  /\ UNCHANGED <<playerVars, toPlayer, toSidecar, connected, mCueExecuting, touched>>

\* The rounds, and the cues they wait for, have been stopped: for the history.
Stopped == [i \in DOMAIN rounds |-> [rounds[i] EXCEPT !.stopped = TRUE, !.halted = TRUE]]

\* A click on the same button while it says "Stop Cues"
ClickStop ==
  /\ Responsive /\ running /\ clicks < MaxClicks
  /\ SetCueNotRunning
  /\ rounds' = Stopped
  /\ clicks' = clicks + 1 /\ touched' = TRUE
  /\ UNCHANGED <<playerVars, toSidecar, connected, mCueExecuting, nested>>

\* stopButton_clicked
StopButton ==
  /\ Responsive /\ connected /\ clicks < MaxClicks
  /\ toPlayer' = Send(toPlayer, << Stop >>)
  /\ mStopLooping' = TRUE
  /\ rounds' = Stopped
  /\ clicks' = clicks + 1 /\ touched' = TRUE
  /\ UNCHANGED <<playerVars, toSidecar, connected, running, mCueExecuting, nested>>

\* The other buttons: playButton_clicked, stepButton_clicked...
OtherButton ==
  /\ Responsive /\ connected /\ clicks < MaxClicks
  /\ \E e \in UserEvents : toPlayer' = Send(toPlayer, << e >>)
  /\ clicks' = clicks + 1 /\ touched' = TRUE
  /\ UNCHANGED <<playerVars, toSidecar, connected, sidecarVars>>

\* The Disconnect button
Disconnect ==
  /\ Responsive /\ connected /\ clicks < MaxClicks
  /\ connected' = FALSE
  /\ toSidecar' = << >>
  /\ clicks' = clicks + 1 /\ touched' = TRUE
  /\ UNCHANGED <<playerVars, toPlayer, sidecarVars>>

\* One turn of the loop over the cues: executeCue up to its wait.  Without a connection
\* the user is asked to start a player, and declines.
ExecuteCue ==
  /\ rounds # << >> /\ Top.pc = "send" /\ Top.next <= Len(Cues)
  /\ Top.kind = "execute" => ~mStopLooping
  /\ IF connected
     THEN /\ mCueExecuting' = TRUE
          /\ toPlayer' = toPlayer \o GenerateScript(Cues[Top.next])
          /\ rounds' = SetTop([Top EXCEPT !.pc = "wait", !.halted = FALSE])
          /\ UNCHANGED <<running, mStopLooping>>
     ELSE /\ SetCueNotRunning
          /\ rounds' = SetTop([Top EXCEPT !.next = Top.next + 1])
          /\ UNCHANGED mCueExecuting
  /\ UNCHANGED <<playerVars, toSidecar, connected, nested, clicks, touched>>

\* executeCue returns.
WaitEnds ==
  /\ rounds # << >> /\ Top.pc = "wait"
  /\ connected => ~mCueExecuting
  /\ mCueExecuting' = FALSE
  /\ rounds' = SetTop([Top EXCEPT !.pc = "send", !.next = Top.next + 1])
  /\ IF connected THEN UNCHANGED <<running, toPlayer, mStopLooping>> ELSE SetCueNotRunning
  /\ UNCHANGED <<playerVars, toSidecar, connected, nested, clicks, touched>>

\* Looping, the test comes at the end of the list only.
LoopAgain ==
  /\ rounds # << >> /\ Top.pc = "send" /\ Top.kind = "loop"
  /\ Top.next > Len(Cues) /\ ~mStopLooping
  /\ rounds' = SetTop([Top EXCEPT !.next = 1])
  /\ UNCHANGED <<playerVars, toPlayer, toSidecar, connected, running, mStopLooping,
                 mCueExecuting, nested, clicks, touched>>

EndRound ==
  /\ rounds # << >> /\ Top.pc = "send"
  /\ \/ Top.kind = "execute" /\ (mStopLooping \/ Top.next > Len(Cues))
     \/ Top.kind = "loop" /\ mStopLooping /\ Top.next > Len(Cues)
  /\ SetCueNotRunning
  /\ rounds' = Front(rounds)
  /\ UNCHANGED <<playerVars, toSidecar, connected, mCueExecuting, nested, clicks, touched>>

\* checkBlockbusterData: whatever cue it was, the wait is over.
Receive ==
  /\ Responsive /\ connected /\ toSidecar # << >>
  /\ toSidecar' = Tail(toSidecar)
  /\ mCueExecuting' = (mCueExecuting /\ Head(toSidecar).mEventType # "MOVIE_CUE_COMPLETE")
  /\ UNCHANGED <<playerVars, toPlayer, connected, rounds, running, mStopLooping, nested,
                 clicks, touched>>

\* disconnected: the player has ended.
LosePlayer ==
  /\ Responsive /\ connected /\ done
  /\ connected' = FALSE
  /\ toSidecar' = << >>
  /\ UNCHANGED <<playerVars, toPlayer, sidecarVars, clicks, touched>>

Click ==
  \/ \E kind \in {"execute", "loop"} : ClickExecute(kind)
  \/ ClickStop
  \/ StopButton
  \/ OtherButton
  \/ Disconnect

SidecarStep == ExecuteCue \/ WaitEnds \/ LoopAgain \/ EndRound \/ Receive \/ LosePlayer

Next == PlayerStep \/ SidecarStep \/ Click

Spec == Init /\ [][Next]_vars

\* The player's loop and sidecar's event loop go on; the user need do nothing.
FairSpec == Spec /\ WF_vars(PlayerStep) /\ WF_vars(SidecarStep)

-------------------------------------------------------------------------------
(* Properties *)

(* The types of the variables. *)
TypeOK ==
  /\ script \in Seq(Events) /\ events \in Seq(Events)
  /\ renderer \in BOOLEAN /\ position \in Positions
  /\ cuePlaying \in BOOLEAN /\ cueEndFrame \in Int /\ done \in BOOLEAN
  /\ toPlayer \in Seq(Events) /\ toSidecar \in Seq(Events) /\ connected \in BOOLEAN
  /\ rounds \in Seq([kind : {"execute", "loop"}, next : Nat \ {0}, pc : {"send", "wait"},
                     stopped : BOOLEAN, halted : BOOLEAN])
  /\ running \in BOOLEAN /\ mStopLooping \in BOOLEAN /\ mCueExecuting \in BOOLEAN
  /\ clicks \in Nat /\ seen \in 0 .. MaxSeen
  /\ touched \in BOOLEAN /\ bare \in BOOLEAN /\ nested \in BOOLEAN

(* The frame that is rendered is always one of the movie's: "we do the right thing here", says
   DisplayLoop before it reads the frame with GetFrameInfoPtr.  A range that ends beyond the
   movie refutes it: SetStartEndFrames clips the start of a range and not its end. *)
FrameExists == renderer => position.cur \in 0 .. position.last

(* What does hold, whatever events arrive in whatever order, with any range, also one that has
   just been changed under the current frame, and whichever movie is opened while another
   plays: the range starts in the movie and the frame is not beyond the end of the range.  So
   a range that ends beyond the movie is the only way to a frame that is missing, and a range
   inside it, or another movie, is a way back. *)
FrameInRange == renderer => InRange(position)

HowMany(type, es) == Cardinality({i \in DOMAIN es : es[i].mEventType = type})

(* Sidecar waits for exactly the cue that is under way: it is on its way to the player, or
   in the queue of the player's loop, or played, or its completion is on its way back, and
   in one of these places only.  So the next cue is never sent while one is still playing,
   and no completion is lost or left over for a later cue.  It holds until a cue ends in a
   player without a movie, or a round is started over one that still waits. *)
InStep ==
  connected /\ ~done /\ ~bare /\ ~nested =>
    HowMany("MOVIE_CUE_END", toPlayer) + HowMany("MOVIE_CUE_END", events)
      + (IF cuePlaying THEN 1 ELSE 0) + HowMany("MOVIE_CUE_COMPLETE", toSidecar)
    = IF mCueExecuting THEN 1 ELSE 0

\* The cue that sidecar waits for, and the last frame of its range in the movie that is open
TopCue == Cues[Top.next]
LastFrameOf(c) == IF c.end = -1 THEN position.last ELSE c.end

\* A cue that opens its movie and plays forward from a frame of its range, a range of the movie
PlaysForward(c) ==
  /\ c.movie # NoMovie /\ c.play /\ ~c.backward /\ Frames[c.movie] > 0
  /\ 0 <= c.start /\ c.start <= c.current /\ c.current <= LastFrameOf(c)
  /\ c.start < LastFrameOf(c) /\ c.end < Frames[c.movie]

\* Repeating a range that starts after frame 1 stops at once: it wraps to frame 0.
Passes(c) == IF c.repeats > 0 /\ ~c.pingpong /\ c.start <= 1 THEN c.repeats + 1 ELSE 1

(* A cue that opens its movie and plays it forward is not completed before its last frame
   has been shown, as often as it repeats. *)
PlayedOut ==
  [][ /\ HowMany("MOVIE_CUE_COMPLETE", toSidecar') > HowMany("MOVIE_CUE_COMPLETE", toSidecar)
      /\ ~touched' /\ ~bare'
      /\ rounds # << >> /\ Top.pc = "wait" /\ PlaysForward(TopCue)
      => seen >= Passes(TopCue) ]_vars

(* Once the user has stopped a round of cues, no other cue of that round is sent, though
   mStopLooping is one flag for all rounds on the stack.  (Looping goes on to the end of the
   list: on_loopCuesButton_clicked tests the flag once in a turn.) *)
StopEndsRound ==
  [][ Len(toPlayer') > Len(toPlayer) + 1 => ~(Top.kind = "execute" /\ Top.stopped) ]_vars

\* A cue that ends by itself: a range of more than one frame, repeated a number of times
EndsByItself(c) ==
  /\ c.repeats >= 0
  /\ c.pingpong => c.end # -1
  /\ c.end # -1 => c.start < c.end
  /\ \A m \in Movies : Frames[m] > 0 => c.start < Frames[m] - 1

\* Between two waits there is always a step with Top.pc = "send".
AwaitsItsEnd ==
  rounds # << >> /\ Top.pc = "wait" /\ (EndsByItself(TopCue) \/ Top.halted)

(* Sidecar does not wait for ever: a cue that comes to an end is completed, and any cue is
   once the user has stopped it, whatever was played before it, whatever else the user does
   at the player, and when the connection is lost. *)
WaitsEnd == AwaitsItsEnd ~> ~AwaitsItsEnd
===============================================================================
