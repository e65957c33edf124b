------------------------------ MODULE MCCuePlay ------------------------------
(* CuePlay with two movies and one that cannot be opened, and four cues: one that opens its
   movie and repeats it, one that goes back and forth in what is open, one that plays that
   backward, and one that stays on a frame of the other movie until it is stopped. *)
EXTENDS CuePlay

CONSTANTS m1, m2, gone

MCFrames == (m1 :> 4) @@ (m2 :> 3) @@ (gone :> 0)

Cue(movie, current, start, end, repeats, pingpong, backward) ==
  [movie |-> movie, play |-> TRUE, backward |-> backward, current |-> current,
   start |-> start, end |-> end, repeats |-> repeats, pingpong |-> pingpong]

MCCues ==
  << Cue(m1, 1, 1, 2, 1, FALSE, FALSE),
     Cue(NoMovie, 0, 0, 2, 0, TRUE, FALSE),
     Cue(NoMovie, 2, 1, 2, 1, FALSE, TRUE),
     Cue(m2, 2, 2, 2, 0, FALSE, FALSE) >>

MCScripts == {<< >>, << m2 >>, << gone >>}

MCUserEvents ==
  {Plain("MOVIE_PAUSE"), Plain("MOVIE_PLAY_BACKWARD"), Plain("MOVIE_GOTO_END"),
   Plain("MOVIE_QUIT"), Open(m2), Event("MOVIE_START_END_FRAMES", 0, 1, 5, NoMovie)}
==============================================================================
