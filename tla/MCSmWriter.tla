------------------------------ MODULE MCSmWriter ------------------------------
(* SmWriter for movies whose last buffer is full (four frames) or not (five). *)
EXTENDS SmWriter

CONSTANTS w1, w2, w3

MCWorkers == {w1, w2, w3}

Movie(n, at(_, _)) == [f \in 0 .. n - 1 |-> [r \in Resolutions |-> at(f, r)]]

\* Frames that shrink with the resolution, some of them to nothing, and a movie whose
\* second frame grows, with more frames to come.
MCMovies ==
  {Movie(n, LAMBDA f, r : IF r = 0 THEN 1 + (f % 2) ELSE (f + 1) % 2) : n \in {4, 5}}
    \cup {Movie(4, LAMBDA f, r : IF r = 1 /\ f = 1 THEN 3 ELSE 1)}

===============================================================================
