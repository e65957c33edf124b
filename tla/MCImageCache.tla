------------------------------ MODULE MCImageCache ------------------------------
(***************************************************************************)
(* Instances of the image cache for TLC.                                   *)
(***************************************************************************)
EXTENDS ImageCache

\* The range of a uint32_t, small: the frames stay far below it.
MCWord == 16

\* Two overlapping ways to look at a frame: its left part, and all of it.
MCCells == {"left", "right"}
MCRegions == {{"left"}, {"left", "right"}}

Forward == {1}
BothWays == {1, -1}
Backward == {-1}

\* A movie playing forward in a loop: each frame is asked for once, in order,
\* in the same region.
NextShown == IF calls = 0 THEN StartFrame
             ELSE IF curFrame = EndFrame THEN StartFrame ELSE curFrame + 1

ShowNext ==
  \E region \in Regions, lod \in Lods, preload \in PreloadFlags, dir \in Directions :
    GetImage(NextShown, region, lod, preload, dir)

PlayNext ==
  \/ Construct
  \/ BeginDestroy
  \/ ShowNext
  \/ MainStep
  \/ \E t \in Threads : WorkerStep(t)

PlaySpec == Init /\ [][PlayNext]_vars

===============================================================================
