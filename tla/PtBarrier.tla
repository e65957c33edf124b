------------------------------ MODULE PtBarrier ------------------------------
(***************************************************************************)
(* What a gate of the pt library promises (pt_gate_intro.3): a thread that *)
(* calls pt_gate_sync blocks until enough have done so to make a group;     *)
(* then the group passes, and no thread of the next one comes in before the *)
(* last of them is out.                                                      *)
(***************************************************************************)

CONSTANTS
  Threads,
  Groups     \* the sets of threads that pass together

VARIABLES
  arrived,   \* the threads that wait for the others
  leaving    \* the threads that may go, and have not gone yet

bvars == <<arrived, leaving>>

Init == arrived = {} /\ leaving = {}

Arrive(t) ==
  /\ t \notin arrived
  /\ leaving = {}
  /\ arrived \cup {t} \notin Groups
  /\ arrived' = arrived \cup {t}
  /\ UNCHANGED leaving

\* The last of a group arrives, passes, and lets the others go.
Open(t) ==
  /\ t \notin arrived
  /\ leaving = {}
  /\ arrived \cup {t} \in Groups
  /\ arrived' = {}
  /\ leaving' = arrived

Leave(t) ==
  /\ t \in leaving
  /\ leaving' = leaving \ {t}
  /\ UNCHANGED arrived

Next == \E t \in Threads : Arrive(t) \/ Open(t) \/ Leave(t)

Spec == Init /\ [][Next]_bvars

===============================================================================
