-------------------------------- MODULE MCDfc --------------------------------
(* Dfc with two nodes and blocks of two bytes: connections of which one reads and writes
   across the blocks of both nodes, and one on the other node that writes in between; and what is
   asked, in the other runs, that the code does not do right. *)
EXTENDS Dfc, TLC

CONSTANTS a, b

MCHome == (a :> 0) @@ (b :> 1)
MCSock == (a :> 5) @@ (b :> 6)

\* The socket of the second one has the number that the other one has at the other node.
MCOneSock == (a :> 5) @@ (b :> 5)

Ask(command, location, length) ==
  [command |-> command, location |-> location, length |-> length, key |-> TRUE]

AskOpen == Ask("OPEN", 0, 0)
WrongKey == [command |-> "OPEN", location |-> 0, length |-> 0, key |-> FALSE]

MCRequests ==
  (a :> {AskOpen, Ask("READ", 1, 4), Ask("WRITE", 1, 4), Ask("KILL", 0, 0)}) @@
  (b :> {AskOpen, WrongKey, Ask("WRITE", 1, 1), Ask("STAT", 0, 0), Ask("CLOSE", 0, 0)})

\* A read of two whole blocks
MCAligned == (a :> {AskOpen, Ask("READ", 0, 4)}) @@ (b :> {})

\* A write at one node, of a byte of each, and a read at the other
MCCrossing == (a :> {AskOpen, Ask("WRITE", 1, 2)}) @@ (b :> {AskOpen, Ask("READ", 0, 1)})
==============================================================================
