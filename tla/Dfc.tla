--------------------------------- MODULE Dfc ---------------------------------
(***************************************************************************)
(* The distributed file cache (src/sm/smdfc): a file in the memory of the     *)
(* nodes of an MPI job, striped over them by blocks.  Applications reach the   *)
(* server of their node through a socket (smdfc.c).  There each connection has  *)
(* a handler thread, which puts its command in the list of the node and sleeps;  *)
(* the main thread of the node sends it to all the others, collects their parts,  *)
(* and serves the commands of the others, one at a time (smserv.c).                *)
(*                                                                         *)
(* MPI keeps the order of messages with one source, destination and tag, and        *)
(* of nothing else, and gives them in turn to the receives posted for them: commands  *)
(* have a tag of their own, data have the number of the socket at the node where the   *)
(* command comes from.  A send may be over as soon as it begins, or only when the       *)
(* message has been received.                                                            *)
(*                                                                         *)
(* A byte of the file is the write it comes from and its place.  A pass of the main       *)
(* loop is cut into its steps.                                                             *)
(***************************************************************************)
EXTENDS Integers, FiniteSets, Sequences, SequencesExt, FiniteSetsExt

CONSTANTS
  N,            \* max_rank, the number of nodes
  BlockSize,    \* blocksize, a block of the stripes
  MaxSize,      \* max_size, the length of the file
  Preloaded,    \* how much of it is read from a file at the start
  Conns,        \* the connections, each one socket of a node
  Home,         \* the node it leads to
  Sock,         \* the number of its socket there
  Requests,     \* what the application at a connection asks for
  MaxCommands   \* how many commands there are

Nodes == 0 .. N - 1
Tags == {Sock[c] : c \in Conns}
Positions == 0 .. MaxSize - 1

Orders == {"OPEN", "CLOSE", "READ", "WRITE", "STAT", "KILL"}

\* The key is the right one for OPEN, the range is for READ and WRITE.
Asks == [command : Orders, location : Nat, length : Nat, key : BOOLEAN]

ASSUME DfcAssumption ==
  /\ N \in Nat \ {0} /\ BlockSize \in Nat \ {0} /\ MaxSize \in Nat /\ MaxCommands \in Nat
  /\ Preloaded \in 0 .. MaxSize
  /\ IsFiniteSet(Conns) /\ Home \in [Conns -> Nodes] /\ Sock \in [Conns -> Nat]
  /\ \A c, d \in Conns : c # d /\ Home[c] = Home[d] => Sock[c] # Sock[d]
  /\ Requests \in [Conns -> SUBSET Asks]

-------------------------------------------------------------------------------
(* Which part of a request is on which node.  Where the sizes are counted wrong, a buffer that
   is made for the size may be overrun; only what is read or written inside the file is kept. *)

Block(p) == p \div BlockSize
RankOf(p) == Block(p) % N

\* get_node_buffer_offset, and the place in the block
PlaceInBuffer(p) == (Block(p) \div N) * BlockSize + (p % BlockSize)

\* get_local_size
LocalSize == (MaxSize \div (BlockSize * N) + 1) * BlockSize

Covered(q) == q.location .. q.location + q.length - 1

\* get_local_req_size: how many bytes of the request are on node r.  In a request of several
\* blocks the first one is counted only if the request begins inside it.
ReqSize(q, r) ==
  LET end    == q.location + q.length
      block0 == Block(q.location)
      block1 == Block(end)
      first  == IF q.location % BlockSize > 0 /\ block0 % N = r
                THEN BlockSize - (q.location % BlockSize) ELSE 0
      last   == IF block1 % N = r THEN end % BlockSize ELSE 0
      whole  == {b \in block0 + 1 .. block1 - 1 : b % N = r}
  IN IF block0 = block1
     THEN (IF block0 % N = r THEN q.length ELSE 0)
     ELSE first + last + BlockSize * Cardinality(whole)

\* get_local_req_offset: where the part of node r begins in a buffer ordered by ranks
Sizes(q) == [r \in Nodes |-> ReqSize(q, r)]
ReqOffset(q, r) == SumFunctionOnSet(Sizes(q), 0 .. r - 1)

\* The bytes of the request on the node of p, before p: how far the loops of handle_command,
\* pack_buffer and unpack_buffer have come in the part of that node
Before(q, p) == Cardinality({o \in q.location .. p - 1 : RankOf(o) = RankOf(p)})

Junk == [from |-> "nobody", no |-> 0, at |-> -1]

\* pack_buffer: from the order of the file to that of the ranks.  What nothing is copied to
\* is as malloc left it.
Packed(q, bytes) ==
  LET Comes(i) == {p \in Covered(q) : ReqOffset(q, RankOf(p)) + Before(q, p) = i}
  IN [i \in 0 .. q.length - 1 |-> IF Comes(i) = {} THEN Junk ELSE bytes[Max(Comes(i))]]

\* Mutant of Unpacked: the buffer is taken to be in the order of the file.
UnpackedAsItIs(q, buffer) == [p \in Covered(q) |-> buffer[p - q.location]]

\* unpack_buffer: and back
Unpacked(q, buffer) ==
  [p \in Covered(q) |-> buffer[ReqOffset(q, RankOf(p)) + Before(q, p)]]

\* Mutant of Piece: what is done for the node itself is done for all.
PieceFromStart(q, buffer, r) == [i \in 0 .. ReqSize(q, r) - 1 |-> buffer[i]]

\* The part of the buffer that is sent to node r, and the buffer with a part put in
Piece(q, buffer, r) == [i \in 0 .. ReqSize(q, r) - 1 |-> buffer[ReqOffset(q, r) + i]]

WithPiece(buffer, at, piece) ==
  [i \in DOMAIN buffer |-> IF i - at \in DOMAIN piece THEN piece[i - at] ELSE buffer[i]]

\* The same with the parts that have come from other nodes
WithPieces(q, buffer, pieces) ==
  LET at(x) == {i \in DOMAIN pieces : x - ReqOffset(q, i) \in DOMAIN pieces[i]}
  IN [x \in DOMAIN buffer |->
        IF at(x) = {} THEN buffer[x]
        ELSE LET i == CHOOSE i \in at(x) : TRUE IN pieces[i][x - ReqOffset(q, i)]]

\* handle_command at node r, with the bytes of the request that are there
Here(q, r) == {p \in Covered(q) : RankOf(p) = r}

ReadHere(q, mem, r) ==
  [i \in 0 .. Cardinality(Here(q, r)) - 1 |->
     mem[PlaceInBuffer(CHOOSE p \in Here(q, r) : Before(q, p) = i)]]

\* What is sent of it to another node
Reply(q, mem, r) == [i \in 0 .. ReqSize(q, r) - 1 |-> ReadHere(q, mem, r)[i]]

\* Beyond the end of a piece is what was in the buffer before.
WriteHere(q, mem, r, piece) ==
  LET at(i) == IF i \in DOMAIN piece THEN piece[i] ELSE Junk IN
  [l \in DOMAIN mem |->
     IF \E p \in Here(q, r) : PlaceInBuffer(p) = l
     THEN at(Before(q, CHOOSE p \in Here(q, r) : PlaceInBuffer(p) = l))
     ELSE mem[l]]

\* MPI ends the program when a message is longer than the receive it meets; what is after that
\* is left out.
Fits(q, r, piece) == Cardinality(DOMAIN piece) <= ReqSize(q, r)

ToList == {"READ", "WRITE", "KILL"}

\* basecmd
Commands ==
  [command : ToList, location : Nat, length : Nat, srcrank : Nodes, sock_tag : Nat]

CommandOf(c, m) ==
  [command |-> m.command, location |-> m.location, length |-> m.length,
   srcrank |-> Home[c], sock_tag |-> Sock[c]]

(* What the code counts on, and nothing in it makes sure of: every byte of a request is
   counted (requests of several blocks that begin with a whole one are not); handle_cmdlist
   works on the beginning of the buffer for its own node, so the part of that node must be the
   first; and no two nodes use one number for their sockets, for data of one command would be
   taken for those of another.  The theorems have this as their hypothesis, and a run for each of
   the three shows what happens without it. *)
PartsAddUp(q) == \A r \in Nodes : ReqSize(q, r) = Cardinality(Here(q, r))
OwnPartFirst(q, r) == Here(q, r) = {} \/ ReqOffset(q, r) = 0
TagsApart == \A c, d \in Conns : c # d => Sock[c] # Sock[d]

RequestsAreServed ==
  /\ TagsApart
  /\ \A c \in Conns : \A m \in Requests[c] : LET q == CommandOf(c, m) IN
       PartsAddUp(q) /\ OwnPartFirst(q, Home[c])

-------------------------------------------------------------------------------
VARIABLES
  client,     \* the application at each connection
  up, down,   \* what the socket carries to the server, and back
  handler,    \* handle_proc of each connection
  thecmd,     \* its command, with the buffer and what the node still waits for
  cmdlist,    \* the list of each node
  isdying,    \* set by a KILL
  running,    \* the main loop has not been left
  file_size,  \* what each node takes for the length of the file
  memory,     \* buffer of each node
  server,     \* the command of another node that is served: cmd_status, cmd_buffer
  cmds,       \* commands from node to node
  data,       \* and data, from node to node under each tag
  posted,     \* the receives for data at each node, by source and tag, as they were posted: of
              \* the read of a connection, or of the command that is served
  issued,     \* how many commands the applications have sent
  unstored,   \* for the properties: bytes to write that are not yet in the memory they go to
  allowed     \* and the bytes the read of a connection may find

sockets  == << client, up, down >>
handlers == << handler, thecmd, cmdlist, file_size >>
nodes    == << isdying, running, memory, server >>
network  == << cmds, data, posted >>
history  == << unstored, allowed >>
vars == << sockets, handlers, nodes, network, issued, history >>

\* Where a handler is: it does not run, waits for its socket, waits for its command to be done,
\* answers, or is about to set the length of the file.
Places == {"none", "select", "posted", "answer", "lengthen"}

\* What an application sends: the header, the location and the bytes, told apart by the number
\* of the write
Calls == [command : Orders, location : Nat, length : Nat, key : BOOLEAN, no : Nat]

Call(q, no) ==
  [command |-> q.command, location |-> q.location, length |-> q.length, key |-> q.key, no |-> no]

Kill == [command |-> "KILL", location |-> 0, length |-> 0, srcrank |-> 0, sock_tag |-> 0]

Idle == [cmd |-> Kill, buffer |-> << >>, status |-> "COMPLETE", work |-> [i \in Nodes |-> {}]]
Listening == [status |-> "listen", cmd |-> Kill]

PreloadedByte(r, l) ==
  [from |-> "file", no |-> 0,
   at |-> ((l \div BlockSize) * N + r) * BlockSize + (l % BlockSize)]

Init ==
  /\ client = [c \in Conns |-> "closed"]
  /\ up = [c \in Conns |-> << >>]
  /\ down = [c \in Conns |-> << >>]
  /\ handler = [c \in Conns |-> "none"]
  /\ thecmd = [c \in Conns |-> Idle]
  /\ cmdlist = [n \in Nodes |-> << >>]
  /\ isdying = [n \in Nodes |-> FALSE]
  /\ running = [n \in Nodes |-> TRUE]
  /\ file_size = [n \in Nodes |-> Preloaded]
  /\ memory = [n \in Nodes |-> [l \in 0 .. LocalSize - 1 |-> PreloadedByte(n, l)]]
  /\ server = [n \in Nodes |-> Listening]
  /\ cmds = [a \in Nodes |-> [b \in Nodes |-> << >>]]
  /\ data = [a \in Nodes |-> [b \in Nodes |-> [t \in Tags |-> << >>]]]
  /\ posted = [a \in Nodes |-> [b \in Nodes |-> [t \in Tags |-> << >>]]]
  /\ issued = 0
  /\ unstored = [c \in Conns |-> {}]
  /\ allowed = [c \in Conns |-> << >>]

-------------------------------------------------------------------------------
(* The application (smdfc.c) *)

\* It asks for q, or could, were it not for the bound.
Asked(c, q, commands) == q \in Requests[c] /\ q.command \in commands /\ issued < MaxCommands

Sends(c, q) ==
  /\ issued' = issued + 1
  /\ up' = [up EXCEPT ![c] = Append(@, Call(q, issued'))]

\* smdfs_open: the accept thread of a node that is not dying makes a handler.
Open(c, q) ==
  /\ Asked(c, q, {"OPEN"})
  /\ client[c] = "closed" /\ handler[c] = "none" /\ ~isdying[Home[c]]
  /\ Sends(c, q)
  /\ client' = [client EXCEPT ![c] = "open"]
  /\ handler' = [handler EXCEPT ![c] = "select"]
  /\ UNCHANGED << down, thecmd, cmdlist, file_size, nodes, network, history >>

\* send_command, to a server that has not closed the socket.  A write is not answered; a read
\* is, and smdfs_lseek64 from the end, which asks for the length of the file.
Command(c, q) ==
  /\ Asked(c, q, {"READ", "WRITE", "STAT"})
  /\ client[c] = "open" /\ handler[c] # "none"
  /\ q.location + q.length <= MaxSize
  /\ Sends(c, q)
  /\ client' = [client EXCEPT ![c] = IF q.command = "WRITE" THEN "open" ELSE "waiting"]
  /\ UNCHANGED << down, handlers, nodes, network, history >>

\* smdfs_close and smdfs_kill
Close(c, q) ==
  /\ Asked(c, q, {"CLOSE", "KILL"})
  /\ client[c] = "open"
  /\ client' = [client EXCEPT ![c] = "closed"]
  /\ IF handler[c] = "none" THEN UNCHANGED << up, issued >> ELSE Sends(c, q)
  /\ UNCHANGED << down, handlers, nodes, network, history >>

\* The answer has been read, or the server has closed the socket without one.
Answered(c) ==
  /\ client[c] = "waiting"
  /\ down[c] # << >> \/ handler[c] = "none"
  /\ client' = [client EXCEPT ![c] = "open"]
  /\ down' = [down EXCEPT ![c] = << >>]
  /\ allowed' = [allowed EXCEPT ![c] = << >>]
  /\ UNCHANGED << up, handlers, nodes, network, issued, unstored >>

-------------------------------------------------------------------------------
(* The handler of a connection (handle_proc) *)

\* The loop goes on, with what is left on the socket, unless it is to close or the node dies.
Loop(c, localclose, rest) ==
  LET ends == localclose \/ isdying[Home[c]] IN
  /\ handler' = [handler EXCEPT ![c] = IF ends THEN "none" ELSE "select"]
  /\ up' = [up EXCEPT ![c] = IF ends THEN << >> ELSE rest]

\* The select that is under way when the node begins to die may still bring a command.
Takes(c, commands) ==
  /\ handler[c] = "select" /\ up[c] # << >>
  /\ Head(up[c]).command \in commands

TakeOpen(c) ==
  /\ Takes(c, {"OPEN", "CLOSE"})
  /\ Loop(c, Head(up[c]).command = "CLOSE" \/ ~Head(up[c]).key, Tail(up[c]))
  /\ UNCHANGED << client, down, thecmd, cmdlist, file_size, nodes, network, issued, history >>

TakeStat(c) ==
  /\ Takes(c, {"STAT"})
  /\ down' = [down EXCEPT ![c] = << [size |-> file_size[Home[c]]] >>]
  /\ Loop(c, FALSE, Tail(up[c]))
  /\ UNCHANGED << client, thecmd, cmdlist, file_size, nodes, network, issued, history >>

\* What a read that begins now may find at p: what is there, unless something else is on its
\* way there from the same connection
MayFind(c, p) ==
  IF \E b \in unstored[c] : b.at = p THEN {}
  ELSE {memory[RankOf(p)][PlaceInBuffer(p)]}

\* READ, WRITE and KILL are put at the end of the list.
Post(c) ==
  LET m == Head(up[c])
      q == CommandOf(c, m)
      bytes == [p \in Covered(q) |-> [from |-> c, no |-> m.no, at |-> p]]
  IN
  /\ Takes(c, ToList)
  /\ handler' = [handler EXCEPT ![c] = "posted"]
  /\ up' = [up EXCEPT ![c] = Tail(@)]
  /\ thecmd' = [thecmd EXCEPT ![c] =
       [cmd |-> q, status |-> "PENDING", work |-> [i \in Nodes |-> {}],
        buffer |-> IF q.command = "WRITE" THEN Packed(q, bytes)
                   ELSE [i \in 0 .. q.length - 1 |-> Junk]]]
  /\ cmdlist' = [cmdlist EXCEPT ![Home[c]] = Append(@, c)]
  /\ unstored' = [unstored EXCEPT ![c] =
       IF q.command = "WRITE" THEN @ \cup {bytes[p] : p \in Covered(q)} ELSE @]
  /\ allowed' = [allowed EXCEPT ![c] =
       IF q.command = "READ" THEN [p \in Covered(q) |-> MayFind(c, p)] ELSE @]
  /\ UNCHANGED << client, down, file_size, nodes, network, issued >>

\* Where the command of c is in the list of its node
PlaceInList(c) == CHOOSE k \in DOMAIN cmdlist[Home[c]] : cmdlist[Home[c]][k] = c

\* The command is complete: it is taken out of the list,
TakeOut(c) ==
  /\ handler[c] = "posted" /\ thecmd[c].status = "COMPLETE"
  /\ handler' = [handler EXCEPT ![c] = "answer"]
  /\ cmdlist' = [cmdlist EXCEPT ![Home[c]] = RemoveAt(@, PlaceInList(c))]
  /\ UNCHANGED << client, up, down, thecmd, file_size, nodes, network, issued, history >>

\* Where the request of c ends
End(c) == thecmd[c].cmd.location + thecmd[c].cmd.length

GoesOn(c, localclose) ==
  /\ thecmd' = [thecmd EXCEPT ![c] = Idle]
  /\ Loop(c, localclose, up[c])

\* and, with the list unlocked, a read is answered; for a write the length of the file is
\* looked at,
Answer(c) ==
  LET q == thecmd[c].cmd
      longer == q.command = "WRITE" /\ End(c) > file_size[Home[c]]
  IN
  /\ handler[c] = "answer"
  /\ down' = [down EXCEPT ![c] =
       IF q.command = "READ" THEN << Unpacked(q, thecmd[c].buffer) >> ELSE @]
  /\ IF longer
     THEN handler' = [handler EXCEPT ![c] = "lengthen"] /\ UNCHANGED << thecmd, up >>
     ELSE GoesOn(c, q.command = "KILL")
  /\ UNCHANGED << client, cmdlist, file_size, nodes, network, issued, history >>

\* and set, whatever another handler of the node has made of it.
Lengthen(c) ==
  /\ handler[c] = "lengthen"
  /\ file_size' = [file_size EXCEPT ![Home[c]] = End(c)]
  /\ GoesOn(c, FALSE)
  /\ UNCHANGED << client, down, cmdlist, nodes, network, issued, history >>

\* The select of a dying node times out.
Dies(c) ==
  /\ handler[c] = "select" /\ isdying[Home[c]]
  /\ Loop(c, FALSE, << >>)
  /\ UNCHANGED << client, down, thecmd, cmdlist, file_size, nodes, network, issued, history >>

-------------------------------------------------------------------------------
(* The main loop of a node *)

\* What the properties remember when node r has stored its part of q
Stored(q, r) ==
  LET stored == [p \in Here(q, r) |-> memory'[r][PlaceInBuffer(p)]] IN
  /\ unstored' = [c \in Conns |-> unstored[c] \ {stored[p] : p \in Here(q, r)}]
  /\ allowed' = [c \in Conns |-> [p \in DOMAIN allowed[c] |->
       CASE p \notin Here(q, r) -> allowed[c][p]
         [] p \in Here(q, r) /\ stored[p].from = c -> {stored[p]}
         [] OTHER -> allowed[c][p] \cup {stored[p]}]]

\* Mutant of Obeys: only the node that is told to by its own client dies.
ObeysItsOwn(n, q) ==
  isdying' = [isdying EXCEPT ![n] = @ \/ (q.command = "KILL" /\ q.srcrank = n)]

\* A KILL ends the loops of the node that does it, or receives it.
Obeys(n, q) == isdying' = [isdying EXCEPT ![n] = @ \/ q.command = "KILL"]

\* handle_cmdlist, a new command: it goes to every other node, a write with its data, and
\* the node does its own part with the beginning of the buffer.
Start(c) ==
  LET n == Home[c]
      q == thecmd[c].cmd
      buffer == thecmd[c].buffer
  IN
  /\ running[n] /\ handler[c] = "posted" /\ thecmd[c].status = "PENDING"
  /\ \E k \in DOMAIN cmdlist[n] :
       /\ cmdlist[n][k] = c
       /\ \A j \in 1 .. k - 1 : thecmd[cmdlist[n][j]].status # "PENDING"
  /\ cmds' = [cmds EXCEPT ![n] = [i \in Nodes |-> IF i = n THEN @[i] ELSE Append(@[i], q)]]
  /\ data' = IF q.command # "WRITE" THEN data ELSE
       [data EXCEPT ![n] = [i \in Nodes |-> [t \in Tags |->
         IF i # n /\ t = q.sock_tag THEN Append(@[i][t], Piece(q, buffer, i)) ELSE @[i][t]]]]
  /\ posted' = IF q.command # "READ" THEN posted ELSE
       [posted EXCEPT ![n] = [i \in Nodes |-> [t \in Tags |->
         IF i # n /\ t = q.sock_tag THEN Append(@[i][t], c) ELSE @[i][t]]]]
  /\ thecmd' = [thecmd EXCEPT ![c] =
       [cmd |-> q, status |-> "WORKING",
        buffer |-> IF q.command = "READ"
                   THEN WithPiece(buffer, 0, ReadHere(q, memory[n], n)) ELSE buffer,
        work |-> [i \in Nodes |-> CASE i = n -> {}
                                    [] i # n /\ q.command = "KILL" -> {"cmd"}
                                    [] OTHER -> {"cmd", "data"}]]]
  /\ Obeys(n, q)
  /\ IF q.command = "WRITE"
     THEN /\ memory' = [memory EXCEPT ![n] = WriteHere(q, @, n, buffer)]
          /\ Stored(q, n)
     ELSE UNCHANGED << memory, history >>
  /\ UNCHANGED << sockets, handler, cmdlist, file_size, running, server, issued >>

\* The requests that are not over: << node, "cmd" or "data" >>
Outstanding(c) == {w \in Nodes \X {"cmd", "data"} : w[2] \in thecmd[c].work[w[1]]}

\* Data of the tag of c have come from node i, and meet its receive.
Arrived(c, i) ==
  data[i][Home[c]][Sock[c]] # << >> /\ Head(posted[Home[c]][i][Sock[c]]) = c

\* Nothing that was sent with the tag of c is left in the channel.
Received(c, w) ==
  IF w[2] = "data" THEN data[Home[c]][w[1]][Sock[c]] = << >>
  ELSE \A k \in DOMAIN cmds[Home[c]][w[1]] : cmds[Home[c]][w[1]][k].sock_tag # Sock[c]

\* handle_cmdlist, a command under way: the requests of over are tested and found over, and
\* if none is left the command is complete.
Progress(c, over) ==
  LET n == Home[c]
      q == thecmd[c].cmd
      arriving == {i \in Nodes : q.command = "READ" /\ << i, "data" >> \in over}
      pieces == [i \in arriving |-> Head(data[i][n][q.sock_tag])]
  IN
  /\ running[n] /\ handler[c] = "posted" /\ thecmd[c].status = "WORKING"
  /\ over \subseteq Outstanding(c)
  /\ \A i \in arriving : Arrived(c, i) /\ Fits(q, i, pieces[i])
  /\ thecmd' = [thecmd EXCEPT ![c] =
       [cmd |-> q,
        buffer |-> WithPieces(q, thecmd[c].buffer, pieces),
        work |-> [i \in Nodes |-> {w \in thecmd[c].work[i] : << i, w >> \notin over}],
        status |-> IF over = Outstanding(c) THEN "COMPLETE" ELSE "WORKING"]]
  /\ data' = [i \in Nodes |-> [j \in Nodes |-> [t \in Tags |->
       IF i \in arriving /\ j = n /\ t = q.sock_tag THEN Tail(data[i][j][t]) ELSE data[i][j][t]]]]
  /\ posted' = [posted EXCEPT ![n] = [i \in Nodes |-> [t \in Tags |->
       IF i \in arriving /\ t = q.sock_tag THEN Tail(@[i][t]) ELSE @[i][t]]]]
  /\ UNCHANGED << sockets, handler, cmdlist, file_size, nodes, cmds, issued, history >>

\* What must be found over: data that have arrived, and sends that have been received
Over(c) ==
  {w \in Outstanding(c) : IF w[2] = "data" /\ thecmd[c].cmd.command = "READ"
                          THEN Arrived(c, w[1]) ELSE Received(c, w)}

\* A command of another node: a read is answered with what is here, for a write the data are
\* awaited.
TakeCommand(n, src) ==
  LET q == Head(cmds[src][n]) IN
  /\ running[n] /\ server[n].status = "listen" /\ cmds[src][n] # << >>
  /\ cmds' = [cmds EXCEPT ![src][n] = Tail(@)]
  /\ Obeys(n, q)
  /\ server' = [server EXCEPT ![n] =
       CASE q.command = "READ"  -> [status |-> "reply", cmd |-> q]
         [] q.command = "WRITE" -> [status |-> "receive", cmd |-> q]
         [] OTHER -> Listening]
  /\ data' = IF q.command # "READ" THEN data ELSE
       [data EXCEPT ![n][q.srcrank][q.sock_tag] =
         Append(@, Reply(q, memory[n], n))]
  /\ posted' = IF q.command # "WRITE" THEN posted ELSE
       [posted EXCEPT ![n][q.srcrank][q.sock_tag] = Append(@, "server")]
  /\ UNCHANGED << sockets, handlers, running, memory, issued, history >>

\* Mutant of ListenAgain: cmd_status is left at, or set to, the value of a reply under way.
StayServing(n) == server' = [server EXCEPT ![n].status = "reply"]

\* The command is done, and a receive for the next one is posted.
ListenAgain(n) == server' = [server EXCEPT ![n] = Listening]

\* The data for the write that node n serves have come.
DataCame(n) ==
  LET q == server[n].cmd IN
  /\ server[n].status = "receive"
  /\ data[q.srcrank][n][q.sock_tag] # << >> /\ Head(posted[n][q.srcrank][q.sock_tag]) = "server"

\* They are stored.
StoreData(n) ==
  LET q == server[n].cmd
      channel == data[q.srcrank][n][q.sock_tag]
  IN
  /\ running[n] /\ DataCame(n) /\ Fits(q, n, Head(channel))
  /\ memory' = [memory EXCEPT ![n] = WriteHere(q, @, n, Head(channel))]
  /\ Stored(q, n)
  /\ data' = [data EXCEPT ![q.srcrank][n][q.sock_tag] = Tail(@)]
  /\ posted' = [posted EXCEPT ![n][q.srcrank][q.sock_tag] = Tail(@)]
  /\ ListenAgain(n)
  /\ UNCHANGED << sockets, handlers, isdying, running, cmds, issued >>

\* The reply has been sent.
ReplySent(n) ==
  /\ running[n] /\ server[n].status = "reply"
  /\ ListenAgain(n)
  /\ UNCHANGED << sockets, handlers, isdying, running, memory, network, issued, history >>

\* The loop ends when the node is dying and its list is empty.
Leave(n) ==
  /\ running[n] /\ isdying[n] /\ cmdlist[n] = << >>
  /\ running' = [running EXCEPT ![n] = FALSE]
  /\ UNCHANGED << sockets, handlers, isdying, memory, server, network, issued, history >>

-------------------------------------------------------------------------------
ClientStep(c) ==
  \/ \E q \in Requests[c] : Open(c, q) \/ Command(c, q) \/ Close(c, q)
  \/ Answered(c)

HandlerStep(c) ==
  \/ TakeOpen(c) \/ TakeStat(c) \/ Post(c) \/ Dies(c)
  \/ TakeOut(c) \/ Answer(c) \/ Lengthen(c)

NodeStep(n) ==
  \/ \E c \in Conns : Home[c] = n /\ (Start(c) \/ \E over \in SUBSET Outstanding(c) : Progress(c, over))
  \/ \E src \in Nodes : TakeCommand(n, src)
  \/ StoreData(n) \/ ReplySent(n) \/ Leave(n)

Next ==
  \/ \E c \in Conns : ClientStep(c) \/ HandlerStep(c)
  \/ \E n \in Nodes : NodeStep(n)

Spec == Init /\ [][Next]_vars

\* What a node does when no send is over before its message has been received
ReplyReceived(n) ==
  LET q == server[n].cmd IN
  server[n].status = "reply" /\ data[n][q.srcrank][q.sock_tag] = << >> /\ ReplySent(n)

MustStep(n) ==
  \/ \E c \in Conns : Home[c] = n /\ (Start(c) \/ Progress(c, Over(c)))
  \/ \E src \in Nodes : TakeCommand(n, src)
  \/ StoreData(n) \/ ReplyReceived(n) \/ Leave(n)

\* As long as a handler or a node has something to do, something is done; applications need
\* do nothing.  (Commands are bounded, so this is enough and no thread is singled out.)
ServerStep == (\E c \in Conns : HandlerStep(c)) \/ (\E n \in Nodes : MustStep(n))

FairSpec == Spec /\ WF_vars(ServerStep)

-------------------------------------------------------------------------------
(* Properties *)

(* The types of the variables. *)
TypeOK ==
  /\ client \in [Conns -> {"closed", "open", "waiting"}]
  /\ up \in [Conns -> Seq(Calls)]
  /\ handler \in [Conns -> Places]
  /\ DOMAIN thecmd = Conns
  /\ \A c \in Conns :
       /\ thecmd[c].cmd \in Commands
       /\ thecmd[c].status \in {"PENDING", "WORKING", "COMPLETE"}
       /\ thecmd[c].work \in [Nodes -> SUBSET {"cmd", "data"}]
  /\ cmdlist \in [Nodes -> Seq(Conns)]
  /\ isdying \in [Nodes -> BOOLEAN] /\ running \in [Nodes -> BOOLEAN]
  /\ file_size \in [Nodes -> Nat]
  /\ server \in [Nodes -> [status : {"listen", "reply", "receive"}, cmd : Commands]]
  /\ cmds \in [Nodes -> [Nodes -> Seq(Commands)]]
  /\ issued \in Nat

(* A read finds, byte for byte, what the file held at some time since its handler took it,
   and never less than what was sent on its own connection before; though the parts come from
   nodes that serve other commands in between, a write is not acknowledged, and its data
   are sent after its command on a channel of their own. *)
ReadIsCurrent ==
  \A c \in Conns : down[c] # << >> /\ DOMAIN allowed[c] # {} =>
    \A p \in DOMAIN allowed[c] : down[c][1][p] \in allowed[c][p]

\* A message holds the bytes of the request that belong on node n, in their order.
IsPart(q, n, piece) ==
  /\ DOMAIN piece = 0 .. Cardinality(Here(q, n)) - 1
  /\ \A p \in Here(q, n) : piece[Before(q, p)].at = p

(* The data that a node receives are those of the command it receives them for: they have
   its length (MPI ends the program when they are longer) and belong where it puts them, though
   nothing in them says so, and commands and data, of several connections and both
   directions, are matched by order and tag only. *)
DataMatchCommand ==
  /\ \A n \in Nodes : LET q == server[n].cmd IN
       DataCame(n) => IsPart(q, n, Head(data[q.srcrank][n][q.sock_tag]))
  /\ \A c \in Conns, i \in Nodes :
       thecmd[c].cmd.command = "READ" /\ "data" \in thecmd[c].work[i] /\ Arrived(c, i)
         => IsPart(thecmd[c].cmd, i, Head(data[i][Home[c]][Sock[c]]))

\* The command of a connection is not done, or what it wrote is not all in the file.
Busy(c) == handler[c] \in {"posted", "answer", "lengthen"} \/ unstored[c] # {}

(* What was written through a node by a handler that is done with it lies inside the length
   the node tells those who ask for the current one: though the handlers of a node look at the
   length and set it with nothing in between to keep them apart.  (It is
   not so: two handlers that lengthen the file may set its length in the wrong order.) *)
SizeIsCurrent ==
  \A c \in Conns : handler[c] = "select" =>
    \A p \in Positions : memory[RankOf(p)][PlaceInBuffer(p)].from = c => p < file_size[Home[c]]

(* Until somebody kills the server every command gets done: its handler wakes up, and what
   was written is in the file, also when the application has gone; nodes that send to each
   other at the same time never wait for each other.  (All commands, as they are bounded.) *)
CommandsComplete ==
  (\E c \in Conns : Busy(c)) ~> (\A c \in Conns : ~Busy(c)) \/ (\E n \in Nodes : isdying[n])

(* A KILL reaches every node, though nodes leave their loops as soon as they know of it. *)
KillReachesAll ==
  (\E n \in Nodes : isdying[n]) ~> (\A n \in Nodes : isdying[n])
===============================================================================
