------------------------------ MODULE DfcProofs ------------------------------
(*******************************************************************************************)
(* Theorems about the distributed file cache (Dfc.tla).  Of its striping: every            *)
(* byte has a place of its own (EveryByteHasItsPlace), which requests are                  *)
(* counted right (CountedRight), and what is packed can be unpacked                        *)
(* (PackingLosesNothing).  Of the protocol: the variables keep their types                 *)
(* (DfcTypes), the lists hold what handlers wait for (ListsHoldThePosted), every           *)
(* byte stays in its place (BytesStayInPlace), the data a node receives are those          *)
(* of the command it receives them for (DataMeetTheirCommand), and a read finds            *)
(* what the file held (ReadsAreCurrent).                                                   *)
(*                                                                                         *)
(* DataMeetTheirCommand follows the data of one connection to and from one other node:     *)
(* those of writes match, in order, the write commands that have not been served           *)
(* (Matched), and of reads there is at most one, as a command or as data (ReadsOK).        *)
(* Beside this it is shown that whoever sends a part has it right: a byte of the           *)
(* file is always where the striping puts it (MemoryInPlace), and pack_buffer              *)
(* puts the parts one after the other (PackedInParts).                                     *)
(*                                                                                         *)
(* ReadsAreCurrent follows each byte of a read from the memory of its node over the        *)
(* way to the home of the reader, the buffer there and the answer (MemoryAllowed,          *)
(* FoundAllowed, AnswerAllowed).  That a connection finds what it has written itself       *)
(* rests on the order of the commands between two nodes: its read comes after its          *)
(* writes (ReadIsLast), so that none is left when the read has been served.                *)
(*******************************************************************************************)
EXTENDS Dfc, Sums, TLAPS, FiniteSetTheorems, SequenceTheorems

-------------------------------------------------------------------------------
(* Division *)

\* Quotient and remainder of natural numbers.
LEMMA Division ==
  ASSUME NEW a \in Nat, NEW b \in Nat \ {0}
  PROVE  a \div b \in Nat /\ a % b \in 0 .. b - 1 /\ a = (a \div b) * b + (a % b)
OBVIOUS

\* A product of natural numbers is one.
LEMMA Product ==
  ASSUME NEW a \in Nat, NEW b \in Nat
  PROVE  a * b \in Nat
OBVIOUS

\* Quotient and remainder are determined by the number.
LEMMA DivisionIsUnique ==
  ASSUME NEW b \in Nat \ {0}, NEW x \in Nat, NEW y \in Nat,
         NEW r \in 0 .. b - 1, NEW s \in 0 .. b - 1,
         x * b + r = y * b + s
  PROVE  x = y /\ r = s
<1>1. (x - y) * b = s - r
  OBVIOUS
<1>2. ASSUME x > y PROVE FALSE
  <2>1. (x - y - 1) * b \in Nat
    BY <1>2, x - y - 1 \in Nat, Product
  <2>2. (x - y) * b = (x - y - 1) * b + b
    OBVIOUS
  <2> QED BY <2>1, <2>2, <1>1
<1>3. ASSUME y > x PROVE FALSE
  <2>1. (y - x - 1) * b \in Nat
    BY <1>3, y - x - 1 \in Nat, Product
  <2>2. (x - y) * b = -((y - x - 1) * b + b)
    OBVIOUS
  <2> QED BY <2>1, <2>2, <1>1
<1> QED BY <1>1, <1>2, <1>3

\* So they can be read off.
LEMMA DivisionIs ==
  ASSUME NEW b \in Nat \ {0}, NEW x \in Nat, NEW r \in 0 .. b - 1
  PROVE  x * b + r \in Nat /\ (x * b + r) \div b = x /\ (x * b + r) % b = r
<1>1. x * b + r \in Nat
  BY Product
<1>2. QED
  BY <1>1, Division, DivisionIsUnique

-------------------------------------------------------------------------------
(* Where a byte is *)

\* Its block is on a node, at a place in the memory of that node, and node and place tell
\* which byte it is.
LEMMA PlaceTells ==
  ASSUME NEW p \in Nat
  PROVE  /\ RankOf(p) \in Nodes
         /\ PlaceInBuffer(p) \in Nat
         /\ p = ((PlaceInBuffer(p) \div BlockSize) * N + RankOf(p)) * BlockSize
                  + (PlaceInBuffer(p) % BlockSize)
<1>1. N \in Nat \ {0} /\ BlockSize \in Nat \ {0}
  BY DfcAssumption
<1>2. Block(p) \in Nat /\ p % BlockSize \in 0 .. BlockSize - 1
        /\ p = Block(p) * BlockSize + (p % BlockSize)
  BY <1>1, Division DEF Block
<1>3. Block(p) \div N \in Nat /\ RankOf(p) \in 0 .. N - 1
        /\ Block(p) = (Block(p) \div N) * N + RankOf(p)
  BY <1>1, <1>2, Division DEF RankOf
<1>4. /\ PlaceInBuffer(p) \in Nat
      /\ PlaceInBuffer(p) \div BlockSize = Block(p) \div N
      /\ PlaceInBuffer(p) % BlockSize = p % BlockSize
  BY <1>1, <1>2, <1>3, DivisionIs DEF PlaceInBuffer
<1> QED BY <1>2, <1>3, <1>4 DEF Nodes

\* The place of a byte of the file is inside the memory.
LEMMA PlaceIsInside ==
  ASSUME NEW p \in Positions
  PROVE  PlaceInBuffer(p) \in 0 .. LocalSize - 1
<1> DEFINE x == Block(p) \div N
           y == MaxSize \div (BlockSize * N)
<1>1. N \in Nat \ {0} /\ BlockSize \in Nat \ {0} /\ MaxSize \in Nat /\ p \in Nat /\ p < MaxSize
  BY DfcAssumption DEF Positions
<1>2. Block(p) \in Nat /\ p % BlockSize \in 0 .. BlockSize - 1
        /\ p = Block(p) * BlockSize + (p % BlockSize)
  BY <1>1, Division DEF Block
<1>3. x \in Nat /\ RankOf(p) \in 0 .. N - 1 /\ Block(p) = x * N + RankOf(p)
  BY <1>1, <1>2, Division DEF RankOf
<1>4. BlockSize * N \in Nat \ {0}
  BY <1>1
<1>5. /\ y \in Nat /\ MaxSize % (BlockSize * N) \in 0 .. BlockSize * N - 1
      /\ MaxSize = y * (BlockSize * N) + (MaxSize % (BlockSize * N))
  BY <1>1, <1>4, Division
<1> HIDE DEF x, y
<1>6. p \geq x * (BlockSize * N)
  <2>1. p = (x * N + RankOf(p)) * BlockSize + (p % BlockSize)
    BY <1>2, <1>3
  <2>2. (x * N + RankOf(p)) * BlockSize = x * (BlockSize * N) + RankOf(p) * BlockSize
    BY <1>1, <1>3
  <2>3. RankOf(p) * BlockSize \in Nat /\ x * (BlockSize * N) \in Nat
    BY <1>1, <1>3, <1>4, Product
  <2> QED BY <2>1, <2>2, <2>3, <1>2
<1>7. x \leq y
  <2> SUFFICES ASSUME x > y PROVE FALSE
    BY <1>3, <1>5
  <2>1. (x - y - 1) * (BlockSize * N) \in Nat
    BY <1>3, <1>5, <1>4, x - y - 1 \in Nat, Product
  <2>2. x * (BlockSize * N) = (x - y - 1) * (BlockSize * N) + y * (BlockSize * N) + BlockSize * N
    BY <1>3, <1>4, <1>5
  <2> QED BY <2>1, <2>2, <1>1, <1>3, <1>4, <1>5, <1>6
<1>8. PlaceInBuffer(p) = x * BlockSize + (p % BlockSize) /\ LocalSize = (y + 1) * BlockSize
  BY DEF PlaceInBuffer, LocalSize, x, y
<1>9. (y - x) * BlockSize \in Nat
  BY <1>1, <1>3, <1>5, <1>7, y - x \in Nat, Product
<1>10. (y + 1) * BlockSize = (y - x) * BlockSize + x * BlockSize + BlockSize
  BY <1>1, <1>3, <1>5
<1>11. x * BlockSize \in Nat
  BY <1>1, <1>3, Product
<1> QED BY <1>1, <1>2, <1>8, <1>9, <1>10, <1>11

(* Every byte of the file has a place in the memory of one node, inside that memory, which
   no other byte has: nothing that is stored destroys anything else, whatever the number of
   nodes, the size of the blocks and that of the file. *)
THEOREM EveryByteHasItsPlace ==
  /\ \A p \in Positions : RankOf(p) \in Nodes /\ PlaceInBuffer(p) \in 0 .. LocalSize - 1
  /\ \A o, p \in Positions :
       RankOf(o) = RankOf(p) /\ PlaceInBuffer(o) = PlaceInBuffer(p) => o = p
<1>1. ASSUME NEW p \in Positions PROVE p \in Nat
  BY DfcAssumption DEF Positions
<1>2. ASSUME NEW p \in Positions
      PROVE RankOf(p) \in Nodes /\ PlaceInBuffer(p) \in 0 .. LocalSize - 1
  BY <1>1, PlaceTells, PlaceIsInside
<1>3. ASSUME NEW o \in Positions, NEW p \in Positions,
             RankOf(o) = RankOf(p), PlaceInBuffer(o) = PlaceInBuffer(p)
      PROVE  o = p
  <2>1. /\ o = ((PlaceInBuffer(o) \div BlockSize) * N + RankOf(o)) * BlockSize
                  + (PlaceInBuffer(o) % BlockSize)
        /\ p = ((PlaceInBuffer(p) \div BlockSize) * N + RankOf(p)) * BlockSize
                  + (PlaceInBuffer(p) % BlockSize)
    BY <1>1, PlaceTells
  <2> QED BY <2>1, <1>3
<1> QED BY <1>2, <1>3

-------------------------------------------------------------------------------
(* How many bytes of a request are on a node *)

\* An interval of n numbers
LEMMA CountFrom ==
  ASSUME NEW a \in Nat, NEW n \in Nat
  PROVE  /\ IsFiniteSet(a .. a + n - 1) /\ Cardinality(a .. a + n - 1) = n
         /\ a .. a + n - 1 \subseteq Nat
<1> DEFINE b == a + n - 1
<1>1. b \in Int /\ b - a + 1 = n /\ (a > b <=> n = 0) /\ a \in Int
  OBVIOUS
<1> HIDE DEF b
<1>2. IsFiniteSet(a .. b) /\ Cardinality(a .. b) = IF a > b THEN 0 ELSE b-a+1
  BY <1>1, FS_Interval
<1>3. Cardinality(a .. b) = n /\ a .. b \subseteq Nat
  BY <1>1, <1>2
<1> QED BY <1>2, <1>3 DEF b

\* Products keep the order.
LEMMA ProductOrder ==
  ASSUME NEW x \in Nat, NEW y \in Nat, NEW b \in Nat \ {0}, x <= y
  PROVE  x * b \in Nat /\ y * b \in Nat /\ x * b <= y * b
<1>1. (y - x) * b \in Nat
  BY y - x \in Nat, Product
<1>2. y * b = x * b + (y - x) * b
  OBVIOUS
<1>3. x * b \in Nat
  BY Product
<1> QED BY <1>1, <1>2, <1>3

\* The bytes of a block
LEMMA BlockIs ==
  ASSUME NEW p \in Nat, NEW x \in Nat
  PROVE  /\ Block(p) \in Nat /\ x * BlockSize \in Nat
         /\ (x + 1) * BlockSize = x * BlockSize + BlockSize
         /\ x <= Block(p) <=> x * BlockSize <= p
         /\ Block(p) = x <=> p \in x * BlockSize .. x * BlockSize + BlockSize - 1
<1>1. BlockSize \in Nat \ {0}
  BY DfcAssumption
<1>2. Block(p) \in Nat /\ p % BlockSize \in 0 .. BlockSize - 1
        /\ p = Block(p) * BlockSize + (p % BlockSize)
  BY <1>1, Division DEF Block
<1>3. x * BlockSize \in Nat /\ (x + 1) * BlockSize = x * BlockSize + BlockSize
  BY <1>1, Product
<1>4. Block(p) * BlockSize \in Nat
  BY <1>1, <1>2, Product
<1>5. ASSUME x <= Block(p) PROVE x * BlockSize <= p
  BY <1>1, <1>2, <1>4, <1>5, ProductOrder
<1>6. ASSUME Block(p) < x PROVE p < x * BlockSize
  <2>1. (Block(p) + 1) * BlockSize <= x * BlockSize
    BY <1>1, <1>2, <1>6, ProductOrder
  <2>2. (Block(p) + 1) * BlockSize = Block(p) * BlockSize + BlockSize
    BY <1>1, <1>2
  <2> QED BY <1>1, <1>2, <1>3, <1>4, <2>1, <2>2
<1>7. ASSUME x < Block(p) PROVE x * BlockSize + BlockSize <= p
  <2>1. (x + 1) * BlockSize <= Block(p) * BlockSize
    BY <1>1, <1>2, <1>7, ProductOrder
  <2> QED BY <1>1, <1>2, <1>3, <1>4, <2>1
<1>8. ASSUME Block(p) = x
      PROVE  p \in x * BlockSize .. x * BlockSize + BlockSize - 1
  BY <1>1, <1>2, <1>3, <1>8
<1>9. ASSUME p \in x * BlockSize .. x * BlockSize + BlockSize - 1
      PROVE  Block(p) = x
  <2>1. x * BlockSize <= p /\ p < x * BlockSize + BlockSize
    BY <1>1, <1>3, <1>9
  <2>2. ~(Block(p) < x) /\ ~(x < Block(p))
    BY <1>1, <1>3, <1>6, <1>7, <2>1
  <2> QED BY <1>2, <2>2
<1>10. x <= Block(p) <=> x * BlockSize <= p
  BY <1>2, <1>3, <1>5, <1>6
<1> QED BY <1>2, <1>3, <1>8, <1>9, <1>10

\* Where a block begins, and the place of a byte in its block
StartOf(b) == b * BlockSize
PlaceInBlock(p) == p % BlockSize

LEMMA BlockStarts ==
  /\ \A p, x \in Nat : /\ x <= Block(p) <=> StartOf(x) <= p
                       /\ Block(p) = x <=> p \in StartOf(x) .. StartOf(x) + BlockSize - 1
  /\ \A p \in Nat : Block(p) \in Nat
  /\ \A x \in Nat : StartOf(x) \in Nat /\ StartOf(x + 1) = StartOf(x) + BlockSize
<1>1. \A p \in Nat : Block(p) \in Nat
  BY BlockIs, 0 \in Nat
<1>2. ASSUME NEW x \in Nat
      PROVE  StartOf(x) \in Nat /\ StartOf(x + 1) = StartOf(x) + BlockSize
  BY BlockIs, 0 \in Nat DEF StartOf
<1>3. ASSUME NEW p \in Nat, NEW x \in Nat
      PROVE  /\ x <= Block(p) <=> StartOf(x) <= p
             /\ Block(p) = x <=> p \in StartOf(x) .. StartOf(x) + BlockSize - 1
  BY BlockIs DEF StartOf
<1> QED BY <1>1, <1>2, <1>3

\* As many bytes as the blocks have, in whole blocks
LEMMA CountBlocks ==
  ASSUME NEW X, X \subseteq Nat, IsFiniteSet(X)
  PROVE  LET S == {p \in Nat : Block(p) \in X} IN
         IsFiniteSet(S) /\ Cardinality(S) = BlockSize * Cardinality(X)
<1> DEFINE S == {p \in Nat : Block(p) \in X}
           T == X \X (0 .. BlockSize - 1)
           f == [t \in T |-> t[1] * BlockSize + t[2]]
<1>1. BlockSize \in Nat \ {0}
  BY DfcAssumption
<1>2. IsFiniteSet(0 .. BlockSize - 1) /\ Cardinality(0 .. BlockSize - 1) = BlockSize
  <2>1. 0 + BlockSize - 1 = BlockSize - 1
    BY <1>1
  <2> QED BY <1>1, <2>1, CountFrom
<1>3. IsFiniteSet(T) /\ Cardinality(T) = Cardinality(X) * BlockSize
  BY <1>2, FS_Product
<1>4. ASSUME NEW t \in T
      PROVE  f[t] \in S /\ Block(f[t]) = t[1] /\ f[t] % BlockSize = t[2]
  <2>1. t[1] \in X /\ t[1] \in Nat /\ t[2] \in 0 .. BlockSize - 1 /\ f[t] = t[1] * BlockSize + t[2]
    OBVIOUS
  <2>2. /\ t[1] * BlockSize + t[2] \in Nat
        /\ (t[1] * BlockSize + t[2]) \div BlockSize = t[1]
        /\ (t[1] * BlockSize + t[2]) % BlockSize = t[2]
    BY <1>1, <2>1, DivisionIs
  <2> QED BY <2>1, <2>2 DEF Block
<1>5. ASSUME NEW p \in S
      PROVE  \E t \in T : f[t] = p
  <2>1. p % BlockSize \in 0 .. BlockSize - 1 /\ p = Block(p) * BlockSize + (p % BlockSize)
    BY <1>1, Division DEF Block
  <2>2. << Block(p), p % BlockSize >> \in T
    BY <2>1
  <2> QED BY <2>1, <2>2
<1>6. f \in Bijection(T, S)
  <2>1. \A s, t \in T : f[s] = f[t] => s = t
    BY <1>4
  <2>2. f \in [T -> S]
    BY <1>4
  <2> HIDE DEF f, T, S
  <2> QED BY <2>1, <2>2, <1>5 DEF Bijection, Injection, IsInjective, Surjection
<1>7. IsFiniteSet(S) /\ Cardinality(S) = Cardinality(T)
  <2> HIDE DEF f, T, S
  <2> QED BY <1>3, <1>6, FS_Bijection DEF ExistsBijection
<1>8. Cardinality(X) \in Nat
  BY FS_CardinalityType
<1> QED BY <1>1, <1>3, <1>7, <1>8

\* The same with names for the ends of the request, their blocks and their places in these.
LEMMA CountedRequest ==
  ASSUME NEW q, NEW a \in Nat, NEW e \in Nat, a <= e, q.location = a, q.location + q.length = e,
         q.length = e - a, NEW x \in Nat, NEW y \in Nat, x = Block(a), y = Block(e),
         NEW u, NEW v, u = PlaceInBlock(a), v = PlaceInBlock(e)
  PROVE  PartsAddUp(q) <=> u > 0 \/ x = y
<1> DEFINE S == StartOf(x)
           T == StartOf(y)
<1>0. N \in Nat \ {0} /\ Nodes = 0 .. N - 1
  BY DfcAssumption DEF Nodes
<1>1. BlockSize \in Nat \ {0}
  BY DfcAssumption
<1>6. \A p : p \in Covered(q) <=> p \in Nat /\ a <= p /\ p < e
  BY DEF Covered
<1>2. /\ u \in 0 .. BlockSize - 1 /\ v \in 0 .. BlockSize - 1
      /\ S \in Nat /\ T \in Nat /\ a = S + u /\ e = T + v
  BY <1>1, Division, Product DEF Block, StartOf, PlaceInBlock
<1> HIDE DEF S, T
<1>3. /\ x % N \in Nodes
      /\ \A p \in Covered(q) : Block(p) \in Nat /\ x <= Block(p) /\ Block(p) <= y
                               /\ RankOf(p) = Block(p) % N
  <2>1. x % N \in 0 .. N - 1
    BY <1>0, Division
  <2>2. ASSUME NEW p \in Covered(q)
        PROVE  Block(p) \in Nat /\ x <= Block(p) /\ Block(p) <= y
    <3>1. p \in Nat /\ a <= p /\ p <= e
      BY <1>6
    <3>2. Block(p) \in Nat
      BY <3>1, BlockIs
    <3>6. S <= p
      BY <1>1, <1>2, <3>1
    <3>3. S <= p /\ (x <= Block(p) <=> S <= p)
      BY <3>1, <3>6, BlockStarts DEF S
    <3>4. StartOf(Block(p)) <= p /\ StartOf(Block(p)) \in Nat
      BY <3>1, <3>2, BlockStarts
    <3>5. Block(p) <= Block(e) <=> StartOf(Block(p)) <= e
      BY <3>2, BlockStarts
    <3> QED BY <3>1, <3>2, <3>3, <3>4, <3>5
  <2> QED BY <1>0, <2>1, <2>2 DEF RankOf
<1>4. CASE x = y
  <2>1. ASSUME NEW r \in Nodes
        PROVE  ReqSize(q, r) = Cardinality(Here(q, r))
    <3>1. ReqSize(q, r) = IF x % N = r THEN q.length ELSE 0
      BY <1>4 DEF ReqSize, PlaceInBlock
    <3>2. Here(q, r) = IF x % N = r THEN a .. a + q.length - 1 ELSE {}
      <4>1. \A p \in Covered(q) : Block(p) \in Nat /\ Block(p) = x
        BY <1>3, <1>4
      <4>2. Here(q, r) = IF x % N = r THEN Covered(q) ELSE {}
        BY <4>1, <1>3 DEF Here
      <4> QED BY <4>2 DEF Covered
    <3>3. Cardinality(a .. a + q.length - 1) = q.length
      BY <1>1, CountFrom
    <3> QED BY <3>1, <3>2, <3>3, FS_EmptySet
  <2> QED BY <1>4, <2>1 DEF PartsAddUp
<1>5. CASE x # y
  <2> DEFINE F == S + u .. S + BlockSize - 1
             L == T .. T + v - 1
             whole(r) == {b \in x + 1 .. y - 1 : b % N = r}
             M(r) == {p \in Nat : Block(p) \in whole(r)}
             first(r) == IF x % N = r THEN BlockSize - u ELSE 0
             last(r) == IF y % N = r THEN v ELSE 0
  <2>0. x < y /\ x + 1 <= y /\ S + BlockSize <= T
    <3>1. x <= y
      <4>1. x <= Block(e) <=> S <= e
        BY BlockStarts DEF S
      <4>2. S <= e
        BY <1>1, <1>2
      <4> QED BY <4>1, <4>2
    <3>2. x < y /\ x + 1 <= y /\ x + 1 \in Nat
      BY <3>1, <1>5
    <3>3. StartOf(x + 1) <= T
      BY <3>2, <1>1, ProductOrder DEF StartOf, T
    <3>4. StartOf(x + 1) = S + BlockSize
      BY BlockStarts DEF S
    <3> QED BY <3>2, <3>3, <3>4
  <2>1. /\ IsFiniteSet(F) /\ Cardinality(F) = BlockSize - u
        /\ IsFiniteSet(L) /\ Cardinality(L) = v
        /\ F \subseteq Nat /\ L \subseteq Nat
    <3>1. /\ a + (BlockSize - u) - 1 = S + BlockSize - 1
          /\ BlockSize - u \in Nat
      BY <1>1, <1>2
    <3>2. F = a .. a + (BlockSize - u) - 1
      BY <1>2, <3>1
    <3>3. /\ IsFiniteSet(F) /\ Cardinality(F) = BlockSize - u /\ F \subseteq Nat
      <4> HIDE DEF F
      <4> QED BY <1>1, <3>1, <3>2, CountFrom
    <3>5. v \in Nat /\ T \in Nat
      BY <1>1, <1>2
    <3>4. /\ IsFiniteSet(L) /\ Cardinality(L) = v /\ L \subseteq Nat
      BY <3>5, CountFrom
    <3> QED BY <3>3, <3>4
  <2>2. ASSUME NEW r \in Nodes
        PROVE  /\ IsFiniteSet(whole(r)) /\ whole(r) \subseteq Nat /\ Cardinality(whole(r)) \in Nat
               /\ IsFiniteSet(M(r)) /\ Cardinality(M(r)) = BlockSize * Cardinality(whole(r))
    <3>1. whole(r) \subseteq x + 1 .. y - 1 /\ whole(r) \subseteq Nat
      BY <1>2
    <3>2. IsFiniteSet(x + 1 .. y - 1)
      BY <1>2, FS_Interval, x + 1 \in Int, y - 1 \in Int
    <3>3. IsFiniteSet(whole(r)) /\ Cardinality(whole(r)) \in Nat
      BY <3>1, <3>2, FS_Subset, FS_CardinalityType
    <3> HIDE DEF whole
    <3> QED BY <3>1, <3>3, CountBlocks
  <2>3. ASSUME NEW p \in Nat
        PROVE  /\ p \in F <=> p \in Covered(q) /\ Block(p) = x
               /\ p \in L <=> p \in Covered(q) /\ Block(p) = y
               /\ Block(p) \in x + 1 .. y - 1 => p \in Covered(q)
    <3>1. /\ Block(p) = x <=> p \in S .. S + BlockSize - 1
          /\ Block(p) = y <=> p \in T .. T + BlockSize - 1
          /\ Block(p) \in Nat
      BY BlockStarts DEF S, T
    <3>5. p \in Covered(q) <=> a <= p /\ p < e
      BY <1>6
    <3>2. p \in F <=> p \in Covered(q) /\ Block(p) = x
      BY <1>1, <1>2, <2>0, <3>1, <3>5
    <3>3. p \in L <=> p \in Covered(q) /\ Block(p) = y
      BY <1>1, <1>2, <2>0, <3>1, <3>5
    <3>4. ASSUME Block(p) \in x + 1 .. y - 1
          PROVE  p \in Covered(q)
      <4>1. x + 1 \in Nat /\ x + 1 <= Block(p) /\ ~(y <= Block(p))
        BY <3>1, <3>4
      <4>3. StartOf(x + 1) <= p
        BY <4>1, BlockStarts
      <4>4. ~(T <= p)
        BY <4>1, BlockStarts DEF T
      <4>5. StartOf(x + 1) = S + BlockSize
        BY BlockStarts DEF S
      <4>2. S + BlockSize <= p /\ ~(T <= p)
        BY <4>3, <4>4, <4>5
      <4> QED BY <1>1, <1>2, <2>0, <3>5, <4>2
    <3> QED BY <3>2, <3>3, <3>4
  <2>4. ASSUME NEW r \in Nodes
        PROVE  /\ Cardinality(Here(q, r))
                    = first(r) + last(r) + BlockSize * Cardinality(whole(r))
    <3> DEFINE A == IF x % N = r THEN F ELSE {}
               Z == IF y % N = r THEN L ELSE {}
    <3>1. /\ IsFiniteSet(A) /\ Cardinality(A) = first(r)
          /\ IsFiniteSet(Z) /\ Cardinality(Z) = last(r)
      BY <2>1, FS_EmptySet
    <3>2. Here(q, r) = (A \cup Z) \cup M(r) /\ A \cap Z = {} /\ (A \cup Z) \cap M(r) = {}
      <4>1. ASSUME NEW p \in Nat
            PROVE  /\ p \in A <=> p \in Covered(q) /\ Block(p) = x /\ Block(p) % N = r
                   /\ p \in Z <=> p \in Covered(q) /\ Block(p) = y /\ Block(p) % N = r
                   /\ p \in M(r) <=> /\ p \in Covered(q) /\ Block(p) % N = r
                                     /\ Block(p) \in x + 1 .. y - 1
        <5>1. p \in M(r) <=> Block(p) \in x + 1 .. y - 1 /\ Block(p) % N = r
          OBVIOUS
        <5> HIDE DEF F, L, M, whole
        <5> QED BY <2>3, <5>1
      <4>2. A \subseteq Nat /\ Z \subseteq Nat /\ M(r) \subseteq Nat
        BY <2>1
      <4>3. \A p \in Covered(q) : Block(p) = x \/ Block(p) = y \/ Block(p) \in x + 1 .. y - 1
        BY <1>2, <1>3
      <4>4. x # y /\ x \notin x + 1 .. y - 1 /\ y \notin x + 1 .. y - 1
        BY <1>2, <1>5
      <4> HIDE DEF A, Z, M
      <4>5. \A p \in Nat : p \in Here(q, r) <=> p \in A \/ p \in Z \/ p \in M(r)
        BY <1>3, <4>1, <4>3, <1>6 DEF Here
      <4>6. Here(q, r) \subseteq Nat
        BY <1>6 DEF Here
      <4> QED BY <4>1, <4>2, <4>4, <4>5, <4>6
    <3>3. IsFiniteSet(M(r)) /\ Cardinality(M(r)) = BlockSize * Cardinality(whole(r))
      BY <2>2
    <3>4. first(r) \in Nat /\ last(r) \in Nat /\ BlockSize * Cardinality(whole(r)) \in Nat
      <4>1. first(r) \in Nat /\ last(r) \in Nat
        BY <1>1, <1>2
      <4>2. BlockSize * Cardinality(whole(r)) \in Nat
        BY <1>1, <2>2, Product
      <4> QED BY <4>1, <4>2
    <3> HIDE DEF A, Z, M, first, last, whole
    <3>5. IsFiniteSet(A \cup Z) /\ Cardinality(A \cup Z) = first(r) + last(r) - Cardinality({})
      BY <3>1, <3>2, FS_Union
    <3>6. Cardinality(Here(q, r))
            = Cardinality(A \cup Z) + Cardinality(M(r)) - Cardinality({})
      BY <3>2, <3>3, <3>5, FS_Union
    <3> QED BY <3>3, <3>4, <3>5, <3>6, FS_EmptySet
  <2>5. ASSUME NEW r \in Nodes
        PROVE  ReqSize(q, r) = (IF u > 0 /\ x % N = r
                                THEN BlockSize - u ELSE 0)
                               + last(r) + BlockSize * Cardinality(whole(r))
    BY <1>5 DEF ReqSize, PlaceInBlock
  <2>6. ASSUME NEW r \in Nodes
        PROVE  ReqSize(q, r) = Cardinality(Here(q, r)) <=> u > 0 \/ x % N # r
    <3>1. last(r) \in Nat /\ BlockSize * Cardinality(whole(r)) \in Nat
      <4>1. last(r) \in Nat
        BY <1>1, <1>2
      <4>2. BlockSize * Cardinality(whole(r)) \in Nat
        BY <1>1, <2>2, Product
      <4> QED BY <4>1, <4>2
    <3> HIDE DEF last, whole
    <3> QED BY <1>1, <1>2, <2>4, <2>5, <3>1
  <2> QED BY <1>3, <1>5, <2>6 DEF PartsAddUp
<1> QED BY <1>4, <1>5

(* get_local_req_size counts the bytes of a request right, on every node, exactly when the
   request lies in one block or begins inside a block: of a request of several blocks that
   begins with a whole one, that block is left out.  It is so for any number of nodes and any
   size of the blocks, and shows which requests the assumption PartsAddUp leaves. *)
THEOREM CountedRight ==
  \A q : q.location \in Nat /\ q.length \in Nat =>
    (PartsAddUp(q) <=> \/ q.location % BlockSize > 0
                       \/ Block(q.location) = Block(q.location + q.length))
<1> SUFFICES ASSUME NEW q, q.location \in Nat, q.length \in Nat
             PROVE  PartsAddUp(q) <=> \/ q.location % BlockSize > 0
                                      \/ Block(q.location) = Block(q.location + q.length)
  OBVIOUS
<1> DEFINE e == q.location + q.length
<1>1. e \in Nat /\ q.location <= e /\ q.length = e - q.location /\ q.location + q.length = e
  OBVIOUS
<1> HIDE DEF e
<1>2. Block(q.location) \in Nat /\ Block(e) \in Nat
  BY <1>1, BlockIs, 0 \in Nat
<1>3. PartsAddUp(q) <=> q.location % BlockSize > 0 \/ Block(q.location) = Block(e)
  BY <1>1, <1>2, CountedRequest DEF PlaceInBlock
<1> QED BY <1>3 DEF e

-------------------------------------------------------------------------------
(* The bytes of a request on one node *)

\* A request that can be served, and lies in the file.
InFile(q) ==
  /\ q.location \in Nat /\ q.length \in Nat /\ q.location + q.length <= MaxSize
  /\ PartsAddUp(q)

\* Its bytes are bytes of the file, and on one node they are finitely many.
LEMMA HereIsFinite ==
  ASSUME NEW q, InFile(q), NEW r \in Nodes
  PROVE  /\ Here(q, r) \subseteq Positions
         /\ IsFiniteSet(Here(q, r)) /\ Cardinality(Here(q, r)) \in Nat
         /\ ReqSize(q, r) = Cardinality(Here(q, r))
<1>1. q.location \in Nat /\ q.length \in Nat /\ q.location + q.length <= MaxSize /\ MaxSize \in Nat
  BY DfcAssumption DEF InFile
<1>2. Here(q, r) \subseteq q.location .. q.location + q.length - 1
  BY DEF Here, Covered
<1>3. IsFiniteSet(q.location .. q.location + q.length - 1)
  <2> DEFINE last == q.location + q.length - 1
  <2>1. q.location \in Int /\ last \in Int
    BY <1>1
  <2> HIDE DEF last
  <2>2. IsFiniteSet(q.location .. last)
    BY <2>1, FS_Interval
  <2> QED BY <2>2 DEF last
<1>4. IsFiniteSet(Here(q, r)) /\ Cardinality(Here(q, r)) \in Nat
  BY <1>2, <1>3, FS_Subset, FS_CardinalityType
<1>5. Here(q, r) \subseteq Positions
  BY <1>1, <1>2 DEF Positions
<1> QED BY <1>4, <1>5 DEF InFile, PartsAddUp

\* They are counted from 0 on, and each has a number of its own.
LEMMA Numbering ==
  ASSUME NEW q, InFile(q), NEW r \in Nodes, NEW p \in Here(q, r)
  PROVE  /\ Before(q, p) \in 0 .. ReqSize(q, r) - 1
         /\ \A o \in Here(q, r) : Before(q, o) = Before(q, p) => o = p
<1> DEFINE Upto(o) == {x \in q.location .. o - 1 : RankOf(x) = RankOf(o)}
<1>1. q.location \in Nat /\ q.length \in Nat
  BY DEF InFile
<1>2. ASSUME NEW o \in Here(q, r)
      PROVE  /\ o \in q.location .. q.location + q.length - 1 /\ RankOf(o) = r
             /\ Upto(o) \subseteq Here(q, r) /\ o \notin Upto(o)
  BY <1>1, <1>2 DEF Here, Covered
<1>3. ASSUME NEW o \in Here(q, r), NEW x \in Here(q, r), x < o
      PROVE  Before(q, x) < Before(q, o)
  <2>1. Upto(x) \subseteq Upto(o) /\ x \in Upto(o) /\ x \notin Upto(x)
    BY <1>1, <1>2, <1>3
  <2>2. IsFiniteSet(Upto(o))
    BY <1>2, HereIsFinite, FS_Subset
  <2>3. Upto(x) # Upto(o)
    BY <2>1
  <2>4. Cardinality(Upto(x)) < Cardinality(Upto(o))
    <3> HIDE DEF Upto
    <3>1. IsFiniteSet(Upto(x)) /\ Cardinality(Upto(x)) <= Cardinality(Upto(o))
            /\ Cardinality(Upto(x)) # Cardinality(Upto(o))
      BY <2>1, <2>2, <2>3, FS_Subset, Zenon
    <3>2. Cardinality(Upto(x)) \in Nat /\ Cardinality(Upto(o)) \in Nat
      BY <2>2, <3>1, FS_CardinalityType
    <3> QED BY <3>1, <3>2
  <2> QED BY <2>4 DEF Before
<1>4. Before(q, p) \in 0 .. ReqSize(q, r) - 1
  <2>1. IsFiniteSet(Here(q, r)) /\ Upto(p) \subseteq Here(q, r) /\ Upto(p) # Here(q, r)
    BY <1>2, HereIsFinite
  <2>2. /\ Cardinality(Upto(p)) < Cardinality(Here(q, r))
        /\ IsFiniteSet(Upto(p))
    <3> HIDE DEF Upto
    <3>1. IsFiniteSet(Upto(p)) /\ Cardinality(Upto(p)) <= Cardinality(Here(q, r))
            /\ Cardinality(Upto(p)) # Cardinality(Here(q, r))
      BY <2>1, FS_Subset, Zenon
    <3>2. Cardinality(Upto(p)) \in Nat /\ Cardinality(Here(q, r)) \in Nat
      BY <2>1, <3>1, FS_CardinalityType
    <3> QED BY <3>1, <3>2
  <2>3. Cardinality(Upto(p)) \in Nat
    BY <2>2, FS_CardinalityType
  <2> QED BY <2>2, <2>3, HereIsFinite DEF Before
<1>5. ASSUME NEW o \in Here(q, r), Before(q, o) = Before(q, p)
      PROVE  o = p
  <2>1. o \in Int /\ p \in Int
    BY <1>1, <1>2
  <2>2. Before(q, p) \in Int
    BY <1>4
  <2>3. CASE o < p
    BY <2>2, <2>3, <1>3, <1>5
  <2>4. CASE p < o
    BY <2>2, <2>4, <1>3, <1>5
  <2> QED BY <2>1, <2>3, <2>4
<1> QED BY <1>4, <1>5

\* The bytes on the first r nodes
Upto(q, r) == {p \in Covered(q) : RankOf(p) < r}

\* The part of a node begins where that many bytes have been put in front of it.
LEMMA OffsetCounts ==
  ASSUME NEW q, InFile(q)
  PROVE  /\ Sizes(q) \in [Nodes -> Nat]
         /\ \A r \in 0 .. N : /\ ReqOffset(q, r) \in Nat
                              /\ ReqOffset(q, r) = Cardinality(Upto(q, r))
<1>1. Sizes(q) \in [Nodes -> Nat]
  BY HereIsFinite DEF Sizes
<1>2. IsFiniteSet(Covered(q)) /\ Covered(q) \subseteq Nat
  <2>1. q.location \in Nat /\ q.length \in Nat
    BY DEF InFile
  <2> QED BY <2>1, CountFrom DEF Covered
<1>3. N \in Nat \ {0} /\ Nodes = 0 .. N - 1
  BY DfcAssumption DEF Nodes
<1> DEFINE T == {r \in Nat : r <= N => /\ ReqOffset(q, r) \in Nat
                                      /\ ReqOffset(q, r) = Cardinality(Upto(q, r))}
<1>4. 0 \in T
  <2>1. 0 .. 0 - 1 = {} /\ Upto(q, 0) = {}
    <3>1. \A p \in Covered(q) : RankOf(p) \in Nat
      BY <1>2, <1>3, PlaceTells
    <3> QED BY <3>1 DEF Upto
  <2> QED BY <2>1, SumEmpty, FS_EmptySet DEF ReqOffset
<1>5. ASSUME NEW r \in Nat, r \in T
      PROVE  r + 1 \in T
  <2> SUFFICES ASSUME r + 1 <= N
               PROVE  ReqOffset(q, r + 1) \in Nat /\ ReqOffset(q, r + 1) = Cardinality(Upto(q, r + 1))
    OBVIOUS
  <2>1. r \in Nodes /\ ReqOffset(q, r) \in Nat /\ ReqOffset(q, r) = Cardinality(Upto(q, r))
    BY <1>3, <1>5
  <2>2. ReqOffset(q, r + 1) = ReqOffset(q, r) + ReqSize(q, r)
    <3>1. r + 1 - 1 = r /\ r \in Int /\ 0 \in Int /\ 0 <= r /\ 0 .. r \subseteq Nodes
      BY <1>3, <2>1
    <3>2. SumFunctionOnSet(Sizes(q), 0 .. r)
            = SumFunctionOnSet(Sizes(q), 0 .. r - 1) + Sizes(q)[r]
      BY <1>1, <3>1, SumLast
    <3> QED BY <2>1, <3>1, <3>2 DEF ReqOffset, Sizes
  <2>3. /\ Upto(q, r + 1) = Upto(q, r) \cup Here(q, r)
        /\ Upto(q, r) \cap Here(q, r) = {}
    <3>1. \A p \in Covered(q) : RankOf(p) \in Nat
      BY <1>2, <1>3, PlaceTells
    <3> QED BY <3>1, <2>1 DEF Upto, Here
  <2>4. IsFiniteSet(Upto(q, r)) /\ IsFiniteSet(Here(q, r))
    BY <1>2, <2>1, FS_Subset, HereIsFinite DEF Upto
  <2>5. Cardinality(Upto(q, r + 1))
          = Cardinality(Upto(q, r)) + Cardinality(Here(q, r)) - Cardinality({})
    BY <2>3, <2>4, FS_Union
  <2> QED BY <2>1, <2>2, <2>5, HereIsFinite, FS_EmptySet
<1>6. Nat \subseteq T
  <2> HIDE DEF T
  <2> QED BY <1>4, <1>5, NatInduct
<1> QED BY <1>1, <1>3, <1>6

\* Where the part of a node begins and ends in a buffer ordered by ranks: in the buffer, and
\* after the parts of the nodes before it
PartsInOrder(q) ==
  \A r \in Nodes :
    /\ ReqOffset(q, r) \in 0 .. q.length - ReqSize(q, r)
    /\ \A s \in Nodes : r < s => ReqOffset(q, r) + ReqSize(q, r) <= ReqOffset(q, s)

LEMMA OrderOfParts ==
  ASSUME NEW q, InFile(q)
  PROVE  PartsInOrder(q)
<1>1. N \in Nat \ {0} /\ Nodes = 0 .. N - 1
  BY DfcAssumption DEF Nodes
<1>2. \A r \in 0 .. N : ReqOffset(q, r) \in Nat /\ ReqOffset(q, r) = Cardinality(Upto(q, r))
  BY OffsetCounts
<1>3. IsFiniteSet(Covered(q)) /\ Cardinality(Covered(q)) = q.length /\ Covered(q) \subseteq Nat
  <2>1. q.location \in Nat /\ q.length \in Nat
    BY DEF InFile
  <2> QED BY <2>1, CountFrom DEF Covered
<1>4. ASSUME NEW r \in 0 .. N, NEW s \in 0 .. N, r <= s
      PROVE  ReqOffset(q, r) <= ReqOffset(q, s)
  <2>1. Upto(q, r) \subseteq Upto(q, s) /\ Upto(q, s) \subseteq Covered(q)
    <3>1. \A p \in Covered(q) : RankOf(p) \in Int
      BY <1>1, <1>3, PlaceTells
    <3> QED BY <1>1, <1>4, <3>1 DEF Upto
  <2>2. IsFiniteSet(Upto(q, s))
    BY <1>3, <2>1, FS_Subset
  <2>3. Cardinality(Upto(q, r)) <= Cardinality(Upto(q, s))
    BY <2>1, <2>2, FS_Subset
  <2> QED BY <1>2, <2>3
<1>5. ASSUME NEW r \in 0 .. N
      PROVE  ReqOffset(q, r) <= q.length
  <2>1. Upto(q, r) \subseteq Covered(q)
    BY DEF Upto
  <2>2. Cardinality(Upto(q, r)) <= Cardinality(Covered(q))
    BY <1>3, <2>1, FS_Subset
  <2> QED BY <1>2, <1>3, <2>2
<1>6. ASSUME NEW r \in Nodes
      PROVE  /\ r \in 0 .. N /\ r + 1 \in 0 .. N /\ ReqSize(q, r) \in Nat
             /\ ReqOffset(q, r + 1) = ReqOffset(q, r) + ReqSize(q, r)
  <2>1. r \in 0 .. N /\ r + 1 \in 0 .. N /\ r + 1 - 1 = r
        /\ r \in Int /\ 0 \in Int /\ 0 <= r /\ 0 .. r \subseteq Nodes
    BY <1>1
  <2>2. Sizes(q) \in [Nodes -> Nat]
    BY OffsetCounts
  <2>3. SumFunctionOnSet(Sizes(q), 0 .. r)
          = SumFunctionOnSet(Sizes(q), 0 .. r - 1) + Sizes(q)[r]
    BY <2>1, <2>2, SumLast
  <2> QED BY <2>1, <2>3, HereIsFinite DEF ReqOffset, Sizes
<1>7. ASSUME NEW r \in Nodes
      PROVE  ReqOffset(q, r) \in 0 .. q.length - ReqSize(q, r)
  <2>1. ReqOffset(q, r) \in Nat /\ ReqOffset(q, r) + ReqSize(q, r) <= q.length /\ q.length \in Nat
    BY <1>2, <1>5, <1>6 DEF InFile
  <2> QED BY <1>6, <2>1
<1>8. ASSUME NEW r \in Nodes, NEW s \in Nodes, r < s
      PROVE  ReqOffset(q, r) + ReqSize(q, r) <= ReqOffset(q, s)
  <2>1. r + 1 <= s /\ s \in 0 .. N
    BY <1>1, <1>8
  <2> QED BY <1>4, <1>6, <2>1
<1> QED BY <1>7, <1>8 DEF PartsInOrder

\* Every number below their number is that of one of them.
LEMMA EveryNumber ==
  ASSUME NEW q, InFile(q), NEW r \in Nodes, NEW i \in 0 .. ReqSize(q, r) - 1
  PROVE  \E p \in Here(q, r) : Before(q, p) = i
<1> DEFINE f == [p \in Here(q, r) |-> Before(q, p)]
           S == Here(q, r)
           T == 0 .. ReqSize(q, r) - 1
<1>1. IsFiniteSet(S) /\ Cardinality(S) = ReqSize(q, r) /\ ReqSize(q, r) \in Nat
  BY HereIsFinite
<1>2. IsFiniteSet(T) /\ Cardinality(T) = ReqSize(q, r)
  <2>1. 0 .. 0 + ReqSize(q, r) - 1 = T
    BY <1>1
  <2> QED BY <1>1, <2>1, CountFrom
<1>3. f \in [S -> T] /\ \A o, p \in S : f[o] = f[p] => o = p
  BY Numbering
<1>4. f \in Injection(S, T)
  <2> HIDE DEF f, S, T
  <2> QED BY <1>3 DEF Injection, IsInjective
<1>5. f \in Surjection(S, T)
  <2> HIDE DEF f, S, T
  <2> QED BY <1>1, <1>2, <1>4, FS_Injection
<1>6. \E p \in S : f[p] = i
  <2> HIDE DEF f, S
  <2> QED BY <1>5 DEF Surjection
<1> QED BY <1>6

\* Where a byte is in a buffer ordered by ranks
Slot(q, p) == ReqOffset(q, RankOf(p)) + Before(q, p)

\* No place in the buffer is in the parts of two nodes.
LEMMA PartsApart ==
  ASSUME NEW q, InFile(q), NEW r \in Nodes, NEW s \in Nodes,
         NEW i \in 0 .. ReqSize(q, r) - 1, NEW j \in 0 .. ReqSize(q, s) - 1,
         ReqOffset(q, r) + i = ReqOffset(q, s) + j
  PROVE  r = s /\ i = j
<1>1. \A t \in Nodes : ReqSize(q, t) \in Nat /\ ReqOffset(q, t) \in Nat /\ t \in Int
  BY HereIsFinite, OrderOfParts, DfcAssumption DEF PartsInOrder, Nodes, InFile
<1>2. r < s => ReqOffset(q, r) + ReqSize(q, r) <= ReqOffset(q, s)
  BY OrderOfParts DEF PartsInOrder
<1>3. s < r => ReqOffset(q, s) + ReqSize(q, s) <= ReqOffset(q, r)
  BY OrderOfParts DEF PartsInOrder
<1>4. ~(r < s) /\ ~(s < r)
  BY <1>1, <1>2, <1>3
<1>5. r = s
  BY <1>1, <1>4
<1> QED BY <1>1, <1>5

\* The place of a byte in the buffer is one of its node, and tells which byte it is.
LEMMA SlotTells ==
  ASSUME NEW q, InFile(q), NEW p \in Covered(q)
  PROVE  /\ RankOf(p) \in Nodes /\ p \in Here(q, RankOf(p)) /\ p \in Positions
         /\ Before(q, p) \in 0 .. ReqSize(q, RankOf(p)) - 1
         /\ Slot(q, p) \in 0 .. q.length - 1
         /\ \A o \in Covered(q) : Slot(q, o) = Slot(q, p) => o = p
<1>1. ASSUME NEW o \in Covered(q)
      PROVE  /\ RankOf(o) \in Nodes /\ o \in Here(q, RankOf(o)) /\ o \in Positions
             /\ Before(q, o) \in 0 .. ReqSize(q, RankOf(o)) - 1
  <2>1. o \in Nat
    BY DEF InFile, Covered
  <2>2. RankOf(o) \in Nodes /\ o \in Here(q, RankOf(o))
    BY <2>1, PlaceTells DEF Here
  <2> QED BY <2>2, HereIsFinite, Numbering
<1>2. Slot(q, p) \in 0 .. q.length - 1
  <2>1. /\ ReqSize(q, RankOf(p)) \in Nat
        /\ ReqOffset(q, RankOf(p)) \in 0 .. q.length - ReqSize(q, RankOf(p))
        /\ q.length \in Nat
    BY <1>1, HereIsFinite, OrderOfParts DEF PartsInOrder, InFile
  <2> QED BY <1>1, <2>1 DEF Slot
<1>3. ASSUME NEW o \in Covered(q), Slot(q, o) = Slot(q, p)
      PROVE  o = p
  <2>1. RankOf(o) = RankOf(p) /\ Before(q, o) = Before(q, p)
    BY <1>1, <1>3, PartsApart DEF Slot
  <2> QED BY <1>1, <2>1, Numbering
<1> QED BY <1>1, <1>2, <1>3

\* There pack_buffer puts it.
LEMMA PackedAt ==
  ASSUME NEW q, InFile(q), NEW bytes, NEW p \in Covered(q)
  PROVE  Packed(q, bytes)[Slot(q, p)] = bytes[p]
<1> DEFINE Comes(i) == {o \in Covered(q) : Slot(q, o) = i}
<1>1. Comes(Slot(q, p)) = {p}
  BY SlotTells
<1>2. Max(Comes(Slot(q, p))) = p
  <2>1. p \in Int
    BY DEF InFile, Covered
  <2> HIDE DEF Comes
  <2> QED BY <1>1, <2>1 DEF Max
<1>3. Packed(q, bytes)[Slot(q, p)]
        = IF Comes(Slot(q, p)) = {} THEN Junk ELSE bytes[Max(Comes(Slot(q, p)))]
  BY SlotTells DEF Packed, Slot
<1> QED BY <1>1, <1>2, <1>3

(* What pack_buffer puts in the order of the ranks, unpack_buffer puts back in the order of
   the file: nothing is lost, whatever the request, the nodes and the blocks. *)
THEOREM PackingLosesNothing ==
  ASSUME NEW q, InFile(q), NEW bytes
  PROVE  Unpacked(q, Packed(q, bytes)) = [p \in Covered(q) |-> bytes[p]]
<1>1. \A p \in Covered(q) : Packed(q, bytes)[ReqOffset(q, RankOf(p)) + Before(q, p)] = bytes[p]
  BY PackedAt DEF Slot
<1> QED BY <1>1 DEF Unpacked

\* What pack_buffer makes of the bytes of a request can be cut into the parts of the nodes.
LEMMA PackedInParts ==
  ASSUME NEW q, InFile(q), NEW bytes, \A p \in Covered(q) : bytes[p].at = p, NEW r \in Nodes
  PROVE  IsPart(q, r, Piece(q, Packed(q, bytes), r))
<1>1. DOMAIN Piece(q, Packed(q, bytes), r) = 0 .. Cardinality(Here(q, r)) - 1
  BY HereIsFinite DEF Piece
<1>2. ASSUME NEW p \in Here(q, r)
      PROVE  Piece(q, Packed(q, bytes), r)[Before(q, p)].at = p
  <2>1. p \in Covered(q) /\ RankOf(p) = r
    BY DEF Here
  <2>2. Before(q, p) \in 0 .. ReqSize(q, r) - 1
    BY Numbering
  <2>3. Piece(q, Packed(q, bytes), r)[Before(q, p)] = Packed(q, bytes)[Slot(q, p)]
    BY <2>1, <2>2 DEF Piece, Slot
  <2> QED BY <2>1, <2>3, PackedAt
<1> QED BY <1>1, <1>2 DEF IsPart

-------------------------------------------------------------------------------
(* The bytes in the memory of a node *)

\* Each byte of the file that belongs on node r is at its place.
InPlace(r, mem) ==
  /\ DOMAIN mem = 0 .. LocalSize - 1
  /\ \A p \in Positions : RankOf(p) = r => mem[PlaceInBuffer(p)].at = p

\* It is so from the start.
LEMMA PreloadedInPlace ==
  ASSUME NEW r \in Nodes
  PROVE  InPlace(r, [l \in 0 .. LocalSize - 1 |-> PreloadedByte(r, l)])
<1>1. ASSUME NEW p \in Positions, RankOf(p) = r
      PROVE  PreloadedByte(r, PlaceInBuffer(p)).at = p
  <2>1. p \in Nat
    BY DfcAssumption DEF Positions
  <2> QED BY <2>1, <1>1, PlaceTells DEF PreloadedByte
<1> QED BY <1>1, PlaceIsInside DEF InPlace

\* A part that is stored is where it belongs, and nothing else changes.
LEMMA StoredBytes ==
  ASSUME NEW q, InFile(q), NEW r \in Nodes, NEW mem, InPlace(r, mem),
         NEW piece, \A p \in Here(q, r) : Before(q, p) \in DOMAIN piece
  PROVE  \A p \in Positions : RankOf(p) = r =>
           /\ p \in Here(q, r)
                => WriteHere(q, mem, r, piece)[PlaceInBuffer(p)] = piece[Before(q, p)]
           /\ p \notin Here(q, r)
                => WriteHere(q, mem, r, piece)[PlaceInBuffer(p)] = mem[PlaceInBuffer(p)]
<1> SUFFICES ASSUME NEW p \in Positions, RankOf(p) = r
             PROVE  /\ p \in Here(q, r)
                         => WriteHere(q, mem, r, piece)[PlaceInBuffer(p)] = piece[Before(q, p)]
                    /\ p \notin Here(q, r)
                         => WriteHere(q, mem, r, piece)[PlaceInBuffer(p)] = mem[PlaceInBuffer(p)]
  OBVIOUS
<1> DEFINE l == PlaceInBuffer(p)
<1>1. l \in DOMAIN mem
  BY PlaceIsInside DEF InPlace
<1>2. \A o \in Here(q, r) : o \in Positions /\ RankOf(o) = r
  BY HereIsFinite DEF Here
<1>3. CASE p \in Here(q, r)
  <2>1. \A o \in Here(q, r) : PlaceInBuffer(o) = l => o = p
    BY <1>2, EveryByteHasItsPlace
  <2>2. (CHOOSE o \in Here(q, r) : PlaceInBuffer(o) = l) = p
    BY <1>3, <2>1
  <2> QED BY <1>1, <1>3, <2>2 DEF WriteHere
<1>4. CASE p \notin Here(q, r)
  <2>1. ~\E o \in Here(q, r) : PlaceInBuffer(o) = l
    BY <1>2, <1>4, EveryByteHasItsPlace
  <2> QED BY <1>1, <1>4, <2>1 DEF WriteHere
<1> QED BY <1>3, <1>4

\* A piece has all the bytes of its node.
HasAll(q, r, piece) ==
  \A p \in Here(q, r) : Before(q, p) \in DOMAIN piece /\ piece[Before(q, p)].at = p

\* So every byte stays in its place,
LEMMA StoredInPlace ==
  ASSUME NEW q, InFile(q), NEW r \in Nodes, NEW mem, InPlace(r, mem),
         NEW piece, HasAll(q, r, piece)
  PROVE  InPlace(r, WriteHere(q, mem, r, piece))
<1>1. DOMAIN WriteHere(q, mem, r, piece) = 0 .. LocalSize - 1
  BY DEF InPlace, WriteHere
<1>2. ASSUME NEW p \in Positions, RankOf(p) = r
      PROVE  WriteHere(q, mem, r, piece)[PlaceInBuffer(p)].at = p
  <2>1. mem[PlaceInBuffer(p)].at = p
    BY <1>2 DEF InPlace
  <2>2. /\ p \in Here(q, r)
             => WriteHere(q, mem, r, piece)[PlaceInBuffer(p)] = piece[Before(q, p)]
        /\ p \notin Here(q, r)
             => WriteHere(q, mem, r, piece)[PlaceInBuffer(p)] = mem[PlaceInBuffer(p)]
    BY <1>2, StoredBytes DEF HasAll
  <2> QED BY <2>1, <2>2 DEF HasAll
<1> QED BY <1>1, <1>2 DEF InPlace

\* and a part that is read is the one that was asked for.
LEMMA ReplyBytes ==
  ASSUME NEW q, InFile(q), NEW r \in Nodes, NEW mem, NEW p \in Here(q, r)
  PROVE  /\ Reply(q, mem, r)[Before(q, p)] = mem[PlaceInBuffer(p)]
         /\ ReadHere(q, mem, r)[Before(q, p)] = mem[PlaceInBuffer(p)]
         /\ Before(q, p) \in 0 .. ReqSize(q, r) - 1
         /\ DOMAIN ReadHere(q, mem, r) = 0 .. ReqSize(q, r) - 1
<1>1. /\ Before(q, p) \in 0 .. ReqSize(q, r) - 1
      /\ Before(q, p) \in 0 .. Cardinality(Here(q, r)) - 1
  BY Numbering, HereIsFinite
<1>2. (CHOOSE o \in Here(q, r) : Before(q, o) = Before(q, p)) = p
  BY Numbering
<1>3. ReadHere(q, mem, r)[Before(q, p)] = mem[PlaceInBuffer(p)]
  BY <1>1, <1>2 DEF ReadHere
<1>4. DOMAIN ReadHere(q, mem, r) = 0 .. ReqSize(q, r) - 1
  BY HereIsFinite DEF ReadHere
<1> QED BY <1>1, <1>3, <1>4 DEF Reply

LEMMA ReadFromPlace ==
  ASSUME NEW q, InFile(q), NEW r \in Nodes, NEW mem, InPlace(r, mem)
  PROVE  IsPart(q, r, Reply(q, mem, r))
<1>1. DOMAIN Reply(q, mem, r) = 0 .. Cardinality(Here(q, r)) - 1
  BY HereIsFinite DEF Reply
<1>2. ASSUME NEW p \in Here(q, r)
      PROVE  Reply(q, mem, r)[Before(q, p)].at = p
  <2>1. p \in Positions /\ RankOf(p) = r
    BY HereIsFinite DEF Here
  <2>2. mem[PlaceInBuffer(p)].at = p
    BY <2>1 DEF InPlace
  <2>3. Reply(q, mem, r)[Before(q, p)] = mem[PlaceInBuffer(p)]
    BY ReplyBytes
  <2> QED BY <2>2, <2>3
<1> QED BY <1>1, <1>2 DEF IsPart

-------------------------------------------------------------------------------
(* Sequences of whatever kind *)

IsSequence(d) == \E S : d \in Seq(S)

LEMMA Appended ==
  ASSUME NEW d, IsSequence(d), NEW x
  PROVE  /\ IsSequence(Append(d, x)) /\ Len(d) \in Nat /\ Len(Append(d, x)) = Len(d) + 1
         /\ \A k \in 1 .. Len(d) : Append(d, x)[k] = d[k]
         /\ Append(d, x)[Len(d) + 1] = x
<1>1. PICK S : d \in Seq(S)
  BY DEF IsSequence
<1>2. d \in Seq(S \cup {x})
  BY <1>1
<1> QED BY <1>2, AppendProperties DEF IsSequence

LEMMA HeadAndTail ==
  ASSUME NEW d, IsSequence(d), d # << >>
  PROVE  /\ IsSequence(Tail(d)) /\ Len(d) \in Nat \ {0} /\ Len(Tail(d)) = Len(d) - 1
         /\ Head(d) = d[1]
         /\ \A k \in 1 .. Len(d) - 1 : Tail(d)[k] = d[k + 1]
<1>1. PICK S : d \in Seq(S)
  BY DEF IsSequence
<1> QED BY <1>1, HeadTailProperties DEF IsSequence

LEMMA Emptiness ==
  ASSUME NEW d, IsSequence(d)
  PROVE  Len(d) \in Nat /\ (d = << >> <=> Len(d) = 0)
BY DEF IsSequence

-------------------------------------------------------------------------------
(* Writes and their data *)

(* Node i gets commands cs, of which it is serving sv, and under tag t the data d: they are
   those of the write commands with this tag, one each, in their order (f says which
   command each belongs to, 0 being the one that is served). *)
IsWrite(t, m) == m.command = "WRITE" /\ m.sock_tag = t

At(cs, sv, k) == IF k = 0 THEN sv ELSE cs[k]

MatchedBy(i, t, d, cs, sv, f) ==
  /\ f \in [1 .. Len(d) -> 0 .. Len(cs)]
  /\ \A j, k \in 1 .. Len(d) : j < k => f[j] < f[k]
  /\ \A k \in 0 .. Len(cs) : IsWrite(t, At(cs, sv, k)) => \E j \in 1 .. Len(d) : f[j] = k
  /\ \A j \in 1 .. Len(d) :
       IsWrite(t, At(cs, sv, f[j])) /\ IsPart(At(cs, sv, f[j]), i, d[j])

Matched(i, t, d, cs, sv) == \E f : MatchedBy(i, t, d, cs, sv, f)

\* A write is sent with its part.
LEMMA MatchWrite ==
  ASSUME NEW i, NEW t, NEW d, IsSequence(d), NEW cs, IsSequence(cs), NEW sv,
         Matched(i, t, d, cs, sv),
         NEW m, IsWrite(t, m), NEW piece, IsPart(m, i, piece)
  PROVE  Matched(i, t, Append(d, piece), Append(cs, m), sv)
<1> DEFINE d2 == Append(d, piece)
           c2 == Append(cs, m)
<1>1. PICK f : MatchedBy(i, t, d, cs, sv, f)
  BY DEF Matched
<1>2. /\ Len(d) \in Nat /\ Len(d2) = Len(d) + 1 /\ d2[Len(d) + 1] = piece
      /\ \A k \in 1 .. Len(d) : d2[k] = d[k]
      /\ Len(cs) \in Nat /\ Len(c2) = Len(cs) + 1 /\ c2[Len(cs) + 1] = m
      /\ \A k \in 1 .. Len(cs) : c2[k] = cs[k]
  BY Appended
<1> HIDE DEF d2, c2
<1> DEFINE g == [j \in 1 .. Len(d2) |-> IF j = Len(d) + 1 THEN Len(cs) + 1 ELSE f[j]]
<1>3. /\ g \in [1 .. Len(d2) -> 0 .. Len(c2)] /\ g[Len(d) + 1] = Len(cs) + 1
      /\ \A j \in 1 .. Len(d) : g[j] = f[j] /\ f[j] \in 0 .. Len(cs)
  BY <1>1, <1>2 DEF MatchedBy
<1> HIDE DEF g
<1>4. ASSUME NEW j \in 1 .. Len(d2), NEW k \in 1 .. Len(d2), j < k
      PROVE  g[j] < g[k]
  <2>1. j \in 1 .. Len(d) /\ g[j] = f[j] /\ f[j] \in 0 .. Len(cs)
    BY <1>2, <1>3, <1>4
  <2>2. CASE k = Len(d) + 1
    BY <2>1, <2>2, <1>2, <1>3
  <2>3. CASE k # Len(d) + 1
    <3>1. k \in 1 .. Len(d) /\ g[k] = f[k]
      BY <2>3, <1>2, <1>3
    <3> QED BY <2>1, <3>1, <1>1, <1>4 DEF MatchedBy
  <2> QED BY <2>2, <2>3
<1>5. /\ \A k \in 0 .. Len(cs) : At(c2, sv, k) = At(cs, sv, k)
      /\ At(c2, sv, Len(cs) + 1) = m
  BY <1>2 DEF At
<1>6. ASSUME NEW k \in 0 .. Len(c2), IsWrite(t, At(c2, sv, k))
      PROVE  \E j \in 1 .. Len(d2) : g[j] = k
  <2>1. CASE k = Len(cs) + 1
    BY <2>1, <1>2, <1>3
  <2>2. CASE k # Len(cs) + 1
    <3>1. k \in 0 .. Len(cs)
      BY <2>2, <1>2
    <3>2. PICK j \in 1 .. Len(d) : f[j] = k
      BY <3>1, <1>1, <1>5, <1>6 DEF MatchedBy
    <3> QED BY <3>2, <1>2, <1>3
  <2> QED BY <2>1, <2>2
<1>7. ASSUME NEW j \in 1 .. Len(d2)
      PROVE  IsWrite(t, At(c2, sv, g[j])) /\ IsPart(At(c2, sv, g[j]), i, d2[j])
  <2>1. CASE j = Len(d) + 1
    BY <2>1, <1>2, <1>3, <1>5
  <2>2. CASE j # Len(d) + 1
    <3>1. j \in 1 .. Len(d)
      BY <2>2, <1>2
    <3> QED BY <3>1, <1>1, <1>2, <1>3, <1>5 DEF MatchedBy
  <2> QED BY <2>1, <2>2
<1>8. MatchedBy(i, t, d2, c2, sv, g)
  BY <1>3, <1>4, <1>6, <1>7 DEF MatchedBy
<1> QED BY <1>8 DEF Matched, d2, c2

\* Another command is sent.
LEMMA MatchOther ==
  ASSUME NEW i, NEW t, NEW d, NEW cs, IsSequence(cs), NEW sv,
         Matched(i, t, d, cs, sv),
         NEW m, ~IsWrite(t, m)
  PROVE  Matched(i, t, d, Append(cs, m), sv)
<1> DEFINE c2 == Append(cs, m)
<1>1. PICK f : MatchedBy(i, t, d, cs, sv, f)
  BY DEF Matched
<1>2. /\ Len(cs) \in Nat /\ Len(c2) = Len(cs) + 1 /\ c2[Len(cs) + 1] = m
      /\ \A k \in 1 .. Len(cs) : c2[k] = cs[k]
  BY Appended
<1> HIDE DEF c2
<1>3. /\ \A k \in 0 .. Len(cs) : At(c2, sv, k) = At(cs, sv, k)
      /\ At(c2, sv, Len(cs) + 1) = m
  BY <1>2 DEF At
<1>4. \A j \in 1 .. Len(d) : f[j] \in 0 .. Len(cs)
  BY <1>1 DEF MatchedBy
<1>5. f \in [1 .. Len(d) -> 0 .. Len(c2)]
  BY <1>1, <1>2 DEF MatchedBy
<1>6. ASSUME NEW k \in 0 .. Len(c2), IsWrite(t, At(c2, sv, k))
      PROVE  \E j \in 1 .. Len(d) : f[j] = k
  <2>1. k # Len(cs) + 1
    BY <1>3, <1>6
  <2>2. k \in 0 .. Len(cs)
    BY <2>1, <1>2
  <2> QED BY <2>2, <1>1, <1>3, <1>6 DEF MatchedBy
<1>7. ASSUME NEW j \in 1 .. Len(d)
      PROVE  IsWrite(t, At(c2, sv, f[j])) /\ IsPart(At(c2, sv, f[j]), i, d[j])
  BY <1>1, <1>3, <1>4 DEF MatchedBy
<1>8. MatchedBy(i, t, d, c2, sv, f)
  BY <1>1, <1>5, <1>6, <1>7 DEF MatchedBy
<1> QED BY <1>8 DEF Matched, c2

\* A node that serves no write with this tag takes the next command.
LEMMA MatchTaken ==
  ASSUME NEW i, NEW t, NEW d, IsSequence(d), NEW cs, IsSequence(cs), cs # << >>, NEW sv,
         ~IsWrite(t, sv), Matched(i, t, d, cs, sv),
         NEW s2, IF IsWrite(t, Head(cs)) THEN s2 = Head(cs) ELSE ~IsWrite(t, s2)
  PROVE  Matched(i, t, d, Tail(cs), s2)
<1> DEFINE c2 == Tail(cs)
<1>1. PICK f : MatchedBy(i, t, d, cs, sv, f)
  BY DEF Matched
<1>2. /\ Len(d) \in Nat /\ Len(cs) \in Nat \ {0} /\ Len(c2) = Len(cs) - 1 /\ Head(cs) = cs[1]
      /\ \A k \in 1 .. Len(c2) : c2[k] = cs[k + 1]
  BY HeadAndTail, Emptiness
<1> HIDE DEF c2
<1>3. ASSUME NEW j \in 1 .. Len(d)
      PROVE  f[j] \in 1 .. Len(cs)
  <2>1. f[j] \in 0 .. Len(cs) /\ IsWrite(t, At(cs, sv, f[j]))
    BY <1>1 DEF MatchedBy
  <2> QED BY <2>1, <1>2 DEF At
<1> DEFINE g == [j \in 1 .. Len(d) |-> f[j] - 1]
<1>4. g \in [1 .. Len(d) -> 0 .. Len(c2)] /\ \A j \in 1 .. Len(d) : g[j] = f[j] - 1
  BY <1>2, <1>3
<1> HIDE DEF g
<1>5. \A j, k \in 1 .. Len(d) : j < k => g[j] < g[k]
  BY <1>1, <1>3, <1>4 DEF MatchedBy
<1>6. \A k \in 0 .. Len(c2) :
        IsWrite(t, At(c2, s2, k)) \/ IsWrite(t, At(cs, sv, k + 1))
          => At(c2, s2, k) = At(cs, sv, k + 1)
  BY <1>2 DEF At
<1>7. ASSUME NEW k \in 0 .. Len(c2), IsWrite(t, At(c2, s2, k))
      PROVE  \E j \in 1 .. Len(d) : g[j] = k
  <2>1. k + 1 \in 0 .. Len(cs) /\ IsWrite(t, At(cs, sv, k + 1))
    BY <1>2, <1>6, <1>7
  <2>2. PICK j \in 1 .. Len(d) : f[j] = k + 1
    BY <2>1, <1>1 DEF MatchedBy
  <2> QED BY <2>2, <1>2, <1>4
<1>8. ASSUME NEW j \in 1 .. Len(d)
      PROVE  IsWrite(t, At(c2, s2, g[j])) /\ IsPart(At(c2, s2, g[j]), i, d[j])
  <2>1. g[j] \in 0 .. Len(c2) /\ g[j] + 1 = f[j]
    BY <1>3, <1>4
  <2>2. IsWrite(t, At(cs, sv, f[j])) /\ IsPart(At(cs, sv, f[j]), i, d[j])
    BY <1>1 DEF MatchedBy
  <2>3. At(c2, s2, g[j]) = At(cs, sv, f[j])
    BY <2>1, <2>2, <1>6
  <2> QED BY <2>2, <2>3
<1>9. MatchedBy(i, t, d, c2, s2, g)
  BY <1>4, <1>5, <1>7, <1>8 DEF MatchedBy
<1> QED BY <1>9 DEF Matched, c2

\* The data that come first are those of the write that is served,
LEMMA MatchFirst ==
  ASSUME NEW i, NEW t, NEW d, IsSequence(d), d # << >>, NEW cs, IsSequence(cs), NEW sv,
         IsWrite(t, sv), NEW f, MatchedBy(i, t, d, cs, sv, f)
  PROVE  /\ Len(d) \in Nat \ {0} /\ Len(cs) \in Nat
         /\ f[1] = 0 /\ IsPart(sv, i, Head(d))
<1>1. Len(d) \in Nat \ {0} /\ Head(d) = d[1]
  BY HeadAndTail
<1>2. Len(cs) \in Nat
  BY Emptiness
<1>3. PICK j \in 1 .. Len(d) : f[j] = 0
  BY <1>2 DEF MatchedBy, At
<1>4. f[1] \in 0 .. Len(cs) /\ (1 < j => f[1] < f[j])
  BY <1>1 DEF MatchedBy
<1>5. f[1] = 0
  BY <1>1, <1>2, <1>3, <1>4
<1> QED BY <1>1, <1>2, <1>5 DEF MatchedBy, At

\* and when they are stored the rest still match.
LEMMA MatchStored ==
  ASSUME NEW i, NEW t, NEW d, IsSequence(d), d # << >>, NEW cs, IsSequence(cs), NEW sv,
         IsWrite(t, sv), Matched(i, t, d, cs, sv), NEW s2, ~IsWrite(t, s2)
  PROVE  Matched(i, t, Tail(d), cs, s2)
<1> DEFINE d2 == Tail(d)
<1>1. PICK f : MatchedBy(i, t, d, cs, sv, f)
  BY DEF Matched
<1>2. /\ Len(d) \in Nat \ {0} /\ Len(d2) = Len(d) - 1
      /\ \A k \in 1 .. Len(d2) : d2[k] = d[k + 1]
  BY HeadAndTail
<1>3. Len(cs) \in Nat /\ f[1] = 0
  BY <1>1, MatchFirst
<1> HIDE DEF d2
<1>4. ASSUME NEW j \in 1 .. Len(d2)
      PROVE  j + 1 \in 1 .. Len(d) /\ f[j + 1] \in 1 .. Len(cs)
  <2>1. j + 1 \in 1 .. Len(d) /\ 1 \in 1 .. Len(d) /\ 1 < j + 1
    BY <1>2
  <2>2. f[1] < f[j + 1] /\ f[j + 1] \in 0 .. Len(cs)
    BY <2>1, <1>1 DEF MatchedBy
  <2> QED BY <2>1, <2>2, <1>3
<1> DEFINE g == [j \in 1 .. Len(d2) |-> f[j + 1]]
<1>5. g \in [1 .. Len(d2) -> 0 .. Len(cs)] /\ \A j \in 1 .. Len(d2) : g[j] = f[j + 1]
  BY <1>3, <1>4
<1> HIDE DEF g
<1>6. \A j, k \in 1 .. Len(d2) : j < k => g[j] < g[k]
  BY <1>1, <1>2, <1>4, <1>5 DEF MatchedBy
<1>7. \A k \in 1 .. Len(cs) : At(cs, s2, k) = At(cs, sv, k)
  BY <1>3 DEF At
<1>8. ASSUME NEW k \in 0 .. Len(cs), IsWrite(t, At(cs, s2, k))
      PROVE  \E j \in 1 .. Len(d2) : g[j] = k
  <2>1. k \in 1 .. Len(cs) /\ IsWrite(t, At(cs, sv, k))
    BY <1>3, <1>7, <1>8 DEF At
  <2>2. PICK j \in 1 .. Len(d) : f[j] = k
    BY <2>1, <1>1, <1>3 DEF MatchedBy
  <2>3. j - 1 \in 1 .. Len(d2) /\ j - 1 + 1 = j
    BY <2>1, <2>2, <1>2, <1>3
  <2> QED BY <2>2, <2>3, <1>5
<1>9. ASSUME NEW j \in 1 .. Len(d2)
      PROVE  IsWrite(t, At(cs, s2, g[j])) /\ IsPart(At(cs, s2, g[j]), i, d2[j])
  <2>1. j + 1 \in 1 .. Len(d) /\ g[j] = f[j + 1] /\ f[j + 1] \in 1 .. Len(cs) /\ d2[j] = d[j + 1]
    BY <1>2, <1>4, <1>5
  <2>2. IsWrite(t, At(cs, sv, f[j + 1])) /\ IsPart(At(cs, sv, f[j + 1]), i, d[j + 1])
    BY <2>1, <1>1 DEF MatchedBy
  <2> QED BY <2>1, <2>2, <1>7
<1>10. MatchedBy(i, t, d2, cs, s2, g)
  BY <1>5, <1>6, <1>8, <1>9 DEF MatchedBy
<1> QED BY <1>10 DEF Matched, d2

\* What is served does not matter as long as it is no write with this tag.
LEMMA MatchServed ==
  ASSUME NEW i, NEW t, NEW d, NEW cs, IsSequence(cs), NEW sv, NEW s2,
         Matched(i, t, d, cs, sv), ~IsWrite(t, sv), ~IsWrite(t, s2)
  PROVE  Matched(i, t, d, cs, s2)
<1>1. PICK f : MatchedBy(i, t, d, cs, sv, f)
  BY DEF Matched
<1>2. Len(cs) \in Nat
  BY Emptiness
<1>3. ASSUME NEW j \in 1 .. Len(d)
      PROVE  f[j] # 0
  BY <1>1 DEF MatchedBy, At
<1>4. \A k \in 1 .. Len(cs) : At(cs, s2, k) = At(cs, sv, k)
  BY <1>2 DEF At
<1>5. ASSUME NEW k \in 0 .. Len(cs), IsWrite(t, At(cs, s2, k))
      PROVE  \E j \in 1 .. Len(d) : f[j] = k
  <2>1. k \in 1 .. Len(cs)
    BY <1>2, <1>5 DEF At
  <2> QED BY <2>1, <1>1, <1>4, <1>5 DEF MatchedBy
<1>6. ASSUME NEW j \in 1 .. Len(d)
      PROVE  IsWrite(t, At(cs, s2, f[j])) /\ IsPart(At(cs, s2, f[j]), i, d[j])
  <2>1. f[j] \in 0 .. Len(cs)
    BY <1>1 DEF MatchedBy
  <2>2. f[j] \in 1 .. Len(cs)
    BY <2>1, <1>2, <1>3
  <2> QED BY <2>2, <1>1, <1>4 DEF MatchedBy
<1>7. MatchedBy(i, t, d, cs, s2, f)
  BY <1>1, <1>5, <1>6 DEF MatchedBy
<1> QED BY <1>7 DEF Matched

-------------------------------------------------------------------------------
(* The invariant *)

\* A command of connection c that can be done.
Good(c, q) ==
  /\ q \in Commands /\ q.srcrank = Home[c] /\ q.sock_tag = Sock[c]
  /\ q.command \in {"READ", "WRITE"} => InFile(q) /\ OwnPartFirst(q, Home[c])

\* Only such commands are on their way to the handlers.
UpOK ==
  \A c \in Conns : \A k \in 1 .. Len(up[c]) :
    up[c][k].command \in ToList => Good(c, CommandOf(c, up[c][k]))

\* A handler that has a command in its hands waits for nothing else; the data of a write have
\* been packed.
Held(c) == handler[c] \in {"posted", "answer"}

HandlerOK(c) ==
  /\ Held(c) => Good(c, thecmd[c].cmd)
  /\ handler[c] = "answer" => thecmd[c].status = "COMPLETE"
  /\ handler[c] # "posted" \/ thecmd[c].status # "WORKING"
       => \A i \in Nodes : thecmd[c].work[i] = {}
  /\ thecmd[c].work[Home[c]] = {}
  /\ handler[c] = "posted" /\ thecmd[c].status = "PENDING" /\ thecmd[c].cmd.command = "WRITE"
       => /\ DOMAIN thecmd[c].buffer = 0 .. thecmd[c].cmd.length - 1
          /\ \A r \in Nodes : IsPart(thecmd[c].cmd, r, Piece(thecmd[c].cmd, thecmd[c].buffer, r))

HandlersOK == \A c \in Conns : HandlerOK(c)

\* The list of a node holds the commands that its handlers have posted, each once.
ListsAreExact ==
  /\ \A n \in Nodes : \A k \in 1 .. Len(cmdlist[n]) :
       handler[cmdlist[n][k]] = "posted" /\ Home[cmdlist[n][k]] = n
  /\ \A n \in Nodes : \A j, k \in 1 .. Len(cmdlist[n]) : cmdlist[n][j] = cmdlist[n][k] => j = k
  /\ \A c \in Conns : handler[c] = "posted"
       => \E k \in 1 .. Len(cmdlist[Home[c]]) : cmdlist[Home[c]][k] = c

MemoryInPlace == DOMAIN memory = Nodes /\ \A n \in Nodes : InPlace(n, memory[n])

CmdsOK ==
  \A a, b \in Nodes : \A k \in 1 .. Len(cmds[a][b]) :
    a # b /\ \E c \in Conns : Home[c] = a /\ Good(c, cmds[a][b][k])

ServerOK ==
  \A n \in Nodes :
    /\ server[n].status # "listen" => \E c \in Conns : Home[c] # n /\ Good(c, server[n].cmd)
    /\ server[n].status = "receive" => server[n].cmd.command = "WRITE"

ChannelsOK ==
  /\ DOMAIN data = Nodes
  /\ \A a \in Nodes : DOMAIN data[a] = Nodes
  /\ \A a, b \in Nodes : DOMAIN data[a][b] = Tags /\ \A t \in Tags : IsSequence(data[a][b][t])

\* The write that node i serves, if it does
Serving(i) == IF server[i].status = "receive" THEN server[i].cmd ELSE Kill

WritesOK ==
  \A c \in Conns : \A i \in Nodes \ {Home[c]} :
    Matched(i, Sock[c], data[Home[c]][i][Sock[c]], cmds[Home[c]][i], Serving(i))

IsRead(t, m) == m.command = "READ" /\ m.sock_tag = t

\* The read of connection c has not yet got its part from node i.
Awaits(c, i) == thecmd[c].cmd.command = "READ" /\ "data" \in thecmd[c].work[i]

\* The read of connection c is on its way to node i at most once, and only as long as it is
\* awaited; so is the part that comes back.
ReadOK(c, i) ==
  LET cs == cmds[Home[c]][i]
      d == data[i][Home[c]][Sock[c]]
  IN
  /\ \A k \in 1 .. Len(cs) : IsRead(Sock[c], cs[k])
       => cs[k] = thecmd[c].cmd /\ Awaits(c, i) /\ d = << >>
  /\ \A j, k \in 1 .. Len(cs) : IsRead(Sock[c], cs[j]) /\ IsRead(Sock[c], cs[k]) => j = k
  /\ d # << >> => Awaits(c, i) /\ Len(d) = 1 /\ IsPart(thecmd[c].cmd, i, d[1])

ReadsOK == \A c \in Conns : \A i \in Nodes \ {Home[c]} : ReadOK(c, i)

Inv ==
  /\ RequestsAreServed /\ TagsApart
  /\ TypeOK /\ UpOK /\ HandlersOK /\ ListsAreExact /\ MemoryInPlace
  /\ CmdsOK /\ ServerOK /\ ChannelsOK /\ WritesOK /\ ReadsOK

\* The connections that the code keeps apart
LEMMA Basics ==
  /\ N \in Nat \ {0} /\ Nodes # {} /\ Nodes \subseteq Nat /\ 0 \in Nodes
  /\ \A c \in Conns : Home[c] \in Nodes /\ Sock[c] \in Tags /\ Sock[c] \in Nat
  /\ TagsApart => \A c, d \in Conns : Sock[c] = Sock[d] => c = d
  /\ Kill \in Commands /\ Kill.command = "KILL" /\ ToList \subseteq Orders
BY DfcAssumption DEF Nodes, Tags, TagsApart, Kill, Commands, ToList, Orders

LEMMA SocketsApart ==
  ASSUME Inv
  PROVE  \A c, d \in Conns : Sock[c] = Sock[d] => c = d
BY Basics DEF Inv

\* The parts of TypeOK that are used most
LEMMA HandlerTypes == TypeOK => handler \in [Conns -> Places]
BY DEF TypeOK

LEMMA CommandTypes ==
  ASSUME TypeOK, NEW c \in Conns
  PROVE  /\ thecmd[c].cmd \in Commands
         /\ thecmd[c].status \in {"PENDING", "WORKING", "COMPLETE"}
         /\ thecmd[c].work \in [Nodes -> SUBSET {"cmd", "data"}]
BY DEF TypeOK

LEMMA ListTypes ==
  ASSUME TypeOK, NEW n \in Nodes
  PROVE  cmdlist[n] \in Seq(Conns)
BY DEF TypeOK

LEMMA ChannelTypes ==
  ASSUME TypeOK, NEW m \in Nodes, NEW n \in Nodes
  PROVE  cmds[m][n] \in Seq(Commands)
BY DEF TypeOK

LEMMA InitTypes == Init => TypeOK
<1> SUFFICES ASSUME Init PROVE TypeOK
  OBVIOUS
<1> USE Basics DEF Init
<1>1. /\ client \in [Conns -> {"closed", "open", "waiting"}]
      /\ handler \in [Conns -> Places]
      /\ isdying \in [Nodes -> BOOLEAN] /\ running \in [Nodes -> BOOLEAN]
      /\ file_size \in [Nodes -> Nat] /\ issued \in Nat
  BY DfcAssumption DEF Places
<1>2. up \in [Conns -> Seq(Calls)] /\ cmdlist \in [Nodes -> Seq(Conns)]
      /\ cmds \in [Nodes -> [Nodes -> Seq(Commands)]]
  OBVIOUS
<1>3. server \in [Nodes -> [status : {"listen", "reply", "receive"}, cmd : Commands]]
  BY DEF Listening
<1>4. DOMAIN thecmd = Conns /\ \A c \in Conns :
        /\ thecmd[c].cmd \in Commands
        /\ thecmd[c].status \in {"PENDING", "WORKING", "COMPLETE"}
        /\ thecmd[c].work \in [Nodes -> SUBSET {"cmd", "data"}]
  BY DEF Idle
<1> QED BY <1>1, <1>2, <1>3, <1>4 DEF TypeOK

LEMMA InitLists == Init => ListsAreExact
BY Basics DEF Init, ListsAreExact

LEMMA InitInv == RequestsAreServed /\ Init => Inv
<1> SUFFICES ASSUME RequestsAreServed, Init PROVE Inv
  OBVIOUS
<1> USE Basics DEF Init
<1>1. \A c \in Conns : thecmd[c] = Idle /\ handler[c] = "none" /\ up[c] = << >>
  OBVIOUS
<1>2. TypeOK
  BY InitTypes
<1>3. UpOK /\ ListsAreExact
  BY DEF UpOK, ListsAreExact
<1>4. HandlersOK
  BY <1>1 DEF HandlersOK, HandlerOK, Held, Idle
<1>5. MemoryInPlace
  BY PreloadedInPlace DEF MemoryInPlace
<1>6. CmdsOK /\ ServerOK
  BY DEF CmdsOK, ServerOK, Listening
<1>7. ChannelsOK
  <2>1. IsSequence(<< >>)
    BY << >> \in Seq({}) DEF IsSequence
  <2> QED BY <2>1 DEF ChannelsOK
<1>8. WritesOK
  <2> SUFFICES ASSUME NEW c \in Conns, NEW i \in Nodes
               PROVE  Matched(i, Sock[c], << >>, << >>, Serving(i))
    BY DEF WritesOK
  <2>1. ~IsWrite(Sock[c], Serving(i))
    BY DEF Serving, Listening, IsWrite
  <2>2. MatchedBy(i, Sock[c], << >>, << >>, Serving(i), << >>)
    BY <2>1 DEF MatchedBy, At
  <2> QED BY <2>2 DEF Matched
<1>9. ReadsOK
  BY DEF ReadsOK, ReadOK
<1>10. TagsApart
  BY DEF RequestsAreServed
<1> QED BY <1>2, <1>3, <1>4, <1>5, <1>6, <1>7, <1>8, <1>9, <1>10 DEF Inv

-------------------------------------------------------------------------------
(* What the parts of the system leave alone *)

LEMMA ClientFrame ==
  ASSUME NEW c \in Conns, ClientStep(c)
  PROVE  /\ UNCHANGED << thecmd, cmdlist, file_size, nodes, network >>
         /\ \/ UNCHANGED handler
            \/ handler[c] = "none" /\ handler' = [handler EXCEPT ![c] = "select"]
BY DEF ClientStep, Open, Command, Close, Answered, handlers, nodes, network

LEMMA HandlerFrame ==
  ASSUME NEW c \in Conns, HandlerStep(c)
  PROVE  UNCHANGED << client, nodes, network, issued >>
BY DEF HandlerStep, TakeOpen, TakeStat, Post, TakeOut, Answer, Lengthen, GoesOn, Dies, nodes, network

LEMMA NodeFrame ==
  ASSUME NEW n \in Nodes, NodeStep(n)
  PROVE  UNCHANGED << sockets, handler, cmdlist, file_size, issued >>
BY DEF NodeStep, Start, Progress, TakeCommand, StoreData, ReplySent, Leave, sockets, handlers

\* What an application sends is a request,
LEMMA SentIsTyped ==
  ASSUME TypeOK, NEW c \in Conns, NEW q,
         Open(c, q) \/ Command(c, q) \/ Close(c, q), up' # up
  PROVE  /\ issued' \in Nat
         /\ up' = [up EXCEPT ![c] = Append(@, Call(q, issued'))]
         /\ Call(q, issued') \in Calls
         /\ q \in Requests[c] /\ q \in Asks
         /\ (q.command \in {"READ", "WRITE"} => q.location + q.length <= MaxSize)
<1>1. Sends(c, q) /\ q \in Requests[c]
      /\ (q.command \in {"READ", "WRITE"} => q.location + q.length <= MaxSize)
  BY DEF Open, Command, Close, Asked
<1>2. q \in Asks
  BY <1>1, DfcAssumption
<1>3. issued' \in Nat /\ up' = [up EXCEPT ![c] = Append(@, Call(q, issued'))]
  BY <1>1 DEF Sends, TypeOK
<1>4. Call(q, issued') \in Calls
  BY <1>2, <1>3 DEF Call, Calls, Asks
<1> QED BY <1>1, <1>2, <1>3, <1>4

\* and one that can be done, if all are.
LEMMA SentIsGood ==
  ASSUME RequestsAreServed, TypeOK, NEW c \in Conns, NEW q,
         Open(c, q) \/ Command(c, q) \/ Close(c, q), up' # up
  PROVE  /\ issued' \in Nat
         /\ up' = [up EXCEPT ![c] = Append(@, Call(q, issued'))]
         /\ Call(q, issued') \in Calls
         /\ Call(q, issued').command \in ToList => Good(c, CommandOf(c, Call(q, issued')))
<1>1. CommandOf(c, Call(q, issued')) = CommandOf(c, q)
  BY DEF Call, CommandOf
<1>2. ASSUME Call(q, issued').command \in ToList
      PROVE  Good(c, CommandOf(c, q))
  <2> DEFINE m == CommandOf(c, q)
  <2>1. q.command \in ToList
    BY <1>2 DEF Call
  <2>2. m \in Commands /\ m.srcrank = Home[c] /\ m.sock_tag = Sock[c]
        /\ m.command = q.command /\ m.location = q.location /\ m.length = q.length
    BY <2>1, SentIsTyped, Basics DEF CommandOf, Commands, Asks
  <2>3. PartsAddUp(m) /\ OwnPartFirst(m, Home[c])
    BY SentIsTyped DEF RequestsAreServed
  <2>4. q.location \in Nat /\ q.length \in Nat
    BY SentIsTyped DEF Asks
  <2> HIDE DEF m
  <2>5. Good(c, m)
    BY <2>2, <2>3, <2>4, SentIsTyped DEF Good, InFile
  <2> QED BY <2>5 DEF m
<1> QED BY <1>1, <1>2, SentIsTyped

\* The command at the head of a socket,
LEMMA HeadIsTyped ==
  ASSUME TypeOK, NEW c \in Conns, up[c] # << >>
  PROVE  /\ Head(up[c]) \in Calls /\ Tail(up[c]) \in Seq(Calls)
         /\ Head(up[c]) = up[c][1] /\ 1 \in 1 .. Len(up[c])
         /\ Head(up[c]).command \in ToList => CommandOf(c, Head(up[c])) \in Commands
         /\ Len(Tail(up[c])) = Len(up[c]) - 1 /\ Len(up[c]) \in Nat \ {0}
         /\ \A k \in 1 .. Len(Tail(up[c])) : Tail(up[c])[k] = up[c][k + 1]
<1>1. up[c] \in Seq(Calls)
  BY DEF TypeOK
<1>2. Head(up[c]) = up[c][1] /\ 1 \in 1 .. Len(up[c]) /\ Head(up[c]) \in Calls
  BY <1>1, HeadTailProperties
<1>3. Head(up[c]).command \in ToList => CommandOf(c, Head(up[c])) \in Commands
  BY <1>2, Basics DEF Calls, CommandOf, Commands
<1> QED BY <1>1, <1>2, <1>3, HeadTailProperties

\* which can be done, if it is one for the list.
LEMMA HeadIsGood ==
  ASSUME TypeOK, UpOK, NEW c \in Conns, up[c] # << >>
  PROVE  /\ Head(up[c]) \in Calls /\ Tail(up[c]) \in Seq(Calls)
         /\ Head(up[c]).command \in ToList => Good(c, CommandOf(c, Head(up[c])))
         /\ Len(Tail(up[c])) = Len(up[c]) - 1 /\ Len(up[c]) \in Nat \ {0}
         /\ \A k \in 1 .. Len(Tail(up[c])) : Tail(up[c])[k] = up[c][k + 1]
BY HeadIsTyped DEF UpOK

\* Each case of Next, once for all conjuncts of the invariant.
LEMMA NextCases ==
  ASSUME [Next]_vars
  PROVE  \/ \E c \in Conns : ClientStep(c)
         \/ \E c \in Conns : HandlerStep(c)
         \/ \E n \in Nodes : NodeStep(n)
         \/ UNCHANGED vars
BY DEF Next

LEMMA UpStep == Inv /\ [Next]_vars => UpOK'
<1> SUFFICES ASSUME Inv, [Next]_vars PROVE UpOK'
  OBVIOUS
<1> USE DEF Inv
<1>1. ASSUME up' = up PROVE UpOK'
  BY <1>1 DEF UpOK
<1>2. ASSUME NEW c \in Conns, NEW s \in Seq(Calls), up' = [up EXCEPT ![c] = s],
             \A k \in 1 .. Len(s) : s[k].command \in ToList => Good(c, CommandOf(c, s[k]))
      PROVE  UpOK'
  BY <1>2 DEF UpOK, TypeOK
<1>3. ASSUME NEW c \in Conns, ClientStep(c) PROVE UpOK'
  <2>1. CASE up' = up
    BY <2>1, <1>1
  <2>2. CASE up' # up
    <3>1. PICK q : Open(c, q) \/ Command(c, q) \/ Close(c, q)
      BY <1>3, <2>2 DEF ClientStep, Answered
    <3> DEFINE s == Append(up[c], Call(q, issued'))
    <3>2. /\ up' = [up EXCEPT ![c] = s]
          /\ Call(q, issued') \in Calls
          /\ Call(q, issued').command \in ToList => Good(c, CommandOf(c, Call(q, issued')))
      BY <2>2, <3>1, SentIsGood
    <3>3. up[c] \in Seq(Calls)
      BY DEF TypeOK
    <3>4. /\ s \in Seq(Calls) /\ Len(s) = Len(up[c]) + 1 /\ Len(up[c]) \in Nat
          /\ s[Len(up[c]) + 1] = Call(q, issued')
          /\ \A k \in 1 .. Len(up[c]) : s[k] = up[c][k]
      BY <3>2, <3>3, AppendProperties
    <3> HIDE DEF s
    <3>5. ASSUME NEW k \in 1 .. Len(s), s[k].command \in ToList
          PROVE  Good(c, CommandOf(c, s[k]))
      <4>1. CASE k = Len(up[c]) + 1
        BY <4>1, <3>2, <3>4, <3>5
      <4>2. CASE k # Len(up[c]) + 1
        <5>1. k \in 1 .. Len(up[c])
          BY <4>2, <3>4
        <5> QED BY <5>1, <3>4, <3>5 DEF UpOK
      <4> QED BY <4>1, <4>2
    <3> QED BY <3>2, <3>4, <3>5, <1>2
  <2> QED BY <2>1, <2>2
<1>4. ASSUME NEW c \in Conns, HandlerStep(c) PROVE UpOK'
  <2>1. \/ up' = up
        \/ up' = [up EXCEPT ![c] = up[c]]
        \/ up' = [up EXCEPT ![c] = << >>]
        \/ up[c] # << >> /\ up' = [up EXCEPT ![c] = Tail(up[c])]
    BY <1>4 DEF HandlerStep, TakeOpen, TakeStat, Post, TakeOut, Answer, Lengthen, GoesOn, Dies, Takes, Loop
  <2>2. CASE up' = [up EXCEPT ![c] = up[c]]
    <3>1. up' = up
      BY <2>2 DEF TypeOK
    <3> QED BY <3>1, <1>1
  <2>3. CASE up' = [up EXCEPT ![c] = << >>]
    <3> DEFINE s == << >>
    <3>1. s \in Seq(Calls) /\ \A k \in 1 .. Len(s) : FALSE
      OBVIOUS
    <3> HIDE DEF s
    <3> QED BY <2>3, <3>1, <1>2 DEF s
  <2>4. CASE up[c] # << >> /\ up' = [up EXCEPT ![c] = Tail(up[c])]
    <3> DEFINE s == Tail(up[c])
    <3>1. /\ s \in Seq(Calls) /\ Len(s) = Len(up[c]) - 1 /\ Len(up[c]) \in Nat \ {0}
          /\ \A k \in 1 .. Len(s) : s[k] = up[c][k + 1]
      BY <2>4, HeadIsGood
    <3> HIDE DEF s
    <3>2. \A k \in 1 .. Len(s) : k + 1 \in 1 .. Len(up[c])
      BY <3>1
    <3>3. \A k \in 1 .. Len(s) : s[k].command \in ToList => Good(c, CommandOf(c, s[k]))
      BY <3>1, <3>2 DEF UpOK
    <3>4. up' = [up EXCEPT ![c] = s]
      BY <2>4 DEF s
    <3> QED BY <3>1, <3>3, <3>4, <1>2
  <2> QED BY <1>1, <2>1, <2>2, <2>3, <2>4
<1>5. ASSUME NEW n \in Nodes, NodeStep(n) PROVE UpOK'
  BY <1>5, <1>1, NodeFrame DEF sockets
<1>6. CASE UNCHANGED vars
  BY <1>6, <1>1 DEF vars, sockets
<1> QED BY <1>3, <1>4, <1>5, <1>6, NextCases

\* A command that is taken out leaves the rest of the list in order.
LEMMA TakenOut ==
  ASSUME NEW S, NEW l \in Seq(S), NEW k \in 1 .. Len(l)
  PROVE  /\ RemoveAt(l, k) \in Seq(S) /\ Len(l) \in Nat \ {0}
         /\ Len(RemoveAt(l, k)) = Len(l) - 1
         /\ \A j \in 1 .. Len(l) - 1 : RemoveAt(l, k)[j] = IF j < k THEN l[j] ELSE l[j + 1]
<1> DEFINE a == SubSeq(l, 1, k - 1)
           b == SubSeq(l, k + 1, Len(l))
<1>1. Len(l) \in Nat /\ k \in Int /\ 1 <= k /\ k <= Len(l)
  OBVIOUS
<1>2. /\ a \in Seq(S) /\ Len(a) = k - 1
      /\ \A j \in 1 .. k - 1 : a[j] = l[j]
  <2>1. \A j \in 1 .. k - 1 : l[j] \in S
    BY <1>1
  <2>2. 1 \in Int /\ k - 1 \in Int
    BY <1>1
  <2> QED BY <1>1, <2>1, <2>2, SubSeqProperties
<1>3. /\ b \in Seq(S) /\ Len(b) = Len(l) - k
      /\ \A j \in 1 .. Len(l) - k : b[j] = l[j + k]
  <2>1. \A j \in k + 1 .. Len(l) : l[j] \in S
    BY <1>1
  <2>2. Len(l) \in Int /\ k + 1 \in Int
    BY <1>1
  <2> QED BY <1>1, <2>1, <2>2, SubSeqProperties
<1> HIDE DEF a, b
<1>4. /\ a \o b \in Seq(S) /\ Len(a \o b) = Len(l) - 1
      /\ \A j \in 1 .. Len(l) - 1 : (a \o b)[j] = IF j <= k - 1 THEN a[j] ELSE b[j - (k - 1)]
  <2>1. /\ a \o b \in Seq(S) /\ Len(a \o b) = Len(a) + Len(b)
        /\ \A j \in 1 .. Len(a) + Len(b) :
             (a \o b)[j] = IF j <= Len(a) THEN a[j] ELSE b[j - Len(a)]
    BY <1>2, <1>3, ConcatProperties
  <2>2. Len(a) = k - 1 /\ Len(a) + Len(b) = Len(l) - 1
    BY <1>1, <1>2, <1>3
  <2> QED BY <2>1, <2>2
<1>5. ASSUME NEW j \in 1 .. Len(l) - 1
      PROVE  (a \o b)[j] = IF j < k THEN l[j] ELSE l[j + 1]
  <2>1. CASE j < k
    BY <2>1, <1>1, <1>2, <1>4
  <2>2. CASE j >= k
    <3> DEFINE x == j - (k - 1)
    <3>1. x \in 1 .. Len(l) - k /\ x + k = j + 1 /\ ~(j <= k - 1) /\ ~(j < k)
      BY <2>2, <1>1
    <3>2. (a \o b)[j] = b[x]
      BY <3>1, <1>4
    <3> HIDE DEF x
    <3>3. b[x] = l[x + k]
      BY <3>1, <1>3
    <3>4. (a \o b)[j] = l[j + 1]
      BY <3>1, <3>2, <3>3
    <3>5. ~(j < k)
      BY <3>1
    <3> QED BY <3>4, <3>5
  <2>3. j < k \/ j >= k
    BY <1>1
  <2> QED BY <2>1, <2>2, <2>3
<1>6. RemoveAt(l, k) = a \o b
  BY DEF RemoveAt, a, b
<1> QED BY <1>1, <1>4, <1>5, <1>6

\* The handler of a posted command finds it in the list.
LEMMA PlaceIsThere ==
  ASSUME ListsAreExact, TypeOK, NEW c \in Conns, handler[c] = "posted"
  PROVE  /\ PlaceInList(c) \in 1 .. Len(cmdlist[Home[c]])
         /\ cmdlist[Home[c]][PlaceInList(c)] = c
         /\ cmdlist[Home[c]] \in Seq(Conns)
<1>1. cmdlist[Home[c]] \in Seq(Conns)
  BY Basics DEF TypeOK
<1>2. DOMAIN cmdlist[Home[c]] = 1 .. Len(cmdlist[Home[c]])
  BY <1>1
<1> QED BY <1>1, <1>2 DEF PlaceInList, ListsAreExact

LEMMA TypesStep == TypeOK /\ ListsAreExact /\ [Next]_vars => TypeOK'
<1> SUFFICES ASSUME TypeOK, ListsAreExact, [Next]_vars PROVE TypeOK'
  OBVIOUS
<1> USE Basics
<1> DEFINE CmdTypes(q) ==
             /\ q.cmd \in Commands
             /\ q.status \in {"PENDING", "WORKING", "COMPLETE"}
             /\ q.work \in [Nodes -> SUBSET {"cmd", "data"}]
<1>0. ASSUME NEW c \in Conns, DOMAIN thecmd' = Conns, CmdTypes(thecmd'[c]),
             \A d \in Conns \ {c} : thecmd'[d] = thecmd[d]
      PROVE  \A d \in Conns : CmdTypes(thecmd'[d])
  BY <1>0 DEF TypeOK
<1>1. ASSUME NEW c \in Conns, ClientStep(c) PROVE TypeOK'
  <2>1. UNCHANGED << thecmd, cmdlist, file_size, isdying, running, server, cmds >>
    BY <1>1, ClientFrame DEF nodes, network
  <2>2. handler' \in [Conns -> Places]
    BY <1>1, ClientFrame, HandlerTypes DEF Places
  <2>3. client' \in [Conns -> {"closed", "open", "waiting"}]
    BY <1>1 DEF ClientStep, Open, Command, Close, Answered, TypeOK
  <2>4. issued' \in Nat /\ up' \in [Conns -> Seq(Calls)]
    <3>1. CASE up' = up
      <4>1. issued' = issued
        <5>1. ASSUME NEW q, Sends(c, q) PROVE FALSE
          <6>1. up[c] \in Seq(Calls) /\ up' = [up EXCEPT ![c] = Append(@, Call(q, issued'))]
                  /\ DOMAIN up = Conns
            BY <5>1 DEF Sends, TypeOK
          <6>2. up[c] = Append(up[c], Call(q, issued'))
            BY <6>1, <3>1
          <6>3. IsSequence(up[c])
            BY <6>1 DEF IsSequence
          <6> QED BY <6>2, <6>3, Appended
        <5> QED BY <1>1, <5>1 DEF ClientStep, Open, Command, Close, Answered
      <4> QED BY <3>1, <4>1 DEF TypeOK
    <3>2. CASE up' # up
      <4>1. PICK q : Open(c, q) \/ Command(c, q) \/ Close(c, q)
        BY <1>1, <3>2 DEF ClientStep, Answered
      <4>2. /\ issued' \in Nat /\ up' = [up EXCEPT ![c] = Append(@, Call(q, issued'))]
            /\ Call(q, issued') \in Calls
        BY <3>2, <4>1, SentIsTyped
      <4> QED BY <4>2 DEF TypeOK
    <3> QED BY <3>1, <3>2
  <2> QED BY <2>1, <2>2, <2>3, <2>4 DEF TypeOK
<1>2. ASSUME NEW c \in Conns, NEW b, NEW rest \in Seq(Calls), Loop(c, b, rest)
      PROVE  handler' \in [Conns -> Places] /\ up' \in [Conns -> Seq(Calls)]
  BY <1>2 DEF Loop, TypeOK, Places
<1>3. ASSUME NEW c \in Conns, HandlerStep(c) PROVE TypeOK'
  <2>1. UNCHANGED << client, isdying, running, server, cmds, issued >>
    BY <1>3, HandlerFrame DEF nodes, network
  <2>2. CASE TakeOpen(c) \/ TakeStat(c)
    <3>1. up[c] # << >> /\ UNCHANGED << thecmd, cmdlist, file_size >>
      BY <2>2 DEF TakeOpen, TakeStat, Takes
    <3>2. handler' \in [Conns -> Places] /\ up' \in [Conns -> Seq(Calls)]
      BY <2>2, <3>1, <1>2, HeadIsTyped DEF TakeOpen, TakeStat
    <3> QED BY <2>1, <3>1, <3>2 DEF TypeOK
  <2>3. CASE Dies(c)
    <3>1. handler' \in [Conns -> Places] /\ up' \in [Conns -> Seq(Calls)]
      BY <2>3, <1>2, << >> \in Seq(Calls) DEF Dies
    <3>2. UNCHANGED << thecmd, cmdlist, file_size >>
      BY <2>3 DEF Dies
    <3> QED BY <2>1, <3>1, <3>2 DEF TypeOK
  <2>4. CASE Post(c)
    <3>1. up[c] # << >> /\ Head(up[c]).command \in ToList
      BY <2>4 DEF Post, Takes
    <3>2. CommandOf(c, Head(up[c])) \in Commands
      BY <3>1, HeadIsTyped
    <3>3. handler' \in [Conns -> Places] /\ file_size' \in [Nodes -> Nat]
      BY <2>4 DEF Post, TypeOK, Places
    <3>4. up' \in [Conns -> Seq(Calls)]
      BY <2>4, <3>1, HeadIsTyped DEF Post, TypeOK
    <3>5. cmdlist' \in [Nodes -> Seq(Conns)]
      <4>1. cmdlist' = [cmdlist EXCEPT ![Home[c]] = Append(@, c)] /\ Home[c] \in Nodes
        BY <2>4 DEF Post
      <4>2. cmdlist \in [Nodes -> Seq(Conns)]
        BY DEF TypeOK
      <4>3. cmdlist[Home[c]] \in Seq(Conns)
        BY <4>1, <4>2
      <4>4. Append(cmdlist[Home[c]], c) \in Seq(Conns)
        BY <4>3, AppendProperties
      <4> QED BY <4>1, <4>2, <4>4
    <3>6. DOMAIN thecmd' = Conns /\ \A d \in Conns \ {c} : thecmd'[d] = thecmd[d]
      BY <2>4 DEF Post, TypeOK
    <3>7. /\ thecmd'[c].cmd = CommandOf(c, Head(up[c])) /\ thecmd'[c].status = "PENDING"
          /\ thecmd'[c].work = [i \in Nodes |-> {}]
      BY <2>4 DEF Post, TypeOK
    <3>8. CmdTypes(thecmd'[c])
      BY <3>2, <3>7
    <3>9. \A d \in Conns : CmdTypes(thecmd'[d])
      <4> HIDE DEF CmdTypes
      <4> QED BY <3>6, <3>8, <1>0
    <3> QED BY <2>1, <3>3, <3>4, <3>5, <3>6, <3>9 DEF TypeOK
  <2>5. ASSUME NEW b, GoesOn(c, b)
        PROVE  /\ DOMAIN thecmd' = Conns /\ \A d \in Conns : CmdTypes(thecmd'[d])
               /\ handler' \in [Conns -> Places] /\ up' \in [Conns -> Seq(Calls)]
    <3>1. CmdTypes(Idle) /\ thecmd' = [thecmd EXCEPT ![c] = Idle]
      BY <2>5 DEF GoesOn, Idle
    <3>2. /\ DOMAIN thecmd' = Conns /\ thecmd'[c] = Idle
          /\ \A d \in Conns \ {c} : thecmd'[d] = thecmd[d]
      BY <3>1 DEF TypeOK
    <3>3. CmdTypes(thecmd'[c])
      BY <3>1, <3>2
    <3>4. up[c] \in Seq(Calls)
      BY DEF TypeOK
    <3>5. handler' \in [Conns -> Places] /\ up' \in [Conns -> Seq(Calls)]
      BY <2>5, <3>4, <1>2 DEF GoesOn
    <3> HIDE DEF CmdTypes
    <3> QED BY <3>2, <3>3, <3>5, <1>0
  <2>6. CASE TakeOut(c)
    <3>1. cmdlist' \in [Nodes -> Seq(Conns)]
      <4>1. handler[c] = "posted"
              /\ cmdlist' = [cmdlist EXCEPT ![Home[c]] = RemoveAt(@, PlaceInList(c))]
        BY <2>6 DEF TakeOut
      <4>2. RemoveAt(cmdlist[Home[c]], PlaceInList(c)) \in Seq(Conns)
        BY <4>1, PlaceIsThere, TakenOut
      <4> QED BY <4>1, <4>2 DEF TypeOK
    <3>2. UNCHANGED << up, thecmd, file_size >> /\ handler' \in [Conns -> Places]
      BY <2>6 DEF TakeOut, TypeOK, Places
    <3> QED BY <2>1, <3>1, <3>2 DEF TypeOK
  <2>7. CASE Answer(c)
    <3>1. UNCHANGED << cmdlist, file_size >>
      BY <2>7 DEF Answer
    <3>2. CASE handler' = [handler EXCEPT ![c] = "lengthen"] /\ UNCHANGED << thecmd, up >>
      <4>1. handler' \in [Conns -> Places]
        BY <3>2 DEF TypeOK, Places
      <4> QED BY <2>1, <3>1, <3>2, <4>1 DEF TypeOK
    <3>3. CASE \E b : GoesOn(c, b)
      BY <2>1, <3>1, <3>3, <2>5 DEF TypeOK
    <3> QED BY <2>7, <3>2, <3>3 DEF Answer
  <2>8. CASE Lengthen(c)
    <3>1. file_size' \in [Nodes -> Nat] /\ GoesOn(c, FALSE) /\ UNCHANGED cmdlist
      <4>1. End(c) \in Nat
        BY CommandTypes DEF Commands, End
      <4> QED BY <2>8, <4>1 DEF Lengthen, TypeOK
    <3> QED BY <2>1, <3>1, <2>5 DEF TypeOK
  <2> QED BY <1>3, <2>2, <2>3, <2>4, <2>6, <2>7, <2>8 DEF HandlerStep
<1>4. ASSUME NEW n \in Nodes, NodeStep(n) PROVE TypeOK'
  <2>1. UNCHANGED << client, up, handler, cmdlist, file_size, issued >>
    BY <1>4, NodeFrame DEF sockets
  <2>2. ASSUME NEW q, Obeys(n, q) PROVE isdying' \in [Nodes -> BOOLEAN]
    BY <2>2 DEF Obeys, TypeOK
  <2>3. ASSUME NEW c \in Conns, Home[c] = n, Start(c) PROVE TypeOK'
    <3> DEFINE m == thecmd[c].cmd
    <3>1. m \in Commands /\ isdying' \in [Nodes -> BOOLEAN] /\ UNCHANGED << running, server >>
      BY <2>3, <2>2 DEF Start, TypeOK
    <3>2. cmds' \in [Nodes -> [Nodes -> Seq(Commands)]]
      <4>1. cmds' = [cmds EXCEPT ![n] = [i \in Nodes |-> IF i = n THEN @[i] ELSE Append(@[i], m)]]
        BY <2>3 DEF Start
      <4> HIDE DEF m
      <4>2. ASSUME NEW i \in Nodes
            PROVE  cmds[n][i] \in Seq(Commands) /\ Append(cmds[n][i], m) \in Seq(Commands)
        BY <3>1 DEF TypeOK
      <4> QED BY <4>1, <4>2 DEF TypeOK
    <3>3. DOMAIN thecmd' = Conns /\ \A d \in Conns \ {c} : thecmd'[d] = thecmd[d]
      BY <2>3 DEF Start, TypeOK
    <3>4. /\ thecmd'[c].cmd = m /\ thecmd'[c].status = "WORKING"
          /\ thecmd'[c].work = [i \in Nodes |-> CASE i = n -> {}
                                    [] i # n /\ m.command = "KILL" -> {"cmd"}
                                    [] OTHER -> {"cmd", "data"}]
      BY <2>3 DEF Start, TypeOK
    <3>5. CmdTypes(thecmd'[c])
      BY <3>1, <3>4
    <3>6. \A d \in Conns : CmdTypes(thecmd'[d])
      <4> HIDE DEF CmdTypes
      <4> QED BY <3>3, <3>5, <1>0
    <3> QED BY <2>1, <3>1, <3>2, <3>3, <3>6 DEF TypeOK
  <2>4. ASSUME NEW c \in Conns, NEW over, Progress(c, over) PROVE TypeOK'
    <3>1. DOMAIN thecmd' = Conns /\ \A d \in Conns \ {c} : thecmd'[d] = thecmd[d]
      BY <2>4 DEF Progress, TypeOK
    <3>2. /\ thecmd'[c].cmd = thecmd[c].cmd /\ thecmd'[c].status \in {"COMPLETE", "WORKING"}
          /\ thecmd'[c].work = [i \in Nodes |-> {w \in thecmd[c].work[i] : << i, w >> \notin over}]
      BY <2>4 DEF Progress, TypeOK
    <3>3. CmdTypes(thecmd'[c])
      BY <3>2, CommandTypes
    <3>4. \A d \in Conns : CmdTypes(thecmd'[d])
      <4> HIDE DEF CmdTypes
      <4> QED BY <3>1, <3>3, <1>0
    <3>5. UNCHANGED << isdying, running, server, cmds >>
      BY <2>4 DEF Progress, nodes
    <3> QED BY <2>1, <3>1, <3>4, <3>5 DEF TypeOK
  <2>5. ASSUME NEW src \in Nodes, TakeCommand(n, src) PROVE TypeOK'
    <3> DEFINE q == Head(cmds[src][n])
    <3>1. /\ UNCHANGED << thecmd, running >> /\ cmds[src][n] # << >>
          /\ cmds' = [cmds EXCEPT ![src][n] = Tail(@)] /\ isdying' \in [Nodes -> BOOLEAN]
      BY <2>5, <2>2 DEF TakeCommand, handlers
    <3>2. q \in Commands /\ Tail(cmds[src][n]) \in Seq(Commands)
      <4>1. cmds[src][n] \in Seq(Commands)
        BY ChannelTypes
      <4> QED BY <3>1, <4>1, HeadTailProperties
    <3>3. cmds' \in [Nodes -> [Nodes -> Seq(Commands)]]
      BY <3>1, <3>2 DEF TypeOK
    <3>4. server' \in [Nodes -> [status : {"listen", "reply", "receive"}, cmd : Commands]]
      <4> HIDE DEF q
      <4>1. PICK v : server' = [server EXCEPT ![n] = v]
                       /\ v \in {[status |-> "reply", cmd |-> q], [status |-> "receive", cmd |-> q], Listening}
        BY <2>5 DEF TakeCommand, q
      <4>2. v \in [status : {"listen", "reply", "receive"}, cmd : Commands]
        BY <3>2, <4>1 DEF Listening
      <4> QED BY <4>1, <4>2 DEF TypeOK
    <3> QED BY <2>1, <3>1, <3>3, <3>4 DEF TypeOK
  <2>6. CASE StoreData(n) \/ ReplySent(n)
    <3>1. UNCHANGED << thecmd, isdying, running, cmds >> /\ ListenAgain(n)
      BY <2>6 DEF StoreData, ReplySent, handlers, network
    <3>2. server' \in [Nodes -> [status : {"listen", "reply", "receive"}, cmd : Commands]]
      BY <3>1 DEF ListenAgain, Listening, TypeOK
    <3> QED BY <2>1, <3>1, <3>2 DEF TypeOK
  <2>7. CASE Leave(n)
    BY <2>7, <2>1 DEF Leave, handlers, network, TypeOK
  <2> QED BY <1>4, <2>3, <2>4, <2>5, <2>6, <2>7 DEF NodeStep
<1>5. CASE UNCHANGED vars
  BY <1>5 DEF vars, sockets, handlers, nodes, network, TypeOK
<1> QED BY <1>1, <1>3, <1>4, <1>5, NextCases

\* A command of the list has a handler that waits for it, with this in hand.
LEMMA PostedFacts ==
  ASSUME Inv, NEW c \in Conns, Held(c)
  PROVE  /\ thecmd[c].cmd \in Commands /\ Good(c, thecmd[c].cmd)
         /\ thecmd[c].cmd.srcrank = Home[c] /\ thecmd[c].cmd.sock_tag = Sock[c]
         /\ thecmd[c].cmd.command \in ToList
BY DEF Inv, HandlersOK, HandlerOK, Good, Commands

\* A command that is done is done by its own handler and its own node.
LEMMA HandlersStep == Inv /\ [Next]_vars => HandlersOK'
<1> SUFFICES ASSUME Inv, [Next]_vars PROVE HandlersOK'
  OBVIOUS
<1> USE Basics DEF Inv
<1>1. ASSUME NEW d \in Conns, thecmd'[d] = thecmd[d],
             handler'[d] = handler[d] \/ (~Held(d) /\ ~Held(d)')
      PROVE  HandlerOK(d)'
  BY <1>1 DEF HandlersOK, HandlerOK, Held
<1>2. ASSUME UNCHANGED << handler, thecmd >> PROVE HandlersOK'
  BY <1>2 DEF HandlersOK, HandlerOK, Held
<1>3. ASSUME NEW c \in Conns, ClientStep(c) PROVE HandlersOK'
  <2>1. ASSUME NEW d \in Conns PROVE HandlerOK(d)'
    <3>1. thecmd' = thecmd
      BY <1>3, ClientFrame
    <3>2. handler'[d] = handler[d] \/ (~Held(d) /\ ~Held(d)')
      BY <1>3, ClientFrame DEF TypeOK, Held
    <3> QED BY <3>1, <3>2, <1>1
  <2> QED BY <2>1 DEF HandlersOK
<1>4. ASSUME NEW c \in Conns, TakeOpen(c) \/ TakeStat(c) \/ Dies(c) PROVE HandlersOK'
  <2>1. ASSUME NEW d \in Conns PROVE HandlerOK(d)'
    <3>1. thecmd' = thecmd
      BY <1>4 DEF TakeOpen, TakeStat, Dies
    <3>2. handler'[d] = handler[d] \/ (~Held(d) /\ ~Held(d)')
      BY <1>4 DEF TakeOpen, TakeStat, Dies, Takes, Loop, TypeOK, Held
    <3> QED BY <3>1, <3>2, <1>1
  <2> QED BY <2>1 DEF HandlersOK
<1>5. ASSUME NEW c \in Conns, Post(c) PROVE HandlersOK'
  <2> DEFINE q == CommandOf(c, Head(up[c]))
             bytes == [p \in Covered(q) |-> [from |-> c, no |-> Head(up[c]).no, at |-> p]]
  <2>1. Good(c, q)
    BY <1>5, HeadIsGood DEF Post, Takes
  <2>2. /\ thecmd'[c].cmd = q /\ thecmd'[c].status = "PENDING" /\ handler'[c] = "posted"
        /\ thecmd'[c].work = [i \in Nodes |-> {}]
        /\ q.command = "WRITE" => thecmd'[c].buffer = Packed(q, bytes)
    BY <1>5 DEF Post, TypeOK
  <2>3. ASSUME q.command = "WRITE", NEW r \in Nodes
        PROVE  IsPart(q, r, Piece(q, Packed(q, bytes), r))
    <3>1. InFile(q)
      BY <2>1, <2>3 DEF Good
    <3>2. \A p \in Covered(q) : bytes[p].at = p
      OBVIOUS
    <3> HIDE DEF q, bytes
    <3> QED BY <3>1, <3>2, PackedInParts
  <2>4. HandlerOK(c)'
    <3> HIDE DEF q, bytes
    <3>1. DOMAIN Packed(q, bytes) = 0 .. q.length - 1
      BY DEF Packed
    <3> QED BY <2>1, <2>2, <2>3, <3>1 DEF HandlerOK, Held, Good
  <2>5. ASSUME NEW d \in Conns, d # c PROVE HandlerOK(d)'
    <3>1. thecmd'[d] = thecmd[d] /\ handler'[d] = handler[d]
      BY <1>5, <2>5 DEF Post, TypeOK
    <3> QED BY <3>1, <1>1
  <2> QED BY <2>4, <2>5 DEF HandlersOK
<1>6. ASSUME NEW c \in Conns, TakeOut(c) PROVE HandlersOK'
  <2>1. /\ thecmd' = thecmd /\ handler[c] = "posted" /\ handler'[c] = "answer"
        /\ thecmd[c].status = "COMPLETE"
        /\ \A d \in Conns \ {c} : handler'[d] = handler[d]
    BY <1>6 DEF TakeOut, TypeOK
  <2>2. HandlerOK(c)'
    BY <2>1 DEF HandlersOK, HandlerOK, Held
  <2> QED BY <2>1, <2>2, <1>1 DEF HandlersOK
<1>13. ASSUME NEW c \in Conns, Answer(c) \/ Lengthen(c) PROVE HandlersOK'
  <2>1. /\ handler[c] # "posted" /\ handler'[c] \notin {"posted", "answer"}
        /\ thecmd'[c] = Idle \/ thecmd'[c] = thecmd[c]
    BY <1>13 DEF Answer, Lengthen, GoesOn, Loop, TypeOK
  <2>2. HandlerOK(c)'
    <3>1. \A i \in Nodes : thecmd'[c].work[i] = {}
      <4>1. CASE thecmd'[c] = Idle
        BY <4>1 DEF Idle
      <4>2. CASE thecmd'[c] = thecmd[c]
        BY <2>1, <4>2 DEF HandlersOK, HandlerOK
      <4> QED BY <2>1, <4>1, <4>2
    <3> QED BY <2>1, <3>1 DEF HandlerOK, Held
  <2>3. ASSUME NEW d \in Conns, d # c PROVE HandlerOK(d)'
    <3>1. thecmd'[d] = thecmd[d] /\ handler'[d] = handler[d]
      BY <1>13, <2>3 DEF Answer, Lengthen, GoesOn, Loop, TypeOK
    <3> QED BY <3>1, <1>1
  <2> QED BY <2>2, <2>3 DEF HandlersOK
<1>7. ASSUME NEW c \in Conns, Start(c) PROVE HandlersOK'
  <2>1. /\ handler' = handler /\ handler[c] = "posted"
        /\ thecmd'[c].cmd = thecmd[c].cmd /\ thecmd'[c].status = "WORKING"
        /\ thecmd'[c].work[Home[c]] = {}
    BY <1>7 DEF Start, TypeOK
  <2>2. HandlerOK(c)'
    BY <2>1, PostedFacts DEF HandlerOK, Held, Good
  <2>3. ASSUME NEW d \in Conns, d # c PROVE HandlerOK(d)'
    <3>1. thecmd'[d] = thecmd[d] /\ handler'[d] = handler[d]
      BY <1>7, <2>3 DEF Start, TypeOK
    <3> QED BY <3>1, <1>1
  <2> QED BY <2>2, <2>3 DEF HandlersOK
<1>8. ASSUME NEW c \in Conns, NEW over, Progress(c, over) PROVE HandlersOK'
  <2>1. /\ handler' = handler /\ handler[c] = "posted"
        /\ thecmd'[c].cmd = thecmd[c].cmd
        /\ thecmd'[c].status = IF over = Outstanding(c) THEN "COMPLETE" ELSE "WORKING"
        /\ thecmd'[c].work = [i \in Nodes |-> {w \in thecmd[c].work[i] : << i, w >> \notin over}]
    BY <1>8 DEF Progress, TypeOK
  <2>2. thecmd'[c].work[Home[c]] = {}
    BY <2>1 DEF HandlersOK, HandlerOK
  <2>3. ASSUME thecmd'[c].status # "WORKING", NEW i \in Nodes
        PROVE  thecmd'[c].work[i] = {}
    <3>1. over = Outstanding(c)
      BY <2>1, <2>3
    <3>2. thecmd[c].work[i] \subseteq {"cmd", "data"}
      BY DEF TypeOK
    <3> QED BY <2>1, <3>1, <3>2 DEF Outstanding
  <2>4. HandlerOK(c)'
    BY <2>1, <2>2, <2>3, PostedFacts DEF HandlerOK, Held, Good
  <2>5. ASSUME NEW d \in Conns, d # c PROVE HandlerOK(d)'
    <3>1. thecmd'[d] = thecmd[d] /\ handler'[d] = handler[d]
      BY <1>8, <2>5 DEF Progress, TypeOK
    <3> QED BY <3>1, <1>1
  <2> QED BY <2>4, <2>5 DEF HandlersOK
<1>9. ASSUME NEW n \in Nodes,
             (\E src \in Nodes : TakeCommand(n, src)) \/ StoreData(n) \/ ReplySent(n) \/ Leave(n)
      PROVE  HandlersOK'
  BY <1>9, <1>2 DEF TakeCommand, StoreData, ReplySent, Leave, handlers
<1>10. CASE UNCHANGED vars
  BY <1>10, <1>2 DEF vars, handlers
<1>11. ASSUME NEW c \in Conns, HandlerStep(c) PROVE HandlersOK'
  BY <1>4, <1>5, <1>6, <1>11, <1>13 DEF HandlerStep
<1>12. ASSUME NEW n \in Nodes, NodeStep(n) PROVE HandlersOK'
  BY <1>7, <1>8, <1>9, <1>12 DEF NodeStep
<1> QED BY <1>3, <1>10, <1>11, <1>12, NextCases

LEMMA ListsStep == TypeOK /\ ListsAreExact /\ [Next]_vars => ListsAreExact'
<1> SUFFICES ASSUME TypeOK, ListsAreExact, [Next]_vars PROVE ListsAreExact'
  OBVIOUS
<1> USE Basics
<1>0. ASSUME NEW n \in Nodes
      PROVE  cmdlist[n] \in Seq(Conns) /\ Len(cmdlist[n]) \in Nat
             /\ \A k \in 1 .. Len(cmdlist[n]) : cmdlist[n][k] \in Conns
  <2>1. cmdlist[n] \in Seq(Conns)
    BY ListTypes
  <2> QED BY <2>1
<1>1. ASSUME cmdlist' = cmdlist, \A d \in Conns : handler'[d] = "posted" <=> handler[d] = "posted"
      PROVE  ListsAreExact'
  BY <1>0, <1>1 DEF ListsAreExact
<1>2. ASSUME NEW c \in Conns, ClientStep(c) PROVE ListsAreExact'
  <2>1. cmdlist' = cmdlist
    BY <1>2, ClientFrame
  <2>2. \A d \in Conns : handler'[d] = "posted" <=> handler[d] = "posted"
    BY <1>2, ClientFrame, HandlerTypes
  <2> QED BY <2>1, <2>2, <1>1
<1>3. ASSUME NEW c \in Conns,
             TakeOpen(c) \/ TakeStat(c) \/ Dies(c) \/ Answer(c) \/ Lengthen(c)
      PROVE  ListsAreExact'
  <2>1. cmdlist' = cmdlist
    BY <1>3 DEF TakeOpen, TakeStat, Dies, Answer, Lengthen
  <2>2. \A d \in Conns : handler'[d] = "posted" <=> handler[d] = "posted"
    BY <1>3 DEF TakeOpen, TakeStat, Dies, Takes, Answer, Lengthen, GoesOn, Loop, TypeOK
  <2> QED BY <2>1, <2>2, <1>1
<1>4. ASSUME NEW c \in Conns, Post(c) PROVE ListsAreExact'
  <2> DEFINE h == Home[c]
             l == cmdlist[h]
             l2 == Append(l, c)
  <2>1. handler[c] # "posted" /\ h \in Nodes
        /\ \A d \in Conns : handler'[d] = "posted" <=> handler[d] = "posted" \/ d = c
    BY <1>4 DEF Post, Takes, TypeOK
  <2>2. cmdlist'[h] = l2 /\ \A n \in Nodes \ {h} : cmdlist'[n] = cmdlist[n]
    BY <1>4, <2>1 DEF Post, TypeOK
  <2>3. /\ Len(l) \in Nat /\ Len(l2) = Len(l) + 1 /\ l2[Len(l) + 1] = c
        /\ \A k \in 1 .. Len(l) : l2[k] = l[k] /\ l[k] \in Conns
    <3>1. l \in Seq(Conns) /\ Len(l) \in Nat /\ \A k \in 1 .. Len(l) : l[k] \in Conns
      BY <2>1, <1>0
    <3> HIDE DEF l
    <3> QED BY <3>1, AppendProperties
  <2>4. \A k \in 1 .. Len(l) : handler[l[k]] = "posted" /\ Home[l[k]] = h /\ l[k] # c
    <3>1. \A k \in 1 .. Len(l) : handler[l[k]] = "posted" /\ Home[l[k]] = h
      BY <2>1 DEF ListsAreExact
    <3> QED BY <3>1, <2>1
  <2> HIDE DEF l2
  <2>5. ASSUME NEW n \in Nodes, NEW k \in 1 .. Len(cmdlist'[n])
        PROVE  handler'[cmdlist'[n][k]] = "posted" /\ Home[cmdlist'[n][k]] = n
    <3>1. CASE n # h
      BY <3>1, <2>1, <2>2, <1>0 DEF ListsAreExact
    <3>2. CASE n = h /\ k = Len(l) + 1
      BY <3>2, <2>1, <2>2, <2>3
    <3>3. CASE n = h /\ k # Len(l) + 1
      <4>1. k \in 1 .. Len(l) /\ cmdlist'[n][k] = l[k]
        BY <3>3, <2>2, <2>3
      <4> QED BY <3>3, <4>1, <2>1, <2>3, <2>4
    <3> QED BY <3>1, <3>2, <3>3
  <2>6. ASSUME NEW n \in Nodes, NEW j \in 1 .. Len(cmdlist'[n]), NEW k \in 1 .. Len(cmdlist'[n]),
               cmdlist'[n][j] = cmdlist'[n][k]
        PROVE  j = k
    <3>1. CASE n # h
      BY <3>1, <2>2, <2>6 DEF ListsAreExact
    <3>2. CASE n = h
      <4>1. l2[j] = l2[k] /\ j \in 1 .. Len(l) + 1 /\ k \in 1 .. Len(l) + 1
        BY <3>2, <2>2, <2>3, <2>6
      <4>2. ASSUME NEW x \in 1 .. Len(l) + 1, l2[x] = c
            PROVE  x = Len(l) + 1
        <5>1. x \notin 1 .. Len(l)
          BY <4>2, <2>3, <2>4
        <5> QED BY <5>1, <2>3
      <4>3. CASE l2[j] = c
        BY <4>1, <4>2, <4>3
      <4>4. CASE l2[j] # c
        <5>1. j # Len(l) + 1 /\ k # Len(l) + 1
          BY <4>1, <4>4, <2>3
        <5>2. j \in 1 .. Len(l) /\ k \in 1 .. Len(l)
          BY <4>1, <5>1, <2>3
        <5>3. l[j] = l[k]
          BY <4>1, <5>2, <2>3
        <5>4. \A x, y \in 1 .. Len(l) : l[x] = l[y] => x = y
          BY <2>1 DEF ListsAreExact
        <5> HIDE DEF l
        <5> QED BY <5>2, <5>3, <5>4
      <4> QED BY <4>3, <4>4
    <3> QED BY <3>1, <3>2
  <2>7. ASSUME NEW d \in Conns, handler'[d] = "posted"
        PROVE  \E k \in 1 .. Len(cmdlist'[Home[d]]) : cmdlist'[Home[d]][k] = d
    <3>1. CASE d = c
      BY <3>1, <2>2, <2>3
    <3>2. CASE d # c
      <4>1. PICK k \in 1 .. Len(cmdlist[Home[d]]) : cmdlist[Home[d]][k] = d
        BY <3>2, <2>1, <2>7 DEF ListsAreExact
      <4>2. CASE Home[d] = h
        <5>1. k \in 1 .. Len(l2) /\ l2[k] = d
          BY <4>1, <4>2, <2>3
        <5> QED BY <5>1, <4>2, <2>2
      <4>3. CASE Home[d] # h
        BY <4>1, <4>3, <2>2
      <4> QED BY <4>2, <4>3
    <3> QED BY <3>1, <3>2
  <2> QED BY <2>5, <2>6, <2>7 DEF ListsAreExact
<1>5. ASSUME NEW c \in Conns, TakeOut(c) PROVE ListsAreExact'
  <2> DEFINE h == Home[c]
             l == cmdlist[h]
             x == PlaceInList(c)
             l2 == RemoveAt(l, x)
             old(k) == IF k < x THEN k ELSE k + 1
  <2>1. handler[c] = "posted" /\ h \in Nodes
        /\ \A d \in Conns : handler'[d] = "posted" <=> handler[d] = "posted" /\ d # c
    BY <1>5 DEF TakeOut, TypeOK
  <2>2. cmdlist'[h] = l2 /\ \A n \in Nodes \ {h} : cmdlist'[n] = cmdlist[n]
    BY <1>5, <2>1 DEF TakeOut, TypeOK
  <2>3. x \in 1 .. Len(l) /\ l[x] = c
    BY <2>1, PlaceIsThere
  <2>4. /\ Len(l) \in Nat \ {0} /\ Len(l2) = Len(l) - 1
        /\ \A k \in 1 .. Len(l) - 1 : l2[k] = IF k < x THEN l[k] ELSE l[k + 1]
    <3>1. l \in Seq(Conns)
      BY <2>1, <1>0
    <3>2. \A s \in Seq(Conns) : \A k \in 1 .. Len(s) :
            /\ Len(s) \in Nat \ {0} /\ Len(RemoveAt(s, k)) = Len(s) - 1
            /\ \A j \in 1 .. Len(s) - 1 : RemoveAt(s, k)[j] = IF j < k THEN s[j] ELSE s[j + 1]
      BY TakenOut
    <3> HIDE DEF l, x
    <3> QED BY <3>1, <3>2, <2>3
  <2> HIDE DEF x, l2
  <2>5. ASSUME NEW k \in 1 .. Len(l2)
        PROVE  old(k) \in 1 .. Len(l) /\ old(k) # x /\ l2[k] = l[old(k)]
    BY <2>3, <2>4
  <2>0. \A j, k \in 1 .. Len(l) : l[j] = l[k] => j = k
    BY <2>1 DEF ListsAreExact
  <2>6. ASSUME NEW k \in 1 .. Len(l)
        PROVE  l[k] \in Conns /\ handler[l[k]] = "posted" /\ Home[l[k]] = h /\ (k # x => l[k] # c)
    <3>1. \A j \in 1 .. Len(l) : handler[l[j]] = "posted" /\ Home[l[j]] = h
      BY <2>1 DEF ListsAreExact
    <3>2. \A j \in 1 .. Len(l) : l[j] \in Conns
      BY <2>1, <1>0
    <3>3. k # x => l[k] # c
      BY <2>0, <2>3
    <3> HIDE DEF l
    <3> QED BY <3>1, <3>2, <3>3
  <2>7. ASSUME NEW n \in Nodes, NEW k \in 1 .. Len(cmdlist'[n])
        PROVE  handler'[cmdlist'[n][k]] = "posted" /\ Home[cmdlist'[n][k]] = n
    <3>1. CASE n # h
      <4>1. cmdlist'[n] = cmdlist[n] /\ cmdlist[n][k] \in Conns
              /\ handler[cmdlist[n][k]] = "posted" /\ Home[cmdlist[n][k]] = n
        BY <3>1, <2>2, <1>0 DEF ListsAreExact
      <4> QED BY <3>1, <4>1, <2>1
    <3>2. CASE n = h
      <4>1. k \in 1 .. Len(l2) /\ cmdlist'[n][k] = l[old(k)]
        BY <3>2, <2>2, <2>5
      <4>2. old(k) \in 1 .. Len(l) /\ old(k) # x
        BY <4>1, <2>5
      <4> HIDE DEF l, old
      <4>3. l[old(k)] \in Conns /\ handler[l[old(k)]] = "posted" /\ Home[l[old(k)]] = h
              /\ l[old(k)] # c
        BY <4>2, <2>6
      <4> QED BY <3>2, <4>1, <4>3, <2>1
    <3> QED BY <3>1, <3>2
  <2>8. ASSUME NEW n \in Nodes, NEW j \in 1 .. Len(cmdlist'[n]), NEW k \in 1 .. Len(cmdlist'[n]),
               cmdlist'[n][j] = cmdlist'[n][k]
        PROVE  j = k
    <3>1. CASE n # h
      BY <3>1, <2>2, <2>8 DEF ListsAreExact
    <3>2. CASE n = h
      <4>1. j \in 1 .. Len(l2) /\ k \in 1 .. Len(l2) /\ l[old(j)] = l[old(k)]
        BY <3>2, <2>2, <2>5, <2>8
      <4>2. old(j) = old(k)
        <5>1. old(j) \in 1 .. Len(l) /\ old(k) \in 1 .. Len(l)
          BY <4>1, <2>5
        <5> HIDE DEF old
        <5> QED BY <4>1, <5>1, <2>0
      <4> QED BY <4>1, <4>2, <2>3, <2>4
    <3> QED BY <3>1, <3>2
  <2>9. ASSUME NEW d \in Conns, handler'[d] = "posted"
        PROVE  \E k \in 1 .. Len(cmdlist'[Home[d]]) : cmdlist'[Home[d]][k] = d
    <3>1. PICK k \in 1 .. Len(cmdlist[Home[d]]) : cmdlist[Home[d]][k] = d
      BY <2>1, <2>9 DEF ListsAreExact
    <3>2. CASE Home[d] # h
      BY <3>1, <3>2, <2>2
    <3>3. CASE Home[d] = h
      <4>1. k \in 1 .. Len(l) /\ l[k] = d /\ k # x
        BY <3>1, <3>3, <2>1, <2>3, <2>9
      <4>2. CASE k < x
        <5>1. k \in 1 .. Len(l2) /\ l2[k] = d
          BY <4>1, <4>2, <2>3, <2>4
        <5> QED BY <5>1, <3>3, <2>2
      <4>3. CASE ~(k < x)
        <5>1. k - 1 \in 1 .. Len(l2) /\ ~(k - 1 < x)
          BY <4>1, <4>3, <2>3, <2>4
        <5>2. k - 1 + 1 = k
          BY <4>1
        <5>3. l2[k - 1] = d
          BY <4>1, <5>1, <5>2, <2>4
        <5> QED BY <5>1, <5>3, <3>3, <2>2
      <4> QED BY <4>2, <4>3
    <3> QED BY <3>2, <3>3
  <2> QED BY <2>7, <2>8, <2>9 DEF ListsAreExact
<1>6. ASSUME NEW n \in Nodes, NodeStep(n) PROVE ListsAreExact'
  BY <1>6, <1>1, NodeFrame
<1>7. CASE UNCHANGED vars
  BY <1>7, <1>1 DEF vars, handlers
<1>8. ASSUME NEW c \in Conns, HandlerStep(c) PROVE ListsAreExact'
  BY <1>3, <1>4, <1>5, <1>8 DEF HandlerStep
<1> QED BY <1>2, <1>6, <1>7, <1>8, NextCases

-------------------------------------------------------------------------------
(* What the steps of a node do to the channels *)

\* A command that is under way, and what it goes to, are those of its own connection.
LEMMA ServedFacts ==
  ASSUME Inv, NEW n \in Nodes, server[n].status = "receive"
  PROVE  \E c \in Conns :
           /\ Home[c] # n /\ Good(c, server[n].cmd)
           /\ server[n].cmd.srcrank = Home[c] /\ server[n].cmd.sock_tag = Sock[c]
           /\ server[n].cmd.command = "WRITE" /\ InFile(server[n].cmd)
           /\ Serving(n) = server[n].cmd
BY DEF Inv, ServerOK, Good, Serving

\* The command that a node takes
LEMMA TakenFacts ==
  ASSUME Inv, NEW n \in Nodes, NEW src \in Nodes, TakeCommand(n, src)
  PROVE  /\ src # n /\ cmds[src][n] # << >> /\ cmds[src][n] \in Seq(Commands)
         /\ Head(cmds[src][n]) = cmds[src][n][1] /\ 1 \in 1 .. Len(cmds[src][n])
         /\ \E c \in Conns : /\ Home[c] = src /\ Good(c, Head(cmds[src][n]))
                             /\ Head(cmds[src][n]).srcrank = src
                             /\ Head(cmds[src][n]).sock_tag = Sock[c]
<1>1. cmds[src][n] # << >> /\ cmds[src][n] \in Seq(Commands)
  BY ChannelTypes DEF TakeCommand, Inv
<1>2. Head(cmds[src][n]) = cmds[src][n][1] /\ 1 \in 1 .. Len(cmds[src][n])
  BY <1>1
<1>3. src # n /\ \E c \in Conns : Home[c] = src /\ Good(c, cmds[src][n][1])
  BY <1>2 DEF Inv, CmdsOK
<1> QED BY <1>1, <1>2, <1>3 DEF Good

SameChannels ==
  /\ DOMAIN data' = Nodes
  /\ \A x \in Nodes : DOMAIN data'[x] = Nodes
  /\ \A x, y \in Nodes : DOMAIN data'[x][y] = Tags

LEMMA StartEffect ==
  ASSUME Inv, NEW c \in Conns, Start(c)
  PROVE  /\ \A x, y \in Nodes : cmds'[x][y] =
              IF x = Home[c] /\ y # Home[c] THEN Append(cmds[x][y], thecmd[c].cmd) ELSE cmds[x][y]
         /\ SameChannels
         /\ \A x, y \in Nodes : \A t \in Tags : data'[x][y][t] =
              IF thecmd[c].cmd.command = "WRITE" /\ x = Home[c] /\ y # Home[c] /\ t = Sock[c]
              THEN Append(data[x][y][t], Piece(thecmd[c].cmd, thecmd[c].buffer, y))
              ELSE data[x][y][t]
<1> DEFINE n == Home[c]
           m == thecmd[c].cmd
<1>1. n \in Nodes /\ m.sock_tag = Sock[c] /\ Sock[c] \in Tags
  BY Basics, PostedFacts DEF Start, Held
<1>2. cmds' = [cmds EXCEPT ![n] = [i \in Nodes |-> IF i = n THEN @[i] ELSE Append(@[i], m)]]
  BY DEF Start
<1>3. data' = IF m.command # "WRITE" THEN data ELSE
         [data EXCEPT ![n] = [i \in Nodes |-> [u \in Tags |->
           IF i # n /\ u = m.sock_tag
           THEN Append(@[i][u], Piece(m, thecmd[c].buffer, i)) ELSE @[i][u]]]]
  BY DEF Start
<1> HIDE DEF m, n
<1>4. \A x, y \in Nodes : cmds'[x][y] =
        IF x = n /\ y # n THEN Append(cmds[x][y], m) ELSE cmds[x][y]
  BY <1>1, <1>2 DEF Inv, TypeOK
<1>5. SameChannels
  BY <1>1, <1>3 DEF Inv, ChannelsOK, SameChannels
<1>6. ASSUME NEW x \in Nodes, NEW y \in Nodes, NEW t \in Tags
      PROVE  data'[x][y][t] =
              IF m.command = "WRITE" /\ x = n /\ y # n /\ t = Sock[c]
              THEN Append(data[x][y][t], Piece(m, thecmd[c].buffer, y)) ELSE data[x][y][t]
  BY <1>1, <1>3 DEF Inv, ChannelsOK
<1> QED BY <1>4, <1>5, <1>6 DEF m, n

LEMMA TakeEffect ==
  ASSUME Inv, NEW n \in Nodes, NEW src \in Nodes, TakeCommand(n, src)
  PROVE  /\ \A x, y \in Nodes : cmds'[x][y] =
              IF x = src /\ y = n THEN Tail(cmds[x][y]) ELSE cmds[x][y]
         /\ SameChannels
         /\ \A x, y \in Nodes : \A t \in Tags : data'[x][y][t] =
              IF Head(cmds[src][n]).command = "READ" /\ x = n /\ y = src
                   /\ t = Head(cmds[src][n]).sock_tag
              THEN Append(data[x][y][t], Reply(Head(cmds[src][n]), memory[n], n))
              ELSE data[x][y][t]
<1> DEFINE q == Head(cmds[src][n])
<1>1. q.srcrank = src
  BY TakenFacts
<1>2. cmds' = [cmds EXCEPT ![src][n] = Tail(@)]
  BY DEF TakeCommand
<1>3. data' = IF q.command # "READ" THEN data ELSE
         [data EXCEPT ![n][q.srcrank][q.sock_tag] = Append(@, Reply(q, memory[n], n))]
  BY DEF TakeCommand
<1> HIDE DEF q
<1>4. \A x, y \in Nodes : cmds'[x][y] =
        IF x = src /\ y = n THEN Tail(cmds[x][y]) ELSE cmds[x][y]
  BY <1>2 DEF Inv, TypeOK
<1>5. SameChannels
  BY <1>1, <1>3 DEF Inv, ChannelsOK, SameChannels
<1>6. ASSUME NEW x \in Nodes, NEW y \in Nodes, NEW t \in Tags
      PROVE  data'[x][y][t] =
              IF q.command = "READ" /\ x = n /\ y = src /\ t = q.sock_tag
              THEN Append(data[x][y][t], Reply(q, memory[n], n)) ELSE data[x][y][t]
  BY <1>1, <1>3 DEF Inv, ChannelsOK
<1> QED BY <1>4, <1>5, <1>6 DEF q

LEMMA ProgressEffect ==
  ASSUME Inv, NEW c \in Conns, NEW over, Progress(c, over)
  PROVE  /\ cmds' = cmds
         /\ SameChannels
         /\ \A x, y \in Nodes : \A t \in Tags : data'[x][y][t] =
              IF thecmd[c].cmd.command = "READ" /\ << x, "data" >> \in over /\ y = Home[c]
                   /\ t = Sock[c]
              THEN Tail(data[x][y][t])
              ELSE data[x][y][t]
<1> DEFINE n == Home[c]
           m == thecmd[c].cmd
           arriving == {i \in Nodes : m.command = "READ" /\ << i, "data" >> \in over}
<1>1. n \in Nodes /\ m.sock_tag = Sock[c] /\ Sock[c] \in Tags
  BY Basics, PostedFacts DEF Progress, Held
<1>2. cmds' = cmds
  BY DEF Progress
<1>3. data' = [i \in Nodes |-> [j \in Nodes |-> [u \in Tags |->
         IF i \in arriving /\ j = n /\ u = m.sock_tag THEN Tail(data[i][j][u]) ELSE data[i][j][u]]]]
  BY DEF Progress
<1>4. \A x \in Nodes : x \in arriving <=> m.command = "READ" /\ << x, "data" >> \in over
  OBVIOUS
<1> HIDE DEF m, n, arriving
<1>5. SameChannels
  BY <1>1, <1>3 DEF Inv, ChannelsOK, SameChannels
<1>6. ASSUME NEW x \in Nodes, NEW y \in Nodes, NEW t \in Tags
      PROVE  data'[x][y][t] =
              IF x \in arriving /\ y = n /\ t = Sock[c] THEN Tail(data[x][y][t]) ELSE data[x][y][t]
  BY <1>1, <1>3 DEF Inv, ChannelsOK
<1> QED BY <1>2, <1>4, <1>5, <1>6 DEF m, n

LEMMA StoreEffect ==
  ASSUME Inv, NEW n \in Nodes, StoreData(n), NEW c \in Conns,
         server[n].cmd.srcrank = Home[c], server[n].cmd.sock_tag = Sock[c]
  PROVE  /\ cmds' = cmds /\ data[Home[c]][n][Sock[c]] # << >>
         /\ SameChannels
         /\ \A x, y \in Nodes : \A t \in Tags : data'[x][y][t] =
              IF x = Home[c] /\ y = n /\ t = Sock[c] THEN Tail(data[x][y][t]) ELSE data[x][y][t]
<1> DEFINE h == Home[c]
<1>1. h \in Nodes /\ Sock[c] \in Tags
  BY Basics
<1>2. cmds' = cmds /\ data[h][n][Sock[c]] # << >>
  BY DEF StoreData, DataCame
<1>3. data' = [data EXCEPT ![h][n][Sock[c]] = Tail(@)]
  BY DEF StoreData
<1> HIDE DEF h
<1>4. SameChannels
  BY <1>1, <1>3 DEF Inv, ChannelsOK, SameChannels
<1>5. ASSUME NEW x \in Nodes, NEW y \in Nodes, NEW t \in Tags
      PROVE  data'[x][y][t] =
              IF x = h /\ y = n /\ t = Sock[c] THEN Tail(data[x][y][t]) ELSE data[x][y][t]
  BY <1>1, <1>3 DEF Inv, ChannelsOK
<1> QED BY <1>2, <1>4, <1>5 DEF h

-------------------------------------------------------------------------------
(* The rest of the invariant is kept by every step *)

\* What is stored is what belongs there: a node starts a write of its own with the part of the
\* buffer that is its own, and the data it receives are those of the write it serves.
LEMMA MemoryStep == Inv /\ [Next]_vars => MemoryInPlace'
<1> SUFFICES ASSUME Inv, [Next]_vars PROVE MemoryInPlace'
  OBVIOUS
<1> USE Basics DEF Inv
<1>1. ASSUME memory' = memory PROVE MemoryInPlace'
  BY <1>1 DEF MemoryInPlace
<1>2. ASSUME NEW n \in Nodes, NEW q, InFile(q), NEW piece,
             HasAll(q, n, piece), memory' = [memory EXCEPT ![n] = WriteHere(q, @, n, piece)]
      PROVE  MemoryInPlace'
  <2>1. InPlace(n, WriteHere(q, memory[n], n, piece))
    BY <1>2, StoredInPlace DEF MemoryInPlace
  <2>2. /\ DOMAIN memory' = Nodes /\ memory'[n] = WriteHere(q, memory[n], n, piece)
        /\ \A i \in Nodes \ {n} : memory'[i] = memory[i]
    BY <1>2 DEF MemoryInPlace
  <2>3. ASSUME NEW i \in Nodes PROVE InPlace(i, memory'[i])
    BY <2>1, <2>2 DEF MemoryInPlace
  <2> QED BY <2>2, <2>3 DEF MemoryInPlace
<1>3. ASSUME NEW n \in Nodes, NEW c \in Conns, Home[c] = n, Start(c) PROVE MemoryInPlace'
  <2> DEFINE q == thecmd[c].cmd
             buffer == thecmd[c].buffer
  <2>1. CASE q.command # "WRITE"
    BY <1>1, <1>3, <2>1 DEF Start
  <2>2. CASE q.command = "WRITE"
    <3>1. memory' = [memory EXCEPT ![n] = WriteHere(q, @, n, buffer)]
      BY <1>3, <2>2 DEF Start
    <3>2. InFile(q) /\ OwnPartFirst(q, n)
      BY <1>3, <2>2, PostedFacts DEF Start, Held, Good
    <3>3. IsPart(q, n, Piece(q, buffer, n)) /\ DOMAIN buffer = 0 .. q.length - 1
      BY <1>3, <2>2 DEF Start, HandlersOK, HandlerOK
    <3> HIDE DEF q, buffer
    <3>4. ASSUME NEW p \in Here(q, n)
          PROVE  Before(q, p) \in DOMAIN buffer /\ buffer[Before(q, p)].at = p
      <4>1. ReqOffset(q, n) = 0
        BY <3>2, <3>4 DEF OwnPartFirst
      <4>2. Before(q, p) \in 0 .. ReqSize(q, n) - 1
        BY <3>2, <3>4, Numbering
      <4>3. Piece(q, buffer, n)[Before(q, p)] = buffer[ReqOffset(q, n) + Before(q, p)]
        BY <4>2 DEF Piece
      <4>4. ReqOffset(q, n) + Before(q, p) = Before(q, p)
        <5>1. ReqSize(q, n) \in Nat
          BY <3>2, HereIsFinite
        <5> QED BY <4>1, <4>2, <5>1
      <4>5. Before(q, p) \in DOMAIN buffer
        <5>1. p \in Covered(q) /\ RankOf(p) = n
          BY DEF Here
        <5>2. Slot(q, p) = Before(q, p)
          BY <4>4, <5>1 DEF Slot
        <5> QED BY <3>2, <3>3, <5>1, <5>2, SlotTells
      <4> QED BY <3>3, <4>3, <4>4, <4>5 DEF IsPart
    <3>5. HasAll(q, n, buffer)
      BY <3>4 DEF HasAll
    <3> QED BY <3>1, <3>2, <3>5, <1>2
  <2> QED BY <2>1, <2>2
<1>4. ASSUME NEW n \in Nodes, StoreData(n) PROVE MemoryInPlace'
  <2>0. server[n].status = "receive"
    BY <1>4 DEF StoreData, DataCame
  <2>1. PICK c \in Conns :
          /\ Home[c] # n /\ Good(c, server[n].cmd)
          /\ server[n].cmd.srcrank = Home[c] /\ server[n].cmd.sock_tag = Sock[c]
          /\ server[n].cmd.command = "WRITE" /\ InFile(server[n].cmd)
          /\ Serving(n) = server[n].cmd
    BY <2>0, ServedFacts
  <2> DEFINE q == server[n].cmd
             d == data[Home[c]][n][Sock[c]]
             cs == cmds[Home[c]][n]
  <2>2. d # << >> /\ memory' = [memory EXCEPT ![n] = WriteHere(q, @, n, Head(d))]
    BY <1>4, <2>1 DEF StoreData, DataCame
  <2>3. IsSequence(d) /\ IsSequence(cs)
    <3>1. IsSequence(d)
      BY DEF ChannelsOK
    <3>2. Home[c] \in Nodes
      BY Basics
    <3>3. cs \in Seq(Commands)
      BY <3>2, ChannelTypes
    <3> QED BY <3>1, <3>3 DEF IsSequence
  <2>4. Matched(n, Sock[c], d, cs, q)
    BY <2>1 DEF WritesOK
  <2>5. IsWrite(Sock[c], q) /\ InFile(q)
    BY <2>1 DEF IsWrite
  <2> HIDE DEF q, d, cs
  <2>6. IsPart(q, n, Head(d))
    <3>1. PICK f : MatchedBy(n, Sock[c], d, cs, q, f)
      BY <2>4 DEF Matched
    <3> QED BY <2>2, <2>3, <2>5, <3>1, MatchFirst
  <2>7. \A p \in Here(q, n) : Before(q, p) \in DOMAIN Head(d)
    <3>1. \A p \in Here(q, n) : Before(q, p) \in 0 .. ReqSize(q, n) - 1
      BY <2>5, Numbering
    <3>2. ReqSize(q, n) = Cardinality(Here(q, n))
      BY <2>5, HereIsFinite
    <3> QED BY <2>6, <3>1, <3>2 DEF IsPart
  <2>8. HasAll(q, n, Head(d))
    BY <2>6, <2>7 DEF IsPart, HasAll
  <2> QED BY <2>2, <2>5, <2>8, <1>2
<1>5. ASSUME NEW n \in Nodes, NodeStep(n) PROVE MemoryInPlace'
  BY <1>5, <1>1, <1>3, <1>4 DEF NodeStep, Progress, TakeCommand, ReplySent, Leave, nodes
<1>6. ASSUME NEW c \in Conns, ClientStep(c) \/ HandlerStep(c) PROVE MemoryInPlace'
  BY <1>6, <1>1, ClientFrame, HandlerFrame DEF nodes
<1>7. CASE UNCHANGED vars
  BY <1>7, <1>1 DEF vars, nodes
<1> QED BY <1>5, <1>6, <1>7, NextCases

\* Commands that are on their way stay what they are.
LEMMA CmdsStep == Inv /\ [Next]_vars => CmdsOK'
<1> SUFFICES ASSUME Inv, [Next]_vars PROVE CmdsOK'
  OBVIOUS
<1> USE Basics DEF Inv
<1>1. ASSUME cmds' = cmds PROVE CmdsOK'
  BY <1>1 DEF CmdsOK
<1>2. ASSUME NEW c \in Conns, Start(c) PROVE CmdsOK'
  <2> DEFINE m == thecmd[c].cmd
  <2>1. \A x, y \in Nodes : cmds'[x][y] =
          IF x = Home[c] /\ y # Home[c] THEN Append(cmds[x][y], m) ELSE cmds[x][y]
    BY <1>2, StartEffect
  <2>2. Good(c, m)
    BY <1>2, PostedFacts DEF Start, Held
  <2> HIDE DEF m
  <2>3. ASSUME NEW x \in Nodes, NEW y \in Nodes, NEW k \in 1 .. Len(cmds'[x][y])
        PROVE  x # y /\ \E e \in Conns : Home[e] = x /\ Good(e, cmds'[x][y][k])
    <3>1. CASE x = Home[c] /\ y # Home[c]
      <4>1. cmds'[x][y] = Append(cmds[x][y], m)
        BY <2>1, <3>1
      <4>2. IsSequence(cmds[x][y])
        <5>1. cmds[x][y] \in Seq(Commands)
          BY DEF TypeOK
        <5> QED BY <5>1 DEF IsSequence
      <4>3. /\ Len(cmds[x][y]) \in Nat /\ Len(cmds'[x][y]) = Len(cmds[x][y]) + 1
            /\ cmds'[x][y][Len(cmds[x][y]) + 1] = m
            /\ \A j \in 1 .. Len(cmds[x][y]) : cmds'[x][y][j] = cmds[x][y][j]
        BY <4>1, <4>2, Appended
      <4>4. CASE k = Len(cmds[x][y]) + 1
        BY <4>3, <4>4, <3>1, <2>2
      <4>5. CASE k # Len(cmds[x][y]) + 1
        <5>1. k \in 1 .. Len(cmds[x][y]) /\ cmds'[x][y][k] = cmds[x][y][k]
          BY <4>3, <4>5, SMTT(30)
        <5> QED BY <5>1 DEF CmdsOK
      <4> QED BY <4>4, <4>5
    <3>2. CASE ~(x = Home[c] /\ y # Home[c])
      <4>1. cmds'[x][y] = cmds[x][y]
        BY <2>1, <3>2
      <4> QED BY <4>1 DEF CmdsOK
    <3> QED BY <3>1, <3>2
  <2> QED BY <2>3 DEF CmdsOK
<1>3. ASSUME NEW n \in Nodes, NEW src \in Nodes, TakeCommand(n, src) PROVE CmdsOK'
  <2>1. \A x, y \in Nodes : cmds'[x][y] =
          IF x = src /\ y = n THEN Tail(cmds[x][y]) ELSE cmds[x][y]
    <3> HIDE DEF Inv
    <3> QED BY <1>3, TakeEffect, SMTT(30)
  <2>2. ASSUME NEW x \in Nodes, NEW y \in Nodes, NEW k \in 1 .. Len(cmds'[x][y])
        PROVE  x # y /\ \E e \in Conns : Home[e] = x /\ Good(e, cmds'[x][y][k])
    <3>1. CASE x = src /\ y = n
      <4>1. cmds[x][y] # << >> /\ IsSequence(cmds[x][y]) /\ cmds'[x][y] = Tail(cmds[x][y])
        BY <1>3, <2>1, <3>1, TakenFacts DEF IsSequence
      <4>2. k + 1 \in 1 .. Len(cmds[x][y]) /\ cmds'[x][y][k] = cmds[x][y][k + 1]
        BY <4>1, HeadAndTail
      <4> QED BY <4>2 DEF CmdsOK
    <3>2. CASE ~(x = src /\ y = n)
      <4>1. cmds'[x][y] = cmds[x][y]
        BY <2>1, <3>2
      <4>2. k \in 1 .. Len(cmds[x][y]) => x # y /\ \E e \in Conns : Home[e] = x /\ Good(e, cmds[x][y][k])
        BY DEF CmdsOK
      <4> HIDE DEF Inv
      <4> QED BY <4>1, <4>2
    <3> QED BY <3>1, <3>2
  <2> QED BY <2>2 DEF CmdsOK
<1>4. ASSUME NEW n \in Nodes, NodeStep(n) PROVE CmdsOK'
  BY <1>4, <1>1, <1>2, <1>3 DEF NodeStep, Progress, StoreData, ReplySent, Leave, network
<1>5. ASSUME NEW c \in Conns, ClientStep(c) \/ HandlerStep(c) PROVE CmdsOK'
  BY <1>5, <1>1, ClientFrame, HandlerFrame DEF network
<1>6. CASE UNCHANGED vars
  BY <1>6, <1>1 DEF vars, network
<1> QED BY <1>4, <1>5, <1>6, NextCases

\* A node serves a command that has come to it.
LEMMA ServerStepOK == Inv /\ [Next]_vars => ServerOK'
<1> SUFFICES ASSUME Inv, [Next]_vars PROVE ServerOK'
  OBVIOUS
<1> USE Basics DEF Inv
<1>1. ASSUME server' = server PROVE ServerOK'
  BY <1>1 DEF ServerOK
<1>2. ASSUME NEW n \in Nodes, NEW s, server' = [server EXCEPT ![n] = s],
             s.status # "listen" => \E c \in Conns : Home[c] # n /\ Good(c, s.cmd),
             s.status = "receive" => s.cmd.command = "WRITE"
      PROVE  ServerOK'
  <2>1. server'[n] = s /\ \A i \in Nodes \ {n} : server'[i] = server[i]
    BY <1>2 DEF TypeOK
  <2>2. ASSUME NEW i \in Nodes
        PROVE  /\ server'[i].status # "listen"
                    => \E c \in Conns : Home[c] # i /\ Good(c, server'[i].cmd)
               /\ server'[i].status = "receive" => server'[i].cmd.command = "WRITE"
    BY <2>1, <1>2 DEF ServerOK
  <2> QED BY <2>2 DEF ServerOK
<1>3. ASSUME NEW n \in Nodes, NEW src \in Nodes, TakeCommand(n, src) PROVE ServerOK'
  <2> DEFINE q == Head(cmds[src][n])
             s == CASE q.command = "READ"  -> [status |-> "reply", cmd |-> q]
                    [] q.command = "WRITE" -> [status |-> "receive", cmd |-> q]
                    [] OTHER -> Listening
  <2>1. \E c \in Conns : Home[c] # n /\ Good(c, q)
    BY <1>3, TakenFacts
  <2>2. server' = [server EXCEPT ![n] = s]
    BY <1>3 DEF TakeCommand
  <2>3. \/ s = [status |-> "reply", cmd |-> q]
        \/ q.command = "WRITE" /\ s = [status |-> "receive", cmd |-> q]
        \/ s = Listening
    BY DEF s
  <2> HIDE DEF s, q
  <2> QED BY <2>1, <2>2, <2>3, <1>2 DEF Listening
<1>4. ASSUME NEW n \in Nodes, ListenAgain(n) PROVE ServerOK'
  BY <1>4, <1>2 DEF ListenAgain, Listening
<1>5. ASSUME NEW n \in Nodes, NodeStep(n) PROVE ServerOK'
  BY <1>5, <1>1, <1>3, <1>4 DEF NodeStep, Start, Progress, StoreData, ReplySent, Leave, nodes
<1>6. ASSUME NEW c \in Conns, ClientStep(c) \/ HandlerStep(c) PROVE ServerOK'
  BY <1>6, <1>1, ClientFrame, HandlerFrame DEF nodes
<1>7. CASE UNCHANGED vars
  BY <1>7, <1>1 DEF vars, nodes
<1> QED BY <1>5, <1>6, <1>7, NextCases

\* The channels stay sequences.
LEMMA ChannelsStep == Inv /\ [Next]_vars => ChannelsOK'
<1> SUFFICES ASSUME Inv, [Next]_vars PROVE ChannelsOK'
  OBVIOUS
<1> USE Basics DEF Inv
<1>1. ASSUME data' = data PROVE ChannelsOK'
  BY <1>1 DEF ChannelsOK
<1>2. ASSUME SameChannels,
             \A x, y \in Nodes : \A t \in Tags : IsSequence(data'[x][y][t])
      PROVE  ChannelsOK'
  BY <1>2 DEF ChannelsOK, SameChannels
<1>3. ASSUME NEW c \in Conns, Start(c) PROVE ChannelsOK'
  <2>1. ASSUME NEW x \in Nodes, NEW y \in Nodes, NEW t \in Tags
        PROVE  IsSequence(data'[x][y][t])
    <3>1. IsSequence(data[x][y][t])
      BY DEF ChannelsOK
    <3> DEFINE e == Piece(thecmd[c].cmd, thecmd[c].buffer, y)
    <3>2. data'[x][y][t] =
            IF thecmd[c].cmd.command = "WRITE" /\ x = Home[c] /\ y # Home[c] /\ t = Sock[c]
            THEN Append(data[x][y][t], e) ELSE data[x][y][t]
      <4> HIDE DEF Inv
      <4> QED BY <1>3, StartEffect
    <3> HIDE DEF e
    <3>3. IsSequence(Append(data[x][y][t], e))
      BY <3>1, Appended
    <3> QED BY <3>1, <3>2, <3>3
  <2> QED BY <1>2, <1>3, <2>1, StartEffect
<1>4. ASSUME NEW n \in Nodes, NEW src \in Nodes, TakeCommand(n, src) PROVE ChannelsOK'
  <2>1. ASSUME NEW x \in Nodes, NEW y \in Nodes, NEW t \in Tags
        PROVE  IsSequence(data'[x][y][t])
    <3>1. IsSequence(data[x][y][t])
      BY DEF ChannelsOK
    <3> DEFINE e == Reply(Head(cmds[src][n]), memory[n], n)
    <3>2. data'[x][y][t] =
            IF Head(cmds[src][n]).command = "READ" /\ x = n /\ y = src
                 /\ t = Head(cmds[src][n]).sock_tag
            THEN Append(data[x][y][t], e) ELSE data[x][y][t]
      <4> HIDE DEF Inv
      <4>1. \A a, b \in Nodes : \A u \in Tags : data'[a][b][u] =
              IF Head(cmds[src][n]).command = "READ" /\ a = n /\ b = src
                   /\ u = Head(cmds[src][n]).sock_tag
              THEN Append(data[a][b][u], e) ELSE data[a][b][u]
        BY <1>4, TakeEffect
      <4> HIDE DEF e
      <4> QED BY <4>1
    <3> HIDE DEF e
    <3>3. IsSequence(Append(data[x][y][t], e))
      BY <3>1, Appended
    <3> QED BY <3>1, <3>2, <3>3
  <2> QED BY <1>2, <1>4, <2>1, TakeEffect
<1>5. ASSUME NEW c \in Conns, NEW over, Progress(c, over) PROVE ChannelsOK'
  <2>1. ASSUME NEW x \in Nodes, NEW y \in Nodes, NEW t \in Tags
        PROVE  IsSequence(data'[x][y][t])
    <3>1. IsSequence(data[x][y][t])
      BY DEF ChannelsOK
    <3>2. data'[x][y][t] = data[x][y][t]
            \/ (<< x, "data" >> \in over /\ thecmd[c].cmd.command = "READ" /\ y = Home[c]
                 /\ t = Sock[c] /\ data'[x][y][t] = Tail(data[x][y][t]))
      BY <1>5, ProgressEffect
    <3>3. CASE data'[x][y][t] # data[x][y][t]
      <4>1. data[x][y][t] # << >>
        BY <1>5, <3>2, <3>3 DEF Progress, Arrived
      <4> QED BY <3>1, <3>2, <3>3, <4>1, HeadAndTail
    <3> QED BY <3>1, <3>3
  <2> QED BY <1>2, <1>5, <2>1, ProgressEffect
<1>6. ASSUME NEW n \in Nodes, StoreData(n) PROVE ChannelsOK'
  <2>1. PICK c \in Conns : server[n].cmd.srcrank = Home[c] /\ server[n].cmd.sock_tag = Sock[c]
    BY <1>6, ServedFacts DEF StoreData, DataCame
  <2>2. ASSUME NEW x \in Nodes, NEW y \in Nodes, NEW t \in Tags
        PROVE  IsSequence(data'[x][y][t])
    <3>1. IsSequence(data[x][y][t])
      BY DEF ChannelsOK
    <3>2. \/ data'[x][y][t] = data[x][y][t]
          \/ data[x][y][t] # << >> /\ data'[x][y][t] = Tail(data[x][y][t])
      BY <1>6, <2>1, StoreEffect
    <3> QED BY <3>1, <3>2, HeadAndTail
  <2> QED BY <1>2, <1>6, <2>1, <2>2, StoreEffect
<1>7. ASSUME NEW n \in Nodes, NodeStep(n) PROVE ChannelsOK'
  BY <1>7, <1>1, <1>3, <1>4, <1>5, <1>6 DEF NodeStep, ReplySent, Leave, network
<1>8. ASSUME NEW c \in Conns, ClientStep(c) \/ HandlerStep(c) PROVE ChannelsOK'
  BY <1>8, <1>1, ClientFrame, HandlerFrame DEF network
<1>9. CASE UNCHANGED vars
  BY <1>9, <1>1 DEF vars, network
<1> QED BY <1>7, <1>8, <1>9, NextCases

\* Between two connections nothing is exchanged: equal tags are of the same one.
LEMMA Between ==
  ASSUME Inv, NEW d \in Conns, NEW i \in Nodes \ {Home[d]}
  PROVE  /\ Home[d] \in Nodes /\ i \in Nodes /\ Sock[d] \in Tags
         /\ IsSequence(data[Home[d]][i][Sock[d]]) /\ IsSequence(data[i][Home[d]][Sock[d]])
         /\ cmds[Home[d]][i] \in Seq(Commands) /\ IsSequence(cmds[Home[d]][i])
         /\ Matched(i, Sock[d], data[Home[d]][i][Sock[d]], cmds[Home[d]][i], Serving(i))
         /\ ReadOK(d, i)
<1>1. Home[d] \in Nodes /\ i \in Nodes /\ Sock[d] \in Tags
  BY Basics
<1>2. IsSequence(data[Home[d]][i][Sock[d]]) /\ IsSequence(data[i][Home[d]][Sock[d]])
  BY <1>1 DEF Inv, ChannelsOK
<1>3. cmds[Home[d]][i] \in Seq(Commands)
  BY <1>1 DEF Inv, TypeOK
<1>4. IsSequence(cmds[Home[d]][i])
  BY <1>3 DEF IsSequence
<1> QED BY <1>1, <1>2, <1>3, <1>4 DEF Inv, WritesOK, ReadsOK

LEMMA WritesStep == Inv /\ [Next]_vars => WritesOK'
<1> SUFFICES ASSUME Inv, [Next]_vars PROVE WritesOK'
  OBVIOUS
<1> DEFINE W(d, i) == data[Home[d]][i][Sock[d]]
           C(d, i) == cmds[Home[d]][i]
           W2(d, i) == data'[Home[d]][i][Sock[d]]
           C2(d, i) == cmds'[Home[d]][i]
           Serving2(i) == IF server'[i].status = "receive" THEN server'[i].cmd ELSE Kill
           M2(d, i) == Matched(i, Sock[d], W2(d, i), C2(d, i), Serving2(i))
<1>0. ASSUME \A d \in Conns : \A i \in Nodes \ {Home[d]} : M2(d, i)
      PROVE  WritesOK'
  BY <1>0 DEF WritesOK, Serving
<1>1. ASSUME data' = data, cmds' = cmds, server' = server PROVE WritesOK'
  BY <1>1 DEF Inv, WritesOK, Serving
<1>2. ASSUME NEW d \in Conns, NEW i \in Nodes \ {Home[d]},
             W2(d, i) = W(d, i), C2(d, i) = C(d, i), Serving2(i) = Serving(i)
      PROVE  M2(d, i)
  BY <1>2, Between
<1>3. ASSUME NEW c \in Conns, Start(c) PROVE WritesOK'
  <2> DEFINE n == Home[c]
             m == thecmd[c].cmd
  <2>1. /\ m.sock_tag = Sock[c] /\ n \in Nodes
        /\ m.command = "WRITE" => \A i \in Nodes : IsPart(m, i, Piece(m, thecmd[c].buffer, i))
    BY <1>3, PostedFacts, Basics DEF Start, Inv, HandlersOK, HandlerOK, Held
  <2>2. server' = server
    BY <1>3 DEF Start
  <2>3. ASSUME NEW d \in Conns, NEW i \in Nodes \ {Home[d]}
        PROVE  /\ C2(d, i) = IF Home[d] = n THEN Append(C(d, i), m) ELSE C(d, i)
               /\ W2(d, i) = IF m.command = "WRITE" /\ d = c
                             THEN Append(W(d, i), Piece(m, thecmd[c].buffer, i)) ELSE W(d, i)
    <3>1. Home[d] \in Nodes /\ i \in Nodes /\ Sock[d] \in Tags /\ (Sock[d] = Sock[c] => d = c)
      BY Basics, SocketsApart
    <3>2. C2(d, i) = IF Home[d] = n /\ i # n THEN Append(C(d, i), m) ELSE C(d, i)
      BY <3>1, <1>3, StartEffect
    <3>3. W2(d, i) = IF m.command = "WRITE" /\ Home[d] = n /\ i # n /\ Sock[d] = Sock[c]
                     THEN Append(W(d, i), Piece(m, thecmd[c].buffer, i)) ELSE W(d, i)
      BY <3>1, <1>3, StartEffect
    <3> QED BY <3>1, <3>2, <3>3
  <2> HIDE DEF m
  <2>4. ASSUME NEW d \in Conns, NEW i \in Nodes \ {Home[d]}
        PROVE  M2(d, i)
    <3>0. Serving2(i) = Serving(i)
      BY <2>2 DEF Serving
    <3>1. IsSequence(W(d, i)) /\ IsSequence(C(d, i))
          /\ Matched(i, Sock[d], W(d, i), C(d, i), Serving(i))
      BY Between
    <3> HIDE DEF W, C, W2, C2, Serving2
    <3>2. CASE Home[d] # n
      BY <3>0, <3>2, <2>3, <1>2
    <3>3. CASE d = c /\ m.command = "WRITE"
      <4>1. IsWrite(Sock[d], m) /\ IsPart(m, i, Piece(m, thecmd[c].buffer, i))
        BY <2>1, <3>3 DEF IsWrite
      <4>2. /\ W2(d, i) = Append(W(d, i), Piece(m, thecmd[c].buffer, i))
            /\ C2(d, i) = Append(C(d, i), m)
        BY <2>3, <3>3
      <4> QED BY <3>0, <3>1, <4>1, <4>2, MatchWrite
    <3>4. CASE Home[d] = n /\ ~(d = c /\ m.command = "WRITE")
      <4>1. ~IsWrite(Sock[d], m)
        BY <2>1, <3>4, Basics, SocketsApart DEF IsWrite
      <4>2. W2(d, i) = W(d, i) /\ C2(d, i) = Append(C(d, i), m)
        BY <2>3, <3>4
      <4> QED BY <3>0, <3>1, <4>1, <4>2, MatchOther
    <3> QED BY <3>2, <3>3, <3>4
  <2> QED BY <2>4, <1>0
<1>4. ASSUME NEW n \in Nodes, NEW src \in Nodes, TakeCommand(n, src) PROVE WritesOK'
  <2> DEFINE q == Head(cmds[src][n])
  <2>1. PICK c \in Conns : Home[c] = src /\ q.sock_tag = Sock[c]
    BY <1>4, TakenFacts
  <2>2. src # n /\ cmds[src][n] # << >>
    BY <1>4, TakenFacts
  <2>3. /\ server[n].status = "listen" /\ \A i \in Nodes \ {n} : server'[i] = server[i]
        /\ Serving2(n) = IF q.command = "WRITE" THEN q ELSE Kill
    <3> DEFINE s == CASE q.command = "READ"  -> [status |-> "reply", cmd |-> q]
                      [] q.command = "WRITE" -> [status |-> "receive", cmd |-> q]
                      [] OTHER -> Listening
    <3>1. server[n].status = "listen" /\ server' = [server EXCEPT ![n] = s]
      BY <1>4 DEF TakeCommand
    <3>2. (q.command = "WRITE" => s.status = "receive" /\ s.cmd = q)
          /\ (q.command # "WRITE" => s.status # "receive")
      BY DEF Listening
    <3> HIDE DEF s, q
    <3>3. server'[n] = s /\ \A i \in Nodes \ {n} : server'[i] = server[i]
      BY <3>1 DEF Inv, TypeOK
    <3> QED BY <3>1, <3>2, <3>3
  <2>4. ASSUME NEW d \in Conns, NEW i \in Nodes \ {Home[d]}
        PROVE  /\ C2(d, i) = IF Home[d] = src /\ i = n THEN Tail(C(d, i)) ELSE C(d, i)
               /\ W2(d, i) = W(d, i)
    <3>1. Home[d] \in Nodes /\ i \in Nodes /\ Sock[d] \in Tags /\ (Sock[d] = Sock[c] => d = c)
      BY Basics, SocketsApart
    <3>2. C2(d, i) = IF Home[d] = src /\ i = n THEN Tail(C(d, i)) ELSE C(d, i)
      BY <3>1, <1>4, TakeEffect, SMTT(30)
    <3>3. W2(d, i) = IF q.command = "READ" /\ Home[d] = n /\ i = src /\ Sock[d] = q.sock_tag
                     THEN Append(W(d, i), Reply(q, memory[n], n)) ELSE W(d, i)
      BY <3>1, <1>4, TakeEffect, SMTT(30)
    <3> HIDE DEF q, W, C, W2, C2
    <3> QED BY <3>1, <3>2, <3>3, <2>1, <2>2
  <2>5. ~IsWrite(Sock[c], Kill) /\ \A d \in Conns : ~IsWrite(Sock[d], Kill)
    BY Basics DEF IsWrite
  <2> HIDE DEF q
  <2>6. ASSUME NEW d \in Conns, NEW i \in Nodes \ {Home[d]}
        PROVE  M2(d, i)
    <3>1. IsSequence(W(d, i)) /\ IsSequence(C(d, i))
          /\ Matched(i, Sock[d], W(d, i), C(d, i), Serving(i))
      BY Between
    <3>2. CASE i # n
      <4>1. Serving2(i) = Serving(i)
        BY <2>3, <3>2 DEF Serving
      <4> HIDE DEF W, C, W2, C2, Serving2
      <4> QED BY <3>2, <4>1, <2>4, <1>2
    <3>3. CASE i = n /\ Home[d] = src
      <4>1. Serving(i) = Kill /\ q = Head(C(d, i)) /\ C(d, i) # << >>
        BY <2>2, <2>3, <3>3 DEF Serving, q
      <4>2. IF IsWrite(Sock[d], q) THEN Serving2(i) = q ELSE ~IsWrite(Sock[d], Serving2(i))
        <5> HIDE DEF Serving2
        <5> QED BY <2>3, <2>5, <3>3 DEF IsWrite
      <4>3. W2(d, i) = W(d, i) /\ C2(d, i) = Tail(C(d, i))
        <5> HIDE DEF W, C, W2, C2
        <5> QED BY <2>4, <3>3
      <4> HIDE DEF W, C, W2, C2, Serving2
      <4> QED BY <2>5, <3>1, <4>1, <4>2, <4>3, MatchTaken
    <3>4. CASE i = n /\ Home[d] # src
      <4>1. Serving(i) = Kill
        BY <2>3, <3>4 DEF Serving
      <4>2. d # c /\ q.sock_tag # Sock[d]
        BY <2>1, <3>4, Basics, SocketsApart
      <4> HIDE DEF W, C, W2, C2, Serving2
      <4>3. ~IsWrite(Sock[d], Serving2(i))
        BY <2>3, <2>5, <3>4, <4>2 DEF IsWrite
      <4>4. W2(d, i) = W(d, i) /\ C2(d, i) = C(d, i)
        BY <2>4, <3>4
      <4> QED BY <2>5, <3>1, <4>1, <4>3, <4>4, MatchServed
    <3> QED BY <3>2, <3>3, <3>4
  <2> QED BY <2>6, <1>0
<1>5. ASSUME NEW c \in Conns, NEW over, Progress(c, over) PROVE WritesOK'
  <2>1. server' = server /\ cmds' = cmds
    BY <1>5 DEF Progress, nodes
  <2>2. ASSUME NEW d \in Conns, NEW i \in Nodes \ {Home[d]}
        PROVE  M2(d, i)
    <3>1. Home[d] \in Nodes /\ i \in Nodes /\ Sock[d] \in Tags /\ (Sock[d] = Sock[c] => d = c)
      BY Basics, SocketsApart
    <3>2. W2(d, i) = IF thecmd[c].cmd.command = "READ" /\ << Home[d], "data" >> \in over
                          /\ i = Home[c] /\ Sock[d] = Sock[c]
                     THEN Tail(W(d, i)) ELSE W(d, i)
      BY <3>1, <1>5, ProgressEffect, SMTT(30)
    <3>3. W2(d, i) = W(d, i)
      BY <3>1, <3>2
    <3>4. Serving2(i) = Serving(i) /\ C2(d, i) = C(d, i)
      BY <2>1 DEF Serving
    <3> HIDE DEF W, C, W2, C2, Serving2
    <3> QED BY <3>3, <3>4, <1>2
  <2> QED BY <2>2, <1>0
<1>6. ASSUME NEW n \in Nodes, StoreData(n) PROVE WritesOK'
  <2>0. server[n].status = "receive" /\ ListenAgain(n)
    BY <1>6 DEF StoreData, DataCame
  <2>1. PICK c \in Conns :
          /\ Home[c] # n
          /\ server[n].cmd.srcrank = Home[c] /\ server[n].cmd.sock_tag = Sock[c]
          /\ server[n].cmd.command = "WRITE"
          /\ Serving(n) = server[n].cmd
    BY <2>0, ServedFacts
  <2>2. /\ \A d \in Conns : ~IsWrite(Sock[d], Serving2(n)) /\ (IsWrite(Sock[d], Serving(n)) <=> d = c)
        /\ \A i \in Nodes \ {n} : Serving2(i) = Serving(i)
    <3>1. Serving2(n) = Kill /\ \A i \in Nodes \ {n} : Serving2(i) = Serving(i)
      BY <2>0 DEF ListenAgain, Listening, Serving, Inv, TypeOK
    <3> HIDE DEF Serving2
    <3> QED BY <2>1, <3>1, Basics, SocketsApart DEF IsWrite
  <2>3. cmds' = cmds /\ W(c, n) # << >>
    BY <1>6, <2>1, StoreEffect
  <2>4. ASSUME NEW d \in Conns, NEW i \in Nodes \ {Home[d]}
        PROVE  W2(d, i) = IF d = c /\ i = n THEN Tail(W(d, i)) ELSE W(d, i)
    <3>1. Home[d] \in Nodes /\ i \in Nodes /\ Sock[d] \in Tags /\ (Sock[d] = Sock[c] => d = c)
      BY Basics, SocketsApart
    <3>2. W2(d, i) = IF Home[d] = Home[c] /\ i = n /\ Sock[d] = Sock[c]
                     THEN Tail(W(d, i)) ELSE W(d, i)
      BY <3>1, <1>6, <2>1, StoreEffect, SMTT(30)
    <3> QED BY <3>1, <3>2
  <2>5. ASSUME NEW d \in Conns, NEW i \in Nodes \ {Home[d]}
        PROVE  M2(d, i)
    <3>1. IsSequence(W(d, i)) /\ IsSequence(C(d, i))
          /\ Matched(i, Sock[d], W(d, i), C(d, i), Serving(i)) /\ C2(d, i) = C(d, i)
      BY <2>3, Between
    <3> HIDE DEF W, C, W2, C2, Serving2
    <3>2. CASE i # n
      BY <3>1, <3>2, <2>2, <2>4, <1>2
    <3>3. CASE i = n /\ d = c
      <4>1. /\ W2(d, i) = Tail(W(d, i)) /\ W(d, i) # << >>
            /\ IsWrite(Sock[d], Serving(i)) /\ ~IsWrite(Sock[d], Serving2(i))
        BY <3>3, <2>2, <2>3, <2>4
      <4> QED BY <3>1, <4>1, MatchStored
    <3>4. CASE i = n /\ d # c
      BY <3>1, <3>4, <2>2, <2>4, MatchServed
    <3> QED BY <3>2, <3>3, <3>4
  <2> QED BY <2>5, <1>0
<1>7. ASSUME NEW n \in Nodes, ReplySent(n) PROVE WritesOK'
  <2>1. data' = data /\ cmds' = cmds
    BY <1>7 DEF ReplySent, network
  <2>2. \A i \in Nodes : Serving2(i) = Serving(i)
    BY <1>7 DEF ReplySent, ListenAgain, Listening, Serving, Inv, TypeOK
  <2> QED BY <2>1, <2>2 DEF Inv, WritesOK, Serving
<1>8. ASSUME NEW n \in Nodes, NodeStep(n) PROVE WritesOK'
  BY <1>8, <1>1, <1>3, <1>4, <1>5, <1>6, <1>7 DEF NodeStep, Leave, network
<1>9. ASSUME NEW c \in Conns, ClientStep(c) \/ HandlerStep(c) PROVE WritesOK'
  BY <1>9, <1>1, ClientFrame, HandlerFrame DEF nodes, network
<1>10. CASE UNCHANGED vars
  BY <1>10, <1>1 DEF vars, nodes, network
<1> QED BY <1>8, <1>9, <1>10, NextCases

\* A step that leaves the channels between a connection and a node as they are
LEMMA ReadKept ==
  ASSUME Inv, NEW d \in Conns, NEW i \in Nodes \ {Home[d]},
         cmds'[Home[d]][i] = cmds[Home[d]][i],
         data'[i][Home[d]][Sock[d]] = data[i][Home[d]][Sock[d]],
         thecmd'[d].cmd = thecmd[d].cmd, thecmd'[d].work[i] = thecmd[d].work[i]
  PROVE  ReadOK(d, i)'
<1>1. ReadOK(d, i)
  BY Between
<1> QED BY <1>1 DEF ReadOK, Awaits

\* A connection that awaits nothing has nothing on its way, whatever its command is next.
LEMMA NothingOnItsWay ==
  ASSUME Inv, NEW d \in Conns, NEW i \in Nodes \ {Home[d]}, ~Awaits(d, i)
  PROVE  /\ data[i][Home[d]][Sock[d]] = << >>
         /\ \A k \in 1 .. Len(cmds[Home[d]][i]) : ~IsRead(Sock[d], cmds[Home[d]][i][k])
BY Between DEF ReadOK

LEMMA ReadsStep == Inv /\ [Next]_vars => ReadsOK'
<1> SUFFICES ASSUME Inv, [Next]_vars PROVE ReadsOK'
  OBVIOUS
<1> DEFINE R(d, i) == data[i][Home[d]][Sock[d]]
           C(d, i) == cmds[Home[d]][i]
           R2(d, i) == data'[i][Home[d]][Sock[d]]
           C2(d, i) == cmds'[Home[d]][i]
<1>0. ASSUME \A d \in Conns : \A i \in Nodes \ {Home[d]} : ReadOK(d, i)'
      PROVE  ReadsOK'
  BY <1>0 DEF ReadsOK
<1>1. ASSUME data' = data, cmds' = cmds, thecmd' = thecmd PROVE ReadsOK'
  BY <1>1 DEF Inv, ReadsOK, ReadOK, Awaits
<1>2. ASSUME NEW d \in Conns, NEW i \in Nodes \ {Home[d]}, R2(d, i) = << >>,
             \A k \in 1 .. Len(C2(d, i)) : ~IsRead(Sock[d], C2(d, i)[k])
      PROVE  ReadOK(d, i)'
  BY <1>2 DEF ReadOK
\* The handler of c begins or ends with a command.
<1>3. ASSUME NEW c \in Conns, data' = data, cmds' = cmds,
             \A d \in Conns \ {c} : thecmd'[d] = thecmd[d],
             \A i \in Nodes : thecmd[c].work[i] = {}
      PROVE  ReadsOK'
  <2> SUFFICES ASSUME NEW d \in Conns, NEW i \in Nodes \ {Home[d]}
               PROVE  ReadOK(d, i)'
    BY <1>0
  <2>1. CASE d = c
    <3>1. ~Awaits(d, i)
      BY <1>3, <2>1 DEF Awaits
    <3> QED BY <3>1, <1>2, <1>3, NothingOnItsWay
  <2>2. CASE d # c
    BY <1>3, <2>2, ReadKept
  <2> QED BY <2>1, <2>2
<1>4. ASSUME NEW c \in Conns, HandlerStep(c) PROVE ReadsOK'
  <2>0. data' = data /\ cmds' = cmds
    BY <1>4, HandlerFrame DEF network
  <2>1. CASE TakeOpen(c) \/ TakeStat(c) \/ Dies(c)
    BY <2>0, <2>1, <1>1 DEF TakeOpen, TakeStat, Dies
  <2>2. CASE Post(c)
    BY <2>0, <2>2, <1>3 DEF Post, Takes, Inv, TypeOK, HandlersOK, HandlerOK
  <2>3. CASE thecmd' = thecmd
    BY <2>0, <2>3, <1>1
  <2>4. ASSUME Answer(c) \/ Lengthen(c), NEW b, GoesOn(c, b) PROVE ReadsOK'
    <3>1. handler[c] # "posted"
      BY <2>4 DEF Answer, Lengthen
    <3> QED BY <3>1, <2>0, <2>4, <1>3 DEF GoesOn, Inv, TypeOK, HandlersOK, HandlerOK
  <2>5. CASE TakeOut(c) \/ Answer(c) \/ Lengthen(c)
    BY <2>3, <2>4, <2>5 DEF TakeOut, Answer, Lengthen
  <2> QED BY <1>4, <2>1, <2>2, <2>5 DEF HandlerStep
<1>5. ASSUME NEW c \in Conns, Start(c) PROVE ReadsOK'
  <2> DEFINE n == Home[c]
             m == thecmd[c].cmd
  <2>1. /\ m.sock_tag = Sock[c] /\ n \in Nodes
        /\ \A i \in Nodes : thecmd[c].work[i] = {}
    BY <1>5, PostedFacts, Basics DEF Start, Inv, HandlersOK, HandlerOK, Held
  <2>2. /\ \A d \in Conns \ {c} : thecmd'[d] = thecmd[d]
        /\ thecmd'[c].cmd = m
        /\ m.command = "READ" => \A i \in Nodes \ {n} : "data" \in thecmd'[c].work[i]
    <3>1. /\ \A d \in Conns \ {c} : thecmd'[d] = thecmd[d]
          /\ thecmd'[c].cmd = m
          /\ thecmd'[c].work = [i \in Nodes |-> CASE i = n -> {}
                                    [] i # n /\ m.command = "KILL" -> {"cmd"}
                                    [] OTHER -> {"cmd", "data"}]
      BY <1>5 DEF Start, Inv, TypeOK
    <3> HIDE DEF m, n
    <3> QED BY <3>1
  <2>3. ASSUME NEW d \in Conns, NEW i \in Nodes \ {Home[d]}
        PROVE  /\ C2(d, i) = IF Home[d] = n THEN Append(C(d, i), m) ELSE C(d, i)
               /\ R2(d, i) = R(d, i)
    <3>1. Home[d] \in Nodes /\ i \in Nodes /\ Sock[d] \in Tags /\ (Sock[d] = Sock[c] => d = c)
      BY Basics, SocketsApart
    <3>2. C2(d, i) = IF Home[d] = n /\ i # n THEN Append(C(d, i), m) ELSE C(d, i)
      BY <3>1, <1>5, StartEffect
    <3>3. R2(d, i) = IF m.command = "WRITE" /\ i = n /\ Home[d] # n /\ Sock[d] = Sock[c]
                     THEN Append(R(d, i), Piece(m, thecmd[c].buffer, Home[d])) ELSE R(d, i)
      BY <3>1, <1>5, StartEffect
    <3> QED BY <3>1, <3>2, <3>3
  <2> HIDE DEF m
  <2>4. ASSUME NEW d \in Conns, NEW i \in Nodes \ {Home[d]}
        PROVE  ReadOK(d, i)'
    <3>1. CASE Home[d] # n
      <4>1. d # c
        BY <3>1
      <4> QED BY <3>1, <4>1, <2>2, <2>3, ReadKept
    <3>2. CASE Home[d] = n
      <4>1. IsSequence(C(d, i)) /\ ReadOK(d, i)
        BY Between
      <4>2. /\ Len(C(d, i)) \in Nat /\ Len(C2(d, i)) = Len(C(d, i)) + 1
            /\ C2(d, i)[Len(C(d, i)) + 1] = m
            /\ \A k \in 1 .. Len(C(d, i)) : C2(d, i)[k] = C(d, i)[k]
        <5> HIDE DEF C, C2
        <5> QED BY <3>2, <4>1, <2>3, Appended
      <4>3. CASE d = c
        <5>1. R2(d, i) = << >> /\ \A k \in 1 .. Len(C(d, i)) : ~IsRead(Sock[d], C2(d, i)[k])
          <6>1. ~Awaits(d, i)
            BY <4>3, <2>1 DEF Awaits
          <6> QED BY <6>1, <4>2, <2>3, NothingOnItsWay
        <5>2. \A k \in 1 .. Len(C2(d, i)) : IsRead(Sock[d], C2(d, i)[k])
                => k = Len(C(d, i)) + 1 /\ C2(d, i)[k] = m
          <6> HIDE DEF C, C2
          <6> QED BY <5>1, <4>2
        <5>3. ASSUME IsRead(Sock[d], m)
              PROVE  thecmd'[d].cmd = m /\ Awaits(d, i)'
          BY <4>3, <5>3, <2>2 DEF IsRead, Awaits
        <5>4. thecmd'[d].cmd = m
          BY <4>3, <2>2
        <5> QED BY <5>1, <5>2, <5>3, <5>4 DEF ReadOK
      <4>4. CASE d # c
        <5>1. ~IsRead(Sock[d], m)
          BY <4>4, <2>1, Basics, SocketsApart DEF IsRead
        <5>2. \A k \in 1 .. Len(C2(d, i)) : IsRead(Sock[d], C2(d, i)[k])
                => k \in 1 .. Len(C(d, i)) /\ C2(d, i)[k] = C(d, i)[k]
          <6> HIDE DEF C, C2
          <6> QED BY <5>1, <4>2
        <5>3. thecmd'[d] = thecmd[d] /\ R2(d, i) = R(d, i)
          BY <4>4, <2>2, <2>3
        <5> QED BY <4>1, <5>2, <5>3 DEF ReadOK, Awaits
      <4> QED BY <4>3, <4>4
    <3> QED BY <3>1, <3>2
  <2> QED BY <2>4, <1>0
<1>6. ASSUME NEW n \in Nodes, NEW src \in Nodes, TakeCommand(n, src) PROVE ReadsOK'
  <2> DEFINE q == Head(cmds[src][n])
  <2>1. PICK c \in Conns : Home[c] = src /\ Good(c, q) /\ q.sock_tag = Sock[c]
    BY <1>6, TakenFacts
  <2>2. src # n /\ cmds[src][n] # << >>
    BY <1>6, TakenFacts
  <2>3. thecmd' = thecmd
    BY <1>6 DEF TakeCommand, handlers
  <2>4. ASSUME NEW d \in Conns, NEW i \in Nodes \ {Home[d]}
        PROVE  /\ C2(d, i) = IF Home[d] = src /\ i = n THEN Tail(C(d, i)) ELSE C(d, i)
               /\ R2(d, i) = IF q.command = "READ" /\ i = n /\ d = c
                             THEN Append(R(d, i), Reply(q, memory[n], n)) ELSE R(d, i)
    <3>1. Home[d] \in Nodes /\ i \in Nodes /\ Sock[d] \in Tags /\ (Sock[d] = Sock[c] => d = c)
      BY Basics, SocketsApart
    <3>2. C2(d, i) = IF Home[d] = src /\ i = n THEN Tail(C(d, i)) ELSE C(d, i)
      BY <3>1, <1>6, TakeEffect, SMTT(30)
    <3>3. R2(d, i) = IF q.command = "READ" /\ i = n /\ Home[d] = src /\ Sock[d] = q.sock_tag
                     THEN Append(R(d, i), Reply(q, memory[n], n)) ELSE R(d, i)
      BY <3>1, <1>6, TakeEffect, SMTT(30)
    <3> HIDE DEF q, R, C, R2, C2
    <3> QED BY <3>1, <3>2, <3>3, <2>1
  <2>5. ASSUME NEW d \in Conns, NEW i \in Nodes \ {Home[d]}
        PROVE  ReadOK(d, i)'
    <3>1. CASE i # n \/ Home[d] # src
      <4>1. R2(d, i) = R(d, i) /\ C2(d, i) = C(d, i)
        <5> HIDE DEF R, C, R2, C2
        <5> QED BY <3>1, <2>1, <2>4
      <4> QED BY <4>1, <2>3, ReadKept
    <3>2. CASE i = n /\ Home[d] = src
      <4>1. IsSequence(C(d, i)) /\ ReadOK(d, i) /\ IsSequence(R(d, i))
        BY Between
      <4>2. /\ Len(C(d, i)) \in Nat \ {0} /\ Len(C2(d, i)) = Len(C(d, i)) - 1
            /\ q = C(d, i)[1]
            /\ \A k \in 1 .. Len(C2(d, i)) : C2(d, i)[k] = C(d, i)[k + 1]
        <5>1. q = Head(C(d, i)) /\ C(d, i) # << >> /\ C2(d, i) = Tail(C(d, i))
          BY <3>2, <2>2, <2>4
        <5> HIDE DEF q, C, C2
        <5> QED BY <4>1, <5>1, HeadAndTail
      <4> HIDE DEF q
      <4>3. CASE IsRead(Sock[d], q)
        <5>1. d = c /\ q.command = "READ"
          BY <4>3, <2>1, Basics, SocketsApart DEF IsRead
        <5>2. q = thecmd[d].cmd /\ Awaits(d, i) /\ R(d, i) = << >>
          <6>1. q = C(d, i)[1] /\ 1 \in 1 .. Len(C(d, i))
            BY <4>2
          <6> QED BY <4>1, <6>1, <4>3 DEF ReadOK
        <5>3. \A k \in 1 .. Len(C2(d, i)) : ~IsRead(Sock[d], C2(d, i)[k])
          <6>1. \A k \in 2 .. Len(C(d, i)) : ~IsRead(Sock[d], C(d, i)[k])
            <7>1. q = C(d, i)[1] /\ 1 \in 1 .. Len(C(d, i)) /\ Len(C(d, i)) \in Nat
              BY <4>2
            <7>2. \A j, k \in 1 .. Len(C(d, i)) :
                    IsRead(Sock[d], C(d, i)[j]) /\ IsRead(Sock[d], C(d, i)[k]) => j = k
              BY <4>1 DEF ReadOK
            <7> HIDE DEF C
            <7> QED BY <7>1, <7>2, <4>3
          <6> HIDE DEF C, C2
          <6> QED BY <6>1, <4>2
        <5>4. R2(d, i) = Append(R(d, i), Reply(q, memory[n], n))
          <6> HIDE DEF R, R2
          <6> QED BY <3>2, <5>1, <2>4
        <5>5. Len(R2(d, i)) = 1 /\ R2(d, i)[1] = Reply(q, memory[n], n)
          <6> HIDE DEF R, R2
          <6> QED BY <5>2, <5>4
        <5>6. IsPart(q, n, Reply(q, memory[n], n))
          <6>1. InFile(q) /\ InPlace(n, memory[n])
            BY <5>1, <2>1 DEF Good, Inv, MemoryInPlace
          <6> QED BY <6>1, ReadFromPlace
        <5> QED BY <3>2, <5>2, <5>3, <5>5, <5>6, <2>3 DEF ReadOK, Awaits
      <4>4. CASE ~IsRead(Sock[d], q)
        <5>1. R2(d, i) = R(d, i)
          <6>1. ~(d = c /\ q.command = "READ")
            BY <4>4, <2>1 DEF IsRead
          <6> HIDE DEF R, R2
          <6> QED BY <6>1, <2>4
        <5>2. ASSUME NEW k \in 1 .. Len(C2(d, i))
              PROVE  k + 1 \in 1 .. Len(C(d, i)) /\ C2(d, i)[k] = C(d, i)[k + 1]
          <6> HIDE DEF C, C2
          <6> QED BY <4>2
        <5>3. \A k \in 1 .. Len(C2(d, i)) : IsRead(Sock[d], C2(d, i)[k])
                => C2(d, i)[k] = thecmd[d].cmd /\ Awaits(d, i) /\ R(d, i) = << >>
          BY <4>1, <5>2 DEF ReadOK
        <5>4. \A j, k \in 1 .. Len(C2(d, i)) :
                IsRead(Sock[d], C2(d, i)[j]) /\ IsRead(Sock[d], C2(d, i)[k]) => j = k
          <6>1. \A j, k \in 1 .. Len(C(d, i)) :
                  IsRead(Sock[d], C(d, i)[j]) /\ IsRead(Sock[d], C(d, i)[k]) => j = k
            BY <4>1 DEF ReadOK
          <6> HIDE DEF C, C2
          <6> QED BY <5>2, <6>1, SMTT(30)
        <5>5. R(d, i) # << >> => Awaits(d, i) /\ Len(R(d, i)) = 1 /\ IsPart(thecmd[d].cmd, i, R(d, i)[1])
          BY <4>1 DEF ReadOK
        <5> QED BY <5>1, <5>3, <5>4, <5>5, <2>3 DEF ReadOK, Awaits
      <4> QED BY <4>3, <4>4
    <3> QED BY <3>1, <3>2
  <2> QED BY <2>5, <1>0
<1>7. ASSUME NEW c \in Conns, NEW over, Progress(c, over) PROVE ReadsOK'
  <2> DEFINE m == thecmd[c].cmd
             arrives(i) == m.command = "READ" /\ << i, "data" >> \in over
  <2>1. /\ cmds' = cmds /\ \A d \in Conns \ {c} : thecmd'[d] = thecmd[d]
        /\ thecmd'[c].cmd = m
        /\ \A i \in Nodes : thecmd'[c].work[i] = {w \in thecmd[c].work[i] : << i, w >> \notin over}
    BY <1>7 DEF Progress, Inv, TypeOK
  <2>2. \A i \in Nodes : arrives(i) => R(c, i) # << >>
    BY <1>7 DEF Progress, Arrived
  <2>3. ASSUME NEW d \in Conns, NEW i \in Nodes \ {Home[d]}
        PROVE  R2(d, i) = IF d = c /\ arrives(i) THEN Tail(R(d, i)) ELSE R(d, i)
    <3>1. Home[d] \in Nodes /\ i \in Nodes /\ Sock[d] \in Tags /\ (Sock[d] = Sock[c] => d = c)
      BY Basics, SocketsApart
    <3>2. R2(d, i) = IF m.command = "READ" /\ << i, "data" >> \in over
                          /\ Home[d] = Home[c] /\ Sock[d] = Sock[c]
                     THEN Tail(R(d, i)) ELSE R(d, i)
      BY <3>1, <1>7, ProgressEffect, SMTT(30)
    <3> QED BY <3>1, <3>2
  <2> HIDE DEF m
  <2>4. ASSUME NEW d \in Conns, NEW i \in Nodes \ {Home[d]}
        PROVE  ReadOK(d, i)'
    <3>1. CASE d # c
      BY <3>1, <2>1, <2>3, ReadKept
    <3>2. CASE d = c /\ arrives(i)
      <4>1. ReadOK(d, i) /\ R(d, i) # << >> /\ IsSequence(R(d, i))
        BY <3>2, <2>2, Between
      <4>2. Len(R(d, i)) = 1 /\ \A k \in 1 .. Len(C(d, i)) : ~IsRead(Sock[d], C(d, i)[k])
        BY <4>1 DEF ReadOK
      <4>3. R2(d, i) = << >>
        <5>1. R2(d, i) = Tail(R(d, i))
          BY <3>2, <2>3
        <5> HIDE DEF R, R2
        <5>2. IsSequence(R2(d, i)) /\ Len(R2(d, i)) = 0
          BY <4>1, <4>2, <5>1, HeadAndTail
        <5> QED BY <5>2, Emptiness
      <4> QED BY <4>2, <4>3, <2>1, <1>2
    <3>3. CASE d = c /\ ~arrives(i)
      <4>1. R2(d, i) = R(d, i) /\ C2(d, i) = C(d, i) /\ thecmd'[d].cmd = thecmd[d].cmd
        BY <3>3, <2>1, <2>3 DEF m
      <4>2. Awaits(d, i)' <=> Awaits(d, i)
        BY <3>3, <4>1, <2>1 DEF Awaits, m
      <4>3. ReadOK(d, i)
        BY Between
      <4> QED BY <4>1, <4>2, <4>3 DEF ReadOK
    <3> QED BY <3>1, <3>2, <3>3
  <2> QED BY <2>4, <1>0
<1>8. ASSUME NEW n \in Nodes, StoreData(n) PROVE ReadsOK'
  <2>1. PICK c \in Conns : /\ Home[c] # n
                           /\ server[n].cmd.srcrank = Home[c] /\ server[n].cmd.sock_tag = Sock[c]
    BY <1>8, ServedFacts DEF StoreData, DataCame
  <2>2. cmds' = cmds /\ thecmd' = thecmd
    BY <1>8 DEF StoreData, handlers
  <2>3. ASSUME NEW d \in Conns, NEW i \in Nodes \ {Home[d]}
        PROVE  R2(d, i) = R(d, i)
    <3>1. Home[d] \in Nodes /\ i \in Nodes /\ Sock[d] \in Tags /\ (Sock[d] = Sock[c] => d = c)
      BY Basics, SocketsApart
    <3>2. R2(d, i) = IF i = Home[c] /\ Home[d] = n /\ Sock[d] = Sock[c]
                     THEN Tail(R(d, i)) ELSE R(d, i)
      BY <3>1, <1>8, <2>1, StoreEffect, SMTT(30)
    <3> QED BY <3>1, <3>2, <2>1
  <2> QED BY <2>2, <2>3, <1>0, ReadKept
<1>9. ASSUME NEW n \in Nodes, NodeStep(n) PROVE ReadsOK'
  BY <1>9, <1>1, <1>5, <1>6, <1>7, <1>8 DEF NodeStep, ReplySent, Leave, handlers, network
<1>10. ASSUME NEW c \in Conns, ClientStep(c) PROVE ReadsOK'
  BY <1>10, <1>1, ClientFrame DEF network
<1>11. CASE UNCHANGED vars
  BY <1>11, <1>1 DEF vars, handlers, network
<1> QED BY <1>4, <1>9, <1>10, <1>11, NextCases

-------------------------------------------------------------------------------
(* Theorems *)

LEMMA InvStep == Inv /\ [Next]_vars => Inv'
<1>0. Inv => RequestsAreServed /\ TagsApart /\ TypeOK /\ ListsAreExact
  BY DEF Inv
<1>1. Inv /\ [Next]_vars => TypeOK' /\ UpOK' /\ HandlersOK' /\ ListsAreExact' /\ MemoryInPlace'
  BY <1>0, TypesStep, UpStep, HandlersStep, ListsStep, MemoryStep
<1>2. Inv /\ [Next]_vars => CmdsOK' /\ ServerOK' /\ ChannelsOK' /\ WritesOK' /\ ReadsOK'
  BY CmdsStep, ServerStepOK, ChannelsStep, WritesStep, ReadsStep
<1> QED BY <1>0, <1>1, <1>2 DEF Inv

LEMMA Invariance == ASSUME RequestsAreServed PROVE Spec => []Inv
<1>1. Init => Inv
  BY InitInv
<1> QED BY <1>1, InvStep, PTL DEF Spec

(* The variables keep their types: the sockets, the lists of the nodes and the channels of MPI
   carry commands, and a handler is in one of the places of its loop. *)
THEOREM DfcTypes == Spec => []TypeOK
<1> DEFINE Light == TypeOK /\ ListsAreExact
<1>1. Init => Light
  BY InitTypes, InitLists
<1>2. Light /\ [Next]_vars => Light'
  BY TypesStep, ListsStep
<1> QED BY <1>1, <1>2, PTL DEF Spec

(* The list of a node holds exactly the commands whose handlers wait for them, each once
   (handle_proc removes its own from the list of all, and the main loop goes through it). *)
THEOREM ListsHoldThePosted == Spec => []ListsAreExact
<1>1. Init => ListsAreExact
  BY InitLists
<1>2. TypeOK /\ ListsAreExact /\ [Next]_vars => ListsAreExact'
  BY ListsStep
<1> QED BY <1>1, <1>2, DfcTypes, PTL DEF Spec

(* If every request is counted right and has its own part first, and no two nodes use one number
   for their sockets: every byte in the memory of a node, read from the file or stored by a write,
   is where the striping of the file puts it.  (CountedRight says which requests are; the runs
   dfc_aligned and dfc_tags show what the code makes of the others.) *)
THEOREM BytesStayInPlace == RequestsAreServed => (Spec => []MemoryInPlace)
<1> SUFFICES ASSUME RequestsAreServed PROVE Spec => []MemoryInPlace
  OBVIOUS
<1>1. Inv => MemoryInPlace
  BY DEF Inv
<1> QED BY Invariance, <1>1, PTL

(* Under the same hypothesis, for any number of nodes and connections: the data a node receives,
   for a write that it serves or for a read of its own, are the part of that very command, of its
   length and in its order. *)
THEOREM DataMeetTheirCommand == RequestsAreServed => (Spec => []DataMatchCommand)
<1> SUFFICES ASSUME RequestsAreServed PROVE Spec => []DataMatchCommand
  OBVIOUS
<1>1. Inv => DataMatchCommand
  <2> SUFFICES ASSUME Inv PROVE DataMatchCommand
    OBVIOUS
  <2>1. ASSUME NEW n \in Nodes, DataCame(n)
        PROVE  IsPart(server[n].cmd, n, Head(data[server[n].cmd.srcrank][n][server[n].cmd.sock_tag]))
    <3>1. PICK c \in Conns :
            /\ Home[c] # n
            /\ server[n].cmd.srcrank = Home[c] /\ server[n].cmd.sock_tag = Sock[c]
            /\ server[n].cmd.command = "WRITE" /\ Serving(n) = server[n].cmd
      BY <2>1, ServedFacts DEF DataCame
    <3> DEFINE q == server[n].cmd
               d == data[Home[c]][n][Sock[c]]
               cs == cmds[Home[c]][n]
    <3>2. IsSequence(d) /\ IsSequence(cs) /\ Matched(n, Sock[c], d, cs, q)
      BY <3>1, Between
    <3>3. IsWrite(Sock[c], q) /\ d # << >>
      BY <2>1, <3>1 DEF IsWrite, DataCame
    <3> HIDE DEF q, d, cs
    <3>4. PICK f : MatchedBy(n, Sock[c], d, cs, q, f)
      BY <3>2 DEF Matched
    <3>5. IsPart(q, n, Head(d))
      BY <3>2, <3>3, <3>4, MatchFirst
    <3> QED BY <3>1, <3>5 DEF q, d
  <2>2. ASSUME NEW c \in Conns, NEW i \in Nodes, "data" \in thecmd[c].work[i], Arrived(c, i)
        PROVE  IsPart(thecmd[c].cmd, i, Head(data[i][Home[c]][Sock[c]]))
    <3>1. i \in Nodes \ {Home[c]}
      BY <2>2 DEF Inv, HandlersOK, HandlerOK
    <3> DEFINE d == data[i][Home[c]][Sock[c]]
    <3>2. IsSequence(d) /\ ReadOK(c, i) /\ d # << >>
      BY <2>2, <3>1, Between DEF Arrived
    <3>3. IsPart(thecmd[c].cmd, i, d[1])
      BY <3>2 DEF ReadOK
    <3> HIDE DEF d
    <3>4. Head(d) = d[1]
      BY <3>2, HeadAndTail
    <3> QED BY <3>3, <3>4 DEF d
  <2> QED BY <2>1, <2>2 DEF DataMatchCommand
<1> QED BY Invariance, <1>1, PTL

-------------------------------------------------------------------------------
(* What a read may find *)

\* The handler of connection c has a read in hand, or a write that has not been started.
Reading(c) == Held(c) /\ thecmd[c].cmd.command = "READ"

Writing(c) ==
  handler[c] = "posted" /\ thecmd[c].status = "PENDING" /\ thecmd[c].cmd.command = "WRITE"

\* The parts of the writes of c that are on their way to node r
Sent(c, r) == data[Home[c]][r][Sock[c]]

\* What is remembered for the properties
HistoryTypes ==
  /\ DOMAIN down = Conns /\ DOMAIN unstored = Conns /\ DOMAIN allowed = Conns
  /\ \A c \in Conns :
       /\ DOMAIN allowed[c] \subseteq Positions
       /\ Reading(c) => DOMAIN allowed[c] = Covered(thecmd[c].cmd)
       /\ ~Reading(c) /\ down[c] = << >> => DOMAIN allowed[c] = {}

\* An application asks for an answer and waits for it; before it has read that there is nothing
\* else on its socket.
Conversation ==
  \A c \in Conns :
    /\ handler[c] = "none" => up[c] = << >>
    /\ \A k \in 1 .. Len(up[c]) :
         up[c][k].command \in {"READ", "STAT"} => k = Len(up[c]) /\ client[c] = "waiting"
    /\ Reading(c) => client[c] = "waiting" /\ up[c] = << >> /\ down[c] = << >>
    /\ down[c] # << >> => client[c] = "waiting" /\ up[c] = << >> /\ ~Held(c)

\* The buffer of a command has its length, and what c writes is from c.
BuffersOK ==
  \A c \in Conns :
    /\ Reading(c) => \A p \in Covered(thecmd[c].cmd) :
         Slot(thecmd[c].cmd, p) \in DOMAIN thecmd[c].buffer
    /\ Writing(c) => \A p \in Covered(thecmd[c].cmd) :
         thecmd[c].buffer[Slot(thecmd[c].cmd, p)].from = c
    /\ \A r \in Nodes \ {Home[c]} : \A k \in 1 .. Len(Sent(c, r)) :
         \A i \in DOMAIN Sent(c, r)[k] : Sent(c, r)[k][i].from = c

\* A byte that is not yet stored is in the hand of the handler or on its way.
InHand(c, b) ==
  /\ Writing(c) /\ b.at \in Covered(thecmd[c].cmd)
  /\ thecmd[c].buffer[Slot(thecmd[c].cmd, b.at)] = b

OnItsWay(c, b) ==
  /\ RankOf(b.at) # Home[c]
  /\ \E k \in 1 .. Len(Sent(c, RankOf(b.at))) :
       \E i \in DOMAIN Sent(c, RankOf(b.at))[k] : Sent(c, RankOf(b.at))[k][i] = b

UnstoredOK ==
  \A c \in Conns : \A b \in unstored[c] : b.at \in Positions /\ (InHand(c, b) \/ OnItsWay(c, b))

\* The read of c goes to each node after its writes: when it has been served there, none of
\* them is left.
ReadIsLast ==
  \A c \in Conns : \A r \in Nodes \ {Home[c]} :
    LET cs == cmds[Home[c]][r] IN
    Reading(c) /\ thecmd[c].status # "PENDING" =>
      /\ \A j, k \in 1 .. Len(cs) : IsRead(Sock[c], cs[k]) /\ IsWrite(Sock[c], cs[j]) => j < k
      /\ (\A k \in 1 .. Len(cs) : ~IsRead(Sock[c], cs[k])) => Sent(c, r) = << >>

\* What is in the file may be found, unless c itself is writing something else there,
MemoryAllowed ==
  \A c \in Conns : \A p \in DOMAIN allowed[c] :
    (\A b \in unstored[c] : b.at # p) => memory[RankOf(p)][PlaceInBuffer(p)] \in allowed[c][p]

\* and so may what has been read, on its way to the home of c and in the buffer there,
FoundAllowed ==
  \A c \in Conns : Reading(c) /\ thecmd[c].status # "PENDING" =>
    \A p \in DOMAIN allowed[c] :
      /\ "data" \notin thecmd[c].work[RankOf(p)] =>
           thecmd[c].buffer[Slot(thecmd[c].cmd, p)] \in allowed[c][p]
      /\ RankOf(p) # Home[c] /\ data[RankOf(p)][Home[c]][Sock[c]] # << >> =>
           Head(data[RankOf(p)][Home[c]][Sock[c]])[Before(thecmd[c].cmd, p)] \in allowed[c][p]

\* and in the answer; after which c has nothing more to write there.
AnswerAllowed ==
  \A c \in Conns : down[c] # << >> => \A p \in DOMAIN allowed[c] :
    /\ down[c][1][p] \in allowed[c][p]
    /\ RankOf(p) # Home[c] => Sent(c, RankOf(p)) = << >>

RInv ==
  /\ Inv /\ HistoryTypes /\ Conversation /\ BuffersOK /\ UnstoredOK
  /\ ReadIsLast /\ MemoryAllowed /\ FoundAllowed /\ AnswerAllowed

LEMMA InitRInv == RequestsAreServed /\ Init => RInv
<1> SUFFICES ASSUME RequestsAreServed, Init PROVE RInv
  OBVIOUS
<1>1. Inv
  BY InitInv
<1>2. \A c \in Conns :
        /\ handler[c] = "none" /\ up[c] = << >> /\ down[c] = << >>
        /\ unstored[c] = {} /\ allowed[c] = << >> /\ DOMAIN allowed[c] = {}
        /\ ~Reading(c) /\ ~Writing(c)
  BY DEF Init, Reading, Writing, Held
<1>3. \A c \in Conns : \A r \in Nodes : Sent(c, r) = << >>
  BY Basics DEF Init, Sent
<1>4. HistoryTypes
  BY <1>2 DEF Init, HistoryTypes
<1>5. Conversation
  BY <1>2 DEF Conversation
<1>6. BuffersOK
  BY <1>2, <1>3 DEF BuffersOK
<1>7. UnstoredOK /\ MemoryAllowed
  BY <1>2 DEF UnstoredOK, MemoryAllowed
<1>8. ReadIsLast /\ FoundAllowed /\ AnswerAllowed
  BY <1>2 DEF ReadIsLast, FoundAllowed, AnswerAllowed
<1> QED BY <1>1, <1>4, <1>5, <1>6, <1>7, <1>8 DEF RInv

-------------------------------------------------------------------------------
(* What a step that stores a part does to the memory and to what is remembered *)

\* Node r stores its part of the write q of connection c.
Stores(c, q, r, piece) ==
  /\ InFile(q)
  /\ \A p \in Here(q, r) :
       Before(q, p) \in DOMAIN piece /\ piece[Before(q, p)].at = p /\ piece[Before(q, p)].from = c
  /\ memory' = [memory EXCEPT ![r] = WriteHere(q, @, r, piece)]
  /\ Stored(q, r)

LEMMA StoresEffect ==
  ASSUME Inv, HistoryTypes, NEW c \in Conns, NEW r \in Nodes, NEW q, NEW piece,
         Stores(c, q, r, piece)
  PROVE  /\ \A p \in Positions :
              /\ p \in Here(q, r) => memory'[RankOf(p)][PlaceInBuffer(p)] = piece[Before(q, p)]
              /\ p \notin Here(q, r)
                   => memory'[RankOf(p)][PlaceInBuffer(p)] = memory[RankOf(p)][PlaceInBuffer(p)]
         /\ DOMAIN unstored' = Conns /\ DOMAIN allowed' = Conns
         /\ \A d \in Conns :
              /\ unstored'[d] = unstored[d] \ {piece[Before(q, p)] : p \in Here(q, r)}
              /\ DOMAIN allowed'[d] = DOMAIN allowed[d]
              /\ \A p \in DOMAIN allowed[d] :
                   /\ p \notin Here(q, r) => allowed'[d][p] = allowed[d][p]
                   /\ p \in Here(q, r) => piece[Before(q, p)] \in allowed'[d][p]
                   /\ d # c => allowed[d][p] \subseteq allowed'[d][p]
<1>1. InFile(q) /\ DOMAIN memory = Nodes /\ InPlace(r, memory[r])
  BY DEF Stores, Inv, MemoryInPlace
<1>2. memory'[r] = WriteHere(q, memory[r], r, piece) /\ \A i \in Nodes \ {r} : memory'[i] = memory[i]
  BY <1>1 DEF Stores
<1>3. \A p \in Positions : RankOf(p) = r =>
        /\ p \in Here(q, r) => memory'[r][PlaceInBuffer(p)] = piece[Before(q, p)]
        /\ p \notin Here(q, r) => memory'[r][PlaceInBuffer(p)] = memory[r][PlaceInBuffer(p)]
  BY <1>1, <1>2, StoredBytes DEF Stores
<1>4. \A p \in Here(q, r) : p \in Positions /\ RankOf(p) = r
  BY <1>1, HereIsFinite DEF Here
<1>5. \A p \in Positions : RankOf(p) \in Nodes
  BY DfcAssumption, PlaceTells DEF Positions
<1>6. \A p \in Positions :
        /\ p \in Here(q, r) => memory'[RankOf(p)][PlaceInBuffer(p)] = piece[Before(q, p)]
        /\ p \notin Here(q, r)
             => memory'[RankOf(p)][PlaceInBuffer(p)] = memory[RankOf(p)][PlaceInBuffer(p)]
  BY <1>2, <1>3, <1>4, <1>5
<1> DEFINE stored == [p \in Here(q, r) |-> memory'[r][PlaceInBuffer(p)]]
<1>7. \A p \in Here(q, r) : stored[p] = piece[Before(q, p)] /\ stored[p].from = c
  BY <1>3, <1>4 DEF Stores
<1>8. /\ unstored' = [d \in Conns |-> unstored[d] \ {stored[p] : p \in Here(q, r)}]
      /\ allowed' = [d \in Conns |-> [p \in DOMAIN allowed[d] |->
           CASE p \notin Here(q, r) -> allowed[d][p]
             [] p \in Here(q, r) /\ stored[p].from = d -> {stored[p]}
             [] OTHER -> allowed[d][p] \cup {stored[p]}]]
  BY DEF Stores, Stored
<1> HIDE DEF stored
<1>9. {stored[p] : p \in Here(q, r)} = {piece[Before(q, p)] : p \in Here(q, r)}
  BY <1>7
<1>10. ASSUME NEW d \in Conns
       PROVE  /\ unstored'[d] = unstored[d] \ {piece[Before(q, p)] : p \in Here(q, r)}
              /\ DOMAIN allowed'[d] = DOMAIN allowed[d]
              /\ \A p \in DOMAIN allowed[d] :
                   /\ p \notin Here(q, r) => allowed'[d][p] = allowed[d][p]
                   /\ p \in Here(q, r) => piece[Before(q, p)] \in allowed'[d][p]
                   /\ d # c => allowed[d][p] \subseteq allowed'[d][p]
  <2>1. unstored'[d] = unstored[d] \ {piece[Before(q, p)] : p \in Here(q, r)}
    BY <1>8, <1>9
  <2>2. allowed'[d] = [p \in DOMAIN allowed[d] |->
           CASE p \notin Here(q, r) -> allowed[d][p]
             [] p \in Here(q, r) /\ stored[p].from = d -> {stored[p]}
             [] OTHER -> allowed[d][p] \cup {stored[p]}]
    BY <1>8
  <2>3. ASSUME NEW p \in DOMAIN allowed[d]
        PROVE  /\ p \notin Here(q, r) => allowed'[d][p] = allowed[d][p]
               /\ p \in Here(q, r) => piece[Before(q, p)] \in allowed'[d][p]
               /\ d # c => allowed[d][p] \subseteq allowed'[d][p]
    <3>1. CASE p \notin Here(q, r)
      BY <2>2, <3>1
    <3>2. CASE p \in Here(q, r) /\ d = c
      BY <2>2, <3>2, <1>7
    <3>3. CASE p \in Here(q, r) /\ d # c
      BY <2>2, <3>3, <1>7
    <3> QED BY <3>1, <3>2, <3>3
  <2>4. DOMAIN allowed'[d] = DOMAIN allowed[d]
    BY <2>2
  <2> QED BY <2>1, <2>3, <2>4
<1>11. DOMAIN unstored' = Conns /\ DOMAIN allowed' = Conns
  BY <1>8
<1> QED BY <1>6, <1>10, <1>11

\* A node that starts a write stores its part of the buffer.
LEMMA StartStores ==
  ASSUME Inv, BuffersOK, NEW c \in Conns, Start(c), thecmd[c].cmd.command = "WRITE"
  PROVE  /\ Stores(c, thecmd[c].cmd, Home[c], thecmd[c].buffer)
         /\ \A p \in Here(thecmd[c].cmd, Home[c]) :
              Before(thecmd[c].cmd, p) = Slot(thecmd[c].cmd, p)
         /\ Writing(c) /\ InFile(thecmd[c].cmd)
<1> DEFINE q == thecmd[c].cmd
           buffer == thecmd[c].buffer
           n == Home[c]
<1>1. /\ handler[c] = "posted" /\ Writing(c) /\ n \in Nodes
      /\ memory' = [memory EXCEPT ![n] = WriteHere(q, @, n, buffer)] /\ Stored(q, n)
  BY Basics DEF Start, Writing
<1>2. InFile(q) /\ OwnPartFirst(q, n)
  BY <1>1, PostedFacts DEF Good, Held
<1>3. IsPart(q, n, Piece(q, buffer, n)) /\ DOMAIN buffer = 0 .. q.length - 1
  BY <1>1 DEF Inv, HandlersOK, HandlerOK, Writing
<1>4. \A p \in Covered(q) : buffer[Slot(q, p)].from = c
  BY <1>1 DEF BuffersOK
<1> HIDE DEF q, buffer, n
<1>5. ASSUME NEW p \in Here(q, n)
      PROVE  /\ Before(q, p) = Slot(q, p)
             /\ Before(q, p) \in DOMAIN buffer
             /\ buffer[Before(q, p)].at = p /\ buffer[Before(q, p)].from = c
  <2>1. p \in Covered(q) /\ RankOf(p) = n
    BY DEF Here
  <2>2. ReqOffset(q, n) = 0
    BY <1>2, <1>5 DEF OwnPartFirst
  <2>3. Before(q, p) \in 0 .. ReqSize(q, n) - 1
    BY <1>1, <1>2, Numbering
  <2>4. ReqSize(q, n) \in Nat
    BY <1>1, <1>2, HereIsFinite
  <2>5. Before(q, p) = Slot(q, p)
    <3>1. Before(q, p) \in Int
      BY <2>3, <2>4
    <3> QED BY <2>1, <2>2, <3>1 DEF Slot
  <2>6. Piece(q, buffer, n)[Before(q, p)] = buffer[ReqOffset(q, n) + Before(q, p)]
    BY <2>3 DEF Piece
  <2>7. Piece(q, buffer, n)[Before(q, p)] = buffer[Before(q, p)]
    BY <2>1, <2>5, <2>6 DEF Slot
  <2>8. buffer[Before(q, p)].at = p
    BY <1>3, <2>7 DEF IsPart
  <2>9. Before(q, p) \in DOMAIN buffer
    BY <1>2, <1>3, <2>1, <2>5, SlotTells
  <2> QED BY <1>4, <2>1, <2>5, <2>8, <2>9
<1>6. Stores(c, q, n, buffer)
  BY <1>1, <1>2, <1>5 DEF Stores
<1> QED BY <1>1, <1>2, <1>5, <1>6 DEF q, buffer, n

\* A node that serves a write stores the part that has come first.
LEMMA ServeStores ==
  ASSUME Inv, BuffersOK, NEW n \in Nodes, StoreData(n)
  PROVE  \E c \in Conns :
           /\ Home[c] # n /\ Sent(c, n) # << >>
           /\ Stores(c, server[n].cmd, n, Head(Sent(c, n)))
           /\ IsPart(server[n].cmd, n, Head(Sent(c, n))) /\ InFile(server[n].cmd)
           /\ cmds' = cmds /\ SameChannels
           /\ \A x, y \in Nodes : \A t \in Tags : data'[x][y][t] =
                IF x = Home[c] /\ y = n /\ t = Sock[c] THEN Tail(data[x][y][t]) ELSE data[x][y][t]
<1>0. server[n].status = "receive"
  BY DEF StoreData, DataCame
<1>1. PICK c \in Conns :
        /\ Home[c] # n /\ Good(c, server[n].cmd)
        /\ server[n].cmd.srcrank = Home[c] /\ server[n].cmd.sock_tag = Sock[c]
        /\ server[n].cmd.command = "WRITE" /\ InFile(server[n].cmd)
        /\ Serving(n) = server[n].cmd
  BY <1>0, ServedFacts
<1> DEFINE q == server[n].cmd
           d == Sent(c, n)
           cs == cmds[Home[c]][n]
<1>2. /\ d # << >> /\ memory' = [memory EXCEPT ![n] = WriteHere(q, @, n, Head(d))]
      /\ Stored(q, n)
  BY <1>1 DEF StoreData, DataCame, Sent
<1>3. IsSequence(d) /\ IsSequence(cs) /\ Matched(n, Sock[c], d, cs, q)
  BY <1>1, Between DEF Sent
<1>4. IsWrite(Sock[c], q) /\ InFile(q)
  BY <1>1 DEF IsWrite
<1>5. \A k \in 1 .. Len(d) : \A i \in DOMAIN d[k] : d[k][i].from = c
  BY <1>1 DEF BuffersOK
<1>6. /\ cmds' = cmds /\ SameChannels
      /\ \A x, y \in Nodes : \A t \in Tags : data'[x][y][t] =
           IF x = Home[c] /\ y = n /\ t = Sock[c] THEN Tail(data[x][y][t]) ELSE data[x][y][t]
  BY <1>1, StoreEffect
<1> HIDE DEF q, d, cs
<1>7. IsPart(q, n, Head(d))
  <2>1. PICK f : MatchedBy(n, Sock[c], d, cs, q, f)
    BY <1>3 DEF Matched
  <2> QED BY <1>2, <1>3, <1>4, <2>1, MatchFirst
<1>8. ASSUME NEW p \in Here(q, n)
      PROVE  /\ Before(q, p) \in DOMAIN Head(d)
             /\ Head(d)[Before(q, p)].at = p /\ Head(d)[Before(q, p)].from = c
  <2>1. Before(q, p) \in 0 .. ReqSize(q, n) - 1 /\ ReqSize(q, n) = Cardinality(Here(q, n))
    BY <1>4, Numbering, HereIsFinite
  <2>2. Before(q, p) \in DOMAIN Head(d)
    BY <1>7, <2>1 DEF IsPart
  <2>3. Head(d) = d[1] /\ 1 \in 1 .. Len(d)
    BY <1>2, <1>3, HeadAndTail
  <2> QED BY <1>5, <1>7, <2>2, <2>3 DEF IsPart
<1>9. Stores(c, q, n, Head(d))
  BY <1>2, <1>4, <1>8 DEF Stores
<1> QED BY <1>1, <1>2, <1>4, <1>6, <1>7, <1>9 DEF q, d

-------------------------------------------------------------------------------
(* Every step keeps what is said of reads *)

\* The messages of a channel when one is added, and when the first is taken
LEMMA AddedLast ==
  ASSUME NEW s, IsSequence(s), NEW x, NEW k \in 1 .. Len(Append(s, x))
  PROVE  (k \in 1 .. Len(s) /\ Append(s, x)[k] = s[k]) \/ Append(s, x)[k] = x
<1> DEFINE t == Append(s, x)
           n == Len(s)
<1>1. /\ n \in Nat /\ Len(t) = n + 1 /\ k \in 1 .. Len(t)
      /\ \A j \in 1 .. n : t[j] = s[j]
      /\ t[n + 1] = x
  BY Appended
<1> HIDE DEF t, n
<1>2. k \in 1 .. n \/ k = n + 1
  BY <1>1
<1>3. (k \in 1 .. n /\ t[k] = s[k]) \/ t[k] = x
  BY <1>1, <1>2
<1> QED BY <1>3 DEF t, n

LEMMA TakenFirst ==
  ASSUME NEW s, IsSequence(s), s # << >>, NEW k \in 1 .. Len(Tail(s))
  PROVE  k + 1 \in 1 .. Len(s) /\ Tail(s)[k] = s[k + 1]
<1> DEFINE t == Tail(s)
           n == Len(s)
<1>1. /\ n \in Nat \ {0} /\ Len(t) = n - 1 /\ k \in 1 .. Len(t)
      /\ \A j \in 1 .. n - 1 : t[j] = s[j + 1]
  BY HeadAndTail
<1> HIDE DEF t, n
<1>2. k \in 1 .. n - 1 /\ k + 1 \in 1 .. n
  BY <1>1
<1>3. t[k] = s[k + 1]
  BY <1>1, <1>2
<1> QED BY <1>2, <1>3 DEF t, n

\* What the steps change of what the handlers have in hand
LEMMA ClientKeepsHands ==
  ASSUME TypeOK, NEW c \in Conns, ClientStep(c), NEW d \in Conns
  PROVE  /\ Reading(d)' <=> Reading(d)
         /\ Writing(d)' <=> Writing(d)
         /\ Held(d)' <=> Held(d)
         /\ thecmd' = thecmd /\ data' = data /\ cmds' = cmds /\ memory' = memory
         /\ unstored' = unstored
<1>1. thecmd' = thecmd /\ data' = data /\ cmds' = cmds /\ memory' = memory
  BY ClientFrame DEF nodes, network
<1>2. (handler'[d] = "posted" <=> handler[d] = "posted") /\ (Held(d)' <=> Held(d))
  BY ClientFrame, HandlerTypes DEF Held
<1>3. unstored' = unstored
  BY DEF ClientStep, Open, Command, Close, Answered, history
<1> QED BY <1>1, <1>2, <1>3 DEF Reading, Writing

LEMMA HandlerKeepsHands ==
  ASSUME TypeOK, NEW c \in Conns, HandlerStep(c), NEW d \in Conns \ {c}
  PROVE  /\ Reading(d)' <=> Reading(d)
         /\ Writing(d)' <=> Writing(d)
         /\ thecmd'[d] = thecmd[d] /\ up'[d] = up[d] /\ down'[d] = down[d]
         /\ handler'[d] = handler[d]
         /\ unstored'[d] = unstored[d] /\ allowed'[d] = allowed[d]
<1> DEFINE Kept == /\ thecmd'[d] = thecmd[d] /\ up'[d] = up[d] /\ down'[d] = down[d]
                   /\ handler'[d] = handler[d]
                   /\ unstored'[d] = unstored[d] /\ allowed'[d] = allowed[d]
<1>1. ASSUME TakeOpen(c) PROVE Kept
  BY <1>1 DEF TakeOpen, Loop, history
<1>2. ASSUME TakeStat(c) PROVE Kept
  BY <1>2 DEF TakeStat, Loop, history
<1>3. ASSUME Post(c) PROVE Kept
  BY <1>3 DEF Post
<1>4. ASSUME TakeOut(c) PROVE Kept
  BY <1>4 DEF TakeOut, history
<1>7. ASSUME NEW close, GoesOn(c, close)
      PROVE  thecmd'[d] = thecmd[d] /\ up'[d] = up[d] /\ handler'[d] = handler[d]
  BY <1>7 DEF GoesOn, Loop
<1>8. ASSUME Answer(c) PROVE Kept
  <2>1. down'[d] = down[d] /\ unstored'[d] = unstored[d] /\ allowed'[d] = allowed[d]
    BY <1>8 DEF Answer, history
  <2>2. GoesOn(c, thecmd[c].cmd.command = "KILL")
          \/ (handler' = [handler EXCEPT ![c] = "lengthen"] /\ UNCHANGED << thecmd, up >>)
    BY <1>8 DEF Answer
  <2>3. CASE handler' = [handler EXCEPT ![c] = "lengthen"] /\ UNCHANGED << thecmd, up >>
    BY <2>1, <2>3
  <2> QED BY <1>7, <2>1, <2>2, <2>3
<1>9. ASSUME Lengthen(c) PROVE Kept
  <2>1. down' = down /\ unstored' = unstored /\ allowed' = allowed /\ GoesOn(c, FALSE)
    BY <1>9 DEF Lengthen, history
  <2> QED BY <1>7, <2>1
<1>5. ASSUME Dies(c) PROVE Kept
  BY <1>5 DEF Dies, Loop, history
<1>6. Kept
  <2> HIDE DEF Kept
  <2> QED BY <1>1, <1>2, <1>3, <1>4, <1>5, <1>8, <1>9 DEF HandlerStep
<1> QED BY <1>6 DEF Reading, Writing, Held

\* A command that is taken out of the list stays in the hand of its handler,
LEMMA TakeOutKeeps ==
  ASSUME TypeOK, NEW c \in Conns, TakeOut(c)
  PROVE  /\ UNCHANGED << client, up, down, thecmd, memory, data, cmds, unstored, allowed >>
         /\ \A d \in Conns :
              /\ Held(d)' <=> Held(d)
              /\ Reading(d)' <=> Reading(d)
              /\ Writing(d)' <=> Writing(d)
              /\ handler'[d] = "none" => handler[d] = "none"
         /\ handler[c] = "posted" /\ thecmd[c].status = "COMPLETE"
<1>1. /\ UNCHANGED << client, up, down, thecmd, memory, data, cmds, unstored, allowed >>
      /\ handler[c] = "posted" /\ handler'[c] = "answer" /\ thecmd[c].status = "COMPLETE"
      /\ \A d \in Conns \ {c} : handler'[d] = handler[d]
  BY HandlerTypes DEF TakeOut, nodes, network, history
<1>2. ASSUME NEW d \in Conns
      PROVE  /\ Held(d)' <=> Held(d)
             /\ Writing(d)' <=> Writing(d)
             /\ handler'[d] = "none" => handler[d] = "none"
  <2>1. CASE d = c
    BY <1>1, <2>1 DEF Held, Writing
  <2>2. CASE d # c
    <3>1. handler'[d] = handler[d] /\ thecmd'[d] = thecmd[d]
      BY <1>1, <2>2
    <3> QED BY <3>1 DEF Held, Writing
  <2> QED BY <2>1, <2>2
<1>3. \A d \in Conns : Reading(d)' <=> Reading(d)
  BY <1>1, <1>2 DEF Reading
<1> QED BY <1>1, <1>2, <1>3

\* and after any other step but Post a handler has nothing in hand; before, only the one that
\* answers has.
LEMMA LetsGo ==
  ASSUME TypeOK, NEW c \in Conns,
         TakeOpen(c) \/ TakeStat(c) \/ Dies(c) \/ Answer(c) \/ Lengthen(c)
  PROVE  /\ ~Held(c)' /\ ~Reading(c)' /\ ~Writing(c)' /\ ~Writing(c)
         /\ Answer(c) \/ (~Held(c) /\ ~Reading(c))
         /\ UNCHANGED << allowed, unstored >>
<1>1. ~Held(c)'
  BY HandlerTypes DEF TakeOpen, TakeStat, Dies, Answer, Lengthen, GoesOn, Loop, Held
<1>2. handler[c] # "posted"
  BY DEF TakeOpen, TakeStat, Dies, Answer, Lengthen, Takes
<1>3. Answer(c) \/ ~Held(c)
  BY DEF TakeOpen, TakeStat, Dies, Lengthen, Takes, Held
<1>4. UNCHANGED << allowed, unstored >>
  BY DEF TakeOpen, TakeStat, Dies, Answer, Lengthen, history
<1>5. handler'[c] # "posted"
  BY <1>1 DEF Held
<1> QED BY <1>1, <1>2, <1>3, <1>4, <1>5 DEF Reading, Writing

LEMMA NodeKeepsHands ==
  ASSUME TypeOK, NEW n \in Nodes, NodeStep(n), NEW d \in Conns
  PROVE  /\ Reading(d)' <=> Reading(d)
         /\ thecmd'[d].cmd = thecmd[d].cmd
         /\ handler' = handler /\ client' = client /\ up' = up /\ down' = down
<1>1. handler' = handler /\ client' = client /\ up' = up /\ down' = down
  BY NodeFrame DEF sockets
<1>2. thecmd'[d].cmd = thecmd[d].cmd
  <2>1. ASSUME NEW c \in Conns, Start(c)
        PROVE  thecmd'[d].cmd = thecmd[d].cmd
    BY <2>1 DEF Start, TypeOK
  <2>2. ASSUME NEW c \in Conns, NEW over, Progress(c, over)
        PROVE  thecmd'[d].cmd = thecmd[d].cmd
    BY <2>2 DEF Progress, TypeOK
  <2>3. ASSUME (\E src \in Nodes : TakeCommand(n, src)) \/ StoreData(n) \/ ReplySent(n) \/ Leave(n)
        PROVE  thecmd' = thecmd
    BY <2>3 DEF TakeCommand, StoreData, ReplySent, Leave, handlers
  <2> QED BY <2>1, <2>2, <2>3 DEF NodeStep
<1> QED BY <1>1, <1>2 DEF Reading, Held

\* What a node may do: begin or go on with a command of its own, serve one of another, or
\* nothing that matters here.
LEMMA NodeCases ==
  ASSUME NEW n \in Nodes, NodeStep(n)
  PROVE  \/ \E c \in Conns : Home[c] = n /\ Start(c)
         \/ \E c \in Conns : Home[c] = n /\ \E over : Progress(c, over)
         \/ \E src \in Nodes : TakeCommand(n, src)
         \/ StoreData(n)
         \/ UNCHANGED << thecmd, network, memory, history >>
BY DEF NodeStep, ReplySent, Leave, handlers

\* What is stored by whatever node step: a part of a write, or nothing.
LEMMA NodeStores ==
  ASSUME Inv, BuffersOK, NEW n \in Nodes, NodeStep(n)
  PROVE  \/ UNCHANGED << memory, unstored, allowed >>
         \/ \E c \in Conns : \E r \in Nodes : \E q, piece : Stores(c, q, r, piece)
<1>1. ASSUME NEW c \in Conns, Start(c), thecmd[c].cmd.command # "WRITE"
      PROVE  UNCHANGED << memory, unstored, allowed >>
  BY <1>1 DEF Start, history
<1>2. ASSUME NEW c \in Conns, Start(c), thecmd[c].cmd.command = "WRITE"
      PROVE  \E r \in Nodes : \E q, piece : Stores(c, q, r, piece)
  BY <1>2, StartStores, Basics
<1>3. ASSUME NEW c \in Conns, NEW over, Progress(c, over)
      PROVE  UNCHANGED << memory, unstored, allowed >>
  BY <1>3 DEF Progress, nodes, history
<1>4. ASSUME NEW src \in Nodes, TakeCommand(n, src)
      PROVE  UNCHANGED << memory, unstored, allowed >>
  BY <1>4 DEF TakeCommand, history
<1>5. ASSUME StoreData(n)
      PROVE  \E c \in Conns : \E r \in Nodes : \E q, piece : Stores(c, q, r, piece)
  BY <1>5, ServeStores
<1> QED BY <1>1, <1>2, <1>3, <1>4, <1>5, NodeCases DEF history

\* What is remembered is about the command in hand.
LEMMA HistoryTypesStep == RInv /\ [Next]_vars => HistoryTypes'
<1> SUFFICES ASSUME RInv, [Next]_vars PROVE HistoryTypes'
  OBVIOUS
<1> USE DEF RInv
<1>0. TypeOK
  BY DEF Inv
<1> DEFINE Remembered(d) ==
             /\ DOMAIN allowed[d] \subseteq Positions
             /\ Reading(d) => DOMAIN allowed[d] = Covered(thecmd[d].cmd)
             /\ ~Reading(d) /\ down[d] = << >> => DOMAIN allowed[d] = {}
<1>1. DOMAIN down = Conns /\ DOMAIN unstored = Conns /\ DOMAIN allowed = Conns
      /\ \A d \in Conns : Remembered(d)
  BY DEF HistoryTypes
<1>2. ASSUME NEW d \in Conns, Reading(d)' <=> Reading(d), thecmd'[d].cmd = thecmd[d].cmd,
             down'[d] = down[d], DOMAIN allowed'[d] = DOMAIN allowed[d]
      PROVE  Remembered(d)'
  BY <1>1, <1>2
<1>3. ASSUME DOMAIN down' = Conns, DOMAIN unstored' = Conns, DOMAIN allowed' = Conns,
             \A d \in Conns : Remembered(d)'
      PROVE  HistoryTypes'
  BY <1>3 DEF HistoryTypes
<1>4. ASSUME NEW c \in Conns, ClientStep(c) PROVE HistoryTypes'
  <2>1. ASSUME NEW d \in Conns
        PROVE  (Reading(d)' <=> Reading(d)) /\ thecmd'[d].cmd = thecmd[d].cmd /\ unstored' = unstored
    BY <1>0, <1>4, ClientKeepsHands
  <2>2. CASE ~Answered(c)
    <3>1. down' = down /\ allowed' = allowed
      BY <1>4, <2>2 DEF ClientStep, Open, Command, Close, history
    <3> QED BY <1>1, <1>2, <1>3, <2>1, <3>1
  <2>3. CASE Answered(c)
    <3>1. /\ down' = [down EXCEPT ![c] = << >>] /\ allowed' = [allowed EXCEPT ![c] = << >>]
          /\ down[c] # << >> \/ handler[c] = "none"
      BY <2>3 DEF Answered
    <3>2. ~Reading(c)
      BY <3>1 DEF Conversation, Reading, Held
    <3>3. Remembered(c)'
      BY <1>1, <2>1, <3>1, <3>2
    <3>4. ASSUME NEW d \in Conns \ {c} PROVE Remembered(d)'
      BY <1>1, <1>2, <2>1, <3>1
    <3>5. unstored' = unstored
      BY <2>3 DEF Answered
    <3> QED BY <1>1, <1>3, <3>1, <3>3, <3>4, <3>5
  <2> QED BY <2>2, <2>3
<1>5. ASSUME NEW c \in Conns, HandlerStep(c) PROVE HistoryTypes'
  <2>1. DOMAIN down' = Conns /\ DOMAIN unstored' = Conns /\ DOMAIN allowed' = Conns
    BY <1>1, <1>5
       DEF HandlerStep, TakeOpen, TakeStat, Post, TakeOut, Answer, Lengthen, Dies, history
  <2>2. ASSUME NEW d \in Conns \ {c} PROVE Remembered(d)'
    BY <1>0, <1>2, <1>5, HandlerKeepsHands
  <2>3. Remembered(c)'
    <3>1. CASE TakeOpen(c) \/ TakeStat(c) \/ Dies(c) \/ Lengthen(c)
      <4>0. ~Answer(c)
        BY <3>1 DEF TakeOpen, TakeStat, Dies, Lengthen, Answer, Takes
      <4>1. ~Reading(c) /\ ~Reading(c)' /\ allowed' = allowed
        BY <1>0, <3>1, <4>0, LetsGo
      <4>2. down'[c] = down[c] \/ down'[c] # << >>
        <5>1. CASE TakeOpen(c) \/ Dies(c) \/ Lengthen(c)
          BY <5>1 DEF TakeOpen, Dies, Lengthen
        <5>2. CASE TakeStat(c)
          <6>1. down'[c] = << [size |-> file_size[Home[c]]] >>
            BY <1>1, <5>2 DEF TakeStat
          <6> QED BY <6>1
        <5> QED BY <3>1, <5>1, <5>2
      <4> QED BY <1>1, <4>1, <4>2
    <3>2. CASE Post(c)
      <4> DEFINE q == CommandOf(c, Head(up[c]))
      <4>1. ~Reading(c) /\ up[c] # << >> /\ Head(up[c]).command \in ToList /\ down' = down
        BY <3>2 DEF Post, Takes, Reading, Held
      <4>2. thecmd'[c].cmd = q /\ handler'[c] = "posted"
        BY <1>0, <3>2 DEF Post, TypeOK
      <4>3. CASE q.command = "READ"
        <5>1. DOMAIN allowed'[c] = Covered(q)
          BY <1>1, <3>2, <4>3 DEF Post
        <5>2. InFile(q)
          BY <1>0, <4>1, <4>3, HeadIsGood DEF Inv, Good
        <5>3. Covered(q) \subseteq Positions
          BY <5>2, DfcAssumption DEF InFile, Covered, Positions
        <5>4. Reading(c)'
          BY <4>2, <4>3 DEF Reading, Held
        <5> QED BY <4>2, <5>1, <5>3, <5>4
      <4>4. CASE q.command # "READ"
        <5>1. allowed'[c] = allowed[c]
          BY <1>1, <3>2, <4>4 DEF Post
        <5>2. ~Reading(c)'
          BY <4>2, <4>4 DEF Reading
        <5> QED BY <1>1, <4>1, <5>1, <5>2
      <4> QED BY <4>3, <4>4
    <3>3. CASE Answer(c)
      <4>1. ~Reading(c)' /\ allowed' = allowed
        BY <1>0, <3>3, LetsGo
      <4>2. IF Reading(c) THEN down'[c] # << >> ELSE down'[c] = down[c]
        BY <1>1, <3>3 DEF Answer, Reading, Held
      <4> QED BY <1>1, <4>1, <4>2
    <3>4. CASE TakeOut(c)
      <4>1. /\ Reading(c)' <=> Reading(c)
            /\ UNCHANGED << down, thecmd, allowed >>
        BY <1>0, <3>4, TakeOutKeeps
      <4> QED BY <1>2, <4>1
    <3> QED BY <1>5, <3>1, <3>2, <3>3, <3>4 DEF HandlerStep
  <2> QED BY <1>3, <2>1, <2>2, <2>3
<1>6. ASSUME NEW n \in Nodes, NodeStep(n) PROVE HistoryTypes'
  <2>1. /\ DOMAIN allowed' = Conns /\ DOMAIN unstored' = Conns
        /\ \A d \in Conns : DOMAIN allowed'[d] = DOMAIN allowed[d]
    <3>1. CASE UNCHANGED << memory, unstored, allowed >>
      BY <1>1, <3>1
    <3>2. ASSUME NEW c \in Conns, NEW r \in Nodes, NEW q, NEW piece, Stores(c, q, r, piece)
          PROVE  /\ DOMAIN allowed' = Conns /\ DOMAIN unstored' = Conns
                 /\ \A d \in Conns : DOMAIN allowed'[d] = DOMAIN allowed[d]
      BY <3>2, StoresEffect
    <3> QED BY <1>6, <3>1, <3>2, NodeStores
  <2>2. ASSUME NEW d \in Conns PROVE Remembered(d)'
    BY <1>0, <1>2, <1>6, <2>1, NodeKeepsHands
  <2>3. down' = down
    BY <1>6, NodeFrame DEF sockets
  <2> QED BY <1>1, <1>3, <2>1, <2>2, <2>3
<1>7. CASE UNCHANGED vars
  <2>1. \A d \in Conns : Reading(d)' <=> Reading(d)
    BY <1>7 DEF vars, handlers, Reading, Held
  <2> QED BY <1>1, <1>2, <1>3, <1>7, <2>1 DEF vars, handlers, sockets, history
<1> QED BY <1>4, <1>5, <1>6, <1>7, NextCases

\* What is left on a socket when something has been taken from it
LEMMA LeftOver ==
  ASSUME NEW u \in Seq(Calls), u # << >>, NEW v, v = Tail(u) \/ v = << >>, NEW state,
         \A k \in 1 .. Len(u) : u[k].command \in {"READ", "STAT"} => k = Len(u) /\ state = "waiting"
  PROVE  /\ \A k \in 1 .. Len(v) : v[k].command \in {"READ", "STAT"}
              => k = Len(v) /\ state = "waiting"
         /\ Head(u).command \in {"READ", "STAT"} => v = << >> /\ state = "waiting"
<1> DEFINE n == Len(u)
           t == Tail(u)
<1>1. /\ n \in Nat \ {0} /\ Len(t) = n - 1 /\ t \in Seq(Calls)
      /\ Head(u) = u[1] /\ \A k \in 1 .. n - 1 : t[k] = u[k + 1]
  BY HeadTailProperties
<1>2. \A k \in 1 .. n : u[k].command \in {"READ", "STAT"} => k = n /\ state = "waiting"
  OBVIOUS
<1>3. t \in Seq(Calls) /\ Len(t) = 0 => t = << >>
  BY EmptySeq
<1>4. v = t \/ v = << >>
  OBVIOUS
<1> HIDE DEF n, t
<1>5. ASSUME v = t, NEW k \in 1 .. Len(v), v[k].command \in {"READ", "STAT"}
      PROVE  k = Len(v) /\ state = "waiting"
  <2>1. k \in 1 .. n - 1
    BY <1>1, <1>5
  <2>2. k + 1 \in 1 .. n /\ u[k + 1].command \in {"READ", "STAT"}
    BY <1>1, <1>5, <2>1
  <2>3. k + 1 = n /\ state = "waiting"
    BY <1>2, <2>2
  <2>4. k = n - 1
    BY <1>1, <2>1, <2>3
  <2> QED BY <1>1, <1>5, <2>3, <2>4
<1>6. ASSUME Head(u).command \in {"READ", "STAT"}
      PROVE  n = 1 /\ state = "waiting"
  <2>1. 1 \in 1 .. n /\ u[1].command \in {"READ", "STAT"}
    BY <1>1, <1>6
  <2> QED BY <1>2, <2>1
<1>7. n = 1 => t = << >>
  BY <1>1, <1>3
<1> QED BY <1>4, <1>5, <1>6, <1>7

\* An application waits for an answer with nothing else on its socket.
LEMMA ConversationStep == RInv /\ [Next]_vars => Conversation'
<1> SUFFICES ASSUME RInv, [Next]_vars PROVE Conversation'
  OBVIOUS
<1> USE DEF RInv
<1>0. TypeOK
  BY DEF Inv
<1> DEFINE Talk(d) ==
             /\ handler[d] = "none" => up[d] = << >>
             /\ \A k \in 1 .. Len(up[d]) : up[d][k].command \in {"READ", "STAT"}
                  => k = Len(up[d]) /\ client[d] = "waiting"
             /\ Reading(d) => client[d] = "waiting" /\ up[d] = << >> /\ down[d] = << >>
             /\ down[d] # << >> => client[d] = "waiting" /\ up[d] = << >> /\ ~Held(d)
<1>1. \A d \in Conns : Talk(d)
  BY DEF Conversation
<1>2. ASSUME NEW d \in Conns, Reading(d)' <=> Reading(d), Held(d)' <=> Held(d),
             handler'[d] = "none" => handler[d] = "none", client'[d] = client[d], up'[d] = up[d], down'[d] = down[d]
      PROVE  Talk(d)'
  BY <1>1, <1>2
<1>3. ASSUME \A d \in Conns : Talk(d)'
      PROVE  Conversation'
  BY <1>3 DEF Conversation
<1>4. /\ DOMAIN down = Conns /\ DOMAIN client = Conns /\ DOMAIN up = Conns
      /\ DOMAIN handler = Conns /\ \A d \in Conns : up[d] \in Seq(Calls)
  BY <1>0 DEF TypeOK, HistoryTypes
\* The application sends something.
<1>5. ASSUME NEW c \in Conns, NEW m \in Calls, NEW state, client[c] # "waiting",
             up' = [up EXCEPT ![c] = Append(@, m)], client' = [client EXCEPT ![c] = state],
             m.command \in {"READ", "STAT"} => state = "waiting",
             ~Reading(c)', handler'[c] # "none", down' = down
      PROVE  Talk(c)'
  <2> DEFINE u == up[c]
             v == up'[c]
  <2>1. v = Append(u, m) /\ u \in Seq(Calls) /\ client'[c] = state /\ down[c] = << >>
    BY <1>1, <1>4, <1>5
  <2>2. \A k \in 1 .. Len(u) : u[k].command \notin {"READ", "STAT"}
    BY <1>1, <1>5
  <2> HIDE DEF u, v
  <2>3. \A k \in 1 .. Len(v) : v[k].command \in {"READ", "STAT"} => k = Len(v) /\ state = "waiting"
    <3>1. Len(v) = Len(u) + 1 /\ v[Len(v)] = m /\ Len(u) \in Nat
          /\ \A k \in 1 .. Len(u) : v[k] = u[k]
      BY <2>1
    <3>2. \A k \in 1 .. Len(v) : k \in 1 .. Len(u) \/ k = Len(v)
      BY <3>1
    <3> QED BY <1>5, <2>2, <3>1, <3>2
  <2> QED BY <1>5, <2>1, <2>3 DEF v
<1>6. ASSUME NEW c \in Conns, ClientStep(c) PROVE Conversation'
  <2>1. ASSUME NEW d \in Conns \ {c} PROVE Talk(d)'
    <3>1. (Reading(d)' <=> Reading(d)) /\ (Held(d)' <=> Held(d))
      BY <1>0, <1>6, ClientKeepsHands
    <3>2. /\ handler'[d] = handler[d] /\ client'[d] = client[d]
          /\ up'[d] = up[d] /\ down'[d] = down[d]
      <4>1. ASSUME NEW q, Open(c, q)
            PROVE  /\ handler'[d] = handler[d] /\ client'[d] = client[d]
                   /\ up'[d] = up[d] /\ down'[d] = down[d]
        BY <4>1 DEF Open, Sends
      <4>2. ASSUME NEW q, Command(c, q)
            PROVE  /\ handler'[d] = handler[d] /\ client'[d] = client[d]
                   /\ up'[d] = up[d] /\ down'[d] = down[d]
        BY <4>2 DEF Command, Sends, handlers
      <4>4. ASSUME NEW q, Close(c, q)
            PROVE  /\ handler'[d] = handler[d] /\ client'[d] = client[d]
                   /\ up'[d] = up[d] /\ down'[d] = down[d]
        <5>1. handler'[d] = handler[d] /\ client'[d] = client[d] /\ down'[d] = down[d]
          BY <4>4 DEF Close, handlers
        <5>2. CASE handler[c] = "none"
          BY <4>4, <5>1, <5>2 DEF Close
        <5>3. CASE handler[c] # "none"
          <6>1. Sends(c, q)
            BY <4>4, <5>3 DEF Close
          <6>2. up'[d] = up[d]
            BY <6>1 DEF Sends
          <6> QED BY <5>1, <6>2
        <5> QED BY <5>2, <5>3
      <4>3. ASSUME Answered(c)
            PROVE  /\ handler'[d] = handler[d] /\ client'[d] = client[d]
                   /\ up'[d] = up[d] /\ down'[d] = down[d]
        BY <4>3 DEF Answered, handlers
      <4> QED BY <1>6, <4>1, <4>2, <4>3, <4>4 DEF ClientStep
    <3> QED BY <1>2, <3>1, <3>2
  <2>2. ASSUME NEW q \in Requests[c], Open(c, q) PROVE Talk(c)'
    <3>1. /\ client[c] = "closed" /\ up' # up /\ q.command = "OPEN"
          /\ client' = [client EXCEPT ![c] = "open"] /\ handler'[c] = "select" /\ down' = down
      <4>1. up'[c] = Append(up[c], Call(q, issued'))
        BY <1>4, <2>2 DEF Open, Sends
      <4>2. up'[c] # up[c]
        BY <1>4, <4>1, AppendProperties
      <4> QED BY <1>4, <2>2, <4>2 DEF Open, Asked
    <3>2. /\ up' = [up EXCEPT ![c] = Append(@, Call(q, issued'))]
          /\ Call(q, issued') \in Calls
      BY <1>0, <2>2, <3>1, SentIsGood DEF Inv
    <3>3. Call(q, issued').command = "OPEN" /\ ~Reading(c)'
      BY <3>1 DEF Call, Reading, Held
    <3> QED BY <1>5, <3>1, <3>2, <3>3
  <2>3. ASSUME NEW q \in Requests[c], Command(c, q) PROVE Talk(c)'
    <3> DEFINE state == IF q.command = "WRITE" THEN "open" ELSE "waiting"
    <3>1. /\ client[c] = "open" /\ client' = [client EXCEPT ![c] = state]
          /\ handler' = handler /\ handler[c] # "none" /\ down' = down
      BY <2>3 DEF Command, handlers
    <3>2. up'[c] = Append(up[c], Call(q, issued'))
      BY <1>4, <2>3 DEF Command, Sends
    <3>3. up' # up
      BY <1>4, <3>2, AppendProperties
    <3>4. /\ up' = [up EXCEPT ![c] = Append(@, Call(q, issued'))]
          /\ Call(q, issued') \in Calls
      BY <1>0, <2>3, <3>3, SentIsGood DEF Inv
    <3>5. Call(q, issued').command = q.command /\ ~Reading(c)
      BY <1>1, <3>1 DEF Call
    <3>6. ~Reading(c)'
      BY <1>0, <1>6, <3>5, ClientKeepsHands
    <3>7. client[c] # "waiting" /\ handler'[c] # "none"
          /\ (Call(q, issued').command \in {"READ", "STAT"} => state = "waiting")
      BY <3>1, <3>5
    <3> HIDE DEF state
    <3> QED BY <1>5, <3>1, <3>4, <3>6, <3>7
  <2>4. ASSUME NEW q \in Requests[c], Close(c, q) PROVE Talk(c)'
    <3>1. /\ client[c] = "open" /\ client' = [client EXCEPT ![c] = "closed"]
          /\ handler' = handler /\ down' = down /\ q.command \notin {"READ", "STAT"}
      BY <2>4 DEF Close, Asked, handlers
    <3>2. ~Reading(c)
      BY <1>1, <3>1
    <3>3. ~Reading(c)'
      BY <1>0, <1>6, <3>2, ClientKeepsHands
    <3>4. CASE handler[c] = "none"
      <4>1. up' = up /\ up[c] = << >> /\ down[c] = << >>
        BY <1>1, <2>4, <3>1, <3>4 DEF Close
      <4> QED BY <3>1, <3>3, <4>1
    <3>5. CASE handler[c] # "none"
      <4>1. up'[c] = Append(up[c], Call(q, issued'))
        BY <1>4, <2>4, <3>5 DEF Close, Sends
      <4>2. up' # up
        BY <1>4, <4>1, AppendProperties
      <4>3. /\ up' = [up EXCEPT ![c] = Append(@, Call(q, issued'))]
            /\ Call(q, issued') \in Calls
        BY <1>0, <2>4, <4>2, SentIsGood DEF Inv
      <4>4. Call(q, issued').command \notin {"READ", "STAT"}
        BY <3>1 DEF Call
      <4>5. client[c] # "waiting" /\ handler'[c] # "none"
        BY <3>1, <3>5
      <4> QED BY <1>5, <3>1, <3>3, <4>3, <4>4, <4>5
    <3> QED BY <3>4, <3>5
  <2>5. ASSUME Answered(c) PROVE Talk(c)'
    <3>1. /\ client[c] = "waiting" /\ up' = up /\ handler' = handler
          /\ down'[c] = << >> /\ client'[c] = "open"
          /\ down[c] # << >> \/ handler[c] = "none"
      BY <1>4, <2>5 DEF Answered, handlers
    <3>2. up[c] = << >> /\ ~Reading(c)
      BY <1>1, <3>1 DEF Reading, Held
    <3>3. ~Reading(c)'
      BY <1>0, <1>6, <3>2, ClientKeepsHands
    <3> QED BY <3>1, <3>2, <3>3
  <2>6. Talk(c)'
    BY <1>6, <2>2, <2>3, <2>4, <2>5 DEF ClientStep
  <2> QED BY <1>3, <2>1, <2>6
<1>7. ASSUME NEW c \in Conns, HandlerStep(c) PROVE Conversation'
  <2>0. client' = client
    BY <1>7, HandlerFrame
  <2>1. ASSUME NEW d \in Conns \ {c} PROVE Talk(d)'
    <3>1. /\ Reading(d)' <=> Reading(d)
          /\ handler'[d] = handler[d] /\ up'[d] = up[d] /\ down'[d] = down[d]
      BY <1>0, <1>7, HandlerKeepsHands
    <3>2. Held(d)' <=> Held(d)
      BY <3>1 DEF Held
    <3> QED BY <1>2, <2>0, <3>1, <3>2
  <2>2. ASSUME up[c] # << >>, up'[c] = Tail(up[c]) \/ up'[c] = << >>
        PROVE  /\ \A k \in 1 .. Len(up'[c]) : up'[c][k].command \in {"READ", "STAT"}
                    => k = Len(up'[c]) /\ client[c] = "waiting"
               /\ Head(up[c]).command \in {"READ", "STAT"}
                    => up'[c] = << >> /\ client[c] = "waiting"
    <3>1. \A k \in 1 .. Len(up[c]) : up[c][k].command \in {"READ", "STAT"}
            => k = Len(up[c]) /\ client[c] = "waiting"
      BY <1>1
    <3> DEFINE u == up[c]
               v == up'[c]
               state == client[c]
    <3>2. u \in Seq(Calls) /\ u # << >> /\ (v = Tail(u) \/ v = << >>)
      BY <1>4, <2>2
    <3>3. \A k \in 1 .. Len(u) : u[k].command \in {"READ", "STAT"} => k = Len(u) /\ state = "waiting"
      BY <3>1
    <3> HIDE DEF u, v, state
    <3>4. \A k \in 1 .. Len(v) : v[k].command \in {"READ", "STAT"} => k = Len(v) /\ state = "waiting"
      BY <3>2, <3>3, LeftOver
    <3>5. Head(u).command \in {"READ", "STAT"} => v = << >> /\ state = "waiting"
      BY <3>2, <3>3, LeftOver
    <3> QED BY <3>4, <3>5 DEF u, v, state
  <2>3. ASSUME TakeOpen(c) PROVE Talk(c)'
    <3>1. /\ up[c] # << >> /\ (up'[c] = Tail(up[c]) \/ up'[c] = << >>)
          /\ handler'[c] = "none" => up'[c] = << >>
          /\ down' = down
      BY <1>4, <2>3 DEF TakeOpen, Takes, Loop
    <3>2. ~Reading(c)' /\ down[c] = << >>
      BY <1>0, <1>1, <2>3, <3>1, LetsGo
    <3> QED BY <2>0, <2>2, <3>1, <3>2
  <2>4. ASSUME TakeStat(c) PROVE Talk(c)'
    <3>1. /\ up[c] # << >> /\ (up'[c] = Tail(up[c]) \/ up'[c] = << >>)
          /\ Head(up[c]).command = "STAT"
      BY <1>4, <2>4 DEF TakeStat, Takes, Loop
    <3>2. up'[c] = << >> /\ client[c] = "waiting" /\ ~Reading(c)' /\ ~Held(c)'
      BY <1>0, <2>2, <2>4, <3>1, LetsGo
    <3> QED BY <2>0, <3>1, <3>2
  <2>5. ASSUME Post(c) PROVE Talk(c)'
    <3>1. /\ up[c] # << >> /\ up'[c] = Tail(up[c]) /\ handler'[c] = "posted" /\ down' = down
          /\ thecmd'[c].cmd = CommandOf(c, Head(up[c]))
      BY <1>0, <1>4, <2>5 DEF Post, Takes, TypeOK
    <3>2. Reading(c)' => Head(up[c]).command = "READ"
      BY <3>1 DEF Reading, CommandOf
    <3>3. down[c] = << >>
      BY <1>1, <3>1
    <3> QED BY <2>0, <2>2, <3>1, <3>2, <3>3
  <2>6. ASSUME Answer(c) \/ Lengthen(c) PROVE Talk(c)'
    <3>1. /\ up'[c] = up[c] \/ up'[c] = << >>
          /\ handler'[c] = "none" => up'[c] = << >>
      <4>1. CASE Answer(c)
        BY <1>4, <4>1 DEF Answer, GoesOn, Loop
      <4>2. CASE Lengthen(c)
        BY <1>4, <4>2 DEF Lengthen, GoesOn, Loop
      <4> QED BY <2>6, <4>1, <4>2
    <3>2. ~Reading(c)' /\ ~Held(c)'
      BY <1>0, <2>6, LetsGo
    <3>3. CASE Reading(c)
      <4>1. up'[c] = << >> /\ client[c] = "waiting"
        BY <1>1, <3>1, <3>3
      <4> QED BY <2>0, <3>1, <3>2, <4>1
    <3>4. CASE ~Reading(c)
      <4>1. \A k \in 1 .. Len(up'[c]) : up'[c][k].command \in {"READ", "STAT"}
              => k = Len(up'[c]) /\ client[c] = "waiting"
        BY <1>1, <3>1
      <4>2. down'[c] = down[c]
        BY <1>4, <2>6, <3>4 DEF Answer, Lengthen, Reading, Held
      <4>3. down[c] # << >> => client[c] = "waiting" /\ up'[c] = << >>
        BY <1>1, <3>1
      <4> QED BY <2>0, <3>1, <3>2, <4>1, <4>2, <4>3
    <3> QED BY <3>3, <3>4
  <2>7. ASSUME Dies(c) PROVE Talk(c)'
    <3>1. /\ up'[c] = << >> /\ down' = down
      BY <1>4, <2>7 DEF Dies, Loop
    <3>2. ~Reading(c)' /\ ~Held(c)'
      BY <1>0, <2>7, LetsGo
    <3>3. down[c] # << >> => client[c] = "waiting"
      BY <1>1
    <3> QED BY <2>0, <3>1, <3>2, <3>3
  <2>9. ASSUME TakeOut(c) PROVE Talk(c)'
    <3> HIDE DEF Talk
    <3> QED BY <1>0, <1>2, <2>9, TakeOutKeeps
  <2>8. Talk(c)'
    <3> HIDE DEF Talk
    <3> QED BY <1>7, <2>3, <2>4, <2>5, <2>6, <2>7, <2>9 DEF HandlerStep
  <2> QED BY <1>3, <2>1, <2>8
<1>8. ASSUME NEW n \in Nodes, NodeStep(n) PROVE Conversation'
  <2>1. handler' = handler /\ client' = client /\ up' = up /\ down' = down
    BY <1>0, <1>8, NodeFrame DEF sockets
  <2>2. ASSUME NEW d \in Conns PROVE Talk(d)'
    <3>1. (Reading(d)' <=> Reading(d)) /\ (Held(d)' <=> Held(d))
      BY <1>0, <1>8, <2>1, NodeKeepsHands DEF Held
    <3> QED BY <1>2, <2>1, <3>1
  <2> QED BY <1>3, <2>2
<1>9. CASE UNCHANGED vars
  <2>1. \A d \in Conns : (Reading(d)' <=> Reading(d)) /\ (Held(d)' <=> Held(d))
    BY <1>9 DEF vars, handlers, Reading, Held
  <2> QED BY <1>2, <1>3, <1>9, <2>1 DEF vars, handlers, sockets
<1> QED BY <1>6, <1>7, <1>8, <1>9, NextCases

\* What is on its way from a connection to another node: a write is added when it begins, and
\* what comes first is taken when it is stored.
LEMMA SentEffect ==
  ASSUME Inv, BuffersOK, NEW n \in Nodes, NodeStep(n), NEW d \in Conns, NEW r \in Nodes \ {Home[d]}
  PROVE  \/ Sent(d, r)' = Sent(d, r)
         \/ /\ Start(d) /\ thecmd[d].cmd.command = "WRITE"
            /\ Sent(d, r)' = Append(Sent(d, r), Piece(thecmd[d].cmd, thecmd[d].buffer, r))
         \/ /\ StoreData(r) /\ Sent(d, r) # << >> /\ Sent(d, r)' = Tail(Sent(d, r))
            /\ Stores(d, server[r].cmd, r, Head(Sent(d, r)))
            /\ IsPart(server[r].cmd, r, Head(Sent(d, r))) /\ InFile(server[r].cmd)
<1>0. /\ Home[d] \in Nodes /\ Sock[d] \in Tags /\ r \in Nodes /\ r # Home[d]
      /\ \A c \in Conns : Sock[c] = Sock[d] => c = d
  BY Basics, SocketsApart
<1>1. ASSUME NEW c \in Conns, Start(c)
      PROVE  \/ Sent(d, r)' = Sent(d, r)
             \/ /\ Start(d) /\ thecmd[d].cmd.command = "WRITE"
                /\ Sent(d, r)' = Append(Sent(d, r), Piece(thecmd[d].cmd, thecmd[d].buffer, r))
  <2>1. data'[Home[d]][r][Sock[d]] =
          IF thecmd[c].cmd.command = "WRITE" /\ Home[d] = Home[c] /\ r # Home[c] /\ Sock[d] = Sock[c]
          THEN Append(data[Home[d]][r][Sock[d]], Piece(thecmd[c].cmd, thecmd[c].buffer, r))
          ELSE data[Home[d]][r][Sock[d]]
    BY <1>0, <1>1, StartEffect
  <2> QED BY <1>0, <1>1, <2>1 DEF Sent
<1>2. ASSUME NEW c \in Conns, NEW over, Progress(c, over)
      PROVE  Sent(d, r)' = Sent(d, r)
  <2>1. data'[Home[d]][r][Sock[d]] =
          IF thecmd[c].cmd.command = "READ" /\ << Home[d], "data" >> \in over /\ r = Home[c]
               /\ Sock[d] = Sock[c]
          THEN Tail(data[Home[d]][r][Sock[d]])
          ELSE data[Home[d]][r][Sock[d]]
    BY <1>0, <1>2, ProgressEffect
  <2> QED BY <1>0, <2>1 DEF Sent
<1>3. ASSUME NEW src \in Nodes, TakeCommand(n, src)
      PROVE  Sent(d, r)' = Sent(d, r)
  <2>1. PICK c \in Conns : Home[c] = src /\ Head(cmds[src][n]).sock_tag = Sock[c]
    BY <1>3, TakenFacts
  <2>2. data'[Home[d]][r][Sock[d]] =
          IF Head(cmds[src][n]).command = "READ" /\ Home[d] = n /\ r = src
               /\ Sock[d] = Head(cmds[src][n]).sock_tag
          THEN Append(data[Home[d]][r][Sock[d]], Reply(Head(cmds[src][n]), memory[n], n))
          ELSE data[Home[d]][r][Sock[d]]
    BY <1>0, <1>3, TakeEffect
  <2> QED BY <1>0, <2>1, <2>2 DEF Sent
<1>4. ASSUME StoreData(n)
      PROVE  \/ Sent(d, r)' = Sent(d, r)
             \/ /\ StoreData(r) /\ Sent(d, r) # << >> /\ Sent(d, r)' = Tail(Sent(d, r))
                /\ Stores(d, server[r].cmd, r, Head(Sent(d, r)))
                /\ IsPart(server[r].cmd, r, Head(Sent(d, r))) /\ InFile(server[r].cmd)
  <2>1. PICK c \in Conns :
           /\ Sent(c, n) # << >>
           /\ Stores(c, server[n].cmd, n, Head(Sent(c, n)))
           /\ IsPart(server[n].cmd, n, Head(Sent(c, n))) /\ InFile(server[n].cmd)
           /\ \A x, y \in Nodes : \A t \in Tags : data'[x][y][t] =
                IF x = Home[c] /\ y = n /\ t = Sock[c] THEN Tail(data[x][y][t]) ELSE data[x][y][t]
    BY <1>4, ServeStores
  <2>2. data'[Home[d]][r][Sock[d]] =
          IF Home[d] = Home[c] /\ r = n /\ Sock[d] = Sock[c]
          THEN Tail(data[Home[d]][r][Sock[d]]) ELSE data[Home[d]][r][Sock[d]]
    BY <1>0, <2>1
  <2>3. CASE d = c /\ r = n
    <3>1. Sent(d, r)' = Tail(Sent(d, r))
      BY <2>2, <2>3 DEF Sent
    <3> QED BY <1>4, <2>1, <2>3, <3>1
  <2>4. CASE ~(d = c /\ r = n)
    BY <1>0, <2>2, <2>4 DEF Sent
  <2> QED BY <2>3, <2>4
<1>5. ASSUME data' = data
      PROVE  Sent(d, r)' = Sent(d, r)
  BY <1>5 DEF Sent
<1> QED BY <1>1, <1>2, <1>3, <1>4, <1>5, NodeCases DEF network

LEMMA StartSends ==
  ASSUME Inv, NEW d \in Conns, NEW r \in Nodes, r # Home[d], Start(d)
  PROVE  Sent(d, r)' = IF thecmd[d].cmd.command = "WRITE"
                       THEN Append(Sent(d, r), Piece(thecmd[d].cmd, thecmd[d].buffer, r))
                       ELSE Sent(d, r)
<1>1. Home[d] \in Nodes /\ Sock[d] \in Tags
  BY Basics
<1>2. data'[Home[d]][r][Sock[d]] =
        IF thecmd[d].cmd.command = "WRITE" /\ Home[d] = Home[d] /\ r # Home[d] /\ Sock[d] = Sock[d]
        THEN Append(data[Home[d]][r][Sock[d]], Piece(thecmd[d].cmd, thecmd[d].buffer, r))
        ELSE data[Home[d]][r][Sock[d]]
  BY <1>1, StartEffect
<1> QED BY <1>2 DEF Sent

LEMMA SentTypes ==
  ASSUME Inv, NEW d \in Conns, NEW r \in Nodes
  PROVE  IsSequence(Sent(d, r))
BY Basics DEF Inv, ChannelsOK, Sent

\* What the steps of a node do to the command of a connection
LEMMA StartCommand ==
  ASSUME TypeOK, NEW c \in Conns, Start(c)
  PROVE  /\ handler[c] = "posted" /\ thecmd[c].status = "PENDING"
         /\ thecmd'[c].cmd = thecmd[c].cmd /\ thecmd'[c].status = "WORKING"
         /\ thecmd'[c].buffer = IF thecmd[c].cmd.command = "READ"
              THEN WithPiece(thecmd[c].buffer, 0, ReadHere(thecmd[c].cmd, memory[Home[c]], Home[c]))
              ELSE thecmd[c].buffer
         /\ \A i \in Nodes : "data" \in thecmd'[c].work[i]
              <=> i # Home[c] /\ thecmd[c].cmd.command # "KILL"
         /\ \A d \in Conns \ {c} : thecmd'[d] = thecmd[d]
<1> DEFINE n == Home[c]
           q == thecmd[c].cmd
           started == [cmd |-> q, status |-> "WORKING",
                       buffer |-> IF q.command = "READ"
                         THEN WithPiece(thecmd[c].buffer, 0, ReadHere(q, memory[n], n))
                         ELSE thecmd[c].buffer,
                       work |-> [i \in Nodes |-> CASE i = n -> {}
                                    [] i # n /\ q.command = "KILL" -> {"cmd"}
                                    [] OTHER -> {"cmd", "data"}]]
<1>1. /\ handler[c] = "posted" /\ thecmd[c].status = "PENDING"
      /\ thecmd' = [thecmd EXCEPT ![c] = started]
  BY DEF Start
<1>2. DOMAIN thecmd = Conns
  BY DEF TypeOK
<1>3. \A i \in Nodes : "data" \in started.work[i] <=> i # n /\ q.command # "KILL"
  OBVIOUS
<1>4. /\ started.cmd = q /\ started.status = "WORKING"
      /\ started.buffer = IF q.command = "READ"
           THEN WithPiece(thecmd[c].buffer, 0, ReadHere(q, memory[n], n)) ELSE thecmd[c].buffer
  OBVIOUS
<1> HIDE DEF started
<1>5. thecmd'[c] = started /\ \A d \in Conns \ {c} : thecmd'[d] = thecmd[d]
  BY <1>1, <1>2
<1> QED BY <1>1, <1>3, <1>4, <1>5

Pieces(c, over) ==
  [i \in {i \in Nodes : thecmd[c].cmd.command = "READ" /\ << i, "data" >> \in over} |->
     Head(data[i][Home[c]][thecmd[c].cmd.sock_tag])]

\* Serving a read changes nothing of what reads may find.
LEMMA ServingAllows ==
  ASSUME NEW c \in Conns,
         (Start(c) /\ thecmd[c].cmd.command # "WRITE") \/ \E over : Progress(c, over)
  PROVE  allowed' = allowed
<1>1. CASE Start(c) /\ thecmd[c].cmd.command # "WRITE"
  BY <1>1, Zenon DEF Start, history
<1>2. ASSUME NEW over, Progress(c, over) PROVE allowed' = allowed
  BY <1>2, Zenon DEF Progress, history
<1> QED BY <1>1, <1>2

LEMMA ProgressCommand ==
  ASSUME TypeOK, NEW c \in Conns, NEW over, Progress(c, over)
  PROVE  /\ handler[c] = "posted" /\ thecmd[c].status = "WORKING" /\ over \subseteq Outstanding(c)
         /\ thecmd'[c].cmd = thecmd[c].cmd
         /\ thecmd'[c].status = IF over = Outstanding(c) THEN "COMPLETE" ELSE "WORKING"
         /\ thecmd'[c].buffer = WithPieces(thecmd[c].cmd, thecmd[c].buffer, Pieces(c, over))
         /\ \A i \in Nodes : "data" \in thecmd'[c].work[i]
              <=> "data" \in thecmd[c].work[i] /\ << i, "data" >> \notin over
         /\ \A d \in Conns \ {c} : thecmd'[d] = thecmd[d]
<1> DEFINE q == thecmd[c].cmd
           done == [cmd |-> q,
                    buffer |-> WithPieces(q, thecmd[c].buffer, Pieces(c, over)),
                    work |-> [i \in Nodes |-> {w \in thecmd[c].work[i] : << i, w >> \notin over}],
                    status |-> IF over = Outstanding(c) THEN "COMPLETE" ELSE "WORKING"]
<1>1. /\ handler[c] = "posted" /\ thecmd[c].status = "WORKING" /\ over \subseteq Outstanding(c)
      /\ thecmd' = [thecmd EXCEPT ![c] = done]
  BY DEF Progress, Pieces
<1>2. DOMAIN thecmd = Conns
  BY DEF TypeOK
<1>3. \A i \in Nodes : "data" \in done.work[i]
        <=> "data" \in thecmd[c].work[i] /\ << i, "data" >> \notin over
  OBVIOUS
<1>4. /\ done.cmd = q
      /\ done.status = (IF over = Outstanding(c) THEN "COMPLETE" ELSE "WORKING")
      /\ done.buffer = WithPieces(q, thecmd[c].buffer, Pieces(c, over))
  OBVIOUS
<1> HIDE DEF done
<1>5. thecmd'[c] = done /\ \A d \in Conns \ {c} : thecmd'[d] = thecmd[d]
  BY <1>1, <1>2
<1> QED BY <1>1, <1>3, <1>4, <1>5

\* Only they change it.
LEMMA CommandKept ==
  ASSUME TypeOK, NEW n \in Nodes, NodeStep(n), NEW d \in Conns,
         ~Start(d), ~\E over : Progress(d, over)
  PROVE  thecmd'[d] = thecmd[d] /\ (Reading(d)' <=> Reading(d)) /\ (Writing(d)' <=> Writing(d))
<1>1. thecmd'[d] = thecmd[d]
  <2>1. ASSUME NEW c \in Conns, Start(c) PROVE thecmd'[d] = thecmd[d]
    <3>1. c # d
      BY <2>1
    <3> QED BY <2>1, <3>1, StartCommand
  <2>2. ASSUME NEW c \in Conns, NEW over, Progress(c, over) PROVE thecmd'[d] = thecmd[d]
    <3>1. c # d
      BY <2>2
    <3> QED BY <2>2, <3>1, ProgressCommand
  <2>3. ASSUME (\E src \in Nodes : TakeCommand(n, src)) \/ StoreData(n)
        PROVE  thecmd' = thecmd
    BY <2>3 DEF TakeCommand, StoreData, handlers
  <2> QED BY <2>1, <2>2, <2>3, NodeCases
<1>2. handler' = handler
  BY NodeFrame
<1> QED BY <1>1, <1>2 DEF Reading, Writing, Held

\* A buffer is as long as its command, and what a connection writes is from it.
LEMMA BuffersStep == RInv /\ [Next]_vars => BuffersOK'
<1> SUFFICES ASSUME RInv, [Next]_vars PROVE BuffersOK'
  OBVIOUS
<1> USE DEF RInv
<1>0. TypeOK
  BY DEF Inv
<1> DEFINE Long(d) == Reading(d) => \A p \in Covered(thecmd[d].cmd) :
                        Slot(thecmd[d].cmd, p) \in DOMAIN thecmd[d].buffer
           Own(d) == Writing(d) => \A p \in Covered(thecmd[d].cmd) :
                       thecmd[d].buffer[Slot(thecmd[d].cmd, p)].from = d
           OwnSent(d, r) == \A k \in 1 .. Len(Sent(d, r)) : \A i \in DOMAIN Sent(d, r)[k] :
                              Sent(d, r)[k][i].from = d
<1>1. \A d \in Conns : Long(d) /\ Own(d) /\ \A r \in Nodes \ {Home[d]} : OwnSent(d, r)
  BY DEF BuffersOK
<1>2. ASSUME \A d \in Conns : Long(d)' /\ Own(d)' /\ \A r \in Nodes \ {Home[d]} : OwnSent(d, r)'
      PROVE  BuffersOK'
  BY <1>2 DEF BuffersOK
<1>3. ASSUME NEW d \in Conns, Reading(d)' <=> Reading(d), Writing(d)' <=> Writing(d),
             thecmd'[d] = thecmd[d]
      PROVE  Long(d)' /\ Own(d)'
  BY <1>1, <1>3
<1>4. ASSUME NEW d \in Conns, NEW r \in Nodes \ {Home[d]}, Sent(d, r)' = Sent(d, r)
      PROVE  OwnSent(d, r)'
  BY <1>1, <1>4
<1>5. ASSUME data' = data, NEW d \in Conns, NEW r \in Nodes
      PROVE  Sent(d, r)' = Sent(d, r)
  BY <1>5 DEF Sent
<1>6. ASSUME NEW c \in Conns, ClientStep(c) PROVE BuffersOK'
  <2>1. ASSUME NEW d \in Conns
        PROVE  (Reading(d)' <=> Reading(d)) /\ (Writing(d)' <=> Writing(d))
               /\ thecmd' = thecmd /\ data' = data
    BY <1>0, <1>6, ClientKeepsHands
  <2> QED BY <1>2, <1>3, <1>4, <1>5, <2>1
<1>7. ASSUME NEW c \in Conns, HandlerStep(c) PROVE BuffersOK'
  <2>0. data' = data
    BY <1>7, HandlerFrame DEF network
  <2>1. ASSUME NEW d \in Conns \ {c}
        PROVE  (Reading(d)' <=> Reading(d)) /\ (Writing(d)' <=> Writing(d)) /\ thecmd'[d] = thecmd[d]
    BY <1>0, <1>7, HandlerKeepsHands
  <2>2. Long(c)' /\ Own(c)'
    <3>1. CASE TakeOpen(c) \/ TakeStat(c) \/ Dies(c) \/ Answer(c) \/ Lengthen(c)
      <4>1. ~Reading(c)' /\ ~Writing(c)'
        BY <1>0, <3>1, LetsGo
      <4> QED BY <4>1
    <3>3. CASE TakeOut(c)
      BY <1>0, <1>3, <3>3, TakeOutKeeps
    <3>2. CASE Post(c)
      <4> DEFINE q == CommandOf(c, Head(up[c]))
                 bytes == [p \in Covered(q) |-> [from |-> c, no |-> Head(up[c]).no, at |-> p]]
                 buffer == thecmd'[c].buffer
      <4>1. /\ thecmd'[c].cmd = q
            /\ buffer = IF q.command = "WRITE" THEN Packed(q, bytes)
                        ELSE [i \in 0 .. q.length - 1 |-> Junk]
        BY <1>0, <3>2 DEF Post, TypeOK
      <4>2. Good(c, q)
        BY <1>0, <3>2, HeadIsGood DEF Inv, Post, Takes
      <4>3. \A p \in Covered(q) : bytes[p].from = c
        OBVIOUS
      <4> HIDE DEF q, bytes, buffer
      <4>4. ASSUME q.command = "READ", NEW p \in Covered(q)
            PROVE  Slot(q, p) \in DOMAIN buffer
        <5>1. InFile(q)
          BY <4>2, <4>4 DEF Good
        <5>2. Slot(q, p) \in 0 .. q.length - 1
          BY <5>1, SlotTells
        <5> QED BY <4>1, <4>4, <5>2
      <4>5. ASSUME q.command = "WRITE", NEW p \in Covered(q)
            PROVE  buffer[Slot(q, p)].from = c
        <5>1. InFile(q)
          BY <4>2, <4>5 DEF Good
        <5>2. Packed(q, bytes)[Slot(q, p)] = bytes[p]
          BY <5>1, PackedAt
        <5> QED BY <4>1, <4>3, <4>5, <5>2
      <4> QED BY <4>1, <4>4, <4>5 DEF Reading, Writing, buffer
    <3> QED BY <1>7, <3>1, <3>2, <3>3 DEF HandlerStep
  <2> QED BY <1>2, <1>3, <1>4, <1>5, <2>0, <2>1, <2>2
<1>8. ASSUME NEW n \in Nodes, NodeStep(n) PROVE BuffersOK'
  <2>1. ASSUME NEW d \in Conns, NEW r \in Nodes \ {Home[d]}
        PROVE  OwnSent(d, r)'
    <3> DEFINE s == Sent(d, r)
               t == Sent(d, r)'
               q == thecmd[d].cmd
               x == Piece(q, thecmd[d].buffer, r)
    <3>1. CASE t = s
      BY <1>4, <3>1
    <3>2. CASE Start(d) /\ q.command = "WRITE" /\ t = Append(s, x)
      <4>1. InFile(q) /\ Writing(d)
        BY <3>2, StartStores
      <4>2. \A p \in Covered(q) : thecmd[d].buffer[Slot(q, p)].from = d
        BY <1>1, <4>1
      <4>3. ASSUME NEW i \in DOMAIN x
            PROVE  x[i].from = d
        <5>1. i \in 0 .. ReqSize(q, r) - 1
          BY DEF Piece
        <5>2. PICK p \in Here(q, r) : Before(q, p) = i
          BY <4>1, <5>1, EveryNumber
        <5>3. p \in Covered(q) /\ RankOf(p) = r
          BY DEF Here
        <5>4. x[i] = thecmd[d].buffer[Slot(q, p)]
          BY <5>1, <5>2, <5>3 DEF Piece, Slot
        <5> QED BY <4>2, <5>3, <5>4
      <4>4. IsSequence(s)
        BY SentTypes
      <4>5. \A k \in 1 .. Len(s) : \A i \in DOMAIN s[k] : s[k][i].from = d
        BY <1>1
      <4> HIDE DEF s, x, q
      <4>6. \A k \in 1 .. Len(t) : \A i \in DOMAIN t[k] : t[k][i].from = d
        BY <3>2, <4>3, <4>4, <4>5, AddedLast
      <4> QED BY <4>6 DEF t
    <3>3. CASE s # << >> /\ t = Tail(s)
      <4>1. IsSequence(s)
        BY SentTypes
      <4>2. \A k \in 1 .. Len(s) : \A i \in DOMAIN s[k] : s[k][i].from = d
        BY <1>1
      <4> HIDE DEF s
      <4>3. \A k \in 1 .. Len(t) : \A i \in DOMAIN t[k] : t[k][i].from = d
        BY <3>3, <4>1, <4>2, TakenFirst
      <4> QED BY <4>3 DEF t
    <3> QED BY <1>8, <3>1, <3>2, <3>3, SentEffect
  <2>2. ASSUME NEW d \in Conns
        PROVE  Long(d)' /\ Own(d)'
    <3>1. ASSUME Start(d) \/ \E over : Progress(d, over)
          PROVE  Long(d)' /\ Own(d)'
      <4>1. thecmd'[d].cmd = thecmd[d].cmd /\ thecmd'[d].status # "PENDING"
        BY <1>0, <3>1, StartCommand, ProgressCommand
      <4>2. Reading(d)' <=> Reading(d)
        BY <1>0, <1>8, NodeKeepsHands
      <4>3. DOMAIN thecmd'[d].buffer = DOMAIN thecmd[d].buffer
        <5>1. CASE Start(d)
          BY <1>0, <5>1, StartCommand DEF WithPiece
        <5>2. ASSUME NEW over, Progress(d, over)
              PROVE  DOMAIN thecmd'[d].buffer = DOMAIN thecmd[d].buffer
          <6>1. thecmd'[d].buffer = WithPieces(thecmd[d].cmd, thecmd[d].buffer, Pieces(d, over))
            BY <1>0, <5>2, ProgressCommand
          <6> QED BY <6>1 DEF WithPieces
        <5> QED BY <3>1, <5>1, <5>2
      <4>4. Own(d)'
        BY <4>1 DEF Writing
      <4> QED BY <1>1, <4>1, <4>2, <4>3, <4>4
    <3>2. ASSUME ~Start(d), ~\E over : Progress(d, over)
          PROVE  Long(d)' /\ Own(d)'
      BY <1>0, <1>3, <1>8, <3>2, CommandKept
    <3> QED BY <3>1, <3>2
  <2> QED BY <1>2, <2>1, <2>2
<1>9. CASE UNCHANGED vars
  <2>1. \A d \in Conns : (Reading(d)' <=> Reading(d)) /\ (Writing(d)' <=> Writing(d))
    BY <1>9 DEF vars, handlers, Reading, Writing, Held
  <2>2. data' = data /\ thecmd' = thecmd
    BY <1>9 DEF vars, handlers, network
  <2> QED BY <1>2, <1>3, <1>4, <1>5, <2>1, <2>2
<1> QED BY <1>6, <1>7, <1>8, <1>9, NextCases

\* What is not yet stored is in the hand of the handler until its write begins, and then on
\* its way until it is stored.
LEMMA UnstoredStep == RInv /\ [Next]_vars => UnstoredOK'
<1> SUFFICES ASSUME RInv, [Next]_vars PROVE UnstoredOK'
  OBVIOUS
<1> USE DEF RInv
<1>0. TypeOK /\ DOMAIN unstored = Conns
  BY DEF Inv, HistoryTypes
<1>1. \A d \in Conns : \A b \in unstored[d] :
        b.at \in Positions /\ (InHand(d, b) \/ OnItsWay(d, b))
  BY DEF UnstoredOK
<1>2. ASSUME \A d \in Conns : \A b \in unstored'[d] :
               b.at \in Positions /\ (InHand(d, b)' \/ OnItsWay(d, b)')
      PROVE  UnstoredOK'
  BY <1>2 DEF UnstoredOK
<1>3. ASSUME NEW d \in Conns, NEW b, Writing(d)' <=> Writing(d), thecmd'[d] = thecmd[d], InHand(d, b)
      PROVE  InHand(d, b)'
  BY <1>3 DEF InHand
<1>4. ASSUME NEW d \in Conns, NEW b, data' = data, OnItsWay(d, b)
      PROVE  OnItsWay(d, b)'
  BY <1>4 DEF OnItsWay, Sent
<1>5. ASSUME NEW c \in Conns, ClientStep(c) PROVE UnstoredOK'
  <2>1. ASSUME NEW d \in Conns
        PROVE  (Writing(d)' <=> Writing(d)) /\ thecmd' = thecmd /\ data' = data /\ unstored' = unstored
    BY <1>0, <1>5, ClientKeepsHands
  <2> QED BY <1>1, <1>2, <1>3, <1>4, <2>1
<1>6. ASSUME NEW c \in Conns, HandlerStep(c) PROVE UnstoredOK'
  <2>0. data' = data
    BY <1>6, HandlerFrame DEF network
  <2>1. ASSUME NEW d \in Conns \ {c}
        PROVE  (Writing(d)' <=> Writing(d)) /\ thecmd'[d] = thecmd[d] /\ unstored'[d] = unstored[d]
    BY <1>0, <1>6, HandlerKeepsHands
  <2>2. ASSUME NEW b \in unstored[c]
        PROVE  b.at \in Positions /\ OnItsWay(c, b)'
    <3>1. ~Writing(c)
      BY <1>6 DEF HandlerStep, TakeOpen, TakeStat, Post, TakeOut, Answer, Lengthen, Dies, Takes, Writing
    <3>2. ~InHand(c, b)
      BY <3>1 DEF InHand
    <3> QED BY <1>1, <1>4, <2>0, <3>2
  <2>3. ASSUME NEW b \in unstored'[c], b \notin unstored[c]
        PROVE  b.at \in Positions /\ InHand(c, b)'
    <3>1. Post(c)
      BY <1>6, <2>3 DEF HandlerStep, TakeOpen, TakeStat, TakeOut, Answer, Lengthen, Dies, history
    <3> DEFINE q == CommandOf(c, Head(up[c]))
               bytes == [p \in Covered(q) |-> [from |-> c, no |-> Head(up[c]).no, at |-> p]]
    <3>2. /\ q.command = "WRITE" /\ b \in {bytes[p] : p \in Covered(q)}
      BY <1>0, <2>3, <3>1 DEF Post
    <3>3. PICK p \in Covered(q) : b = bytes[p]
      BY <3>2
    <3>4. b.at = p
      BY <3>3
    <3>5. /\ thecmd'[c].cmd = q /\ thecmd'[c].status = "PENDING" /\ handler'[c] = "posted"
          /\ thecmd'[c].buffer = Packed(q, bytes)
      BY <1>0, <3>1, <3>2 DEF Post, TypeOK
    <3>6. InFile(q)
      BY <1>0, <3>1, <3>2, HeadIsGood DEF Inv, Post, Takes, Good
    <3> HIDE DEF q, bytes
    <3>7. Packed(q, bytes)[Slot(q, p)] = b /\ p \in Positions
      BY <3>3, <3>6, PackedAt, SlotTells
    <3> QED BY <3>2, <3>4, <3>5, <3>7 DEF InHand, Writing
  <2>4. \A b \in unstored'[c] : b.at \in Positions /\ (InHand(c, b)' \/ OnItsWay(c, b)')
    BY <2>2, <2>3
  <2>5. \A d \in Conns \ {c} : \A b \in unstored'[d] :
          b.at \in Positions /\ (InHand(d, b)' \/ OnItsWay(d, b)')
    BY <1>1, <1>3, <1>4, <2>0, <2>1
  <2> QED BY <1>2, <2>4, <2>5
<1>7. ASSUME NEW n \in Nodes, NodeStep(n) PROVE UnstoredOK'
  <2>0. \A d \in Conns : unstored'[d] \subseteq unstored[d]
    <3>1. ASSUME NEW c \in Conns, NEW r \in Nodes, NEW q, NEW piece, Stores(c, q, r, piece)
          PROVE  \A d \in Conns : unstored'[d] \subseteq unstored[d]
      BY <3>1, StoresEffect
    <3> QED BY <1>7, <3>1, NodeStores
  <2> SUFFICES ASSUME NEW d \in Conns, NEW b \in unstored'[d]
               PROVE  InHand(d, b)' \/ OnItsWay(d, b)'
    BY <1>1, <1>2, <2>0
  <2>1. b \in unstored[d] /\ b.at \in Positions /\ RankOf(b.at) \in Nodes
    BY <1>1, <2>0, DfcAssumption, PlaceTells DEF Positions
  <2> DEFINE r == RankOf(b.at)
             s == Sent(d, r)
             t == Sent(d, r)'
  <2>2. IsSequence(s)
    BY <2>1, SentTypes
  <2>3. CASE InHand(d, b) /\ Start(d)
    <3> DEFINE q == thecmd[d].cmd
               buffer == thecmd[d].buffer
    <3>1. q.command = "WRITE" /\ b.at \in Covered(q) /\ buffer[Slot(q, b.at)] = b
      BY <2>3 DEF InHand, Writing
    <3>2. /\ InFile(q) /\ Stores(d, q, Home[d], buffer)
          /\ \A p \in Here(q, Home[d]) : Before(q, p) = Slot(q, p)
      BY <2>3, <3>1, StartStores
    <3>3. b.at \in Here(q, r) /\ Before(q, b.at) \in 0 .. ReqSize(q, r) - 1
      BY <3>1, <3>2, SlotTells
    <3>4. r # Home[d]
      <4> SUFFICES ASSUME r = Home[d] PROVE FALSE
        OBVIOUS
      <4>1. b.at \in Here(q, Home[d]) /\ buffer[Before(q, b.at)] = b
        BY <3>1, <3>2, <3>3
      <4>2. unstored'[d] = unstored[d] \ {buffer[Before(q, p)] : p \in Here(q, Home[d])}
        <5>1. Home[d] \in Nodes
          BY Basics
        <5> HIDE DEF q, buffer
        <5> QED BY <3>2, <5>1, StoresEffect
      <4> QED BY <4>1, <4>2
    <3> DEFINE x == Piece(q, buffer, r)
    <3>5. t = Append(s, x)
      BY <2>1, <2>3, <3>1, <3>4, StartSends
    <3>6. Before(q, b.at) \in DOMAIN x /\ x[Before(q, b.at)] = b
      BY <3>1, <3>3 DEF Piece, Slot
    <3> HIDE DEF x, s
    <3>7. Len(t) \in 1 .. Len(t) /\ t[Len(t)] = x
      <4>1. Len(s) \in Nat /\ Len(t) = Len(s) + 1 /\ t[Len(s) + 1] = x
        BY <2>2, <3>5, Appended
      <4> HIDE DEF t
      <4> QED BY <4>1
    <3> QED BY <3>4, <3>6, <3>7 DEF OnItsWay
  <2>4. CASE InHand(d, b) /\ ~Start(d)
    <3>1. ~\E over : Progress(d, over)
      BY <2>4 DEF InHand, Writing, Progress
    <3> QED BY <1>0, <1>3, <1>7, <2>4, <3>1, CommandKept
  <2>5. CASE OnItsWay(d, b)
    <3>0. PICK k \in 1 .. Len(s) : r # Home[d] /\ \E i \in DOMAIN s[k] : s[k][i] = b
      BY <2>5 DEF OnItsWay
    <3>1. PICK i \in DOMAIN s[k] : r # Home[d] /\ s[k][i] = b
      BY <3>0
    <3>2. \E j \in 1 .. Len(t) : i \in DOMAIN t[j] /\ t[j][i] = b
      <4>1. CASE t = s
        BY <3>1, <4>1
      <4>2. ASSUME NEW x, t = Append(s, x)
            PROVE  \E j \in 1 .. Len(t) : i \in DOMAIN t[j] /\ t[j][i] = b
        <5> HIDE DEF s, t
        <5>1. k \in 1 .. Len(t) /\ t[k] = s[k]
          <6>1. Len(s) \in Nat /\ Len(t) = Len(s) + 1 /\ t[k] = s[k]
            BY <2>2, <3>1, <4>2, Appended
          <6> QED BY <3>1, <6>1
        <5> QED BY <3>1, <5>1
      <4>3. ASSUME s # << >>, t = Tail(s), InFile(server[r].cmd),
                   Stores(d, server[r].cmd, r, Head(s)), IsPart(server[r].cmd, r, Head(s))
            PROVE  \E j \in 1 .. Len(t) : i \in DOMAIN t[j] /\ t[j][i] = b
        <5> DEFINE q == server[r].cmd
        <5>1. unstored'[d] = unstored[d] \ {Head(s)[Before(q, p)] : p \in Here(q, r)}
          BY <2>1, <4>3, StoresEffect
        <5>2. DOMAIN Head(s) = 0 .. ReqSize(q, r) - 1
          BY <2>1, <4>3, HereIsFinite DEF IsPart
        <5>3. k # 1
          <6> SUFFICES ASSUME k = 1 PROVE FALSE
            OBVIOUS
          <6>1. Head(s) = s[1]
            BY <2>2, <4>3, HeadAndTail
          <6>2. i \in 0 .. ReqSize(q, r) - 1 /\ Head(s)[i] = b
            BY <3>1, <5>2, <6>1
          <6>3. PICK p \in Here(q, r) : Before(q, p) = i
            BY <2>1, <4>3, <6>2, EveryNumber
          <6> QED BY <5>1, <6>2, <6>3
        <5> HIDE DEF s, t
        <5>4. k - 1 \in 1 .. Len(t) /\ t[k - 1] = s[k]
          <6>1. /\ Len(s) \in Nat \ {0} /\ Len(t) = Len(s) - 1
                /\ \A j \in 1 .. Len(s) - 1 : t[j] = s[j + 1]
            BY <2>2, <4>3, HeadAndTail
          <6>2. k - 1 \in 1 .. Len(s) - 1 /\ k - 1 + 1 = k
            BY <3>1, <5>3, <6>1
          <6> QED BY <6>1, <6>2
        <5> QED BY <3>1, <5>4
      <4> QED BY <1>7, <2>1, <3>1, <4>1, <4>2, <4>3, SentEffect
    <3> QED BY <3>1, <3>2 DEF OnItsWay
  <2> QED BY <1>1, <2>1, <2>3, <2>4, <2>5
<1>8. CASE UNCHANGED vars
  <2>1. \A d \in Conns : Writing(d)' <=> Writing(d)
    BY <1>8 DEF vars, handlers, Writing
  <2>2. data' = data /\ thecmd' = thecmd /\ unstored' = unstored
    BY <1>8 DEF vars, handlers, network, history
  <2> QED BY <1>1, <1>2, <1>3, <1>4, <2>1, <2>2
<1> QED BY <1>5, <1>6, <1>7, <1>8, NextCases

\* What the steps of a node do to the commands on their way to another one
LEMMA CmdsEffect ==
  ASSUME Inv, NEW n \in Nodes, NodeStep(n), NEW d \in Conns, NEW r \in Nodes \ {Home[d]}
  PROVE  \/ cmds'[Home[d]][r] = cmds[Home[d]][r]
         \/ \E c \in Conns : /\ Home[c] = Home[d] /\ Start(c) /\ thecmd[c].cmd.sock_tag = Sock[c]
                             /\ cmds'[Home[d]][r] = Append(cmds[Home[d]][r], thecmd[c].cmd)
         \/ /\ TakeCommand(r, Home[d]) /\ cmds[Home[d]][r] # << >>
            /\ cmds'[Home[d]][r] = Tail(cmds[Home[d]][r])
<1>0. Home[d] \in Nodes /\ r \in Nodes /\ r # Home[d]
  BY Basics
<1>1. ASSUME NEW c \in Conns, Start(c)
      PROVE  \/ cmds'[Home[d]][r] = cmds[Home[d]][r]
             \/ /\ Home[c] = Home[d] /\ thecmd[c].cmd.sock_tag = Sock[c]
                /\ cmds'[Home[d]][r] = Append(cmds[Home[d]][r], thecmd[c].cmd)
  <2>1. thecmd[c].cmd.sock_tag = Sock[c]
    BY <1>1, PostedFacts DEF Start, Held
  <2>2. cmds'[Home[d]][r] = IF Home[d] = Home[c] /\ r # Home[c]
                            THEN Append(cmds[Home[d]][r], thecmd[c].cmd) ELSE cmds[Home[d]][r]
    BY <1>0, <1>1, StartEffect
  <2> QED BY <1>0, <2>1, <2>2
<1>2. ASSUME NEW src \in Nodes, TakeCommand(n, src)
      PROVE  \/ cmds'[Home[d]][r] = cmds[Home[d]][r]
             \/ /\ TakeCommand(r, Home[d]) /\ cmds[Home[d]][r] # << >>
                /\ cmds'[Home[d]][r] = Tail(cmds[Home[d]][r])
  <2>1. cmds'[Home[d]][r] = IF Home[d] = src /\ r = n
                            THEN Tail(cmds[Home[d]][r]) ELSE cmds[Home[d]][r]
    BY <1>0, <1>2, TakeEffect
  <2>2. cmds[src][n] # << >>
    BY <1>2 DEF TakeCommand
  <2> QED BY <1>2, <2>1, <2>2
<1>3. ASSUME (\E c \in Conns : \E over : Progress(c, over)) \/ StoreData(n)
      PROVE  cmds' = cmds
  BY <1>3 DEF Progress, StoreData
<1> QED BY <1>1, <1>2, <1>3, NodeCases DEF network

\* A node that takes a read has stored all that its connection wrote before.
LEMMA ReadComesLast ==
  ASSUME RInv, NEW d \in Conns, NEW r \in Nodes \ {Home[d]},
         TakeCommand(r, Home[d]), IsRead(Sock[d], Head(cmds[Home[d]][r]))
  PROVE  /\ Sent(d, r) = << >> /\ Reading(d) /\ thecmd[d].status = "WORKING"
         /\ Head(cmds[Home[d]][r]) = thecmd[d].cmd
         /\ Awaits(d, r) /\ data[r][Home[d]][Sock[d]] = << >>
<1> DEFINE cs == cmds[Home[d]][r]
           s == Sent(d, r)
<1>0. Inv /\ Home[d] \in Nodes /\ r \in Nodes
  BY Basics DEF RInv
<1>1. Head(cs) = cs[1] /\ 1 \in 1 .. Len(cs) /\ IsSequence(cs)
  BY <1>0, TakenFacts, Between
<1>2. cs[1] = thecmd[d].cmd /\ Awaits(d, r) /\ data[r][Home[d]][Sock[d]] = << >>
  BY <1>0, <1>1, Between DEF ReadOK
<1>3. thecmd[d].status = "WORKING" /\ handler[d] = "posted"
  BY <1>0, <1>2 DEF Awaits, Inv, HandlersOK, HandlerOK
<1>4. Reading(d)
  BY <1>2, <1>3 DEF Awaits, Reading, Held
<1>5. \A j, k \in 1 .. Len(cs) : IsRead(Sock[d], cs[k]) /\ IsWrite(Sock[d], cs[j]) => j < k
  BY <1>3, <1>4 DEF RInv, ReadIsLast
<1>6. Serving(r) = Kill
  BY <1>0 DEF TakeCommand, Serving
<1>7. IsSequence(s) /\ Matched(r, Sock[d], s, cs, Kill)
  BY <1>0, <1>6, Between DEF Sent
<1>8. s = << >>
  <2> HIDE DEF cs, s
  <2>1. PICK f : MatchedBy(r, Sock[d], s, cs, Kill, f)
    BY <1>7 DEF Matched
  <2>2. Len(cs) \in Nat
    BY <1>1, Emptiness
  <2> SUFFICES ASSUME s # << >> PROVE FALSE
    OBVIOUS
  <2>3. 1 \in 1 .. Len(s)
    BY <1>7, HeadAndTail
  <2>4. f[1] \in 0 .. Len(cs) /\ IsWrite(Sock[d], At(cs, Kill, f[1]))
    BY <2>1, <2>3 DEF MatchedBy
  <2>5. f[1] \in 1 .. Len(cs) /\ IsWrite(Sock[d], cs[f[1]])
    BY <2>2, <2>4 DEF At, IsWrite, Kill
  <2>6. f[1] < 1
    BY <1>1, <1>5, <2>5 DEF cs
  <2> QED BY <2>2, <2>5, <2>6
<1> QED BY <1>1, <1>2, <1>3, <1>4, <1>8

\* The read of a connection goes to every node after its writes.
LEMMA ReadIsLastStep == RInv /\ [Next]_vars => ReadIsLast'
<1> SUFFICES ASSUME RInv, [Next]_vars PROVE ReadIsLast'
  OBVIOUS
<1> USE DEF RInv
<1>0. TypeOK /\ Inv
  BY DEF Inv
<1> DEFINE Under(d) == Reading(d) /\ thecmd[d].status # "PENDING"
           After(d, cs) == \A j, k \in 1 .. Len(cs) :
                             IsRead(Sock[d], cs[k]) /\ IsWrite(Sock[d], cs[j]) => j < k
           NoRead(d, cs) == \A k \in 1 .. Len(cs) : ~IsRead(Sock[d], cs[k])
           Final(d, r) == Under(d) => /\ After(d, cmds[Home[d]][r])
                                      /\ NoRead(d, cmds[Home[d]][r]) => Sent(d, r) = << >>
<1>1. \A d \in Conns : \A r \in Nodes \ {Home[d]} : Final(d, r)
  BY DEF ReadIsLast
<1>2. ASSUME \A d \in Conns : \A r \in Nodes \ {Home[d]} : Final(d, r)'
      PROVE  ReadIsLast'
  BY <1>2 DEF ReadIsLast
<1>3. ASSUME NEW d \in Conns, NEW r \in Nodes \ {Home[d]}, Under(d)' => Under(d),
             cmds' = cmds, data' = data
      PROVE  Final(d, r)'
  BY <1>1, <1>3 DEF Sent
<1>4. ASSUME NEW c \in Conns, ClientStep(c) PROVE ReadIsLast'
  <2>1. ASSUME NEW d \in Conns
        PROVE  (Reading(d)' <=> Reading(d)) /\ thecmd' = thecmd /\ cmds' = cmds /\ data' = data
    BY <1>0, <1>4, ClientKeepsHands
  <2> QED BY <1>2, <1>3, <2>1
<1>5. ASSUME NEW c \in Conns, HandlerStep(c) PROVE ReadIsLast'
  <2>0. data' = data /\ cmds' = cmds
    BY <1>5, HandlerFrame DEF network
  <2>1. ASSUME NEW d \in Conns \ {c}
        PROVE  (Reading(d)' <=> Reading(d)) /\ thecmd'[d] = thecmd[d]
    BY <1>0, <1>5, HandlerKeepsHands
  <2>2. Under(c)' => Under(c)
    <3>1. CASE TakeOpen(c) \/ TakeStat(c) \/ Dies(c) \/ Answer(c) \/ Lengthen(c)
      BY <1>0, <3>1, LetsGo
    <3>2. CASE Post(c)
      <4>1. thecmd'[c].status = "PENDING"
        BY <1>0, <3>2 DEF Post, TypeOK
      <4> QED BY <4>1
    <3>3. CASE TakeOut(c)
      BY <1>0, <3>3, TakeOutKeeps
    <3> QED BY <1>5, <3>1, <3>2, <3>3 DEF HandlerStep
  <2> QED BY <1>2, <1>3, <2>0, <2>1, <2>2
<1>6. ASSUME NEW n \in Nodes, NodeStep(n) PROVE ReadIsLast'
  <2> SUFFICES ASSUME NEW d \in Conns, NEW r \in Nodes \ {Home[d]}, Under(d)'
               PROVE  /\ After(d, cmds'[Home[d]][r])
                      /\ NoRead(d, cmds'[Home[d]][r]) => Sent(d, r)' = << >>
    BY <1>2
  <2> DEFINE cs == cmds[Home[d]][r]
             ds == cmds'[Home[d]][r]
             s == Sent(d, r)
             t == Sent(d, r)'
  <2>1. Reading(d) /\ IsSequence(cs) /\ r # Home[d]
    BY <1>0, <1>6, NodeKeepsHands, Between
  <2>2. ASSUME Start(d)
        PROVE  After(d, ds) /\ ~NoRead(d, ds)
    <3> DEFINE q == thecmd[d].cmd
    <3>1. IsRead(Sock[d], q) /\ ~Awaits(d, r)
      BY <1>0, <2>1, <2>2, PostedFacts
         DEF Reading, Held, IsRead, Start, Awaits, Inv, HandlersOK, HandlerOK
    <3>2. ds = Append(cs, q)
      <4>1. Home[d] \in Nodes
        BY Basics
      <4>2. cmds'[Home[d]][r] = IF Home[d] = Home[d] /\ r # Home[d]
                                THEN Append(cmds[Home[d]][r], thecmd[d].cmd) ELSE cmds[Home[d]][r]
        BY <1>0, <2>2, <4>1, StartEffect
      <4> QED BY <2>1, <4>2
    <3>3. \A k \in 1 .. Len(cs) : ~IsRead(Sock[d], cs[k])
      BY <1>0, <3>1, NothingOnItsWay
    <3> HIDE DEF cs, ds, q
    <3>4. /\ Len(cs) \in Nat /\ Len(ds) = Len(cs) + 1 /\ ds[Len(cs) + 1] = q
          /\ \A k \in 1 .. Len(cs) : ds[k] = cs[k]
      BY <2>1, <3>2, Appended
    <3>5. Len(ds) \in 1 .. Len(ds) /\ ds[Len(ds)] = q
      BY <3>4
    <3>6. \A k \in 1 .. Len(ds) : IsRead(Sock[d], ds[k]) <=> k = Len(ds)
      <4>1. \A k \in 1 .. Len(ds) : k \in 1 .. Len(cs) \/ k = Len(ds)
        BY <3>4
      <4>2. Len(ds) \notin 1 .. Len(cs)
        BY <3>4
      <4> QED BY <3>1, <3>3, <3>4, <3>5, <4>1, <4>2
    <3>7. ~IsWrite(Sock[d], q)
      BY <3>1 DEF IsRead, IsWrite
    <3>8. \A j \in 1 .. Len(ds) : IsWrite(Sock[d], ds[j]) => j < Len(ds)
      <4>1. \A j \in 1 .. Len(ds) : j # Len(ds) => j < Len(ds)
        BY <3>4
      <4> QED BY <3>5, <3>7, <4>1
    <3> QED BY <3>5, <3>6, <3>8
  <2>3. ASSUME ~Start(d)
        PROVE  After(d, ds) /\ (NoRead(d, ds) => t = << >>)
    <3>1. Under(d)
      <4>1. ASSUME NEW over, Progress(d, over) PROVE thecmd[d].status # "PENDING"
        BY <4>1 DEF Progress
      <4>2. CASE ~\E over : Progress(d, over)
        BY <1>0, <1>6, <2>3, <4>2, CommandKept
      <4> QED BY <2>1, <4>1, <4>2
    <3>2. After(d, cs) /\ (NoRead(d, cs) => s = << >>)
      BY <1>1, <3>1
    <3>3. t = s \/ s # << >>
      BY <1>0, <1>6, <2>3, SentEffect
    <3>4. CASE ds = cs
      <4> HIDE DEF cs, ds, s, t
      <4> QED BY <3>2, <3>3, <3>4
    <3>5. ASSUME NEW c \in Conns, Start(c), thecmd[c].cmd.sock_tag = Sock[c],
                 ds = Append(cs, thecmd[c].cmd)
          PROVE  After(d, ds) /\ (NoRead(d, ds) => t = << >>)
      <4> DEFINE q == thecmd[c].cmd
      <4>1. ~IsRead(Sock[d], q) /\ ~IsWrite(Sock[d], q)
        BY <2>3, <1>0, <3>5, SocketsApart DEF IsRead, IsWrite
      <4> HIDE DEF cs, ds, s, t, q
      <4>2. /\ Len(cs) \in Nat /\ Len(ds) = Len(cs) + 1 /\ ds[Len(cs) + 1] = q
            /\ \A k \in 1 .. Len(cs) : ds[k] = cs[k]
        BY <2>1, <3>5, Appended DEF q
      <4>3. 1 .. Len(cs) \subseteq 1 .. Len(ds)
        BY <4>2
      <4>4. \A k \in 1 .. Len(ds) : IsRead(Sock[d], ds[k]) \/ IsWrite(Sock[d], ds[k])
              => k \in 1 .. Len(cs) /\ ds[k] = cs[k]
        <5>1. \A k \in 1 .. Len(ds) : k \in 1 .. Len(cs) \/ k = Len(cs) + 1
          BY <4>2
        <5> QED BY <4>1, <4>2, <5>1
      <4> QED BY <3>2, <3>3, <4>2, <4>3, <4>4
    <3>6. ASSUME TakeCommand(r, Home[d]), cs # << >>, ds = Tail(cs)
          PROVE  After(d, ds) /\ (NoRead(d, ds) => t = << >>)
      <4>1. IsRead(Sock[d], Head(cs)) => s = << >>
        BY <3>6, ReadComesLast
      <4> HIDE DEF cs, ds, s, t
      <4>2. /\ Len(cs) \in Nat \ {0} /\ Len(ds) = Len(cs) - 1 /\ Head(cs) = cs[1]
            /\ \A k \in 1 .. Len(cs) - 1 : ds[k] = cs[k + 1]
        BY <2>1, <3>6, HeadAndTail
      <4>3. \A k \in 1 .. Len(ds) : k + 1 \in 1 .. Len(cs) /\ ds[k] = cs[k + 1]
        BY <4>2
      <4>4. After(d, ds)
        <5> SUFFICES ASSUME NEW j \in 1 .. Len(ds), NEW k \in 1 .. Len(ds),
                            IsRead(Sock[d], ds[k]), IsWrite(Sock[d], ds[j])
                     PROVE  j < k
          OBVIOUS
        <5>1. j + 1 < k + 1
          BY <3>2, <4>3
        <5> QED BY <4>2, <5>1
      <4>5. ASSUME NoRead(d, ds), ~IsRead(Sock[d], Head(cs))
            PROVE  NoRead(d, cs)
        <5> SUFFICES ASSUME NEW k \in 1 .. Len(cs) PROVE ~IsRead(Sock[d], cs[k])
          OBVIOUS
        <5>1. k = 1 \/ (k - 1 \in 1 .. Len(ds) /\ k - 1 \in 1 .. Len(cs) - 1 /\ k - 1 + 1 = k)
          BY <4>2
        <5> QED BY <4>2, <4>5, <5>1
      <4> QED BY <3>2, <3>3, <4>1, <4>4, <4>5
    <3> QED BY <1>0, <1>6, <3>4, <3>5, <3>6, CmdsEffect
  <2> QED BY <2>2, <2>3
<1>7. CASE UNCHANGED vars
  <2>1. \A d \in Conns : Reading(d)' <=> Reading(d)
    BY <1>7 DEF vars, handlers, Reading, Held
  <2> QED BY <1>2, <1>3, <1>7, <2>1 DEF vars, handlers, network
<1> QED BY <1>4, <1>5, <1>6, <1>7, NextCases

\* What is in the memory may be found, for every read and byte, unless the reader itself is
\* about to write there.
LEMMA MemoryAllowedStep == RInv /\ [Next]_vars => MemoryAllowed'
<1> SUFFICES ASSUME RInv, [Next]_vars PROVE MemoryAllowed'
  OBVIOUS
<1> USE DEF RInv
<1>0. /\ TypeOK /\ DOMAIN allowed = Conns /\ DOMAIN unstored = Conns
      /\ \A d \in Conns : DOMAIN allowed[d] \subseteq Positions
  BY DEF Inv, HistoryTypes
<1> DEFINE Byte(p) == memory[RankOf(p)][PlaceInBuffer(p)]
           Byte2(p) == memory'[RankOf(p)][PlaceInBuffer(p)]
           Clear(d, p) == \A b \in unstored[d] : b.at # p
           Clear2(d, p) == \A b \in unstored'[d] : b.at # p
<1>1. \A d \in Conns : \A p \in DOMAIN allowed[d] : Clear(d, p) => Byte(p) \in allowed[d][p]
  BY DEF MemoryAllowed
<1>2. ASSUME \A d \in Conns : \A p \in DOMAIN allowed'[d] : Clear2(d, p) => Byte2(p) \in allowed'[d][p]
      PROVE  MemoryAllowed'
  BY <1>2 DEF MemoryAllowed
<1>3. ASSUME NEW d \in Conns, memory' = memory, unstored'[d] = unstored[d], allowed'[d] = allowed[d]
      PROVE  \A p \in DOMAIN allowed'[d] : Clear2(d, p) => Byte2(p) \in allowed'[d][p]
  BY <1>1, <1>3
<1>4. ASSUME NEW c \in Conns, ClientStep(c) PROVE MemoryAllowed'
  <2>1. memory' = memory /\ unstored' = unstored
    BY <1>0, <1>4, ClientKeepsHands
  <2>2. CASE ~Answered(c)
    <3>1. allowed' = allowed
      BY <1>4, <2>2 DEF ClientStep, Open, Command, Close, history
    <3> QED BY <1>2, <1>3, <2>1, <3>1
  <2>3. CASE Answered(c)
    <3>1. allowed' = [allowed EXCEPT ![c] = << >>]
      BY <2>3 DEF Answered
    <3>2. \A d \in Conns \ {c} : allowed'[d] = allowed[d]
      BY <3>1
    <3>3. DOMAIN allowed'[c] = {}
      BY <1>0, <3>1
    <3> QED BY <1>2, <1>3, <2>1, <3>2, <3>3
  <2> QED BY <2>2, <2>3
<1>5. ASSUME NEW c \in Conns, HandlerStep(c) PROVE MemoryAllowed'
  <2>0. memory' = memory
    BY <1>5, HandlerFrame DEF nodes
  <2>1. ASSUME NEW d \in Conns \ {c}
        PROVE  unstored'[d] = unstored[d] /\ allowed'[d] = allowed[d]
    BY <1>0, <1>5, HandlerKeepsHands
  <2>2. \A p \in DOMAIN allowed'[c] : Clear2(c, p) => Byte2(p) \in allowed'[c][p]
    <3>1. CASE TakeOpen(c) \/ TakeStat(c) \/ Dies(c) \/ TakeOut(c) \/ Answer(c) \/ Lengthen(c)
      <4>1. allowed' = allowed /\ unstored' = unstored
        BY <1>0, <3>1, LetsGo, TakeOutKeeps
      <4> QED BY <1>3, <2>0, <4>1
    <3>2. CASE Post(c)
      <4> DEFINE q == CommandOf(c, Head(up[c]))
      <4>1. CASE q.command = "READ"
        <5>1. allowed'[c] = [p \in Covered(q) |-> MayFind(c, p)]
          BY <1>0, <3>2, <4>1 DEF Post
        <5>2. unstored'[c] = unstored[c]
          BY <1>0, <3>2, <4>1 DEF Post
        <5> HIDE DEF q
        <5>3. ASSUME NEW p \in DOMAIN allowed'[c], Clear2(c, p)
              PROVE  Byte2(p) \in allowed'[c][p]
          <6>1. allowed'[c][p] = MayFind(c, p)
            BY <5>1
          <6>2. MayFind(c, p) = {Byte(p)}
            BY <5>2, <5>3 DEF MayFind
          <6> QED BY <2>0, <6>1, <6>2
        <5> QED BY <5>3
      <4>2. CASE q.command = "WRITE"
        <5>1. allowed'[c] = allowed[c] /\ unstored[c] \subseteq unstored'[c]
          BY <1>0, <3>2, <4>2 DEF Post
        <5> QED BY <1>1, <2>0, <5>1
      <4>3. CASE q.command \notin {"READ", "WRITE"}
        <5>1. allowed'[c] = allowed[c] /\ unstored[c] = unstored'[c]
          BY <1>0, <3>2, <4>3 DEF Post
        <5> QED BY <1>3, <2>0, <5>1
      <4> QED BY <4>1, <4>2, <4>3
    <3> QED BY <1>5, <3>1, <3>2 DEF HandlerStep
  <2> QED BY <1>2, <1>3, <2>0, <2>1, <2>2
<1>6. ASSUME NEW n \in Nodes, NodeStep(n) PROVE MemoryAllowed'
  <2>1. CASE UNCHANGED << memory, unstored, allowed >>
    BY <1>2, <1>3, <2>1
  <2>2. ASSUME NEW c \in Conns, NEW r \in Nodes, NEW q, NEW piece, Stores(c, q, r, piece)
        PROVE  MemoryAllowed'
    <3> SUFFICES ASSUME NEW d \in Conns, NEW p \in DOMAIN allowed'[d], Clear2(d, p)
                 PROVE  Byte2(p) \in allowed'[d][p]
      BY <1>2
    <3>1. /\ DOMAIN allowed'[d] = DOMAIN allowed[d]
          /\ unstored'[d] = unstored[d] \ {piece[Before(q, o)] : o \in Here(q, r)}
      BY <2>2, StoresEffect
    <3>2. p \in DOMAIN allowed[d] /\ p \in Positions
      BY <1>0, <3>1
    <3>3. CASE p \in Here(q, r)
      <4>1. Byte2(p) = piece[Before(q, p)]
        BY <2>2, <3>2, <3>3, StoresEffect
      <4>2. piece[Before(q, p)] \in allowed'[d][p]
        BY <2>2, <3>2, <3>3, StoresEffect
      <4> QED BY <4>1, <4>2
    <3>4. CASE p \notin Here(q, r)
      <4>1. Byte2(p) = Byte(p)
        BY <2>2, <3>2, <3>4, StoresEffect
      <4>2. allowed'[d][p] = allowed[d][p]
        BY <2>2, <3>2, <3>4, StoresEffect
      <4>3. Clear(d, p)
        <5> SUFFICES ASSUME NEW b \in unstored[d] PROVE b.at # p
          OBVIOUS
        <5>1. CASE b \in unstored'[d]
          BY <5>1
        <5>2. CASE b \notin unstored'[d]
          <6>1. PICK o \in Here(q, r) : b = piece[Before(q, o)]
            BY <3>1, <5>2
          <6>2. b.at = o
            BY <2>2, <6>1 DEF Stores
          <6> QED BY <3>4, <6>2
        <5> QED BY <5>1, <5>2
      <4> QED BY <1>1, <3>2, <4>1, <4>2, <4>3
    <3> QED BY <3>3, <3>4
  <2> QED BY <1>6, <2>1, <2>2, NodeStores
<1>7. CASE UNCHANGED vars
  <2>1. memory' = memory /\ unstored' = unstored /\ allowed' = allowed
    BY <1>7 DEF vars, nodes, history
  <2> QED BY <1>2, <1>3, <2>1
<1> QED BY <1>4, <1>5, <1>6, <1>7, NextCases

\* What has been answered may be found: the part of every node has come, and nothing that
\* the connection wrote is still on its way.
LEMMA AnswerAllowedStep == RInv /\ [Next]_vars => AnswerAllowed'
<1> SUFFICES ASSUME RInv, [Next]_vars PROVE AnswerAllowed'
  OBVIOUS
<1> USE DEF RInv
<1>0. /\ TypeOK /\ Inv /\ DOMAIN allowed = Conns /\ DOMAIN down = Conns
      /\ \A d \in Conns : DOMAIN allowed[d] \subseteq Positions
  BY DEF Inv, HistoryTypes
<1>1. ASSUME NEW p \in Positions PROVE RankOf(p) \in Nodes
  BY DfcAssumption, PlaceTells DEF Positions
<1> DEFINE Fine(d) == down[d] # << >> => \A p \in DOMAIN allowed[d] :
                        /\ down[d][1][p] \in allowed[d][p]
                        /\ RankOf(p) # Home[d] => Sent(d, RankOf(p)) = << >>
<1>2. \A d \in Conns : Fine(d)
  BY DEF AnswerAllowed
<1>3. ASSUME \A d \in Conns : Fine(d)' PROVE AnswerAllowed'
  BY <1>3 DEF AnswerAllowed
<1>4. ASSUME NEW d \in Conns, down'[d] = down[d], allowed'[d] = allowed[d], data' = data
      PROVE  Fine(d)'
  BY <1>2, <1>4 DEF Sent
<1>5. ASSUME NEW c \in Conns, ClientStep(c) PROVE AnswerAllowed'
  <2>1. data' = data
    BY <1>0, <1>5, ClientKeepsHands
  <2>2. CASE ~Answered(c)
    <3>1. allowed' = allowed /\ down' = down
      BY <1>5, <2>2 DEF ClientStep, Open, Command, Close, history
    <3> QED BY <1>3, <1>4, <2>1, <3>1
  <2>3. CASE Answered(c)
    <3>1. /\ allowed' = [allowed EXCEPT ![c] = << >>]
          /\ down' = [down EXCEPT ![c] = << >>]
      BY <2>3 DEF Answered
    <3>2. \A d \in Conns \ {c} : allowed'[d] = allowed[d] /\ down'[d] = down[d]
      BY <3>1
    <3>3. down'[c] = << >>
      BY <1>0, <3>1
    <3> QED BY <1>3, <1>4, <2>1, <3>2, <3>3
  <2> QED BY <2>2, <2>3
<1>6. ASSUME NEW c \in Conns, HandlerStep(c) PROVE AnswerAllowed'
  <2>0. data' = data
    BY <1>6, HandlerFrame DEF network
  <2>1. ASSUME NEW d \in Conns \ {c} PROVE Fine(d)'
    BY <1>0, <1>4, <1>6, <2>0, HandlerKeepsHands
  <2>2. CASE TakeOpen(c) \/ Dies(c) \/ TakeOut(c) \/ Lengthen(c)
    <3>1. allowed' = allowed /\ down' = down
      BY <2>2 DEF TakeOpen, Dies, TakeOut, Lengthen, history
    <3> QED BY <1>3, <1>4, <2>0, <3>1
  <2>3. CASE TakeStat(c)
    <3>1. ~Reading(c) /\ down[c] = << >> /\ allowed' = allowed
      BY <2>3 DEF TakeStat, Takes, Reading, Held, Conversation, history
    <3>2. DOMAIN allowed'[c] = {}
      BY <3>1 DEF HistoryTypes
    <3>3. Fine(c)'
      BY <3>2
    <3> QED BY <1>3, <2>1, <3>3
  <2>4. CASE Post(c)
    <3>1. down[c] = << >> /\ down' = down
      BY <2>4 DEF Post, Takes, Conversation
    <3>2. Fine(c)'
      BY <3>1
    <3> QED BY <1>3, <2>1, <3>2
  <2>5. CASE Answer(c)
    <3> DEFINE q == thecmd[c].cmd
               buffer == thecmd[c].buffer
    <3>1. /\ handler[c] = "answer" /\ Held(c) /\ allowed' = allowed
          /\ down' = [down EXCEPT ![c] =
               IF q.command = "READ" THEN << Unpacked(q, buffer) >> ELSE @]
      BY <2>5 DEF Answer, Held, history
    <3>4. thecmd[c].status = "COMPLETE"
      BY <3>1 DEF Inv, HandlersOK, HandlerOK
    <3>2. CASE ~Reading(c)
      <4>1. down'[c] = down[c]
        BY <1>0, <3>1, <3>2 DEF Reading
      <4>2. Fine(c)'
        BY <1>4, <2>0, <3>1, <4>1
      <4> QED BY <1>3, <2>1, <4>2
    <3>3. CASE Reading(c)
      <4>1. down'[c] = << Unpacked(q, buffer) >>
        BY <1>0, <3>1, <3>3 DEF Reading
      <4>2. DOMAIN allowed[c] = Covered(q)
        BY <3>3 DEF HistoryTypes
      <4>3. \A i \in Nodes : thecmd[c].work[i] = {}
        BY <3>1 DEF Inv, HandlersOK, HandlerOK
      <4>4. ASSUME NEW p \in DOMAIN allowed[c]
            PROVE  /\ Unpacked(q, buffer)[p] \in allowed[c][p]
                   /\ RankOf(p) # Home[c] => Sent(c, RankOf(p)) = << >>
        <5>1. RankOf(p) \in Nodes
          BY <1>0, <1>1
        <5>2. Unpacked(q, buffer)[p] = buffer[Slot(q, p)]
          BY <4>2 DEF Unpacked, Slot
        <5>3. buffer[Slot(q, p)] \in allowed[c][p]
          BY <3>3, <3>4, <4>3, <5>1 DEF FoundAllowed
        <5>4. ASSUME RankOf(p) # Home[c]
              PROVE  Sent(c, RankOf(p)) = << >>
          <6>1. ~Awaits(c, RankOf(p))
            BY <4>3, <5>1 DEF Awaits
          <6>2. \A k \in 1 .. Len(cmds[Home[c]][RankOf(p)]) :
                  ~IsRead(Sock[c], cmds[Home[c]][RankOf(p)][k])
            BY <1>0, <5>1, <5>4, <6>1, NothingOnItsWay
          <6> QED BY <3>3, <3>4, <5>1, <5>4, <6>2 DEF ReadIsLast
        <5> QED BY <5>2, <5>3, <5>4
      <4> HIDE DEF q, buffer
      <4>5. Fine(c)'
        <5>1. down'[c][1] = Unpacked(q, buffer)
          BY <4>1
        <5>2. \A r \in Nodes : Sent(c, r)' = Sent(c, r)
          BY <2>0 DEF Sent
        <5>3. \A p \in DOMAIN allowed[c] : RankOf(p) \in Nodes
          BY <1>0, <1>1
        <5>4. allowed' = allowed
          BY <3>1
        <5> QED BY <4>4, <5>1, <5>2, <5>3, <5>4
      <4> QED BY <1>3, <2>1, <4>5
    <3> QED BY <3>2, <3>3
  <2> QED BY <1>6, <2>2, <2>3, <2>4, <2>5 DEF HandlerStep
<1>7. ASSUME NEW n \in Nodes, NodeStep(n) PROVE AnswerAllowed'
  <2> SUFFICES ASSUME NEW d \in Conns, down'[d] # << >> PROVE Fine(d)'
    BY <1>3
  <2>1. down'[d] = down[d] /\ down[d] # << >> /\ handler[d] # "posted"
    BY <1>7, NodeFrame DEF sockets, Conversation, Held
  <2>2. ~Start(d)
    BY <2>1 DEF Start
  <2>3. ASSUME NEW p \in DOMAIN allowed[d]
        PROVE  RankOf(p) \in Nodes /\ (RankOf(p) # Home[d]
                 => Sent(d, RankOf(p)) = << >> /\ Sent(d, RankOf(p))' = << >>)
    <3>1. RankOf(p) \in Nodes
      BY <1>0, <1>1
    <3>2. ASSUME RankOf(p) # Home[d]
          PROVE  Sent(d, RankOf(p)) = << >> /\ Sent(d, RankOf(p))' = << >>
      <4>1. Sent(d, RankOf(p)) = << >>
        BY <1>2, <2>1, <3>2
      <4> QED BY <1>0, <1>7, <2>2, <3>1, <3>2, <4>1, SentEffect
    <3> QED BY <3>1, <3>2
  <2>4. /\ DOMAIN allowed'[d] = DOMAIN allowed[d]
        /\ \A p \in DOMAIN allowed[d] : allowed[d][p] \subseteq allowed'[d][p]
    <3>1. CASE UNCHANGED << memory, unstored, allowed >>
      BY <3>1
    <3>2. ASSUME NEW c \in Conns, Start(c), thecmd[c].cmd.command = "WRITE"
          PROVE  /\ DOMAIN allowed'[d] = DOMAIN allowed[d]
                 /\ \A p \in DOMAIN allowed[d] : allowed[d][p] \subseteq allowed'[d][p]
      <4>1. d # c /\ Home[c] \in Nodes
        BY <2>2, <3>2, Basics
      <4>2. Stores(c, thecmd[c].cmd, Home[c], thecmd[c].buffer)
        BY <1>0, <3>2, StartStores
      <4> QED BY <1>0, <4>1, <4>2, StoresEffect
    <3>3. ASSUME StoreData(n)
          PROVE  /\ DOMAIN allowed'[d] = DOMAIN allowed[d]
                 /\ \A p \in DOMAIN allowed[d] : allowed[d][p] \subseteq allowed'[d][p]
      <4>1. PICK c \in Conns :
              /\ Home[c] # n /\ Sent(c, n) # << >>
              /\ Stores(c, server[n].cmd, n, Head(Sent(c, n)))
        BY <1>0, <3>3, ServeStores
      <4>2. CASE d # c
        BY <1>0, <4>1, <4>2, StoresEffect
      <4>3. CASE d = c
        <5>1. \A p \in DOMAIN allowed[d] : p \notin Here(server[n].cmd, n)
          <6> SUFFICES ASSUME NEW p \in DOMAIN allowed[d], p \in Here(server[n].cmd, n)
                       PROVE  FALSE
            OBVIOUS
          <6>1. RankOf(p) = n
            BY DEF Here
          <6> QED BY <2>3, <4>1, <4>3, <6>1
        <5> QED BY <1>0, <4>1, <5>1, StoresEffect
      <4> QED BY <4>2, <4>3
    <3>4. ASSUME NEW c \in Conns, Start(c), thecmd[c].cmd.command # "WRITE"
          PROVE  UNCHANGED << memory, unstored, allowed >>
      BY <3>4 DEF Start, history
    <3>5. ASSUME (\E c \in Conns : \E over : Progress(c, over)) \/ \E src \in Nodes : TakeCommand(n, src)
          PROVE  allowed' = allowed
      BY <3>5 DEF Progress, TakeCommand, history
    <3>6. ASSUME allowed' = allowed
          PROVE  /\ DOMAIN allowed'[d] = DOMAIN allowed[d]
                 /\ \A p \in DOMAIN allowed[d] : allowed[d][p] \subseteq allowed'[d][p]
      BY <3>6
    <3> QED BY <1>7, <3>1, <3>2, <3>3, <3>4, <3>5, <3>6, NodeCases DEF history
  <2> QED BY <1>2, <2>1, <2>3, <2>4
<1>8. CASE UNCHANGED vars
  BY <1>3, <1>4, <1>8 DEF vars, sockets, network, history
<1> QED BY <1>5, <1>6, <1>7, <1>8, NextCases

\* What the steps of a node do to the part that comes back from another one
LEMMA ReplyEffect ==
  ASSUME Inv, NEW n \in Nodes, NodeStep(n), NEW d \in Conns, NEW r \in Nodes \ {Home[d]}
  PROVE  LET back == data[r][Home[d]][Sock[d]]
             back2 == data'[r][Home[d]][Sock[d]]
         IN \/ back2 = back
            \/ /\ TakeCommand(r, Home[d]) /\ IsRead(Sock[d], Head(cmds[Home[d]][r]))
               /\ back2 = Append(back, Reply(Head(cmds[Home[d]][r]), memory[r], r))
            \/ \E over : /\ Progress(d, over) /\ << r, "data" >> \in over
                         /\ back2 = Tail(back)
<1> DEFINE back == data[r][Home[d]][Sock[d]]
           back2 == data'[r][Home[d]][Sock[d]]
<1>0. /\ Home[d] \in Nodes /\ Sock[d] \in Tags /\ r \in Nodes /\ r # Home[d]
      /\ \A c \in Conns : Sock[c] = Sock[d] => c = d
  BY Basics, SocketsApart
<1>1. ASSUME NEW c \in Conns, Start(c) PROVE back2 = back
  <2>1. back2 = IF thecmd[c].cmd.command = "WRITE" /\ r = Home[c] /\ Home[d] # Home[c]
                   /\ Sock[d] = Sock[c]
                THEN Append(back, Piece(thecmd[c].cmd, thecmd[c].buffer, Home[d])) ELSE back
    BY <1>0, <1>1, StartEffect
  <2> QED BY <1>0, <2>1
<1>2. ASSUME NEW c \in Conns, NEW over, Progress(c, over)
      PROVE  back2 = back \/ (c = d /\ << r, "data" >> \in over /\ back2 = Tail(back))
  <2>1. back2 = IF thecmd[c].cmd.command = "READ" /\ << r, "data" >> \in over /\ Home[d] = Home[c]
                   /\ Sock[d] = Sock[c]
                THEN Tail(back) ELSE back
    BY <1>0, <1>2, ProgressEffect
  <2> QED BY <1>0, <2>1
<1>3. ASSUME NEW src \in Nodes, TakeCommand(n, src)
      PROVE  \/ back2 = back
             \/ /\ TakeCommand(r, Home[d]) /\ IsRead(Sock[d], Head(cmds[Home[d]][r]))
                /\ back2 = Append(back, Reply(Head(cmds[Home[d]][r]), memory[r], r))
  <2>1. back2 = IF Head(cmds[src][n]).command = "READ" /\ r = n /\ Home[d] = src
                   /\ Sock[d] = Head(cmds[src][n]).sock_tag
                THEN Append(back, Reply(Head(cmds[src][n]), memory[n], n)) ELSE back
    BY <1>0, <1>3, TakeEffect
  <2> QED BY <1>3, <2>1 DEF IsRead
<1>4. ASSUME StoreData(n) PROVE back2 = back
  <2>1. PICK c \in Conns :
           /\ Home[c] # n
           /\ \A x, y \in Nodes : \A t \in Tags : data'[x][y][t] =
                IF x = Home[c] /\ y = n /\ t = Sock[c] THEN Tail(data[x][y][t]) ELSE data[x][y][t]
    <3>1. server[n].status = "receive"
      BY <1>4 DEF StoreData, DataCame
    <3>2. PICK c \in Conns :
            /\ Home[c] # n
            /\ server[n].cmd.srcrank = Home[c] /\ server[n].cmd.sock_tag = Sock[c]
      BY <3>1, ServedFacts
    <3>3. \A x, y \in Nodes : \A t \in Tags : data'[x][y][t] =
            IF x = Home[c] /\ y = n /\ t = Sock[c] THEN Tail(data[x][y][t]) ELSE data[x][y][t]
      BY <1>4, <3>2, StoreEffect
    <3> QED BY <3>2, <3>3
  <2>2. back2 = IF r = Home[c] /\ Home[d] = n /\ Sock[d] = Sock[c] THEN Tail(back) ELSE back
    BY <1>0, <2>1
  <2> QED BY <1>0, <2>1, <2>2
<1>5. ASSUME data' = data PROVE back2 = back
  BY <1>5
<1> HIDE DEF back, back2
<1>6. \/ back2 = back
      \/ /\ TakeCommand(r, Home[d]) /\ IsRead(Sock[d], Head(cmds[Home[d]][r]))
         /\ back2 = Append(back, Reply(Head(cmds[Home[d]][r]), memory[r], r))
      \/ \E over : /\ Progress(d, over) /\ << r, "data" >> \in over
                   /\ back2 = Tail(back)
  BY <1>1, <1>2, <1>3, <1>4, <1>5, NodeCases DEF network
<1> QED BY <1>6 DEF back, back2

\* The parts that have come are put where the bytes of their nodes are, and nowhere else.
LEMMA PiecesFound ==
  ASSUME Inv, NEW c \in Conns, NEW over, Progress(c, over), thecmd[c].cmd.command = "READ",
         NEW p \in Covered(thecmd[c].cmd), Slot(thecmd[c].cmd, p) \in DOMAIN thecmd[c].buffer
  PROVE  thecmd'[c].buffer[Slot(thecmd[c].cmd, p)] =
           IF << RankOf(p), "data" >> \in over
           THEN Head(data[RankOf(p)][Home[c]][Sock[c]])[Before(thecmd[c].cmd, p)]
           ELSE thecmd[c].buffer[Slot(thecmd[c].cmd, p)]
<1> DEFINE q == thecmd[c].cmd
           buffer == thecmd[c].buffer
           pieces == Pieces(c, over)
           r == RankOf(p)
           x == Slot(q, p)
           at == {i \in DOMAIN pieces : x - ReqOffset(q, i) \in DOMAIN pieces[i]}
<1>0. TypeOK
  BY DEF Inv
<1>1. /\ over \subseteq Outstanding(c) /\ handler[c] = "posted"
      /\ thecmd'[c].buffer = WithPieces(q, buffer, pieces)
  BY <1>0, ProgressCommand
<1>2. InFile(q) /\ q.sock_tag = Sock[c]
  BY <1>1, PostedFacts DEF Good, Held
<1>3. /\ r \in Nodes /\ Before(q, p) \in 0 .. ReqSize(q, r) - 1
      /\ x = ReqOffset(q, r) + Before(q, p) /\ x \in 0 .. q.length - 1
  BY <1>2, SlotTells DEF Slot
<1>4. ASSUME NEW i \in Nodes
      PROVE  i \in DOMAIN pieces <=> << i, "data" >> \in over
  BY DEF Pieces
<1>5. ASSUME NEW i \in DOMAIN pieces
      PROVE  /\ i \in Nodes /\ pieces[i] = Head(data[i][Home[c]][Sock[c]])
             /\ DOMAIN pieces[i] = 0 .. ReqSize(q, i) - 1
  <2>1. i \in Nodes /\ << i, "data" >> \in over /\ pieces[i] = Head(data[i][Home[c]][Sock[c]])
    BY <1>2 DEF Pieces
  <2>2. "data" \in thecmd[c].work[i]
    BY <1>1, <2>1 DEF Outstanding
  <2>3. i # Home[c]
    BY <2>2 DEF Inv, HandlersOK, HandlerOK
  <2>4. data[i][Home[c]][Sock[c]] # << >>
    BY <2>1 DEF Progress, Arrived
  <2> DEFINE d == data[i][Home[c]][Sock[c]]
  <2>5. IsSequence(d) /\ ReadOK(c, i)
    BY <2>1, <2>3, Between
  <2>6. IsPart(q, i, d[1])
    BY <2>4, <2>5 DEF ReadOK
  <2>7. Head(d) = d[1]
    <3> HIDE DEF d
    <3> QED BY <2>4, <2>5, HeadAndTail DEF d
  <2>8. DOMAIN pieces[i] = 0 .. Cardinality(Here(q, i)) - 1
    BY <2>1, <2>6, <2>7 DEF IsPart
  <2>9. ReqSize(q, i) = Cardinality(Here(q, i))
    BY <1>2, <2>1, HereIsFinite
  <2> QED BY <2>1, <2>8, <2>9
<1>6. \A i \in Nodes : ReqOffset(q, i) \in Int /\ ReqSize(q, i) \in Nat
  BY <1>2, HereIsFinite, OrderOfParts DEF PartsInOrder
<1> HIDE DEF q, buffer, pieces, x, r
<1>7. ASSUME NEW i \in at
      PROVE  i = r
  <2> DEFINE j == x - ReqOffset(q, i)
  <2>1. i \in Nodes /\ j \in 0 .. ReqSize(q, i) - 1
    BY <1>5, <1>7
  <2>2. ReqOffset(q, i) + j = ReqOffset(q, r) + Before(q, p)
    <3>1. ReqOffset(q, i) \in Int /\ x \in Int
      BY <1>3, <1>6, <2>1
    <3>2. ReqOffset(q, i) + j = x
      BY <3>1
    <3> QED BY <1>3, <3>2
  <2> HIDE DEF j
  <2> QED BY <1>2, <1>3, <2>1, <2>2, PartsApart
<1>8. x - ReqOffset(q, r) = Before(q, p)
  <2>1. Before(q, p) \in Int /\ ReqOffset(q, r) \in Int
    BY <1>3, <1>6
  <2> QED BY <1>3, <2>1
<1>9. x \in DOMAIN buffer
  BY DEF x, q, buffer
<1>10. WithPieces(q, buffer, pieces)[x] =
         IF at = {} THEN buffer[x]
         ELSE LET i == CHOOSE i \in at : TRUE IN pieces[i][x - ReqOffset(q, i)]
  BY <1>9 DEF WithPieces
<1>11. CASE << r, "data" >> \in over
  <2>1. r \in at
    BY <1>3, <1>4, <1>5, <1>8, <1>11
  <2>2. (CHOOSE i \in at : TRUE) = r
    BY <1>7, <2>1
  <2>3. WithPieces(q, buffer, pieces)[x] = pieces[r][Before(q, p)]
    BY <1>8, <1>10, <2>1, <2>2
  <2>4. pieces[r] = Head(data[r][Home[c]][Sock[c]])
    BY <1>5, <2>1
  <2> QED BY <1>1, <1>11, <2>3, <2>4 DEF q, buffer, pieces, x, r
<1>12. CASE << r, "data" >> \notin over
  <2>1. at = {}
    BY <1>3, <1>4, <1>7, <1>12
  <2> QED BY <1>1, <1>10, <1>12, <2>1 DEF q, buffer, pieces, x, r
<1> QED BY <1>11, <1>12

\* What has been read may be found: each part is that of some moment since the read began, and
\* of one when nothing from the same connection was on its way there.
LEMMA FoundAllowedStep == RInv /\ [Next]_vars => FoundAllowed'
<1> SUFFICES ASSUME RInv, [Next]_vars PROVE FoundAllowed'
  OBVIOUS
<1> USE DEF RInv
<1>0. /\ TypeOK /\ Inv /\ DOMAIN allowed = Conns
      /\ \A d \in Conns : DOMAIN allowed[d] \subseteq Positions
  BY DEF Inv, HistoryTypes
<1>1. ASSUME NEW p \in Positions PROVE RankOf(p) \in Nodes
  BY DfcAssumption, PlaceTells DEF Positions
<1> DEFINE Under(d) == Reading(d) /\ thecmd[d].status # "PENDING"
           Back(d, p) == data[RankOf(p)][Home[d]][Sock[d]]
           Got(d, p) == /\ "data" \notin thecmd[d].work[RankOf(p)] =>
                             thecmd[d].buffer[Slot(thecmd[d].cmd, p)] \in allowed[d][p]
                        /\ RankOf(p) # Home[d] /\ Back(d, p) # << >> =>
                             Head(Back(d, p))[Before(thecmd[d].cmd, p)] \in allowed[d][p]
           Found(d) == Under(d) => \A p \in DOMAIN allowed[d] : Got(d, p)
<1>2. \A d \in Conns : Found(d)
  BY DEF FoundAllowed
<1>3. ASSUME \A d \in Conns : Found(d)' PROVE FoundAllowed'
  BY <1>3 DEF FoundAllowed
<1>4. ASSUME NEW d \in Conns, Under(d)' => Under(d), thecmd'[d] = thecmd[d], data' = data,
             allowed'[d] = allowed[d]
      PROVE  Found(d)'
  BY <1>2, <1>4
<1>5. ASSUME NEW c \in Conns, ClientStep(c) PROVE FoundAllowed'
  <2>1. ASSUME NEW d \in Conns
        PROVE  (Reading(d)' <=> Reading(d)) /\ thecmd' = thecmd /\ data' = data
    BY <1>0, <1>5, ClientKeepsHands
  <2>2. ASSUME NEW d \in Conns, Under(d)
        PROVE  allowed'[d] = allowed[d]
    <3>1. CASE ~Answered(c)
      BY <1>5, <3>1 DEF ClientStep, Open, Command, Close, history
    <3>2. CASE Answered(c)
      <4>1. ~Reading(c) /\ allowed' = [allowed EXCEPT ![c] = << >>]
        BY <3>2 DEF Answered, Reading, Held, Conversation
      <4>2. d # c
        BY <2>2, <4>1
      <4> QED BY <4>1, <4>2
    <3> QED BY <3>1, <3>2
  <2>3. ASSUME NEW d \in Conns PROVE Found(d)'
    <3>1. CASE Under(d)
      BY <1>4, <2>1, <2>2, <3>1
    <3>2. CASE ~Under(d)
      BY <2>1, <3>2
    <3> QED BY <3>1, <3>2
  <2> QED BY <1>3, <2>3
<1>6. ASSUME NEW c \in Conns, HandlerStep(c) PROVE FoundAllowed'
  <2>0. data' = data
    BY <1>6, HandlerFrame DEF network
  <2>1. ASSUME NEW d \in Conns \ {c} PROVE Found(d)'
    BY <1>0, <1>4, <1>6, <2>0, HandlerKeepsHands
  <2>3. Found(c)'
    <3>1. CASE TakeOpen(c) \/ TakeStat(c) \/ Dies(c) \/ Answer(c) \/ Lengthen(c)
      <4>1. ~Under(c)'
        BY <1>0, <3>1, LetsGo
      <4> QED BY <4>1
    <3>2. CASE Post(c)
      <4>1. thecmd'[c].status = "PENDING"
        BY <1>0, <3>2 DEF Post, TypeOK
      <4> QED BY <4>1
    <3>3. CASE TakeOut(c)
      BY <1>0, <1>4, <2>0, <3>3, TakeOutKeeps
    <3> QED BY <1>6, <3>1, <3>2, <3>3 DEF HandlerStep
  <2> QED BY <1>3, <2>1, <2>3
\* No byte of the reader is on its way to p: what is in the memory there may be found.
<1>7. ASSUME NEW d \in Conns, Reading(d), NEW p \in DOMAIN allowed[d],
             RankOf(p) = Home[d] \/ Sent(d, RankOf(p)) = << >>
      PROVE  memory[RankOf(p)][PlaceInBuffer(p)] \in allowed[d][p]
  <2>1. ASSUME NEW b \in unstored[d], b.at = p
        PROVE  FALSE
    <3>1. ~InHand(d, b)
      BY <1>7 DEF InHand, Writing, Reading
    <3>2. OnItsWay(d, b)
      BY <3>1 DEF UnstoredOK
    <3>3. RankOf(p) # Home[d] /\ \E k \in 1 .. Len(Sent(d, RankOf(p))) : TRUE
      BY <2>1, <3>2 DEF OnItsWay
    <3>4. Sent(d, RankOf(p)) = << >>
      BY <1>7, <3>3
    <3> QED BY <3>3, <3>4
  <2> QED BY <2>1 DEF MemoryAllowed
<1>8. ASSUME NEW n \in Nodes, NodeStep(n) PROVE FoundAllowed'
  <2> SUFFICES ASSUME NEW d \in Conns, Under(d)', NEW p \in DOMAIN allowed'[d]
               PROVE  Got(d, p)'
    BY <1>3
  <2> DEFINE r == RankOf(p)
             q == thecmd[d].cmd
             back == Back(d, p)
             back2 == data'[r][Home[d]][Sock[d]]
  <2>0. /\ Reading(d) /\ thecmd'[d].cmd = q /\ Held(d) /\ q.command = "READ"
    BY <1>0, <1>8, NodeKeepsHands DEF Reading
  <2>1. p \in DOMAIN allowed[d] /\ p \in Covered(q) /\ p \in Positions /\ r \in Nodes
    <3>1. DOMAIN allowed'[d] = DOMAIN allowed[d]
      <4>1. CASE UNCHANGED << memory, unstored, allowed >>
        BY <4>1
      <4>2. ASSUME NEW c \in Conns, NEW s \in Nodes, NEW m, NEW piece, Stores(c, m, s, piece)
            PROVE  DOMAIN allowed'[d] = DOMAIN allowed[d]
        BY <1>0, <4>2, StoresEffect
      <4> QED BY <1>0, <1>8, <4>1, <4>2, NodeStores
    <3>2. DOMAIN allowed[d] = Covered(q)
      BY <2>0 DEF HistoryTypes
    <3> QED BY <1>0, <1>1, <3>1, <3>2
  <2>2. /\ InFile(q) /\ OwnPartFirst(q, Home[d]) /\ p \in Here(q, r) /\ Home[d] \in Nodes
        /\ Slot(q, p) \in DOMAIN thecmd[d].buffer
    <3>1. InFile(q) /\ OwnPartFirst(q, Home[d]) /\ Home[d] \in Nodes
      BY <1>0, <2>0, PostedFacts, Basics DEF Good
    <3>2. Slot(q, p) \in DOMAIN thecmd[d].buffer
      BY <2>0, <2>1 DEF BuffersOK
    <3> QED BY <2>1, <3>1, <3>2 DEF Here
  <2>3. CASE Start(d)
    <3>1. /\ allowed' = allowed
          /\ thecmd[d].status = "PENDING"
          /\ thecmd'[d].buffer = WithPiece(thecmd[d].buffer, 0, ReadHere(q, memory[Home[d]], Home[d]))
          /\ "data" \in thecmd'[d].work[r] <=> r # Home[d]
      <4>1. allowed' = allowed
        BY <2>0, <2>3, ServingAllows
      <4>2. TypeOK
        BY <1>0
      <4>3. /\ thecmd[d].status = "PENDING"
            /\ thecmd'[d].buffer = IF thecmd[d].cmd.command = "READ"
                 THEN WithPiece(thecmd[d].buffer, 0, ReadHere(thecmd[d].cmd, memory[Home[d]], Home[d]))
                 ELSE thecmd[d].buffer
            /\ \A i \in Nodes : "data" \in thecmd'[d].work[i]
                 <=> i # Home[d] /\ thecmd[d].cmd.command # "KILL"
        BY <2>3, <4>2, StartCommand
      <4> QED BY <2>0, <2>1, <4>1, <4>3
    <3>2. CASE r = Home[d]
      <4>1. Before(q, p) = Slot(q, p)
        <5>1. ReqOffset(q, Home[d]) = 0
          BY <2>2, <3>2 DEF OwnPartFirst
        <5>2. Before(q, p) \in 0 .. ReqSize(q, r) - 1 /\ ReqSize(q, r) \in Nat
          BY <2>1, <2>2, Numbering, HereIsFinite
        <5>3. Before(q, p) \in Int
          BY <5>2
        <5> QED BY <3>2, <5>1, <5>3 DEF Slot
      <4>2. /\ ReadHere(q, memory[r], r)[Before(q, p)] = memory[r][PlaceInBuffer(p)]
            /\ Before(q, p) \in 0 .. ReqSize(q, r) - 1
            /\ DOMAIN ReadHere(q, memory[r], r) = 0 .. ReqSize(q, r) - 1
            /\ ReqSize(q, r) \in Nat
        BY <2>1, <2>2, ReplyBytes, HereIsFinite
      <4>3. thecmd'[d].buffer[Slot(q, p)] = ReadHere(q, memory[r], r)[Before(q, p)]
        <5>1. Slot(q, p) - 0 = Before(q, p) /\ Before(q, p) \in DOMAIN ReadHere(q, memory[r], r)
          BY <4>1, <4>2
        <5> QED BY <2>2, <3>1, <3>2, <5>1 DEF WithPiece
      <4>4. memory[r][PlaceInBuffer(p)] \in allowed[d][p]
        BY <1>7, <2>0, <2>1, <3>2
      <4> QED BY <2>0, <3>1, <3>2, <4>2, <4>3, <4>4
    <3>3. CASE r # Home[d]
      <4>1. ~Awaits(d, r)
        BY <1>0, <2>0, <2>1, <3>1 DEF Awaits, Inv, HandlersOK, HandlerOK
      <4>2. back = << >>
        BY <1>0, <2>1, <3>3, <4>1, NothingOnItsWay
      <4>3. back2 = IF q.command = "WRITE" /\ r = Home[d] /\ Home[d] # Home[d] /\ Sock[d] = Sock[d]
                    THEN Append(back, Piece(q, thecmd[d].buffer, Home[d])) ELSE back
        <5>1. Sock[d] \in Tags
          BY Basics
        <5> QED BY <1>0, <2>1, <2>2, <2>3, <5>1, StartEffect
      <4>4. back2 = << >>
        BY <3>3, <4>2, <4>3
      <4> QED BY <3>1, <3>3, <4>4
    <3> QED BY <3>2, <3>3
  <2>4. ASSUME NEW over, Progress(d, over) PROVE Got(d, p)'
    <3>1. /\ allowed' = allowed /\ thecmd[d].status = "WORKING" /\ over \subseteq Outstanding(d)
          /\ "data" \in thecmd'[d].work[r] <=> "data" \in thecmd[d].work[r] /\ << r, "data" >> \notin over
      <4>1. allowed' = allowed
        BY <2>4, ServingAllows
      <4>2. TypeOK
        BY <1>0
      <4>3. /\ thecmd[d].status = "WORKING" /\ over \subseteq Outstanding(d)
            /\ \A i \in Nodes : "data" \in thecmd'[d].work[i]
                 <=> "data" \in thecmd[d].work[i] /\ << i, "data" >> \notin over
        BY <2>4, <4>2, ProgressCommand
      <4> QED BY <2>1, <4>1, <4>3
    <3>2. thecmd'[d].buffer[Slot(q, p)] =
            IF << r, "data" >> \in over THEN Head(back)[Before(q, p)] ELSE thecmd[d].buffer[Slot(q, p)]
      BY <1>0, <2>0, <2>1, <2>2, <2>4, PiecesFound
    <3>3. Got(d, p)
      BY <1>2, <2>0, <2>1, <3>1
    <3>4. back2 = IF << r, "data" >> \in over THEN Tail(back) ELSE back
      <4>1. Sock[d] \in Tags
        BY Basics
      <4>2. back2 = IF q.command = "READ" /\ << r, "data" >> \in over /\ Home[d] = Home[d]
                       /\ Sock[d] = Sock[d]
                    THEN Tail(back) ELSE back
        BY <1>0, <2>1, <2>2, <2>4, <4>1, ProgressEffect
      <4> QED BY <2>0, <4>2
    <3>5. CASE << r, "data" >> \in over
      <4>1. "data" \in thecmd[d].work[r]
        BY <3>1, <3>5 DEF Outstanding
      <4>2. r # Home[d]
        BY <1>0, <4>1 DEF Inv, HandlersOK, HandlerOK
      <4>3. back # << >>
        BY <2>0, <2>1, <2>4, <3>5 DEF Progress, Arrived
      <4>4. Len(back) = 1 /\ IsSequence(back)
        BY <1>0, <2>1, <4>2, <4>3, Between DEF ReadOK
      <4>5. Tail(back) = << >>
        <5> HIDE DEF back
        <5>1. IsSequence(Tail(back)) /\ Len(Tail(back)) = 0
          BY <4>3, <4>4, HeadAndTail
        <5> QED BY <5>1, Emptiness
      <4>6. back2 = << >>
        BY <3>4, <3>5, <4>5
      <4> QED BY <2>0, <3>1, <3>2, <3>3, <3>5, <4>2, <4>3, <4>6
    <3>6. CASE << r, "data" >> \notin over
      <4>1. back2 = back
        BY <3>4, <3>6
      <4> QED BY <2>0, <3>1, <3>2, <3>3, <3>6, <4>1
    <3> QED BY <3>5, <3>6
  <2>5. CASE ~Start(d) /\ ~\E over : Progress(d, over)
    <3>1. thecmd'[d] = thecmd[d] /\ Under(d)
      BY <1>0, <1>8, <2>5, <2>0, CommandKept
    <3>2. Got(d, p)
      BY <1>2, <2>1, <3>1
    \* A node that serves a write of d itself has not yet been asked for its part.
    <3>3. \/ allowed[d][p] \subseteq allowed'[d][p]
          \/ r # Home[d] /\ Sent(d, r) # << >>
      <4>1. ASSUME NEW c \in Conns, Start(c), thecmd[c].cmd.command = "WRITE"
            PROVE  allowed[d][p] \subseteq allowed'[d][p]
        <5>1. d # c /\ Home[c] \in Nodes
          BY <2>5, <4>1, Basics
        <5>2. Stores(c, thecmd[c].cmd, Home[c], thecmd[c].buffer)
          BY <1>0, <4>1, StartStores
        <5> QED BY <1>0, <2>1, <5>1, <5>2, StoresEffect
      <4>2. ASSUME NEW c \in Conns, Start(c), thecmd[c].cmd.command # "WRITE"
            PROVE  allowed' = allowed
        BY <4>2 DEF Start, history
      <4>3. ASSUME (\E c \in Conns : \E over : Progress(c, over)) \/ \E src \in Nodes : TakeCommand(n, src)
            PROVE  allowed' = allowed
        BY <4>3 DEF Progress, TakeCommand, history
      <4>4. ASSUME StoreData(n)
            PROVE  \/ allowed[d][p] \subseteq allowed'[d][p]
                   \/ r # Home[d] /\ Sent(d, r) # << >>
        <5>1. PICK c \in Conns :
                /\ Home[c] # n /\ Sent(c, n) # << >>
                /\ Stores(c, server[n].cmd, n, Head(Sent(c, n)))
          BY <1>0, <4>4, ServeStores
        <5>2. CASE d # c
          BY <1>0, <2>1, <5>1, <5>2, StoresEffect
        <5>3. CASE d = c /\ p \notin Here(server[n].cmd, n)
          <6>1. allowed'[d][p] = allowed[d][p]
            BY <1>0, <2>1, <5>1, <5>3, StoresEffect
          <6> QED BY <6>1
        <5>4. CASE d = c /\ p \in Here(server[n].cmd, n)
          <6>1. r = n
            BY <5>4 DEF Here
          <6> QED BY <5>1, <5>4, <6>1
        <5> QED BY <5>2, <5>3, <5>4
      <4>5. ASSUME allowed' = allowed
            PROVE  allowed[d][p] \subseteq allowed'[d][p]
        BY <4>5
      <4> QED BY <1>8, <4>1, <4>2, <4>3, <4>4, <4>5, NodeCases DEF history
    <3>4. ASSUME r # Home[d], Sent(d, r) # << >>
          PROVE  /\ Awaits(d, r) /\ back = << >>
                 /\ ~(TakeCommand(r, Home[d]) /\ IsRead(Sock[d], Head(cmds[Home[d]][r])))
      <4>1. \E k \in 1 .. Len(cmds[Home[d]][r]) : IsRead(Sock[d], cmds[Home[d]][r][k])
        BY <2>1, <3>1, <3>4 DEF ReadIsLast
      <4>2. ReadOK(d, r)
        BY <1>0, <2>1, <3>4, Between
      <4>3. Awaits(d, r) /\ back = << >>
        BY <4>1, <4>2 DEF ReadOK
      <4> QED BY <2>1, <3>4, <4>3, ReadComesLast
    <3>5. ASSUME r # Home[d]
          PROVE  \/ back2 = back
                 \/ /\ TakeCommand(r, Home[d]) /\ IsRead(Sock[d], Head(cmds[Home[d]][r]))
                    /\ back2 = Append(back, Reply(Head(cmds[Home[d]][r]), memory[r], r))
      BY <1>0, <1>8, <2>1, <2>5, <3>5, ReplyEffect
    <3>6. "data" \notin thecmd[d].work[r] => thecmd[d].buffer[Slot(q, p)] \in allowed'[d][p]
      <4>1. CASE allowed[d][p] \subseteq allowed'[d][p]
        BY <3>2, <4>1
      <4>2. CASE r # Home[d] /\ Sent(d, r) # << >>
        BY <3>4, <4>2 DEF Awaits
      <4> QED BY <3>3, <4>1, <4>2
    <3>7. ASSUME r # Home[d], back2 # << >>
          PROVE  Head(back2)[Before(q, p)] \in allowed'[d][p]
      <4>1. CASE back2 = back
        <5>1. allowed[d][p] \subseteq allowed'[d][p]
          BY <3>3, <3>4, <3>7, <4>1
        <5> QED BY <3>2, <3>7, <4>1, <5>1
      <4>2. CASE /\ TakeCommand(r, Home[d]) /\ IsRead(Sock[d], Head(cmds[Home[d]][r]))
                 /\ back2 = Append(back, Reply(Head(cmds[Home[d]][r]), memory[r], r))
        <5>1. /\ Sent(d, r) = << >> /\ back = << >> /\ Head(cmds[Home[d]][r]) = q
          BY <2>1, <3>7, <4>2, ReadComesLast
        <5>2. Head(back2) = Reply(q, memory[r], r)
          <6> DEFINE x == Reply(q, memory[r], r)
          <6>1. back2 = Append(<< >>, x)
            BY <4>2, <5>1
          <6> HIDE DEF x, back2
          <6>2. Head(back2) = x
            BY <6>1
          <6> QED BY <6>2 DEF x
        <5>3. Reply(q, memory[r], r)[Before(q, p)] = memory[r][PlaceInBuffer(p)]
          BY <2>1, <2>2, ReplyBytes
        <5>4. memory[r][PlaceInBuffer(p)] \in allowed[d][p]
          BY <1>7, <2>0, <2>1, <5>1
        <5>5. allowed[d][p] \subseteq allowed'[d][p]
          BY <3>3, <5>1
        <5> QED BY <5>2, <5>3, <5>4, <5>5
      <4> QED BY <3>5, <3>7, <4>1, <4>2
    <3> QED BY <3>1, <3>6, <3>7
  <2> QED BY <2>3, <2>4, <2>5
<1>9. CASE UNCHANGED vars
  <2>1. \A d \in Conns : (Reading(d)' <=> Reading(d)) /\ (Held(d)' <=> Held(d))
    BY <1>9 DEF vars, handlers, Reading, Held
  <2> QED BY <1>3, <1>4, <1>9, <2>1 DEF vars, handlers, network, history
<1> QED BY <1>5, <1>6, <1>8, <1>9, NextCases

LEMMA RInvariance == ASSUME RequestsAreServed PROVE Spec => []RInv
<1>0. Init => RInv
  BY InitRInv
<1>1. RInv /\ [Next]_vars => RInv'
  <2>1. Inv /\ [Next]_vars => Inv'
    BY InvStep
  <2>2. RInv => Inv
    BY DEF RInv
  <2>3. RInv /\ [Next]_vars => HistoryTypes' /\ Conversation' /\ BuffersOK' /\ UnstoredOK'
    BY HistoryTypesStep, ConversationStep, BuffersStep, UnstoredStep
  <2>4. RInv /\ [Next]_vars => ReadIsLast' /\ MemoryAllowed' /\ FoundAllowed' /\ AnswerAllowed'
    BY ReadIsLastStep, MemoryAllowedStep, FoundAllowedStep, AnswerAllowedStep
  <2> QED BY <2>1, <2>2, <2>3, <2>4 DEF RInv
<1> QED BY <1>0, <1>1, PTL DEF Spec

(* If every request is counted right and has its own part first, and no two nodes use one number
   for their sockets, then for any number of nodes, connections and blocks: a read finds, byte for
   byte, what the file held at some moment since its handler took it, and what its own connection
   wrote before, though its parts come from nodes that serve others in between, and writes are not
   acknowledged.  Without one of the three it does not (runs dfc_aligned, dfc_tags). *)
THEOREM ReadsAreCurrent == RequestsAreServed => (Spec => []ReadIsCurrent)
<1> SUFFICES ASSUME RequestsAreServed PROVE Spec => []ReadIsCurrent
  OBVIOUS
<1>1. RInv => ReadIsCurrent
  BY DEF RInv, AnswerAllowed, ReadIsCurrent
<1> QED BY RInvariance, <1>1, PTL

===============================================================================
