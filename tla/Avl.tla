-------------------------------- MODULE Avl --------------------------------
(***************************************************************************)
(* The balanced tree of a bucket of the connection table: tcptrace-src/    *)
(* avl.c with AVL_WhichDir and CopyAddr of trace.c.  FindTTP walks this    *)
(* tree to find the connection of a packet, whichever end sent it, and     *)
(* RemoveConn takes a connection out of it.                                *)
(*                                                                         *)
(* An address is its version and a number, and a port is a number: only    *)
(* their order counts.  A tree is NoTree or a node with the addresses of   *)
(* its connection.                                                         *)
(***************************************************************************)
EXTENDS Integers, Sequences, FiniteSets, FiniteSetsExt

CONSTANTS
    Buckets      \* bound: for each bucket, the addresses of packets that open a
                 \* connection, each <<source, port, destination, port>>

\* Both ends of a connection have addresses of one version.
ASSUME AvlAssumption ==
    \A bucket \in Buckets : \A first \in bucket : first[1].version = first[3].version

VARIABLES
    firsts,    \* the packets that fall into the bucket
    tree,      \* the tree of the bucket
    present    \* history: the connections that came and did not go

avlVars == <<firsts, tree, present>>

-----------------------------------------------------------------------------
(* The addresses of a packet, and where to look for them.                  *)

CopyAddr(src, sport, dst, dport) ==
    [a_address |-> src, a_port |-> sport, b_address |-> dst, b_port |-> dport]

Swapped(p) == CopyAddr(p.b_address, p.b_port, p.a_address, p.a_port)

\* Addresses of two versions are not ordered: neither is lower.
IP_LOWADDR(a, b) == a.version = b.version /\ a.number < b.number

\* The port that goes with the lower address, the other one, and the addresses.
\* Where both are equal it depends on the direction which end comes first.
Ordered(p) ==
    IF IP_LOWADDR(p.a_address, p.b_address)
    THEN [ports |-> <<p.a_port, p.b_port>>, addresses |-> <<p.a_address, p.b_address>>]
    ELSE [ports |-> <<p.b_port, p.a_port>>, addresses |-> <<p.b_address, p.a_address>>]

\* The ports are compared first, then the addresses.
AVL_WhichDir(p, q) ==
    LET x == Ordered(p)
        y == Ordered(q)
        less == <<x.ports[1] < y.ports[1], x.ports[2] < y.ports[2],
                  IP_LOWADDR(x.addresses[1], y.addresses[1]),
                  IP_LOWADDR(x.addresses[2], y.addresses[2])>>
        more == <<y.ports[1] < x.ports[1], y.ports[2] < x.ports[2],
                  IP_LOWADDR(y.addresses[1], x.addresses[1]),
                  IP_LOWADDR(y.addresses[2], x.addresses[2])>>
        differ == {i \in 1..4 : less[i] \/ more[i]}
    IN  IF differ = {} THEN "same"
        ELSE IF less[Min(differ)] THEN "LT" ELSE "RT"

\* The two ends of a connection, in either direction.
WhichDir(p, q) ==
    IF p = q THEN "A2B" ELSE IF p = Swapped(q) THEN "B2A" ELSE "none"

-----------------------------------------------------------------------------
(* The tree.  BALANCE says that the height of the subtree changed.         *)

NoTree == [skew |-> "null"]
Snap(pair, skew, left, right) ==
    [pair |-> pair, skew |-> skew, left |-> left, right |-> right]
Leaf(pair) == Snap(pair, "EQUAL1", NoTree, NoTree)

SnapRotLeft(n) == [n.right EXCEPT !.left = [n EXCEPT !.right = n.right.left]]
SnapRotRight(n) == [n.left EXCEPT !.right = [n EXCEPT !.left = n.left.right]]

Result(t, res) == [tree |-> t, res |-> res]

\* The inner grandchild comes to the top, and the skews follow from its own.
DoubleRight(n) ==
    LET s == n.left.right.skew
        top == IF s = "LEFT" THEN "RIGHT" ELSE "EQUAL1"
        low == IF s = "RIGHT" THEN "LEFT" ELSE "EQUAL1"
        m == [n EXCEPT !.skew = top, !.left.skew = low, !.left.right.skew = "EQUAL1"]
    IN  SnapRotRight([m EXCEPT !.left = SnapRotLeft(m.left)])

DoubleLeft(n) ==
    LET s == n.right.left.skew
        top == IF s = "RIGHT" THEN "LEFT" ELSE "EQUAL1"
        low == IF s = "LEFT" THEN "RIGHT" ELSE "EQUAL1"
        m == [n EXCEPT !.skew = top, !.right.skew = low, !.right.left.skew = "EQUAL1"]
    IN  SnapRotLeft([m EXCEPT !.right = SnapRotRight(m.right)])

SnapLeftGrown(n) ==
    CASE n.skew = "LEFT" /\ n.left.skew = "LEFT" ->
           Result(SnapRotRight([n EXCEPT !.skew = "EQUAL1", !.left.skew = "EQUAL1"]), "OK")
      [] n.skew = "LEFT" /\ n.left.skew # "LEFT" -> Result(DoubleRight(n), "OK")
      [] n.skew = "RIGHT" -> Result([n EXCEPT !.skew = "EQUAL1"], "OK")
      [] OTHER -> Result([n EXCEPT !.skew = "LEFT"], "BALANCE")

SnapRightGrown(n) ==
    CASE n.skew = "RIGHT" /\ n.right.skew = "RIGHT" ->
           Result(SnapRotLeft([n EXCEPT !.skew = "EQUAL1", !.right.skew = "EQUAL1"]), "OK")
      [] n.skew = "RIGHT" /\ n.right.skew # "RIGHT" -> Result(DoubleLeft(n), "OK")
      [] n.skew = "LEFT" -> Result([n EXCEPT !.skew = "EQUAL1"], "OK")
      [] OTHER -> Result([n EXCEPT !.skew = "RIGHT"], "BALANCE")

\* A subtree took a new node; only if it grew is there something to do.
Left(n, r, Adjust(_)) ==
    LET m == [n EXCEPT !.left = r.tree]
    IN  IF r.res = "BALANCE" THEN Adjust(m) ELSE Result(m, r.res)
Right(n, r, Adjust(_)) ==
    LET m == [n EXCEPT !.right = r.tree]
    IN  IF r.res = "BALANCE" THEN Adjust(m) ELSE Result(m, r.res)

RECURSIVE SnapInsert(_, _)
SnapInsert(n, pair) ==
    IF n = NoTree THEN Result(Leaf(pair), "BALANCE")
    ELSE CASE AVL_WhichDir(pair, n.pair) = "LT" ->
                Left(n, SnapInsert(n.left, pair), SnapLeftGrown)
           [] AVL_WhichDir(pair, n.pair) = "RT" ->
                Right(n, SnapInsert(n.right, pair), SnapRightGrown)
           [] OTHER -> Result(n, "OK")

\* Faulty variant of SnapLeftShrunk: a level right child counts as leaning left.
SnapLeftShrunkLevel(n) ==
    CASE n.skew = "LEFT" -> Result([n EXCEPT !.skew = "EQUAL1"], "BALANCE")
      [] n.skew = "RIGHT" /\ n.right.skew # "LEFT" ->
           Result(SnapRotLeft([n EXCEPT !.skew = "EQUAL1", !.right.skew = "EQUAL1"]), "BALANCE")
      [] n.skew = "RIGHT" /\ n.right.skew = "LEFT" -> Result(DoubleLeft(n), "BALANCE")
      [] OTHER -> Result([n EXCEPT !.skew = "RIGHT"], "OK")

SnapLeftShrunk(n) ==
    CASE n.skew = "LEFT" -> Result([n EXCEPT !.skew = "EQUAL1"], "BALANCE")
      [] n.skew = "RIGHT" /\ n.right.skew = "RIGHT" ->
           Result(SnapRotLeft([n EXCEPT !.skew = "EQUAL1", !.right.skew = "EQUAL1"]), "BALANCE")
      [] n.skew = "RIGHT" /\ n.right.skew = "EQUAL1" ->
           Result(SnapRotLeft([n EXCEPT !.skew = "RIGHT", !.right.skew = "LEFT"]), "OK")
      [] n.skew = "RIGHT" /\ n.right.skew = "LEFT" -> Result(DoubleLeft(n), "BALANCE")
      [] OTHER -> Result([n EXCEPT !.skew = "RIGHT"], "OK")

SnapRightShrunk(n) ==
    CASE n.skew = "RIGHT" -> Result([n EXCEPT !.skew = "EQUAL1"], "BALANCE")
      [] n.skew = "LEFT" /\ n.left.skew = "LEFT" ->
           Result(SnapRotRight([n EXCEPT !.skew = "EQUAL1", !.left.skew = "EQUAL1"]), "BALANCE")
      [] n.skew = "LEFT" /\ n.left.skew = "EQUAL1" ->
           Result(SnapRotRight([n EXCEPT !.skew = "LEFT", !.left.skew = "RIGHT"]), "OK")
      [] n.skew = "LEFT" /\ n.left.skew = "RIGHT" -> Result(DoubleRight(n), "BALANCE")
      [] OTHER -> Result([n EXCEPT !.skew = "LEFT"], "OK")

\* Take the highest, or the lowest, node out of a subtree: what it held, and
\* the subtree that is left.
RECURSIVE SnapFindHighest(_)
SnapFindHighest(n) ==
    IF n.right = NoTree
    THEN [pair |-> n.pair, rest |-> Result(n.left, "BALANCE")]
    ELSE LET below == SnapFindHighest(n.right)
         IN  [pair |-> below.pair, rest |-> Right(n, below.rest, SnapRightShrunk)]

RECURSIVE SnapFindLowest(_)
SnapFindLowest(n) ==
    IF n.left = NoTree
    THEN [pair |-> n.pair, rest |-> Result(n.right, "BALANCE")]
    ELSE LET below == SnapFindLowest(n.left)
         IN  [pair |-> below.pair, rest |-> Left(n, below.rest, SnapLeftShrunk)]

RECURSIVE SnapRemove(_, _)
SnapRemove(n, pair) ==
    CASE n = NoTree -> Result(n, "OK")
      [] n # NoTree /\ AVL_WhichDir(pair, n.pair) = "LT" ->
           Left(n, SnapRemove(n.left, pair), SnapLeftShrunk)
      [] n # NoTree /\ AVL_WhichDir(pair, n.pair) = "RT" ->
           Right(n, SnapRemove(n.right, pair), SnapRightShrunk)
      [] n # NoTree /\ AVL_WhichDir(pair, n.pair) = "same" /\ n.left # NoTree ->
           LET high == SnapFindHighest(n.left)
           IN  Left([n EXCEPT !.pair = high.pair], high.rest, SnapLeftShrunk)
      [] n # NoTree /\ AVL_WhichDir(pair, n.pair) = "same" /\ n.left = NoTree /\ n.right # NoTree ->
           LET low == SnapFindLowest(n.right)
           IN  Right([n EXCEPT !.pair = low.pair], low.rest, SnapRightShrunk)
      [] OTHER -> Result(NoTree, "BALANCE")

\* The walk of FindTTP: the node that holds the connection, in either
\* direction, or NoTree.
RECURSIVE Find(_, _)
Find(n, pair) ==
    IF n = NoTree THEN NoTree
    ELSE IF WhichDir(pair, n.pair) # "none" THEN n
    ELSE CASE AVL_WhichDir(pair, n.pair) = "LT" -> Find(n.left, pair)
           [] AVL_WhichDir(pair, n.pair) = "RT" -> Find(n.right, pair)
           [] OTHER -> NoTree

RECURSIVE Nodes(_)
Nodes(n) == IF n = NoTree THEN {} ELSE {n.pair} \cup Nodes(n.left) \cup Nodes(n.right)

-----------------------------------------------------------------------------
(* Packets of new connections, and connections that are removed.           *)

AvlInit == firsts \in Buckets /\ tree = NoTree /\ present = {}

\* A packet of a connection that is not there adds it.
InsertPair ==
    \E first \in firsts :
        LET pair == CopyAddr(first[1], first[2], first[3], first[4])
        IN  /\ Find(tree, pair) = NoTree
            /\ tree' = SnapInsert(tree, pair).tree
            /\ present' = present \cup {pair}
            /\ UNCHANGED firsts

\* The connection is removed: it closed, or was idle for too long.
RemovePair ==
    \E pair \in present :
        /\ tree' = SnapRemove(tree, pair).tree
        /\ present' = present \ {pair}
        /\ UNCHANGED firsts

AvlNext == InsertPair \/ RemovePair
AvlSpec == AvlInit /\ [][AvlNext]_avlVars

-----------------------------------------------------------------------------
RECURSIVE Height(_)
Height(n) ==
    IF n = NoTree THEN 0
    ELSE 1 + IF Height(n.left) > Height(n.right) THEN Height(n.left) ELSE Height(n.right)

\* The skew is which side is higher, and by one at most, in all the tree.
RECURSIVE Balanced(_)
Balanced(n) ==
    n # NoTree =>
        /\ Height(n.right) - Height(n.left) =
             CASE n.skew = "LEFT" -> -1 [] n.skew = "RIGHT" -> 1 [] OTHER -> 0
        /\ Balanced(n.left)
        /\ Balanced(n.right)

\* AVL_WhichDir is an order that does not depend on the direction: no connection
\* is of a host with itself, and all addresses are of one version.
Ordinary ==
    /\ \A first \in firsts : first[1] # first[3]
    /\ \A first, other \in firsts : first[1].version = other[1].version

\* After any connections came and went the tree of any bucket is balanced and its
\* skews say which side is higher.  In a bucket of ordinary connections it holds the
\* ones that are left and no other: the packets of both ends find each of them, so
\* that no packet opens a second record for a connection.
TreeIsSound ==
    /\ Balanced(tree)
    /\ Ordinary =>
         /\ Nodes(tree) = present
         /\ \A pair \in present :
              /\ Find(tree, pair) # NoTree
              /\ Find(tree, Swapped(pair)) # NoTree
              /\ Swapped(pair) \notin present
=============================================================================
