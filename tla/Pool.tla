-------------------------------- MODULE Pool ---------------------------------
(* The memory of tcptrace's records (pool.c, called through poolaccess.c):   *)
(* one pool for each type of record, fed by page-aligned buffers that        *)
(* MakeList cuts into blocks.  A pool counts the blocks it has free; the     *)
(* count, not the list, decides when a new buffer is allocated.              *)
(* A block is <<buffer, index>>; it is whole when it lies inside the buffer.  *)
(* All the program's pools are unsorted and every request is for one block.  *)
EXTENDS Integers, Sequences, FiniteSets, SequencesExt

CONSTANTS
  Kinds,      \* the types of record: tcp_pair, udp_pair, ptp_snap, rtconn...
  PerPage,    \* [Kinds -> blocks that fit in the buffer for one]
  PerBuffer,  \* [Kinds -> blocks that fit in the first buffer, made for DFLT_BLOCKS_NUM]
  MaxBuffers, \* bound: buffers of a pool
  MaxHeld     \* bound: records alive of a kind

\* A buffer has room for the blocks it is made for, at least one.
ASSUME PoolAssumption ==
  /\ PerPage \in [Kinds -> Nat \ {0}]
  /\ PerBuffer \in [Kinds -> Nat \ {0}]

VARIABLES
  pools,   \* << >> before the first request, or <<[list, block_no, sizes]>> for each kind
  held     \* the blocks the program holds, for each kind, in the order it got them

poolVars == <<pools, held>>

NullBlock == <<0, 0>>
Whole(pool, block) == block # NullBlock /\ block[2] <= pool.sizes[block[1]]

\* PoolValloc: a buffer of so many blocks more
PoolValloc(pool, blocks) ==
  [pool EXCEPT !.sizes = Append(@, blocks), !.block_no = @ + blocks]

\* MakeList: at least two blocks are linked, the second of them not whole when only one fits
MakeList(buffer, blocks) ==
  [i \in 1..(IF blocks < 2 THEN 2 ELSE blocks) |-> <<buffer, i>>]

\* MakeMemPool
MakeMemPool(k) ==
  LET pool == PoolValloc([list |-> << >>, block_no |-> 0, sizes |-> << >>], PerBuffer[k])
  IN [pool EXCEPT !.list = MakeList(1, PerBuffer[k])]

\* PoolInsertList: the new blocks come first
PoolInsertList(pool, blocks) == [pool EXCEPT !.list = blocks \o @]

PoolRealloc(pool, k) ==
  LET more == PoolValloc(pool, PerPage[k])
  IN PoolInsertList(more, MakeList(Len(more.sizes), PerPage[k]))

\* PoolMalloc: <<the pool, the block>>; an empty list would be a null pointer
PoolMalloc(pool, k) ==
  LET ready == IF pool.block_no < 1 THEN PoolRealloc(pool, k) ELSE pool
  IN IF ready.list = << >> THEN <<ready, NullBlock>>
     ELSE <<[ready EXCEPT !.list = Tail(@), !.block_no = @ - 1], Head(ready.list)>>

\* as if a freed block were put at the end
PoolFreeLast(pool, block) == [pool EXCEPT !.list = Append(@, block), !.block_no = @ + 1]

\* PoolFree: into an empty list without being counted
PoolFree(pool, block) ==
  IF pool.list = << >> THEN [pool EXCEPT !.list = <<block>>]
  ELSE [pool EXCEPT !.list = <<block>> \o @, !.block_no = @ + 1]

-----------------------------------------------------------------------------
PoolInit ==
  /\ pools = [k \in Kinds |-> << >>]
  /\ held = [k \in Kinds |-> << >>]

\* MakeTcpPair, MakeUdpPair, MakePtpSnap, ...: the pool is made on the first call
Make(k) ==
  LET pool == IF pools[k] = << >> THEN MakeMemPool(k) ELSE pools[k][1]
      got == PoolMalloc(pool, k)
  IN /\ Len(held[k]) < MaxHeld
     /\ Len(got[1].sizes) <= MaxBuffers
     /\ pools' = [pools EXCEPT ![k] = <<got[1]>>]
     /\ held' = [held EXCEPT ![k] = Append(@, got[2])]

\* FreeTcpPair and the others
Free(k) ==
  \E i \in DOMAIN held[k] :
    /\ pools' = [pools EXCEPT ![k] = <<PoolFree(pools[k][1], held[k][i])>>]
    /\ held' = [held EXCEPT ![k] = RemoveAt(@, i)]

PoolNext == \E k \in Kinds : Make(k) \/ Free(k)
PoolSpec == PoolInit /\ [][PoolNext]_poolVars

(* No two records ever share memory and none lies outside its buffer: a      *)
(* block that was handed out is whole, is not on the free list and is not    *)
(* held a second time, although the count of free blocks goes wrong when a   *)
(* block is freed into an empty list, and although MakeList links a block    *)
(* that is not whole behind a record bigger than half a page.  It is the     *)
(* count that keeps that block from being handed out (pool.c:262-300).       *)
BlocksAreWhole ==
  \A k \in Kinds : pools[k] # << >> =>
    LET pool == pools[k][1]
    IN /\ IsInjective(held[k]) /\ IsInjective(pool.list)
       /\ Range(held[k]) \cap Range(pool.list) = {}
       /\ \A i \in DOMAIN held[k] : Whole(pool, held[k][i])
       /\ pool.block_no <= Len(pool.list)
       /\ \A i \in 1..pool.block_no : Whole(pool, pool.list[i])
=============================================================================
