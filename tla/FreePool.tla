------------------------------ MODULE FreePool ------------------------------
(***************************************************************************)
(* What balloc() and bfree() promise to their callers: a set of free       *)
(* blocks.  Any free block may be handed out, "disk full" is the answer    *)
(* only when there is none, and a block comes back only when it is freed   *)
(* or the disk is formatted.  While the disk is being formatted no block   *)
(* can be had, and none of the old ones belongs to anybody.                *)
(***************************************************************************)
CONSTANTS
  Blocks,   \* the blocks that formatting makes available
  FULL      \* the answer "disk full"

VARIABLES
  free,     \* blocks that can be handed out
  used,     \* blocks that belong to callers
  ret,      \* the answer of the last balloc()
  ready     \* the disk is formatted

poolVars == <<free, used, ret, ready>>

PoolInit == free = Blocks /\ used = {} /\ ret = FULL /\ ready = TRUE

PoolBegin == free' = {} /\ used' = {} /\ ready' = FALSE /\ UNCHANGED ret

PoolFormat == ~ready /\ free' = Blocks /\ ready' = TRUE /\ UNCHANGED <<used, ret>>

PoolAlloc ==
  /\ ready
  /\ UNCHANGED ready
  /\ \E b \in free :
       /\ free' = free \ {b}
       /\ used' = used \cup {b}
       /\ ret'  = b

PoolAllocFull == ready /\ free = {} /\ ret' = FULL /\ UNCHANGED <<free, used, ready>>

PoolFree ==
  /\ ready
  /\ UNCHANGED <<ret, ready>>
  /\ \E b \in used :
       /\ free' = free \cup {b}
       /\ used' = used \ {b}

PoolNext == PoolBegin \/ PoolFormat \/ PoolAlloc \/ PoolAllocFull \/ PoolFree

PoolSpec == PoolInit /\ [][PoolNext]_poolVars
=============================================================================
