----------------------------- MODULE BlockDevice -----------------------------
(***************************************************************************)
(* What disk_wr, disk_rd and disk_get_block_num/len promise to the kernel: *)
(* a call on a block of the disk is carried out exactly once between its   *)
(* start and its return; a call on any other address does nothing.         *)
(***************************************************************************)
EXTENDS Integers, Sequences

CONSTANTS
  Calls,      \* the calls [op, a, x] that the kernel makes
  Blocks,     \* the block addresses
  Bytes,      \* the byte values
  BLOCK_LEN,  \* bytes in a block
  Conf        \* the bytes that describe the disk

VARIABLES
  call,   \* the call in progress, or <<>>
  done,   \* whether it has been carried out
  store,  \* the contents of the blocks
  buf     \* the result of the last call that returned data

devVars == <<call, done, store, buf>>

Accepts(c) == c.op = "conf" \/ c.a \in Blocks

\* A block after its first bytes were overwritten with x
Overwrite(block, x) ==
  [i \in 1..BLOCK_LEN |-> IF i <= Len(x) THEN x[i] ELSE block[i]]

DevInit ==
  /\ call = <<>> /\ done = FALSE /\ buf = <<>>
  /\ store \in [Blocks -> [1..BLOCK_LEN -> Bytes]]

DevInvoke ==
  /\ call = <<>>
  /\ \E c \in Calls : call' = <<c>>
  /\ done' = FALSE
  /\ UNCHANGED <<store, buf>>

DevPerform ==
  /\ call # <<>> /\ ~done /\ Accepts(call[1])
  /\ done' = TRUE
  /\ store' = IF call[1].op = "wr"
                THEN [store EXCEPT ![call[1].a] = Overwrite(@, call[1].x)]
                ELSE store
  /\ UNCHANGED <<call, buf>>

DevReturn ==
  /\ call # <<>> /\ (Accepts(call[1]) => done)
  /\ call' = <<>>
  /\ buf' = CASE call[1].op = "rd" /\ done   -> store[call[1].a]
              [] call[1].op = "conf"         -> Conf
              [] OTHER                       -> buf
  /\ UNCHANGED <<done, store>>

DevNext == DevInvoke \/ DevPerform \/ DevReturn

DevSpec == DevInit /\ [][DevNext]_devVars
=============================================================================
