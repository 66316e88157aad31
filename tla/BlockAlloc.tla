----------------------------- MODULE BlockAlloc -----------------------------
(***************************************************************************)
(* The free list of data blocks: balloc(), bfree() and the formatting of   *)
(* the list in wipe() (src/kernel/kernel.c).  The superblock holds an      *)
(* array of LIST addresses; entry 0 is the address of a free block that    *)
(* itself holds LIST addresses, and so on, up to an entry 0 that is the    *)
(* superblock's own address.                                               *)
(*                                                                         *)
(* The kernel works on the copy of the superblock that it read at boot and *)
(* writes it back after every change.  Power may be lost at any time; the  *)
(* disk keeps what was written, the copy is read again at the next boot.   *)
(* Power lost inside wipe() leaves the old superblock over list blocks     *)
(* that are partly new; such a disk is not followed beyond the next wipe.  *)
(***************************************************************************)
EXTENDS Integers, Sequences

CONSTANTS
  LIST,    \* addresses in one list, 64 in the code
  LISTS,   \* list blocks that wipe() makes, 30 in the code
  DBLKNO,  \* fs_dblkno, the first data block, 66 in the code
  DSIZE    \* fs_dsize, the number of data blocks, 1982 in the code

ASSUME BlockAllocAssumption ==
  /\ LIST \in Nat \ {0, 1}
  /\ LISTS \in Nat \ {0}
  /\ DBLKNO \in Nat \ {0, 1}
  /\ DSIZE \in Nat
  /\ LISTS * LIST < DSIZE
  /\ DSIZE < LISTS * LIST + LIST

SBLKNO    == 1    \* fs_sblkno
FULL      == -1   \* the answer of balloc() when the disk is full
TORN      == -1   \* power was lost inside the last wipe()
Data      == DBLKNO..(DBLKNO + DSIZE - 1)
Index     == 0..(LIST - 1)
Lists     == [Index -> Data \cup {0, SBLKNO}]

\* The contents of a block that holds file data, as far as this module cares
FileData  == [j \in Index |-> 0]

VARIABLES
  fdb,      \* fs.fs_fdb in memory
  fdbhead,  \* fs.fs_fdbhead in memory
  sb,       \* the superblock on disk
  blk,      \* the data blocks on disk
  chain,    \* auxiliary: the list blocks in the free list, outermost last
  used,     \* auxiliary: the blocks that callers own
  ret,      \* auxiliary: the answer of the last balloc()
  wiped     \* the list blocks that a wipe() in progress has written, 0 if there is none,
            \* or TORN

vars == <<fdb, fdbhead, sb, blk, chain, used, ret, wiped>>

-----------------------------------------------------------------------------
(* wipe(), up to the point where the superblock is written. *)

\* The number of list entries that are in use in the superblock
WipeHead == (DSIZE % LIST) - 1

\* The list that goes into block DBLKNO + i
WipeList(i) ==
  [j \in Index |-> IF j > 0 THEN (LIST - 1) * i + (j - 1) + (DBLKNO + LISTS)
                   ELSE IF i = LISTS - 1 THEN SBLKNO ELSE i + 1 + DBLKNO]

\* The superblock's own list; the entries behind WipeHead are left as they were
WipeFdb(old) ==
  [j \in Index |-> IF j = 0 THEN DBLKNO
                   ELSE IF j <= WipeHead THEN j + (DBLKNO + LISTS * LIST) ELSE old[j]]

\* The data blocks once all lists are written
WipeBlk(old) == [a \in Data |-> IF a < DBLKNO + LISTS THEN WipeList(a - DBLKNO) ELSE old[a]]

WipeChain == [i \in 1..LISTS |-> DBLKNO + LISTS - i]

\* The blocks that wipe() puts into the free list
WipeListed ==
  {DBLKNO + i : i \in 0..(LISTS - 1)}
    \cup (UNION {{WipeList(i)[j] : j \in 1..(LIST - 1)} : i \in 0..(LISTS - 1)})
    \cup {j + (DBLKNO + LISTS * LIST) : j \in 1..WipeHead}

\* A freshly formatted disk, and the kernel booted from it
Init ==
  /\ fdb     = WipeFdb(FileData)
  /\ fdbhead = WipeHead
  /\ sb      = [fdb |-> fdb, fdbhead |-> fdbhead]
  /\ blk     = WipeBlk([a \in Data |-> FileData])
  /\ chain   = WipeChain
  /\ used    = {}
  /\ ret     = FULL
  /\ wiped   = 0

-----------------------------------------------------------------------------
Top(s) == s[Len(s)]
Pop(s) == SubSeq(s, 1, Len(s) - 1)

\* disk_wr( fs.fs_sblkno, &fs, ... )
UpdateSb == sb' = [fdb |-> fdb', fdbhead |-> fdbhead']

\* The kernel is not inside wipe() and the last one was finished
Ready == wiped = 0

\* wipe() writes the list block after those already written
WipeLists ==
  LET i == IF wiped = TORN THEN 0 ELSE wiped
  IN /\ i < LISTS
     /\ blk'     = [blk EXCEPT ![DBLKNO + i] = WipeList(i)]
     /\ wiped'   = i + 1
     /\ fdbhead' = WipeHead
     /\ used'    = {}
     /\ UNCHANGED <<fdb, sb, chain, ret>>

\* and after the last of them the superblock
WipeSuper ==
  /\ wiped = LISTS
  /\ fdb'     = WipeFdb(fdb)
  /\ fdbhead' = WipeHead
  /\ UpdateSb
  /\ chain'   = WipeChain
  /\ wiped'   = 0
  /\ UNCHANGED <<blk, used, ret>>

\* balloc() with more than one address in the superblock's list
BallocList ==
  /\ fdbhead > 0
  /\ fdbhead' = fdbhead - 1
  /\ ret'     = fdb[fdbhead]
  /\ used'    = used \cup {fdb[fdbhead]}
  /\ UNCHANGED <<fdb, blk, chain, wiped>>
  /\ UpdateSb

\* Mutant of BallocRefill: the list in the block is not read
BallocRefillStale ==
  /\ fdbhead = 0
  /\ fdb[0] # SBLKNO
  /\ ret'     = fdb[0]
  /\ used'    = used \cup {fdb[0]}
  /\ fdbhead' = LIST - 1
  /\ UNCHANGED <<fdb, blk, wiped>>
  /\ UpdateSb
  /\ chain'   = Pop(chain)

\* balloc() that hands out the list block itself, after reading the list in it
BallocRefill ==
  /\ fdbhead = 0
  /\ fdb[0] # SBLKNO
  /\ ret'     = fdb[0]
  /\ used'    = used \cup {fdb[0]}
  /\ fdb'     = blk[fdb[0]]
  /\ fdbhead' = LIST - 1
  /\ UpdateSb
  /\ chain'   = Pop(chain)
  /\ UNCHANGED <<blk, wiped>>

\* Mutant of BallocFull: an empty list in the superblock is taken for a full disk
BallocFullEarly ==
  /\ fdbhead = 0
  /\ ret' = FULL
  /\ UNCHANGED <<fdb, fdbhead, sb, blk, chain, used, wiped>>

BallocFull ==
  /\ fdbhead = 0
  /\ fdb[0] = SBLKNO
  /\ ret' = FULL
  /\ UNCHANGED <<fdb, fdbhead, sb, blk, chain, used, wiped>>

\* Mutant of BfreeList: the limit is off by one
BfreeListOffByOne(a) ==
  /\ fdbhead < LIST
  /\ fdbhead' = fdbhead + 1
  /\ fdb'     = [j \in Index |-> IF j = fdbhead + 1 THEN a ELSE fdb[j]]
  /\ UpdateSb
  /\ used'    = used \ {a}
  /\ UNCHANGED <<blk, chain, ret, wiped>>

\* bfree( a ) with room in the superblock's list
BfreeList(a) ==
  /\ fdbhead < LIST - 1
  /\ fdbhead' = fdbhead + 1
  /\ fdb'     = [fdb EXCEPT ![fdbhead + 1] = a]
  /\ UpdateSb
  /\ used'    = used \ {a}
  /\ UNCHANGED <<blk, chain, ret, wiped>>

\* Mutant of BfreeSpill: the head is replaced before the list is written to the block
BfreeSpillSwapped(a) ==
  /\ fdbhead = LIST - 1
  /\ fdb'     = [fdb EXCEPT ![0] = a]
  /\ blk'     = [blk EXCEPT ![a] = fdb']
  /\ fdbhead' = 0
  /\ UpdateSb
  /\ chain'   = Append(chain, a)
  /\ used'    = used \ {a}
  /\ UNCHANGED <<ret, wiped>>

\* bfree( a ) that moves the superblock's list into the freed block
BfreeSpill(a) ==
  /\ fdbhead = LIST - 1
  /\ blk'     = [blk EXCEPT ![a] = fdb]
  /\ fdb'     = [fdb EXCEPT ![0] = a]
  /\ fdbhead' = 0
  /\ UpdateSb
  /\ chain'   = Append(chain, a)
  /\ used'    = used \ {a}
  /\ UNCHANGED <<ret, wiped>>

\* Mutant of BfreeSpillCrash: the superblock is written before the block
BfreeSpillCrashSwapped(a) ==
  /\ fdbhead = LIST - 1
  /\ fdb'     = [fdb EXCEPT ![0] = a]
  /\ fdbhead' = 0
  /\ UpdateSb
  /\ UNCHANGED <<blk, chain, used, ret, wiped>>

\* Power is lost between the two writes of such a bfree, and the kernel boots
BfreeSpillCrash(a) ==
  /\ fdbhead = LIST - 1
  /\ blk'     = [blk EXCEPT ![a] = fdb]
  /\ fdb'     = sb.fdb
  /\ fdbhead' = sb.fdbhead
  /\ UNCHANGED <<sb, chain, used, ret, wiped>>

\* kernel_handler_rst reads the superblock; whatever was in memory is gone, and a wipe()
\* that was in progress stays unfinished
Reboot ==
  /\ fdb'     = sb.fdb
  /\ fdbhead' = sb.fdbhead
  /\ wiped'   = IF Ready THEN 0 ELSE TORN
  /\ UNCHANGED <<sb, blk, chain, used, ret>>

\* The owner of a block writes file data into it
WriteData(a) ==
  /\ blk' = [blk EXCEPT ![a] = FileData]
  /\ UNCHANGED <<fdb, fdbhead, sb, chain, used, ret, wiped>>

Next ==
  \/ WipeLists \/ WipeSuper \/ Reboot
  \/ Ready /\ (BallocList \/ BallocRefill \/ BallocFull)
  \/ Ready /\ \E a \in used :
       BfreeList(a) \/ BfreeSpill(a) \/ BfreeSpillCrash(a) \/ WriteData(a)

Spec == Init /\ [][Next]_vars

-----------------------------------------------------------------------------
(* Properties. *)

\* The addresses in the superblock's list, and those in the list blocks
Listed  == {fdb[j] : j \in 1..fdbhead}
Chained == UNION {{blk[chain[i]][j] : j \in 1..(LIST - 1)} : i \in 1..Len(chain)}

\* All blocks that balloc() can still hand out
Free == Listed \cup Chained \cup {chain[i] : i \in 1..Len(chain)}

\* Every variable has its type: the list head stays inside the array, and the lists
\* hold nothing but data blocks, the end mark and unused entries.
TypeOK ==
  /\ fdb \in Lists
  /\ fdbhead \in Index
  /\ sb \in [fdb : Lists, fdbhead : Index]
  /\ blk \in [Data -> Lists]
  /\ chain \in Seq(Data)
  /\ used \subseteq Data
  /\ ret \in Data \cup {FULL}
  /\ wiped \in (0..LISTS) \cup {TORN}

\* Entry 0 of the superblock's list and of each list block leads to the next list block
Linked ==
  /\ fdb[0] = (IF chain = <<>> THEN SBLKNO ELSE Top(chain))
  /\ \A i \in 1..Len(chain) :
       blk[chain[i]][0] = IF i = 1 THEN SBLKNO ELSE chain[i - 1]

Disjoint == Free \cap used = {}

\* Following entry 0 from the superblock visits exactly the list blocks, in order,
\* and ends at the superblock's own address: the free list on disk is well formed,
\* whatever was written into blocks that were handed out and wherever power was lost,
\* except inside a wipe() that was not repeated.
WellLinked == Ready => Linked

\* No block is both free and owned, so balloc() never hands out a block twice; a wipe()
\* that was cut off is made good by the next one.
NoDoubleAlloc == Ready => Disjoint

\* No block is lost between two formats: every balloc, bfree, write of file data and
\* loss of power leaves the blocks that are free or owned, taken together, the same.
Conserved == [][Ready /\ Ready' => Free' \cup used' = Free \cup used]_vars

\* What README.md says of wipe: "All blocks will be added to list of available blocks
\* when wipe (format) occurs."
AllListed == [][~Ready /\ Ready' => Free' = Data]_vars

\* The allocator implements the set of free blocks.
Pool == INSTANCE FreePool WITH
          Blocks <- WipeListed, free <- IF Ready THEN Free ELSE {}, ready <- Ready
ImplementsPool == Pool!PoolSpec
=============================================================================
