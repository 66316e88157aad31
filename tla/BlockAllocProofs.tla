-------------------------- MODULE BlockAllocProofs --------------------------
(***************************************************************************)
(* Proofs about the free list of data blocks, for every size of the lists, *)
(* number of list blocks and size of the disk.                             *)
(***************************************************************************)
EXTENDS BlockAlloc, SequenceTheorems, TLAPS

\* The list blocks of the free list
ChainSet == {chain[i] : i \in 1..Len(chain)}

\* All places of the free list hold different data blocks, none of them in use.
Apart ==
  /\ \A i, k \in 1..Len(chain) : chain[i] = chain[k] => i = k
  /\ \A c \in ChainSet : c \notin used
  /\ \A j \in 1..fdbhead : fdb[j] \in Data /\ fdb[j] \notin ChainSet /\ fdb[j] \notin used
  /\ \A c \in ChainSet : \A j \in 1..(LIST - 1) :
       blk[c][j] \in Data /\ blk[c][j] \notin ChainSet /\ blk[c][j] \notin used
  /\ \A j, k \in 1..fdbhead : fdb[j] = fdb[k] => j = k
  /\ \A c, d \in ChainSet : \A j, k \in 1..(LIST - 1) :
       blk[c][j] = blk[d][k] => c = d /\ j = k
  /\ \A c \in ChainSet : \A k \in 1..(LIST - 1) : \A j \in 1..fdbhead : fdb[j] # blk[c][k]

\* The copy in memory and the superblock on disk agree between two kernel calls.
SbCurrent == sb = [fdb |-> fdb, fdbhead |-> fdbhead]

(***************************************************************************)
(* NoDoubleAlloc is not inductive: that a refill hands out a block nobody  *)
(* owns, and brings in only such blocks, needs the links between the list  *)
(* blocks and all their entries to be apart from each other.               *)
(***************************************************************************)
IInv == TypeOK /\ SbCurrent /\ Linked /\ Apart

\* The list blocks that an unfinished wipe() has already written
Written == \A i \in 0..(wiped - 1) : blk[DBLKNO + i] = WipeList(i)

(***************************************************************************)
(* Inside wipe(), and after one that was cut off, all that is known of the *)
(* disk is which lists are new; it is enough for the superblock, written   *)
(* last, to restore the invariant.                                         *)
(***************************************************************************)
WInv == TypeOK /\ (Ready => IInv) /\ (~Ready => Written /\ used = {})

\* The data block that wipe() puts in no list
Skipped == DBLKNO + LISTS * LIST

-----------------------------------------------------------------------------
(* The set of free blocks. *)

\* A block is free when it is in the superblock's list, in a list block, or is one.
LEMMA FreeMembers ==
  ASSUME NEW x
  PROVE  x \in Free <=> \/ \E j \in 1..fdbhead : x = fdb[j]
                        \/ \E c \in ChainSet : \E j \in 1..(LIST - 1) : x = blk[c][j]
                        \/ x \in ChainSet
BY DEF Free, Listed, Chained, ChainSet

\* The same after a step.
LEMMA FreeMembersNext ==
  ASSUME NEW x
  PROVE  x \in Free' <=> \/ \E j \in 1..fdbhead' : x = fdb'[j]
                         \/ \E c \in ChainSet' : \E j \in 1..(LIST - 1) : x = blk'[c][j]
                         \/ x \in ChainSet'
BY DEF Free, Listed, Chained, ChainSet

\* Without its outermost list block the chain holds the other list blocks, in order.
LEMMA PopChain ==
  ASSUME TypeOK, Apart, chain # <<>>
  PROVE  LET r == Pop(chain) IN
         /\ r \in Seq(Data)
         /\ Len(r) = Len(chain) - 1
         /\ \A i \in 1..(Len(chain) - 1) : r[i] = chain[i]
         /\ {r[i] : i \in 1..Len(r)} = ChainSet \ {Top(chain)}
         /\ Top(chain) \in ChainSet
<1>0. PICK n \in Nat \ {0} : n = Len(chain)
  BY LenProperties, EmptySeq DEF TypeOK
<1>1. PICK r : r = Pop(chain) OBVIOUS
<1>2. \A i \in 1..n : chain[i] \in Data
  BY <1>0, ElementOfSeq DEF TypeOK
<1>3. /\ r \in Seq(Data)
      /\ Len(r) = n - 1
      /\ \A i \in 1..(n - 1) : r[i] = chain[i]
  <2>1. \A i \in 1..(n - 1) : chain[i] \in Data
    BY <1>2
  <2>2. /\ r \in Seq(Data)
        /\ Len(r) = IF 1 <= n - 1 THEN (n - 1) - 1 + 1 ELSE 0
        /\ \A i \in 1..((n - 1) - 1 + 1) : r[i] = chain[1 + i - 1]
    BY <1>0, <1>1, <2>1, SubSeqProperties DEF Pop
  <2>3. (IF 1 <= n - 1 THEN (n - 1) - 1 + 1 ELSE 0) = n - 1 /\ (n - 1) - 1 + 1 = n - 1
    OBVIOUS
  <2>4. \A i \in 1..(n - 1) : 1 + i - 1 = i
    OBVIOUS
  <2>5. \A i \in 1..(n - 1) : r[i] = chain[i]
    BY <2>2, <2>3, <2>4
  <2> QED BY <2>2, <2>3, <2>5
<1>4. {r[i] : i \in 1..Len(r)} = ChainSet \ {Top(chain)}
  <2>1. ASSUME NEW i \in 1..(n - 1) PROVE r[i] \in ChainSet \ {Top(chain)}
    <3>1. i \in 1..n /\ i # n /\ n \in 1..n
      OBVIOUS
    <3>2. r[i] = chain[i]
      BY <1>3
    <3> QED BY <1>0, <3>1, <3>2 DEF ChainSet, Top, Apart
  <2>2. ASSUME NEW i \in 1..n, chain[i] # Top(chain) PROVE \E k \in 1..(n - 1) : chain[i] = r[k]
    <3>1. i # n
      BY <1>0, <2>2 DEF Top
    <3>2. i \in 1..(n - 1)
      BY <3>1
    <3> QED BY <1>3, <3>2
  <2>3. Len(r) = n - 1 /\ ChainSet = {chain[i] : i \in 1..n}
    BY <1>0, <1>3 DEF ChainSet
  <2> QED BY <2>1, <2>2, <2>3
<1>5. Top(chain) \in ChainSet
  <2>1. n \in 1..n
    OBVIOUS
  <2> QED BY <1>0, <2>1 DEF Top, ChainSet
<1> QED BY <1>0, <1>1, <1>3, <1>4, <1>5

-----------------------------------------------------------------------------
(* Each operation: the invariant is kept and the free set changes as promised. *)

\* balloc() from the superblock's list keeps the invariant and takes one block out of Free.
LEMMA BallocListStep ==
  ASSUME IInv, BallocList
  PROVE  /\ IInv'
         /\ fdb[fdbhead] \in Free
         /\ Free' = Free \ {fdb[fdbhead]}
<1> DEFINE a == fdb[fdbhead]
<1>0. LIST \in Nat \ {0, 1} /\ fdbhead \in 1..(LIST - 1) /\ fdbhead' = fdbhead - 1 /\ fdbhead' \in Index
  BY BlockAllocAssumption DEF IInv, TypeOK, Index, BallocList
<1>1. /\ ret' = a /\ used' = used \cup {a}
      /\ fdb' = fdb /\ blk' = blk /\ chain' = chain /\ wiped' = wiped
      /\ sb' = [fdb |-> fdb', fdbhead |-> fdbhead']
  BY DEF BallocList, UpdateSb
<1>2. ChainSet' = ChainSet
  BY <1>1 DEF ChainSet
<1>3. fdbhead \in 1..fdbhead /\ \A j \in 1..fdbhead' : j \in 1..fdbhead /\ j # fdbhead
  BY <1>0
<1>4. a \in Data /\ a \notin ChainSet
  BY <1>3 DEF IInv, Apart
<1> HIDE DEF a
<1>5. TypeOK' /\ SbCurrent'
  BY <1>0, <1>1, <1>4 DEF IInv, TypeOK, SbCurrent, Lists
<1>6. Linked'
  BY <1>1 DEF IInv, Linked, Top
<1>7. Apart'
  <2>1. \A j \in 1..fdbhead' : fdb[j] # a
    BY <1>3 DEF IInv, Apart, a
  <2>2. \A c \in ChainSet : \A j \in 1..(LIST - 1) : blk[c][j] # a
    BY <1>3 DEF IInv, Apart, a
  <2> QED BY <1>1, <1>2, <1>3, <1>4, <2>1, <2>2 DEF IInv, Apart
<1>8. a \in Free
  BY <1>3, FreeMembers DEF a
<1>9. ASSUME NEW x PROVE x \in Free' <=> x \in Free /\ x # a
  <2>1. (\E j \in 1..fdbhead' : x = fdb[j]) <=> (\E j \in 1..fdbhead : x = fdb[j]) /\ x # a
    <3>1. \A j \in 1..fdbhead : j \in 1..fdbhead' \/ j = fdbhead
      BY <1>0
    <3> QED BY <1>3, <3>1 DEF IInv, Apart, a
  <2>2. \A c \in ChainSet : \A j \in 1..(LIST - 1) : blk[c][j] # a
    BY <1>3 DEF IInv, Apart, a
  <2> QED BY <1>1, <1>2, <1>4, <2>1, <2>2, FreeMembers, FreeMembersNext
<1>10. Free' = Free \ {a}
  BY <1>9
<1> QED BY <1>5, <1>6, <1>7, <1>8, <1>10 DEF IInv, a

\* balloc() of the list block itself does so too: the list that is read from the block
\* is linked to the rest of the chain and shares no address with it.
LEMMA BallocRefillStep ==
  ASSUME IInv, BallocRefill
  PROVE  /\ IInv'
         /\ fdb[0] \in Free
         /\ Free' = Free \ {fdb[0]}
<1>0. LIST \in Nat \ {0, 1} /\ LIST - 1 \in Index /\ 0 \in Index
  BY BlockAllocAssumption DEF Index
<1>1. PICK a : a = fdb[0] OBVIOUS
<1>2. /\ a # SBLKNO /\ fdbhead = 0 /\ fdbhead' = LIST - 1
      /\ ret' = a /\ used' = used \cup {a} /\ fdb' = blk[a] /\ blk' = blk /\ wiped' = wiped
      /\ chain' = Pop(chain) /\ sb' = [fdb |-> fdb', fdbhead |-> fdbhead']
  BY <1>1 DEF BallocRefill, UpdateSb
<1>3. chain # <<>> /\ a = Top(chain)
  BY <1>1, <1>2 DEF IInv, Linked
<1>4. PICK n \in Nat \ {0} : n = Len(chain)
  BY <1>3, LenProperties, EmptySeq DEF IInv, TypeOK
<1>5. /\ chain' \in Seq(Data) /\ Len(chain') = n - 1
      /\ \A i \in 1..(n - 1) : chain'[i] = chain[i]
      /\ ChainSet' = ChainSet \ {a} /\ a \in ChainSet
  BY <1>2, <1>3, <1>4, PopChain DEF IInv, ChainSet
<1>6. a \in Data /\ fdb' \in Lists
  <2>1. a \in Data
    BY <1>5, ElementOfSeq DEF IInv, TypeOK, ChainSet
  <2> QED BY <1>2, <2>1 DEF IInv, TypeOK
<1>7. TypeOK' /\ SbCurrent'
  BY <1>0, <1>2, <1>5, <1>6 DEF IInv, TypeOK, SbCurrent
<1>8. Linked'
  <2>0. \A i \in 1..n : blk[chain[i]][0] = IF i = 1 THEN SBLKNO ELSE chain[i - 1]
    BY <1>4 DEF IInv, Linked
  <2>1. a = chain[n] /\ n \in 1..n
    BY <1>3, <1>4 DEF Top
  <2>2. fdb'[0] = IF n = 1 THEN SBLKNO ELSE chain[n - 1]
    BY <1>2, <2>0, <2>1
  <2>3. n = 1 <=> chain' = <<>>
    BY <1>5, EmptySeq
  <2>4. n # 1 => Top(chain') = chain[n - 1]
    <3> SUFFICES ASSUME n # 1 PROVE Top(chain') = chain[n - 1]
      OBVIOUS
    <3>1. n - 1 \in 1..(n - 1)
      OBVIOUS
    <3> QED BY <1>5, <3>1 DEF Top
  <2>5. \A i \in 1..(n - 1) :
          blk'[chain'[i]][0] = IF i = 1 THEN SBLKNO ELSE chain'[i - 1]
    <3> SUFFICES ASSUME NEW i \in 1..(n - 1)
                 PROVE  blk[chain[i]][0] = IF i = 1 THEN SBLKNO ELSE chain'[i - 1]
      BY <1>2, <1>5
    <3>1. i \in 1..n /\ (i # 1 => i - 1 \in 1..(n - 1))
      OBVIOUS
    <3> QED BY <1>5, <2>0, <3>1
  <2> QED BY <1>5, <2>2, <2>3, <2>4, <2>5 DEF Linked
<1>9. Apart'
  <2>1. \A i, k \in 1..(n - 1) : chain'[i] = chain'[k] => i = k
    <3>1. \A i \in 1..(n - 1) : i \in 1..n
      OBVIOUS
    <3> QED BY <1>4, <1>5, <3>1 DEF IInv, Apart
  <2>2. \A c \in ChainSet : \A j \in 1..(LIST - 1) : blk[c][j] # a
    BY <1>5 DEF IInv, Apart
  <2> QED BY <1>2, <1>5, <2>1, <2>2 DEF IInv, Apart
<1>10. a \in Free
  BY <1>5, FreeMembers
<1>11. ASSUME NEW x PROVE x \in Free' <=> x \in Free /\ x # a
  <2>1. \A c \in ChainSet : \A j \in 1..(LIST - 1) : blk[c][j] # a
    BY <1>5 DEF IInv, Apart
  <2>2. 1..fdbhead = {}
    BY <1>2
  <2> QED BY <1>2, <1>5, <2>1, <2>2, FreeMembers, FreeMembersNext
<1> QED BY <1>1, <1>7, <1>8, <1>9, <1>10, <1>11 DEF IInv

\* balloc() says "full" only when the free list is empty.
LEMMA BallocFullStep ==
  ASSUME IInv, BallocFull
  PROVE  Free = {}
<1>1. fdbhead = 0 /\ fdb[0] = SBLKNO
  BY DEF BallocFull
<1>2. chain = <<>>
  <2> SUFFICES ASSUME chain # <<>> PROVE FALSE
    OBVIOUS
  <2>1. Top(chain) = SBLKNO
    BY <1>1 DEF IInv, Linked
  <2>2. PICK n \in Nat \ {0} : n = Len(chain)
    BY LenProperties, EmptySeq DEF IInv, TypeOK
  <2>3. n \in 1..n
    OBVIOUS
  <2>4. Top(chain) \in Data
    BY <2>2, <2>3, ElementOfSeq DEF Top, IInv, TypeOK
  <2>5. SBLKNO \notin Data
    BY BlockAllocAssumption DEF SBLKNO, Data
  <2> QED BY <2>1, <2>4, <2>5
<1>3. 1..fdbhead = {} /\ ChainSet = {}
  BY <1>1, <1>2 DEF ChainSet
<1> QED BY <1>3, FreeMembers

\* bfree() into the superblock's list keeps the invariant and adds the block to Free.
LEMMA BfreeListStep ==
  ASSUME IInv, NEW a \in used, BfreeList(a)
  PROVE  IInv' /\ Free' = Free \cup {a}
<1>0. PICK h \in Nat : h = fdbhead
  BY DEF IInv, TypeOK, Index
<1>1. /\ LIST \in Nat \ {0, 1} /\ h < LIST - 1 /\ h + 1 \in Index /\ h + 1 \in 1..(h + 1)
      /\ \A j \in 1..(h + 1) : j \in 1..h \/ j = h + 1
      /\ \A j \in 1..h : j \in 1..(h + 1) /\ j \in Index /\ j # h + 1
      /\ 0 # h + 1 /\ 0 \in Index
  BY <1>0, BlockAllocAssumption DEF BfreeList, Index
<1>2. /\ fdbhead' = h + 1 /\ fdb' = [fdb EXCEPT ![h + 1] = a] /\ used' = used \ {a}
      /\ blk' = blk /\ chain' = chain /\ ret' = ret /\ wiped' = wiped
      /\ sb' = [fdb |-> fdb', fdbhead |-> fdbhead']
  BY <1>0 DEF BfreeList, UpdateSb
<1>3. fdb \in Lists /\ a \in Data
  BY DEF IInv, TypeOK
<1>4. /\ fdb'[h + 1] = a /\ fdb'[0] = fdb[0]
      /\ \A j \in 1..h : fdb'[j] = fdb[j]
  BY <1>1, <1>2, <1>3 DEF Lists
<1>5. ChainSet' = ChainSet
  BY <1>2 DEF ChainSet
<1>6. TypeOK' /\ SbCurrent'
  <2>1. fdb' \in Lists
    BY <1>1, <1>2, <1>3 DEF Lists
  <2> QED BY <1>1, <1>2, <2>1 DEF IInv, TypeOK, SbCurrent
<1>7. Linked'
  BY <1>2, <1>4 DEF IInv, Linked, Top
<1>8. Apart'
  <2>1. a \notin ChainSet /\ \A j \in 1..h : fdb[j] # a
    BY <1>0 DEF IInv, Apart
  <2>2. \A c \in ChainSet : \A j \in 1..(LIST - 1) : blk[c][j] # a
    BY DEF IInv, Apart
  <2>3. \A j \in 1..(h + 1) : fdb'[j] \in Data /\ fdb'[j] \notin ChainSet /\ fdb'[j] \notin used'
    BY <1>0, <1>1, <1>2, <1>3, <1>4, <2>1 DEF IInv, Apart
  <2>4. \A j, k \in 1..(h + 1) : fdb'[j] = fdb'[k] => j = k
    BY <1>0, <1>1, <1>4, <2>1 DEF IInv, Apart
  <2>5. \A c \in ChainSet : \A k \in 1..(LIST - 1) : \A j \in 1..(h + 1) : fdb'[j] # blk[c][k]
    BY <1>0, <1>1, <1>4, <2>2 DEF IInv, Apart
  <2> QED BY <1>2, <1>5, <2>3, <2>4, <2>5 DEF IInv, Apart
<1>9. ASSUME NEW x PROVE x \in Free' <=> x \in Free \/ x = a
  <2>1. (\E j \in 1..(h + 1) : x = fdb'[j]) <=> (\E j \in 1..h : x = fdb[j]) \/ x = a
    BY <1>1, <1>4
  <2> QED BY <1>0, <1>2, <1>5, <2>1, FreeMembers, FreeMembersNext
<1> QED BY <1>6, <1>7, <1>8, <1>9 DEF IInv

\* bfree() that turns the freed block into a list block does so too, although it moves
\* every address of the superblock's list to disk.
LEMMA BfreeSpillStep ==
  ASSUME IInv, NEW a \in used, BfreeSpill(a)
  PROVE  IInv' /\ Free' = Free \cup {a}
<1>0. PICK n \in Nat : n = Len(chain)
  BY LenProperties DEF IInv, TypeOK
<1>1. LIST \in Nat \ {0, 1} /\ 0 \in Index /\ 1..0 = {} /\ n + 1 \in 1..(n + 1)
  BY BlockAllocAssumption DEF Index
<1>2. /\ fdbhead = LIST - 1 /\ fdbhead' = 0
      /\ blk' = [blk EXCEPT ![a] = fdb] /\ fdb' = [fdb EXCEPT ![0] = a]
      /\ chain' = Append(chain, a) /\ used' = used \ {a} /\ ret' = ret /\ wiped' = wiped
      /\ sb' = [fdb |-> fdb', fdbhead |-> fdbhead']
  BY DEF BfreeSpill, UpdateSb
<1>3. fdb \in Lists /\ a \in Data /\ blk \in [Data -> Lists] /\ chain \in Seq(Data)
  BY DEF IInv, TypeOK
<1>4. /\ chain' \in Seq(Data) /\ Len(chain') = n + 1
      /\ \A i \in 1..n : chain'[i] = chain[i]
      /\ chain'[n + 1] = a
  BY <1>0, <1>2, <1>3, AppendProperties
<1>5. /\ \A i \in 1..(n + 1) : i \in 1..n \/ i = n + 1
      /\ \A i \in 1..n : i \in 1..(n + 1)
  BY <1>0
<1>6. ChainSet' = ChainSet \cup {a}
  BY <1>0, <1>1, <1>4, <1>5 DEF ChainSet
<1>7. a \notin ChainSet /\ ChainSet \subseteq Data
  BY <1>3, ElementOfSeq DEF IInv, Apart, ChainSet
<1>8. blk'[a] = fdb /\ \A c \in ChainSet : blk'[c] = blk[c]
  BY <1>2, <1>3, <1>7
<1>9. TypeOK' /\ SbCurrent'
  <2>1. fdb' \in Lists
    BY <1>1, <1>2, <1>3 DEF Lists
  <2>2. blk' \in [Data -> Lists]
    BY <1>2, <1>3
  <2> QED BY <1>1, <1>2, <1>4, <2>1, <2>2 DEF IInv, TypeOK, SbCurrent
<1>10. Linked'
  <2>1. fdb'[0] = a
    BY <1>1, <1>2, <1>3 DEF Lists
  <2>2. chain' # <<>> /\ Top(chain') = a
    BY <1>0, <1>4, EmptySeq DEF Top
  <2>3. ASSUME NEW i \in 1..n
        PROVE  blk'[chain'[i]][0] = IF i = 1 THEN SBLKNO ELSE chain'[i - 1]
    <3>1. chain[i] \in ChainSet
      BY <1>0 DEF ChainSet
    <3>2. blk[chain[i]][0] = IF i = 1 THEN SBLKNO ELSE chain[i - 1]
      BY <1>0 DEF IInv, Linked
    <3>3. i # 1 => i - 1 \in 1..n
      BY <1>0
    <3> QED BY <1>4, <1>8, <3>1, <3>2, <3>3
  <2>4. blk'[chain'[n + 1]][0] = IF n + 1 = 1 THEN SBLKNO ELSE chain'[(n + 1) - 1]
    <3>1. fdb[0] = IF n = 0 THEN SBLKNO ELSE chain[n]
      <4>1. n = 0 <=> chain = <<>>
        BY <1>0, <1>3, EmptySeq
      <4> QED BY <1>0, <4>1 DEF IInv, Linked, Top
    <3>2. (n + 1) - 1 = n /\ (n # 0 => n \in 1..n) /\ (n + 1 = 1 <=> n = 0)
      BY <1>0
    <3> QED BY <1>4, <1>8, <3>1, <3>2
  <2>5. \A i \in 1..(n + 1) : blk'[chain'[i]][0] = IF i = 1 THEN SBLKNO ELSE chain'[i - 1]
    BY <1>5, <2>3, <2>4
  <2> QED BY <1>4, <2>1, <2>2, <2>5 DEF Linked
<1>11. Apart'
  <2>1. \A i, k \in 1..(n + 1) : chain'[i] = chain'[k] => i = k
    <3>1. \A i \in 1..n : chain[i] # a
      BY <1>0, <1>7 DEF ChainSet
    <3> QED BY <1>0, <1>4, <1>5, <3>1 DEF IInv, Apart
  <2>2. \A j \in 1..(LIST - 1) : fdb[j] # a
    BY <1>2 DEF IInv, Apart
  <2>3. \A c \in ChainSet : \A j \in 1..(LIST - 1) : blk[c][j] # a
    BY DEF IInv, Apart
  <2>4. \A c \in ChainSet' : c \notin used'
    BY <1>2, <1>6 DEF IInv, Apart
  <2>5. \A c \in ChainSet' : \A j \in 1..(LIST - 1) :
          blk'[c][j] \in Data /\ blk'[c][j] \notin ChainSet' /\ blk'[c][j] \notin used'
    BY <1>2, <1>6, <1>8, <2>2, <2>3 DEF IInv, Apart
  <2>6. \A c, d \in ChainSet' : \A j, k \in 1..(LIST - 1) :
          blk'[c][j] = blk'[d][k] => c = d /\ j = k
    BY <1>2, <1>6, <1>8 DEF IInv, Apart
  <2> QED BY <1>1, <1>2, <1>4, <2>1, <2>4, <2>5, <2>6 DEF Apart
<1>12. ASSUME NEW x PROVE x \in Free' <=> x \in Free \/ x = a
  BY <1>1, <1>2, <1>6, <1>8, FreeMembers, FreeMembersNext
<1> QED BY <1>9, <1>10, <1>11, <1>12 DEF IInv

\* A write into a block that is in use, with or without a reboot, is not seen.
LEMMA OwnedWriteStep ==
  ASSUME IInv, NEW b \in [Data -> Lists], \A c \in Data \ used : b[c] = blk[c],
         blk' = b, fdb' = fdb, fdbhead' = fdbhead, UNCHANGED <<sb, chain, used, ret>>,
         wiped' \in (0..LISTS) \cup {TORN}
  PROVE  IInv' /\ Free' = Free
<1>1. ChainSet' = ChainSet
  BY DEF ChainSet
<1>2. \A c \in ChainSet : blk'[c] = blk[c]
  <2>1. ChainSet \subseteq Data
    BY ElementOfSeq DEF IInv, TypeOK, ChainSet
  <2> QED BY <2>1 DEF IInv, Apart
<1>3. TypeOK' /\ SbCurrent'
  BY DEF IInv, TypeOK, SbCurrent
<1>4. Linked'
  <2>1. \A i \in 1..Len(chain) : chain[i] \in ChainSet
    BY DEF ChainSet
  <2> QED BY <1>2, <2>1 DEF IInv, Linked, Top
<1>5. Apart'
  BY <1>1, <1>2 DEF IInv, Apart
<1>6. ASSUME NEW x PROVE x \in Free' <=> x \in Free
  BY <1>1, <1>2, FreeMembers, FreeMembersNext
<1> QED BY <1>3, <1>4, <1>5, <1>6 DEF IInv

-----------------------------------------------------------------------------
(* Formatting. *)

\* Multiplication by a natural number keeps the order, for the address arithmetic of wipe().
LEMMA Times ==
  ASSUME NEW m \in Nat, NEW i \in Int, NEW k \in Int, i < k
  PROVE  m * i + m <= m * k
<1>1. PICK e \in Nat : k = i + 1 + e
  <2>1. k - i - 1 \in Nat /\ k = i + 1 + (k - i - 1)
    OBVIOUS
  <2> QED BY <2>1
<1>2. m * k = m * i + m + m * e
  BY <1>1
<1>3. m * e >= 0
  OBVIOUS
<1> QED BY <1>2, <1>3

\* Division with remainder, to find the list entry that wipe() gives a block.
LEMMA DivMod ==
  ASSUME NEW y \in Nat, NEW m \in Nat \ {0}
  PROVE  y \div m \in Int /\ y % m \in 0..(m - 1) /\ y = m * (y \div m) + (y % m)
<1>1. m \in Int /\ m > 0 /\ y \in Int
  OBVIOUS
<1>2. y \div m \in Int
  BY <1>1
<1>3. y % m \in 0..(m - 1)
  BY <1>1
<1>4. y = m * (y \div m) + (y % m)
  BY <1>1
<1> QED BY <1>2, <1>3, <1>4

\* The numbers of wipe(): how many addresses the superblock's list starts with.
LEMMA WipeNumbers ==
  /\ LIST \in Nat \ {0, 1} /\ LISTS \in Nat \ {0} /\ DBLKNO \in Nat \ {0, 1} /\ DSIZE \in Nat
  /\ Skipped \in Nat
  /\ WipeHead = DBLKNO + DSIZE - 1 - Skipped
  /\ WipeHead \in 0..(LIST - 2)
  /\ (LIST - 1) * LISTS + DBLKNO + LISTS = Skipped
<1>0. LIST \in Nat \ {0, 1} /\ LISTS \in Nat \ {0} /\ DBLKNO \in Nat \ {0, 1} /\ DSIZE \in Nat
  BY BlockAllocAssumption
<1>1. PICK p \in Nat : p = LISTS * LIST
  BY <1>0
<1>2. p < DSIZE /\ DSIZE < p + LIST
  BY <1>1, BlockAllocAssumption
<1>3. DSIZE % LIST = DSIZE - p
  <2>1. DSIZE = LIST * (DSIZE \div LIST) + (DSIZE % LIST)
    BY <1>0, DivMod
  <2>2. DSIZE % LIST \in 0..(LIST - 1) /\ DSIZE \div LIST \in Int
    BY <1>0, DivMod
  <2>3. DSIZE \div LIST = LISTS
    <3>1. ~(DSIZE \div LIST < LISTS)
      <4> SUFFICES ASSUME DSIZE \div LIST < LISTS PROVE FALSE
        OBVIOUS
      <4>1. LIST * (DSIZE \div LIST) + LIST <= LIST * LISTS
        BY <1>0, <2>2, Times
      <4>2. LIST * LISTS = p
        BY <1>0, <1>1
      <4> QED BY <1>0, <1>1, <1>2, <2>1, <2>2, <4>1, <4>2
    <3>2. ~(LISTS < DSIZE \div LIST)
      <4> SUFFICES ASSUME LISTS < DSIZE \div LIST PROVE FALSE
        OBVIOUS
      <4>1. LIST * LISTS + LIST <= LIST * (DSIZE \div LIST)
        BY <1>0, <2>2, Times
      <4>2. LIST * LISTS = p
        BY <1>0, <1>1
      <4> QED BY <1>0, <1>1, <1>2, <2>1, <2>2, <4>1, <4>2
    <3> QED BY <1>0, <2>2, <3>1, <3>2
  <2>4. LIST * LISTS = p
    BY <1>0, <1>1
  <2> QED BY <1>0, <1>1, <2>1, <2>2, <2>3, <2>4
<1>4. Skipped = DBLKNO + p /\ WipeHead = (DSIZE - p) - 1
  BY <1>1, <1>3 DEF Skipped, WipeHead
<1>5. (LIST - 1) * LISTS = p - LISTS
  BY <1>0, <1>1
<1> QED BY <1>0, <1>1, <1>2, <1>4, <1>5

\* The list blocks that wipe() writes, and the addresses in them.
WipeNodes    == DBLKNO..(DBLKNO + LISTS - 1)
WipeEntry(c, j) == (LIST - 1) * (c - DBLKNO) + (j - 1) + (DBLKNO + LISTS)

\* The lists that wipe() writes hold every address between the list blocks and
\* the skipped block, and hold it once.
LEMMA WipeEntries ==
  /\ \A c \in WipeNodes : \A j \in 1..(LIST - 1) :
       WipeEntry(c, j) \in (DBLKNO + LISTS)..(Skipped - 1)
  /\ \A c, d \in WipeNodes : \A j, k \in 1..(LIST - 1) :
       WipeEntry(c, j) = WipeEntry(d, k) => c = d /\ j = k
  /\ \A x \in (DBLKNO + LISTS)..(Skipped - 1) :
       \E c \in WipeNodes : \E j \in 1..(LIST - 1) : x = WipeEntry(c, j)
<1>0. PICK m \in Nat \ {0} : m = LIST - 1
  BY WipeNumbers
<1>1. PICK base \in Nat : base = DBLKNO + LISTS
  BY WipeNumbers
<1>2. LISTS \in Nat /\ DBLKNO \in Nat /\ Skipped \in Nat /\ m * LISTS + base = Skipped
  BY <1>0, <1>1, WipeNumbers
<1>3. \A c, j : WipeEntry(c, j) = m * (c - DBLKNO) + (j - 1) + base
  BY <1>0, <1>1 DEF WipeEntry
<1>4. ASSUME NEW c \in WipeNodes, NEW j \in 1..m
      PROVE  WipeEntry(c, j) \in base..(Skipped - 1)
  <2>1. PICK i \in Nat : i = c - DBLKNO /\ i < LISTS
    BY <1>2 DEF WipeNodes
  <2>2. m * i + m <= m * LISTS /\ m * i \in Nat
    BY <1>2, <2>1, Times
  <2> QED BY <1>2, <1>3, <2>1, <2>2
<1>5. ASSUME NEW c \in WipeNodes, NEW d \in WipeNodes, NEW j \in 1..m, NEW k \in 1..m,
             WipeEntry(c, j) = WipeEntry(d, k)
      PROVE  c = d /\ j = k
  <2>1. c \in Int /\ d \in Int
    BY <1>2 DEF WipeNodes
  <2>2. PICK i \in Int : i = c - DBLKNO
    BY <1>2, <2>1
  <2>3. PICK l \in Int : l = d - DBLKNO
    BY <1>2, <2>1
  <2>4. m * i + j = m * l + k /\ m * i \in Int /\ m * l \in Int
    <3>1. PICK u \in Int : u = m * i
      OBVIOUS
    <3>2. PICK v \in Int : v = m * l
      OBVIOUS
    <3>3. u + (j - 1) + base = v + (k - 1) + base
      BY <1>3, <1>5, <2>2, <2>3, <3>1, <3>2
    <3> QED BY <3>1, <3>2, <3>3
  <2>5. ~(i < l)
    <3> SUFFICES ASSUME i < l PROVE FALSE
      OBVIOUS
    <3>1. m * i + m <= m * l
      BY Times
    <3> QED BY <2>4, <3>1
  <2>6. ~(l < i)
    <3> SUFFICES ASSUME l < i PROVE FALSE
      OBVIOUS
    <3>1. m * l + m <= m * i
      BY Times
    <3> QED BY <2>4, <3>1
  <2>7. i = l
    BY <2>5, <2>6
  <2> QED BY <1>2, <2>1, <2>2, <2>3, <2>4, <2>7
<1>6. ASSUME NEW x \in base..(Skipped - 1)
      PROVE  \E c \in WipeNodes : \E j \in 1..m : x = WipeEntry(c, j)
  <2>1. PICK y \in Nat : y = x - base /\ y < m * LISTS
    BY <1>2
  <2>a. y \div m \in Int /\ y % m \in 0..(m - 1) /\ y = m * (y \div m) + (y % m)
    BY DivMod
  <2>2. PICK i \in Int : i = y \div m
    BY <2>a
  <2>3. PICK t \in 0..(m - 1) : t = y % m
    BY <2>a
  <2>4. y = m * i + t /\ m * i \in Int
    BY <2>a, <2>2, <2>3
  <2>5. i >= 0
    <3> SUFFICES ASSUME i < 0 PROVE FALSE
      OBVIOUS
    <3>1. m * i + m <= m * 0
      BY Times
    <3> QED BY <2>1, <2>3, <2>4, <3>1
  <2>6. i < LISTS
    <3> SUFFICES ASSUME ~(i < LISTS) PROVE FALSE
      OBVIOUS
    <3>1. m * LISTS <= m * i
      <4>1. CASE i = LISTS
        BY <1>2, <4>1
      <4>2. CASE LISTS < i
        <5>1. m * LISTS + m <= m * i
          BY <1>2, <4>2, Times
        <5> QED BY <1>2, <2>4, <5>1
      <4> QED BY <1>2, <4>1, <4>2
    <3> QED BY <1>2, <2>1, <2>3, <2>4, <3>1
  <2>7. DBLKNO + i \in WipeNodes /\ t + 1 \in 1..m /\ (DBLKNO + i) - DBLKNO = i /\ (t + 1) - 1 = t
    BY <1>2, <2>3, <2>5, <2>6 DEF WipeNodes
  <2>8. x = WipeEntry(DBLKNO + i, t + 1)
    BY <1>3, <2>1, <2>4, <2>7
  <2> QED BY <2>7, <2>8
<1> QED BY <1>0, <1>1, <1>4, <1>5, <1>6

\* What wipe() leaves, whatever was there before.
LEMMA WipeFacts ==
  ASSUME NEW f \in Lists, NEW b \in [Data -> Lists]
  PROVE  /\ WipeFdb(f) \in Lists /\ WipeHead \in Index /\ WipeBlk(b) \in [Data -> Lists]
         /\ WipeFdb(f)[0] = DBLKNO
         /\ \A j \in 1..WipeHead : WipeFdb(f)[j] = Skipped + j
         /\ \A c \in WipeNodes : \A j \in 1..(LIST - 1) : WipeBlk(b)[c][j] = WipeEntry(c, j)
         /\ \A c \in WipeNodes : WipeBlk(b)[c][0] = IF c = DBLKNO + LISTS - 1 THEN SBLKNO ELSE c + 1
<1>0. /\ LIST \in Nat \ {0, 1} /\ LISTS \in Nat \ {0} /\ DBLKNO \in Nat \ {0, 1} /\ DSIZE \in Nat
      /\ Skipped \in Nat
      /\ WipeHead = DBLKNO + DSIZE - 1 - Skipped
      /\ WipeHead \in 0..(LIST - 2)
  BY WipeNumbers
<1>1. WipeHead \in Index /\ 0 \in Index /\ \A j \in 1..(LIST - 1) : j \in Index /\ j > 0 /\ j # 0
  BY <1>0 DEF Index
<1>2. DBLKNO + LISTS <= Skipped
  BY <1>0, WipeEntries DEF Skipped
<1>3. WipeNodes \subseteq Data /\ \A c \in WipeNodes : c < DBLKNO + LISTS /\ c - DBLKNO \in 0..(LISTS - 1)
  BY <1>0, <1>2 DEF WipeNodes, Data
<1>4. \A j \in 1..WipeHead : Skipped + j \in Data
  BY <1>0, <1>2 DEF Data
<1>5. \A c \in WipeNodes : WipeBlk(b)[c] = WipeList(c - DBLKNO)
  BY <1>3 DEF WipeBlk
<1>6. \A c \in WipeNodes : \A j \in 1..(LIST - 1) : WipeBlk(b)[c][j] = WipeEntry(c, j)
  BY <1>1, <1>5 DEF WipeList, WipeEntry
<1>7. \A c \in WipeNodes : WipeBlk(b)[c][0] = IF c = DBLKNO + LISTS - 1 THEN SBLKNO ELSE c + 1
  <2> SUFFICES ASSUME NEW c \in WipeNodes
               PROVE  WipeBlk(b)[c][0] = IF c = DBLKNO + LISTS - 1 THEN SBLKNO ELSE c + 1
    OBVIOUS
  <2>1. c \in Int /\ (c - DBLKNO = LISTS - 1 <=> c = DBLKNO + LISTS - 1)
        /\ (c - DBLKNO) + 1 + DBLKNO = c + 1
    BY <1>0 DEF WipeNodes
  <2>2. WipeBlk(b)[c][0] = IF c - DBLKNO = LISTS - 1 THEN SBLKNO ELSE (c - DBLKNO) + 1 + DBLKNO
    <3>1. \A i : WipeList(i)[0] = IF i = LISTS - 1 THEN SBLKNO ELSE i + 1 + DBLKNO
      BY <1>1 DEF WipeList
    <3> QED BY <1>5, <3>1
  <2> QED BY <2>1, <2>2
<1>8. WipeFdb(f)[0] = DBLKNO /\ \A j \in 1..WipeHead : WipeFdb(f)[j] = Skipped + j
  <2>1. \A j \in 1..WipeHead : j \in Index /\ j # 0 /\ j <= WipeHead /\ j + (DBLKNO + LISTS * LIST) = Skipped + j
    BY <1>0 DEF Index, Skipped
  <2> QED BY <1>1, <2>1 DEF WipeFdb
<1>9. WipeFdb(f) \in Lists
  <2>1. DBLKNO \in Data
    BY <1>0, <1>3 DEF WipeNodes
  <2> SUFFICES ASSUME NEW j \in Index
               PROVE  WipeFdb(f)[j] \in Data \cup {0, SBLKNO}
    BY DEF Lists, WipeFdb
  <2>2. CASE j = 0
    BY <1>8, <2>1, <2>2
  <2>3. CASE j # 0 /\ j <= WipeHead
    <3>1. j \in 1..WipeHead
      BY <1>0, <2>3 DEF Index
    <3> QED BY <1>4, <1>8, <3>1
  <2>4. CASE j # 0 /\ ~(j <= WipeHead)
    BY <2>4 DEF WipeFdb, Lists
  <2> QED BY <2>2, <2>3, <2>4
<1>10. WipeBlk(b) \in [Data -> Lists]
  <2> SUFFICES ASSUME NEW c \in Data
               PROVE  WipeBlk(b)[c] \in Lists
    BY DEF WipeBlk
  <2>1. CASE c \in WipeNodes
    <3>1. WipeBlk(b)[c] = WipeList(c - DBLKNO)
      BY <1>5, <2>1
    <3>2. ASSUME NEW j \in Index PROVE WipeBlk(b)[c][j] \in Data \cup {0, SBLKNO}
      <4>1. CASE j = 0
        <5>1. c # DBLKNO + LISTS - 1 => c + 1 \in WipeNodes
          BY <1>0, <2>1 DEF WipeNodes
        <5> QED BY <1>3, <1>7, <2>1, <4>1, <5>1
      <4>2. CASE j # 0
        <5>1. j \in 1..(LIST - 1)
          BY <1>0, <4>2 DEF Index
        <5>2. WipeBlk(b)[c][j] \in (DBLKNO + LISTS)..(Skipped - 1)
          BY <1>6, <2>1, <5>1, WipeEntries
        <5>3. (DBLKNO + LISTS)..(Skipped - 1) \subseteq Data
          BY <1>0 DEF Data
        <5> QED BY <5>2, <5>3
      <4> QED BY <4>1, <4>2
    <3> QED BY <3>1, <3>2 DEF Lists, WipeList
  <2>2. CASE c \notin WipeNodes
    <3>1. ~(c < DBLKNO + LISTS)
      BY <1>0, <2>2 DEF WipeNodes, Data
    <3> QED BY <3>1 DEF WipeBlk
  <2> QED BY <2>1, <2>2
<1> QED BY <1>1, <1>6, <1>7, <1>8, <1>9, <1>10

\* The chain that wipe() makes runs through the list blocks in ascending order.
LEMMA WipeChainFacts ==
  /\ WipeChain \in Seq(Data) /\ Len(WipeChain) = LISTS
  /\ \A i \in 1..LISTS : WipeChain[i] = DBLKNO + LISTS - i
  /\ {WipeChain[i] : i \in 1..LISTS} = WipeNodes
  /\ WipeChain # <<>>
<1>0. /\ LISTS \in Nat \ {0} /\ DBLKNO \in Nat \ {0, 1} /\ DSIZE \in Nat /\ LISTS <= DSIZE
  <2>1. LISTS \in Nat \ {0} /\ DBLKNO \in Nat \ {0, 1} /\ DSIZE \in Nat /\ LIST \in Nat \ {0, 1}
    BY BlockAllocAssumption
  <2>2. LISTS * LIST < DSIZE /\ LISTS * LIST \in Nat
    BY <2>1, BlockAllocAssumption
  <2>3. LISTS * 0 + LISTS <= LISTS * LIST
    BY <2>1, Times
  <2> QED BY <2>1, <2>2, <2>3
<1>1. \A i \in 1..LISTS : WipeChain[i] = DBLKNO + LISTS - i /\ DBLKNO + LISTS - i \in WipeNodes
  BY <1>0 DEF WipeChain, WipeNodes
<1>2. WipeNodes \subseteq Data
  BY <1>0 DEF WipeNodes, Data
<1>3. WipeChain \in [1..LISTS -> Data]
  BY <1>1, <1>2 DEF WipeChain
<1>4. WipeChain \in Seq(Data) /\ Len(WipeChain) = LISTS
  BY <1>0, <1>3
<1>5. WipeNodes \subseteq {WipeChain[i] : i \in 1..LISTS}
  <2> SUFFICES ASSUME NEW c \in WipeNodes PROVE \E i \in 1..LISTS : c = WipeChain[i]
    OBVIOUS
  <2>1. DBLKNO + LISTS - c \in 1..LISTS /\ DBLKNO + LISTS - (DBLKNO + LISTS - c) = c
    BY <1>0 DEF WipeNodes
  <2> QED BY <1>1, <2>1
<1>6. {WipeChain[i] : i \in 1..LISTS} \subseteq WipeNodes
  BY <1>1
<1>7. WipeChain # <<>>
  BY <1>0, <1>4
<1> QED BY <1>1, <1>4, <1>5, <1>6, <1>7

\* What wipe() puts into the list is every data block but one.
LEMMA WipeListedBlocks == WipeListed = Data \ {Skipped}
<1>0. /\ LIST \in Nat \ {0, 1} /\ LISTS \in Nat \ {0} /\ DBLKNO \in Nat \ {0, 1} /\ DSIZE \in Nat
      /\ Skipped \in Nat /\ WipeHead = DBLKNO + DSIZE - 1 - Skipped /\ WipeHead \in 0..(LIST - 2)
  BY WipeNumbers
<1>1. DBLKNO + LISTS <= Skipped
  <2>1. (LIST - 1) * LISTS + DBLKNO + LISTS = Skipped /\ (LIST - 1) * LISTS \in Nat
    BY <1>0, WipeNumbers
  <2> QED BY <1>0, <2>1
<1>2. ASSUME NEW x PROVE x \in WipeListed <=> x \in Data /\ x # Skipped
  <2>1. x \in {DBLKNO + i : i \in 0..(LISTS - 1)} <=> x \in WipeNodes
    <3>1. ASSUME x \in WipeNodes PROVE x - DBLKNO \in 0..(LISTS - 1) /\ DBLKNO + (x - DBLKNO) = x
      BY <1>0, <3>1 DEF WipeNodes
    <3> QED BY <1>0, <3>1 DEF WipeNodes
  <2>2. x \in {j + (DBLKNO + LISTS * LIST) : j \in 1..WipeHead}
          <=> x \in (Skipped + 1)..(DBLKNO + DSIZE - 1)
    <3>1. ASSUME x \in (Skipped + 1)..(DBLKNO + DSIZE - 1)
          PROVE  x - Skipped \in 1..WipeHead /\ (x - Skipped) + Skipped = x
      BY <1>0, <3>1
    <3>2. ASSUME NEW j \in 1..WipeHead, x = j + Skipped
          PROVE  x \in (Skipped + 1)..(DBLKNO + DSIZE - 1)
      BY <1>0, <3>2
    <3>3. \A j \in 1..WipeHead : j + (DBLKNO + LISTS * LIST) = j + Skipped
      BY DEF Skipped
    <3> QED BY <3>1, <3>2, <3>3
  <2>3. x \in UNION {{WipeList(i)[j] : j \in 1..(LIST - 1)} : i \in 0..(LISTS - 1)}
          <=> x \in (DBLKNO + LISTS)..(Skipped - 1)
    <3>1. \A i \in 0..(LISTS - 1) : DBLKNO + i \in WipeNodes /\ (DBLKNO + i) - DBLKNO = i
      BY <1>0 DEF WipeNodes
    <3>2. \A c \in WipeNodes : c - DBLKNO \in 0..(LISTS - 1) /\ DBLKNO + (c - DBLKNO) = c
      BY <1>0 DEF WipeNodes
    <3>3. \A i \in 0..(LISTS - 1) : \A j \in 1..(LIST - 1) :
            WipeList(i)[j] = WipeEntry(DBLKNO + i, j)
      <4>1. \A j \in 1..(LIST - 1) : j \in Index /\ j > 0
        BY <1>0 DEF Index
      <4> QED BY <3>1, <4>1 DEF WipeList, WipeEntry
    <3>4. (\E i \in 0..(LISTS - 1) : \E j \in 1..(LIST - 1) : x = WipeList(i)[j])
            <=> \E c \in WipeNodes : \E j \in 1..(LIST - 1) : x = WipeEntry(c, j)
      BY <3>1, <3>2, <3>3
    <3> QED BY <3>4, WipeEntries
  <2>4. x \in Data /\ x # Skipped <=>
          \/ x \in (Skipped + 1)..(DBLKNO + DSIZE - 1)
          \/ x \in (DBLKNO + LISTS)..(Skipped - 1)
          \/ x \in WipeNodes
    BY <1>0, <1>1 DEF Data, WipeNodes
  <2> QED BY <2>1, <2>2, <2>3, <2>4 DEF WipeListed
<1> QED BY <1>2

\* A disk that wipe() has just formatted
Formatted ==
  /\ \E f \in Lists : fdb = WipeFdb(f)
  /\ fdbhead = WipeHead
  /\ sb = [fdb |-> fdb, fdbhead |-> fdbhead]
  /\ \E b \in [Data -> Lists] : blk = WipeBlk(b)
  /\ chain = WipeChain
  /\ used = {}
  /\ ret \in Data \cup {FULL}
  /\ wiped = 0

\* It satisfies the invariant, and what wipe() has listed is free.
LEMMA FormattedInv == Formatted => IInv /\ Free = WipeListed
<1> SUFFICES ASSUME NEW f \in Lists, NEW b \in [Data -> Lists],
                    fdb = WipeFdb(f), fdbhead = WipeHead, sb = [fdb |-> fdb, fdbhead |-> fdbhead],
                    blk = WipeBlk(b), chain = WipeChain, used = {}, ret \in Data \cup {FULL}, wiped = 0
             PROVE  IInv /\ Free = WipeListed
  BY DEF Formatted
<1>0. /\ LIST \in Nat \ {0, 1} /\ LISTS \in Nat \ {0} /\ DBLKNO \in Nat \ {0, 1} /\ DSIZE \in Nat
      /\ Skipped \in Nat /\ WipeHead = DBLKNO + DSIZE - 1 - Skipped /\ WipeHead \in 0..(LIST - 2)
  BY WipeNumbers
<1>1. /\ fdb \in Lists /\ fdbhead \in Index /\ blk \in [Data -> Lists]
      /\ fdb[0] = DBLKNO
      /\ \A j \in 1..WipeHead : fdb[j] = Skipped + j
      /\ \A c \in WipeNodes : \A j \in 1..(LIST - 1) : blk[c][j] = WipeEntry(c, j)
      /\ \A c \in WipeNodes : blk[c][0] = IF c = DBLKNO + LISTS - 1 THEN SBLKNO ELSE c + 1
  BY WipeFacts
<1>2. /\ chain \in Seq(Data) /\ Len(chain) = LISTS /\ chain # <<>>
      /\ \A i \in 1..LISTS : chain[i] = DBLKNO + LISTS - i
      /\ ChainSet = WipeNodes
  BY WipeChainFacts DEF ChainSet
<1>3. DBLKNO + LISTS <= Skipped
  <2>1. (LIST - 1) * LISTS + DBLKNO + LISTS = Skipped /\ (LIST - 1) * LISTS \in Nat
    BY <1>0, WipeNumbers
  <2> QED BY <1>0, <2>1
<1>4. /\ \A j \in 1..WipeHead : Skipped + j \in Data /\ Skipped + j \notin WipeNodes
      /\ \A x \in (DBLKNO + LISTS)..(Skipped - 1) : x \in Data /\ x \notin WipeNodes
      /\ \A j \in 1..WipeHead : Skipped + j \notin (DBLKNO + LISTS)..(Skipped - 1)
      /\ \A j, k \in 1..WipeHead : Skipped + j = Skipped + k => j = k
      /\ \A i, k \in 1..LISTS : DBLKNO + LISTS - i = DBLKNO + LISTS - k => i = k
  BY <1>0, <1>3 DEF Data, WipeNodes
<1>5. TypeOK /\ SbCurrent
  BY <1>0, <1>1, <1>2 DEF TypeOK, SbCurrent
<1>6. Linked
  <2>1. Top(chain) = DBLKNO
    BY <1>0, <1>2 DEF Top
  <2>2. ASSUME NEW i \in 1..LISTS
        PROVE  blk[chain[i]][0] = IF i = 1 THEN SBLKNO ELSE chain[i - 1]
    <3>1. DBLKNO + LISTS - i \in WipeNodes /\ chain[i] = DBLKNO + LISTS - i
      BY <1>0, <1>2 DEF WipeNodes
    <3>2. i = 1 <=> DBLKNO + LISTS - i = DBLKNO + LISTS - 1
      BY <1>0
    <3>3. i # 1 => i - 1 \in 1..LISTS /\ DBLKNO + LISTS - (i - 1) = (DBLKNO + LISTS - i) + 1
      BY <1>0
    <3> QED BY <1>1, <1>2, <3>1, <3>2, <3>3
  <2> QED BY <1>1, <1>2, <2>1, <2>2 DEF Linked
<1>7. Apart
  <2>1. \A i, k \in 1..Len(chain) : chain[i] = chain[k] => i = k
    BY <1>2, <1>4
  <2>2. \A j \in 1..fdbhead : fdb[j] \in Data /\ fdb[j] \notin ChainSet
    BY <1>1, <1>2, <1>4
  <2>3. \A c \in ChainSet : \A j \in 1..(LIST - 1) :
          blk[c][j] \in (DBLKNO + LISTS)..(Skipped - 1)
    BY <1>1, <1>2, WipeEntries
  <2>4. \A j, k \in 1..fdbhead : fdb[j] = fdb[k] => j = k
    BY <1>1, <1>4
  <2>5. \A c, d \in ChainSet : \A j, k \in 1..(LIST - 1) : blk[c][j] = blk[d][k] => c = d /\ j = k
    BY <1>1, <1>2, WipeEntries
  <2>6. \A c \in ChainSet : \A k \in 1..(LIST - 1) : \A j \in 1..fdbhead : fdb[j] # blk[c][k]
    BY <1>1, <1>4, <2>3
  <2> QED BY <1>2, <1>4, <2>1, <2>2, <2>3, <2>4, <2>5, <2>6 DEF Apart
<1>8. ASSUME NEW x PROVE x \in Free <=> x \in Data /\ x # Skipped
  <2>1. (\E j \in 1..fdbhead : x = fdb[j]) <=> x \in (Skipped + 1)..(DBLKNO + DSIZE - 1)
    <3>1. ASSUME x \in (Skipped + 1)..(DBLKNO + DSIZE - 1) PROVE \E j \in 1..fdbhead : x = fdb[j]
      <4>1. x - Skipped \in 1..WipeHead /\ Skipped + (x - Skipped) = x
        BY <1>0, <3>1
      <4> QED BY <1>1, <4>1
    <3>2. ASSUME NEW j \in 1..fdbhead, x = fdb[j] PROVE x \in (Skipped + 1)..(DBLKNO + DSIZE - 1)
      BY <1>0, <1>1, <3>2
    <3> QED BY <3>1, <3>2
  <2>2. (\E c \in ChainSet : \E j \in 1..(LIST - 1) : x = blk[c][j])
          <=> x \in (DBLKNO + LISTS)..(Skipped - 1)
    BY <1>1, <1>2, WipeEntries
  <2>3. x \in Data /\ x # Skipped <=>
          \/ x \in (Skipped + 1)..(DBLKNO + DSIZE - 1)
          \/ x \in (DBLKNO + LISTS)..(Skipped - 1)
          \/ x \in WipeNodes
    BY <1>0, <1>3 DEF Data, WipeNodes
  <2> QED BY <1>2, <2>1, <2>2, <2>3, FreeMembers
<1> QED BY <1>5, <1>6, <1>7, <1>8, WipeListedBlocks DEF IInv

-----------------------------------------------------------------------------
(* The theorems. *)

\* The initial state is a formatted disk.
LEMMA InitFormatted == Init => Formatted
<1>1. FileData \in Lists /\ [a \in Data |-> FileData] \in [Data -> Lists]
  BY DEF FileData, Lists
<1> QED BY <1>1 DEF Init, Formatted

\* What every step in a consistent state does.
LEMMA ReadyStepInv ==
  ASSUME IInv,
         \/ BallocList \/ BallocRefill \/ BallocFull \/ UNCHANGED vars
         \/ \E a \in used : BfreeList(a) \/ BfreeSpill(a) \/ BfreeSpillCrash(a) \/ WriteData(a)
  PROVE  /\ IInv'
         /\ wiped' = wiped
         /\ \/ UNCHANGED <<Free, used, ret>>
            \/ Free = {} /\ ret' = FULL /\ UNCHANGED <<Free, used>>
            \/ \E b \in Free : Free' = Free \ {b} /\ used' = used \cup {b} /\ ret' = b
            \/ \E b \in used : Free' = Free \cup {b} /\ used' = used \ {b} /\ ret' = ret
<1>1. ASSUME UNCHANGED vars PROVE IInv' /\ UNCHANGED <<Free, used, ret>> /\ wiped' = wiped
  <2>1. TypeOK' /\ SbCurrent' /\ Linked'
    BY <1>1 DEF IInv, TypeOK, SbCurrent, Linked, Top, vars
  <2>2. Apart'
    BY <1>1 DEF IInv, Apart, ChainSet, vars
  <2>3. Free' = Free
    BY <1>1 DEF Free, Listed, Chained, vars
  <2> QED BY <1>1, <2>1, <2>2, <2>3 DEF IInv, vars
<1>3. ASSUME BallocList
      PROVE  IInv' /\ wiped' = wiped /\ \E b \in Free : Free' = Free \ {b} /\ used' = used \cup {b} /\ ret' = b
  BY <1>3, BallocListStep DEF BallocList
<1>4. ASSUME BallocRefill
      PROVE  IInv' /\ wiped' = wiped /\ \E b \in Free : Free' = Free \ {b} /\ used' = used \cup {b} /\ ret' = b
  BY <1>4, BallocRefillStep DEF BallocRefill
<1>5. ASSUME BallocFull PROVE IInv' /\ wiped' = wiped /\ Free = {} /\ ret' = FULL /\ UNCHANGED <<Free, used>>
  <2>1. Free = {}
    BY <1>5, BallocFullStep
  <2>2. TypeOK' /\ SbCurrent' /\ Linked'
    BY <1>5 DEF BallocFull, IInv, TypeOK, SbCurrent, Linked, Top
  <2>3. Apart'
    BY <1>5 DEF BallocFull, IInv, Apart, ChainSet
  <2>4. Free' = Free
    BY <1>5 DEF BallocFull, Free, Listed, Chained
  <2> QED BY <1>5, <2>1, <2>2, <2>3, <2>4 DEF IInv, BallocFull
<1>7. ASSUME NEW a \in used, BfreeList(a)
      PROVE  IInv' /\ wiped' = wiped /\ \E b \in used : Free' = Free \cup {b} /\ used' = used \ {b} /\ ret' = ret
  BY <1>7, BfreeListStep DEF BfreeList
<1>8. ASSUME NEW a \in used, BfreeSpill(a)
      PROVE  IInv' /\ wiped' = wiped /\ \E b \in used : Free' = Free \cup {b} /\ used' = used \ {b} /\ ret' = ret
  BY <1>8, BfreeSpillStep DEF BfreeSpill
<1>9. ASSUME NEW a \in used, BfreeSpillCrash(a) PROVE IInv' /\ UNCHANGED <<Free, used, ret>> /\ wiped' = wiped
  <2>1. fdb' = fdb /\ fdbhead' = fdbhead /\ fdb \in Lists /\ blk \in [Data -> Lists] /\ a \in Data
    BY <1>9 DEF BfreeSpillCrash, IInv, SbCurrent, TypeOK
  <2>2. PICK b \in [Data -> Lists] : b = [blk EXCEPT ![a] = fdb]
    BY <2>1
  <2>3. \A c \in Data \ used : b[c] = blk[c]
    BY <1>9, <2>1, <2>2
  <2>4. blk' = b /\ UNCHANGED <<sb, chain, used, ret, wiped>>
    BY <1>9, <2>2 DEF BfreeSpillCrash
  <2>5. wiped \in (0..LISTS) \cup {TORN}
    BY DEF IInv, TypeOK
  <2> QED BY <2>1, <2>3, <2>4, <2>5, OwnedWriteStep
<1>10. ASSUME NEW a \in used, WriteData(a) PROVE IInv' /\ UNCHANGED <<Free, used, ret>> /\ wiped' = wiped
  <2>1. FileData \in Lists /\ blk \in [Data -> Lists] /\ a \in Data /\ wiped \in (0..LISTS) \cup {TORN}
    BY DEF FileData, Lists, IInv, TypeOK
  <2>2. PICK b \in [Data -> Lists] : b = [blk EXCEPT ![a] = FileData]
    BY <2>1
  <2>3. \A c \in Data \ used : b[c] = blk[c]
    BY <1>10, <2>1, <2>2
  <2>4. blk' = b /\ UNCHANGED <<fdb, fdbhead, sb, chain, used, ret, wiped>>
    BY <1>10, <2>2 DEF WriteData
  <2> QED BY <2>1, <2>3, <2>4, OwnedWriteStep
<1> QED BY <1>1, <1>3, <1>4, <1>5, <1>7, <1>8, <1>9, <1>10

\* A write of a list block inside wipe().
LEMMA WipeListsStep ==
  ASSUME WInv, WipeLists
  PROVE  WInv' /\ ~Ready' /\ used' = {} /\ ret' = ret
<1>0. /\ LIST \in Nat \ {0, 1} /\ LISTS \in Nat \ {0} /\ DBLKNO \in Nat \ {0, 1} /\ DSIZE \in Nat
      /\ WipeHead \in Index /\ FileData \in Lists /\ blk \in [Data -> Lists]
      /\ wiped \in (0..LISTS) \cup {TORN}
  <2>1. FileData \in Lists
    BY DEF FileData, Lists
  <2> QED BY <2>1, BlockAllocAssumption, WipeFacts DEF WInv, TypeOK
<1>a. (IF wiped = TORN THEN 0 ELSE wiped) < LISTS
  BY DEF WipeLists
<1>b. (IF wiped = TORN THEN 0 ELSE wiped) \in 0..(LISTS - 1)
  BY <1>0, <1>a DEF TORN
<1>1. PICK i \in 0..(LISTS - 1) :
        /\ i = IF wiped = TORN THEN 0 ELSE wiped
        /\ blk' = [blk EXCEPT ![DBLKNO + i] = WipeList(i)] /\ wiped' = i + 1
        /\ fdbhead' = WipeHead /\ used' = {} /\ UNCHANGED <<fdb, sb, chain, ret>>
  BY <1>b DEF WipeLists
<1>2. DBLKNO + i \in Data /\ WipeList(i) \in Lists
  <2>1. DBLKNO + i \in WipeNodes /\ (DBLKNO + i) - DBLKNO = i /\ DBLKNO + i < DBLKNO + LISTS
    BY <1>0 DEF WipeNodes
  <2>2. WipeNodes \subseteq Data
    BY WipeChainFacts, <1>0, ElementOfSeq
  <2>3. WipeBlk(blk)[DBLKNO + i] = WipeList(i)
    BY <2>1, <2>2 DEF WipeBlk
  <2> QED BY <1>0, <2>1, <2>2, <2>3, WipeFacts
<1>3. TypeOK' /\ ~Ready'
  <2>1. i + 1 \in 0..LISTS /\ i + 1 # 0
    BY <1>0
  <2> QED BY <1>0, <1>1, <1>2, <2>1 DEF WInv, TypeOK, Ready
<1>4. Written'
  <2> SUFFICES ASSUME NEW k \in 0..i PROVE blk'[DBLKNO + k] = WipeList(k)
    <3>1. 0..(wiped' - 1) = 0..i
      BY <1>0, <1>1
    <3> QED BY <3>1 DEF Written
  <2>1. CASE k = i
    BY <1>0, <1>1, <1>2, <2>1
  <2>2. CASE k # i
    <3>1. /\ k \in 0..(wiped - 1) /\ wiped # 0
          /\ DBLKNO + k # DBLKNO + i
      BY <1>0, <1>1, <2>2 DEF TORN
    <3>2. blk[DBLKNO + k] = WipeList(k)
      BY <3>1 DEF WInv, Written, Ready
    <3>3. blk'[DBLKNO + k] = blk[DBLKNO + k]
      BY <1>0, <1>1, <1>2, <3>1
    <3> QED BY <3>2, <3>3
  <2> QED BY <2>1, <2>2
<1> QED BY <1>1, <1>3, <1>4 DEF WInv

\* The write of the superblock, which ends it, leaves a formatted disk.
LEMMA WipeSuperStep ==
  ASSUME WInv, WipeSuper
  PROVE  IInv' /\ Ready' /\ ~Ready /\ Free' = WipeListed /\ used = {} /\ used' = {} /\ ret' = ret
<1>0. LISTS \in Nat \ {0} /\ DBLKNO \in Nat \ {0, 1} /\ DSIZE \in Nat
  BY BlockAllocAssumption
<1>1. ~Ready /\ wiped = LISTS /\ blk \in [Data -> Lists] /\ fdb \in Lists /\ used = {} /\ ret \in Data \cup {FULL}
  BY <1>0 DEF WInv, WipeSuper, Ready, TypeOK
<1>2. blk = WipeBlk(blk)
  <2>1. ASSUME NEW a \in Data, a < DBLKNO + LISTS PROVE blk[a] = WipeList(a - DBLKNO)
    <3>1. a - DBLKNO \in 0..(wiped - 1) /\ DBLKNO + (a - DBLKNO) = a
      BY <1>0, <1>1, <2>1 DEF Data
    <3> QED BY <1>1, <3>1 DEF WInv, Written
  <2> QED BY <1>1, <2>1 DEF WipeBlk
<1>3. Formatted'
  BY <1>1, <1>2 DEF WipeSuper, UpdateSb, Formatted
<1>4. Formatted' => IInv' /\ (Free = WipeListed)'
  BY FormattedInv, PTL
<1>5. (Free = WipeListed)' <=> Free' = WipeListed
  OBVIOUS
<1> QED BY <1>1, <1>3, <1>4, <1>5 DEF WipeSuper, Ready

\* Power on again: as long as the superblock is current nothing is seen of it.
LEMMA RebootInv ==
  ASSUME IInv, Reboot
  PROVE  IInv' /\ Free' = Free
<1>1. fdb' = fdb /\ fdbhead' = fdbhead /\ blk \in [Data -> Lists] /\ blk' = blk
      /\ UNCHANGED <<sb, chain, used, ret>>
  BY DEF Reboot, IInv, SbCurrent, TypeOK
<1>2. wiped' \in (0..LISTS) \cup {TORN}
  BY BlockAllocAssumption DEF Reboot
<1> QED BY <1>1, <1>2, OwnedWriteStep

\* So a wipe() in progress is all that a loss of power can interrupt.
LEMMA RebootStep ==
  ASSUME WInv, Reboot
  PROVE  /\ WInv' /\ (Ready' <=> Ready) /\ UNCHANGED <<used, ret>>
         /\ Ready => IInv' /\ Free' = Free
<1>1. wiped' = (IF Ready THEN 0 ELSE TORN) /\ UNCHANGED <<sb, blk, chain, used, ret>>
      /\ fdb' = sb.fdb /\ fdbhead' = sb.fdbhead
  BY DEF Reboot
<1>2. Ready' <=> Ready
  BY <1>1 DEF Ready, TORN
<1>3. TypeOK'
  <2>1. wiped' \in (0..LISTS) \cup {TORN}
    BY <1>1, BlockAllocAssumption DEF TORN
  <2> QED BY <1>1, <2>1 DEF WInv, TypeOK
<1>4. ASSUME Ready PROVE IInv' /\ Free' = Free
  BY <1>4, RebootInv DEF WInv
<1>5. ASSUME ~Ready PROVE Written' /\ used' = {}
  <2>1. 0..(wiped' - 1) = {}
    BY <1>1, <1>5 DEF TORN
  <2> QED BY <1>1, <1>5, <2>1 DEF Written, WInv
<1> QED BY <1>1, <1>2, <1>3, <1>4, <1>5 DEF WInv

\* What a step does to the blocks that can be had and to the owned ones.
LEMMA StepInv ==
  ASSUME WInv, [Next]_vars
  PROVE  /\ WInv'
         /\ Ready /\ Ready' => Free' \cup used' = Free \cup used
         /\ [Pool!PoolNext]_Pool!poolVars
<1> DEFINE Had == IF Ready THEN Free ELSE {}
<1>a. ASSUME Had' = Had, Ready' <=> Ready, UNCHANGED <<used, ret>>
      PROVE  UNCHANGED Pool!poolVars
  <2>1. Ready' = Ready
    BY <1>a, Zenon DEF Ready
  <2> QED BY <1>a, <2>1 DEF Pool!poolVars
<1>1. CASE WipeLists
  <2>1. Had' = {} /\ used' = {} /\ ~Ready' /\ ret' = ret /\ WInv'
    BY <1>1, WipeListsStep
  <2> QED BY <2>1 DEF Pool!PoolNext, Pool!PoolBegin
<1>2. CASE WipeSuper
  <2>1. /\ IInv' /\ Ready' /\ ~Ready /\ Had' = WipeListed /\ UNCHANGED <<used, ret>>
    BY <1>2, WipeSuperStep
  <2>2. WInv'
    BY <2>1 DEF WInv, IInv
  <2> QED BY <2>1, <2>2 DEF Pool!PoolNext, Pool!PoolFormat
<1>3. CASE Reboot
  <2>1. WInv' /\ (Ready' <=> Ready) /\ UNCHANGED <<used, ret>> /\ (Ready => Free' = Free)
    BY <1>3, RebootStep
  <2>2. Had' = Had
    BY <2>1
  <2> QED BY <1>a, <2>1, <2>2
<1>4. CASE UNCHANGED vars /\ ~Ready
  <2>1. TypeOK' /\ ~Ready' /\ Written' /\ UNCHANGED <<used, ret>>
    BY <1>4 DEF WInv, TypeOK, Ready, Written, vars
  <2>2. WInv'
    BY <1>4, <2>1 DEF WInv
  <2>3. Had' = Had
    BY <1>4, <2>1
  <2> QED BY <1>4, <2>1, <2>2, <2>3, <1>a
<1>5. CASE /\ Ready
           /\ \/ BallocList \/ BallocRefill \/ BallocFull \/ UNCHANGED vars
              \/ \E a \in used : BfreeList(a) \/ BfreeSpill(a) \/ BfreeSpillCrash(a) \/ WriteData(a)
  <2>1. IInv
    BY <1>5 DEF WInv
  <2>2. /\ IInv' /\ wiped' = wiped
        /\ \/ UNCHANGED <<Free, used, ret>>
           \/ Free = {} /\ ret' = FULL /\ UNCHANGED <<Free, used>>
           \/ \E b \in Free : Free' = Free \ {b} /\ used' = used \cup {b} /\ ret' = b
           \/ \E b \in used : Free' = Free \cup {b} /\ used' = used \ {b} /\ ret' = ret
    BY <1>5, <2>1, ReadyStepInv
  <2>3. Ready' /\ (Ready' <=> Ready) /\ Had = Free /\ Had' = Free'
    BY <1>5, <2>2 DEF Ready
  <2>4. WInv'
    BY <2>2, <2>3 DEF WInv, IInv
  <2>5. Free' \cup used' = Free \cup used
    BY <2>2
  <2>6. [Pool!PoolNext]_Pool!poolVars
    <3>1. Ready' = Ready
      BY <2>2 DEF Ready
    <3>2. CASE UNCHANGED <<Free, used, ret>>
      BY <1>a, <2>3, <3>2
    <3>3. CASE Free = {} /\ ret' = FULL /\ UNCHANGED <<Free, used>>
      BY <1>5, <2>3, <3>1, <3>3 DEF Pool!PoolNext, Pool!PoolAllocFull
    <3>4. CASE \E b \in Free : Free' = Free \ {b} /\ used' = used \cup {b} /\ ret' = b
      BY <1>5, <2>3, <3>1, <3>4 DEF Pool!PoolNext, Pool!PoolAlloc
    <3>5. CASE \E b \in used : Free' = Free \cup {b} /\ used' = used \ {b} /\ ret' = ret
      BY <1>5, <2>3, <3>1, <3>5 DEF Pool!PoolNext, Pool!PoolFree
    <3> QED BY <2>2, <3>2, <3>3, <3>4, <3>5
  <2> QED BY <2>4, <2>5, <2>6
<1> QED BY <1>1, <1>2, <1>3, <1>4, <1>5 DEF Next

\* The inductive invariant holds in every reachable state.
LEMMA Invariance == Spec => []WInv
<1>1. Init => WInv
  BY InitFormatted, FormattedInv DEF Init, Ready, WInv, IInv
<1>2. WInv /\ [Next]_vars => WInv'
  BY StepInv
<1> QED BY <1>1, <1>2, PTL DEF Spec

\* Every variable keeps its type, for every size of the disk and of the lists.
THEOREM TypeCorrect == Spec => []TypeOK
<1>1. WInv => TypeOK
  BY DEF WInv
<1> QED BY <1>1, Invariance, PTL

\* The free list on disk is well formed after every operation and every loss of power,
\* but for a wipe() that was cut off and not repeated.
THEOREM LinksCorrect == Spec => []WellLinked
<1>1. WInv => WellLinked
  BY DEF WInv, IInv, WellLinked
<1> QED BY <1>1, Invariance, PTL

\* No block is both free and owned: balloc() never hands out a block that is in use.
THEOREM AllocationCorrect == Spec => []NoDoubleAlloc
<1>1. WInv => NoDoubleAlloc
  <2> SUFFICES ASSUME IInv, NEW x \in Free PROVE x \notin used
    BY DEF NoDoubleAlloc, Disjoint, WInv
  <2> QED BY FreeMembers DEF IInv, Apart
<1> QED BY <1>1, Invariance, PTL

\* No allocation, release or loss of power loses a block: what was free or owned before
\* is free or owned after it.
THEOREM ConservationCorrect == Spec => Conserved
<1>1. WInv /\ [Next]_vars => [Ready /\ Ready' => Free' \cup used' = Free \cup used]_vars
  BY StepInv
<1> QED BY <1>1, Invariance, PTL DEF Spec, Conserved

\* balloc() and bfree() implement a set of free blocks: a block is handed out only
\* when it is free, "full" is answered only when none is, formatting makes available
\* what wipe() lists, and losses of power are not seen.
THEOREM RefinementCorrect == Spec => ImplementsPool
<1>1. Init => Pool!PoolInit
  BY InitFormatted, FormattedInv DEF Formatted, Init, Ready, Pool!PoolInit
<1>2. WInv /\ [Next]_vars => [Pool!PoolNext]_Pool!poolVars
  BY StepInv
<1> QED BY <1>1, <1>2, Invariance, PTL DEF Spec, ImplementsPool, Pool!PoolSpec
=============================================================================
