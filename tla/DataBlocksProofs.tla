-------------------------- MODULE DataBlocksProofs --------------------------
(***************************************************************************)
(* Proofs about the blocks of files and of the directory, for every number *)
(* of inodes, of addresses in an inode and in a block, every size of the   *)
(* disk and of files, and every number of losses of power.  The free list  *)
(* is the one of BlockAllocProofs, whose lemmas are used for each balloc() *)
(* and bfree() of a call.                                                  *)
(***************************************************************************)
EXTENDS DataBlocks, BlockAllocProofs, FiniteSetTheorems

\* What a block may hold: addresses, the end mark of the free list, or nothing
Arrays == Data \cup {0, SBLKNO}

\* The places of allocateDataBlockAddr
AllocAt == {"alloc", "direct", "top", "walk", "child"}

\* The system calls, and their local variables
CallSet ==
  [op : {"wipe", "write", "create", "remove"},
   at : AllocAt \cup {"root", "entry", "got", "data", "first", "inode", "size", "leaf", "tables", "free"},
   f : Inos, i : Blocks, last : Blocks, addr : Addrs, t : Addrs, j : 1..NIADDR,
   head : Nat, end : Nat, new : Inos, failed : BOOLEAN, spilt : BOOLEAN]

\* Every variable has its type, the call in progress and the upper half of the blocks included.
Types ==
  /\ BlocksTypeOK
  /\ rest \in [Data -> [Upper -> Arrays]]
  /\ call = Idle \/ call \in CallSet

-----------------------------------------------------------------------------
(* The parts of the invariant, on values of the variables. *)

\* The block numbers with at most one table on the way
Reach == NDADDR + LS

\* Where such a number leads
Way(bl, re, ic, b) ==
  IF b < NDADDR THEN ic.db[b]
  ELSE IF ic.ib[1] \notin Data THEN 0
  ELSE IF b - NDADDR < LIST THEN bl[ic.ib[1]][b - NDADDR] ELSE re[ic.ib[1]][b - NDADDR]

\* A block of the single indirect level has a table that is known to be the file's.
Rooted(ic, o, t) ==
  \A b \in Blocks : b >= NDADDR /\ b < Reach /\ o[b] # 0 => ic.ib[1] \in t[1]

\* Up to number hi the addresses lead to the blocks that were allocated.
FileOK(bl, re, ic, o, t, hi) ==
  /\ \A b \in Blocks : b <= hi /\ b < Reach => Way(bl, re, ic, b) = o[b] /\ o[b] # 0
  /\ Rooted(ic, o, t)

\* A file has no other blocks, and no other tables.
Tidy(ic, o, t, hi, ht) ==
  /\ \A b \in Blocks : o[b] # 0 => b <= hi
  /\ t[1] \subseteq {ic.ib[1]}
  /\ \A l \in 1..NIADDR : t[l] # {} => Base(l) <= ht

\* Some file has block a as data or as a table.
Held(o, t, a) ==
  \/ \E f \in Inos : \E b \in Blocks : o[f][b] = a
  \/ \E f \in Inos : \E l \in 1..NIADDR : a \in t[f][l]

\* No block serves two purposes, and all are in use.
Sep(o, t, u) ==
  /\ \A f, g \in Inos : \A b, c \in Blocks : o[f][b] = o[g][c] /\ o[f][b] \in Data => f = g /\ b = c
  /\ \A f, g \in Inos : \A b \in Blocks : \A l \in 1..NIADDR : o[f][b] \notin t[g][l]
  /\ \A f, g \in Inos : \A l, m \in 1..NIADDR : \A a \in t[f][l] : a \in t[g][m] => f = g /\ l = m
  /\ \A f \in Inos : \A b \in Blocks : o[f][b] \in Data => o[f][b] \in u
  /\ \A f \in Inos : \A l \in 1..NIADDR : t[f][l] \subseteq u
  /\ \A f \in Inos : \A b \in Blocks : o[f][b] # SBLKNO /\ (o[f][b] = FULL => b = 0)

-----------------------------------------------------------------------------
(* The parts of the invariant, on the state. *)

\* The number of the last block of a file or directory
LastOf(ic) == IF ic.mode = "IFDIR" THEN (ic.size - 1) \div BLOCK_SIZE ELSE ic.size \div BLOCK_SIZE

Wiping == call.op = "wipe" /\ call.at = "root"
Growing == call.op \in {"write", "create"}

\* The number up to which the blocks of a file have been entered
Hi(f) == IF Growing /\ call.f = f /\ call.at \in AllocAt THEN call.i - 1
         ELSE IF Growing /\ call.f = f /\ (call.at = "size" \/ (call.at = "got" /\ ~call.failed)) THEN call.last
         ELSE LastOf(Ic(f))

\* The number up to which its tables have been entered
HiT(f) == IF Growing /\ call.f = f /\ call.at \in {"walk", "child"} THEN call.i ELSE Hi(f)

\* Blocks that a call has taken from the free list and not entered yet
Pending ==
  (IF \/ Growing /\ call.at \in {"direct", "top", "walk", "child"}
      \/ call.op = "create" /\ call.at = "inode"
   THEN {call.addr} \ {FULL} ELSE {})
  \cup (IF Growing /\ call.at = "child" THEN {ret} ELSE {})

\* The inodes and their copies in memory, and the size of the directory
Shape ==
  /\ Wiping => /\ linked = {} /\ mem = [f \in Inos |-> CLOSED] /\ inode = [f \in Inos |-> UnusedInode]
               /\ used = {} /\ own = [f \in Inos |-> NoBlocks] /\ tabs = [f \in Inos |-> NoTables]
  /\ ~Wiping => /\ ROOT_DIR \in linked /\ inode[ROOT_DIR].mode = "IFDIR"
                /\ Cardinality(linked) = inode[ROOT_DIR].size
  /\ mem[ROOT_DIR] = CLOSED
  /\ \A f \in linked \ {ROOT_DIR} : inode[f].mode = "IFREG"
  /\ \A f \in Inos : mem[f] # CLOSED =>
       /\ f \in linked /\ mem[f].mode = inode[f].mode /\ inode[f].size <= mem[f].size
       /\ mem[f].db = inode[f].db /\ mem[f].ib = inode[f].ib

\* allocateDataBlockAddr
GrowOK ==
  /\ call.at \in AllocAt =>
       /\ LastOf(Ic(call.f)) < call.i /\ 0 < call.i /\ call.i <= call.last
       /\ call.failed = FALSE
  /\ call.at \in {"direct", "top", "walk", "child"} => call.addr \in Data
  /\ call.at = "direct" => call.i < NDADDR
  /\ call.at \in {"top", "walk", "child"} => NDADDR <= call.i
  /\ call.at = "walk" => call.j <= Level(call.i)
  /\ call.at = "child" => call.j < Level(call.i) /\ ret \in Data /\ ret # call.addr
  /\ call.at \in {"alloc", "direct", "top"} => call.j = 1
  /\ call.at = "walk" /\ call.i < Reach => call.t = Ic(call.f).ib[1] /\ call.t \in tabs[call.f][1]

WriteOK ==
  /\ call.at \in AllocAt \cup {"got", "data"}
  /\ call.f \in linked /\ call.f # ROOT_DIR /\ mem[call.f] # CLOSED
  /\ call.head < call.end /\ call.end <= MAX_SIZE /\ call.last = call.end \div BLOCK_SIZE
  /\ call.at # "data" => mem[call.f].size < call.end
  /\ call.at = "data" => /\ call.i <= (call.end - 1) \div BLOCK_SIZE
                         /\ call.failed = FALSE => call.end <= mem[call.f].size

CreateOK ==
  /\ call.at \in AllocAt \cup {"first", "inode", "got", "size"}
  /\ call.f = ROOT_DIR /\ call.i = inode[ROOT_DIR].size \div BLOCK_SIZE /\ call.last = call.i
  /\ call.new \notin linked
  /\ call.at \in {"first", "inode"} => inode[call.new].mode = "IFZERO" /\ call.failed = FALSE /\ call.j = 1
  /\ call.at = "inode" => call.addr \in Data \cup {FULL}
  /\ call.at \notin {"first", "inode"} =>
       /\ inode[call.new].mode = "IFREG" /\ inode[call.new].size = 0
       /\ inode[call.new].db[0] = own[call.new][0] /\ own[call.new][0] # 0
       /\ \A b \in Blocks : b # 0 => own[call.new][b] = 0
       /\ tabs[call.new] = NoTables

RemoveOK ==
  /\ call.at \in {"leaf", "tables", "free"}
  /\ call.f \notin linked /\ call.f # ROOT_DIR /\ inode[call.f].mode = "IFREG"
  /\ call.at # "free" => call.i * BLOCK_SIZE < inode[call.f].size
  /\ call.at = "free" => inode[call.f].size <= (call.i + 1) * BLOCK_SIZE
  /\ call.at = "tables" => call.j <= Level(call.i) /\ (call.i < Reach => call.i = NDADDR)

CallOK ==
  /\ call.op = "wipe" => call.at \in {"root", "entry"} /\ call.f = ROOT_DIR /\ call.i = 0
  /\ Growing => GrowOK
  /\ call.op = "write" => WriteOK
  /\ call.op = "create" => CreateOK
  /\ call.op = "remove" => RemoveOK

Separate ==
  /\ Sep(own, tabs, used)
  /\ \A a \in Pending : a \in used /\ ~Held(own, tabs, a)

Maps == \A f \in linked : FileOK(blk, rest, Ic(f), own[f], tabs[f], Hi(f))

\* The file that is being removed: its addresses hold as long as its table has not
\* received a list of free blocks, and the table is freed together with its first block.
Removal ==
  call.op = "remove" =>
    LET f == call.f IN
    /\ call.spilt = FALSE => \A b \in Blocks :
         /\ b * BLOCK_SIZE < inode[f].size /\ b < Reach
         /\ call.i < b \/ (call.i = b /\ call.at = "leaf")
         => Way(blk, rest, inode[f], b) = own[f][b] /\ own[f][b] # 0
    /\ call.at = "tables" /\ call.i < Reach => inode[f].ib[1] \in tabs[f][1]
    /\ call.i < NDADDR \/ (call.i = NDADDR /\ call.at = "leaf") => Rooted(inode[f], own[f], tabs[f])
    /\ NDADDR < call.i => inode[f].ib[1] \notin used

Unused ==
  \A f \in Inos : \/ f \in linked
                  \/ call.op = "create" /\ call.new = f /\ call.at \notin {"first", "inode"}
                  \/ call.op = "remove" /\ call.f = f
                  \/ own[f] = NoBlocks /\ tabs[f] = NoTables

Accounted ==
  lossy = FALSE =>
    /\ \A a \in used : Held(own, tabs, a) \/ a \in Pending
    /\ Growing => call.failed = FALSE
    /\ \A f \in linked : Tidy(Ic(f), own[f], tabs[f], Hi(f), HiT(f))
    /\ call.op = "remove" =>
         LET f == call.f IN
         /\ Tidy(inode[f], own[f], tabs[f], LastOf(inode[f]), LastOf(inode[f]))
         /\ \A b \in Blocks : own[f][b] # 0 =>
              \/ call.i < b
              \/ call.i = b /\ (call.at = "leaf" \/ inode[f].size = 0)
         /\ tabs[f][1] # {} => \/ call.i < NDADDR \/ (call.i = NDADDR /\ call.at # "free")
                               \/ inode[f].size % BLOCK_SIZE = 0

\* What holds as long as no call has touched a block that is not its file's
Sound == IInv /\ Shape /\ CallOK /\ Separate /\ Maps /\ Removal /\ Unused /\ Accounted

(***************************************************************************)
(* MapsKept is not inductive.  That the address written last is the one    *)
(* that is read needs to know how far the call in progress has come; that  *)
(* no other write hits a table needs all blocks and tables of all files to *)
(* be different and in use, the blocks that a call holds for later         *)
(* included; and that a removed file frees its own blocks needs its single *)
(* indirect table to keep its contents after it was freed.                 *)
(***************************************************************************)
Ind == Types /\ (fault = FALSE => Sound)

-----------------------------------------------------------------------------
(* Numbers of blocks. *)

\* The constants are positive numbers, and no address is a mark.
LEMMA Consts ==
  /\ LIST \in Nat \ {0, 1} /\ LS \in Nat \ {0, 1} /\ LIST <= LS /\ NDADDR \in Nat \ {0}
  /\ BLOCK_SIZE \in Nat \ {0} /\ INODES \in Nat \ {0} /\ MAX_SIZE \in Nat /\ INODES <= MAX_SIZE
  /\ LS * LS \in Nat \ {0} /\ LS * LS * LS \in Nat \ {0}
  /\ Data \subseteq Int /\ 0 \notin Data /\ SBLKNO \notin Data /\ FULL \notin Data /\ SBLKNO # FULL
  /\ SBLKNO # 0 /\ FULL # 0
<1>1. /\ LIST \in Nat \ {0, 1} /\ LS \in Nat \ {0, 1} /\ LIST <= LS /\ NDADDR \in Nat \ {0}
      /\ BLOCK_SIZE \in Nat \ {0} /\ INODES \in Nat \ {0} /\ MAX_SIZE \in Nat /\ INODES <= MAX_SIZE
  BY BlockAllocAssumption, DataBlocksAssumption
<1>2. /\ Data \subseteq Int /\ 0 \notin Data /\ SBLKNO \notin Data /\ FULL \notin Data /\ SBLKNO # FULL
      /\ SBLKNO # 0 /\ FULL # 0
  BY BlockAllocAssumption DEF Data, SBLKNO, FULL
<1>3. LS * 0 + LS <= LS * LS /\ LS * LS \in Nat
  BY <1>1, Times
<1>4. (LS * LS) * 0 + LS * LS <= (LS * LS) * LS /\ LS * LS * LS \in Nat
  BY <1>1, <1>3, Times
<1> QED BY <1>1, <1>2, <1>3, <1>4

\* The number of the block that holds a position
LEMMA DivBounds ==
  ASSUME NEW s \in Nat, NEW k \in Nat \ {0}
  PROVE  s \div k \in Nat /\ s \div k <= s /\ k * (s \div k) <= s /\ s < k * (s \div k) + k
<1>1. PICK q \in Int : q = s \div k
  BY DivMod
<1>2. PICK r \in 0..(k - 1) : s = k * q + r
  BY <1>1, DivMod
<1>3. k * q \in Int
  BY <1>1
<1>4. q >= 0
  <2> SUFFICES ASSUME q < 0 PROVE FALSE
    OBVIOUS
  <2>1. k * q + k <= k * 0
    BY Times
  <2>2. k * 0 = 0
    OBVIOUS
  <2> QED BY <1>2, <1>3, <2>1, <2>2
<1>5. q <= s
  <2> SUFFICES ASSUME s < q PROVE FALSE
    OBVIOUS
  <2>1. k * s + k <= k * q
    BY Times
  <2>2. s <= k * s
    <3>1. CASE s = 0
      BY <3>1
    <3>2. CASE s # 0
      <4>1. s * 0 + s <= s * k
        BY Times
      <4>2. s * 0 = 0 /\ s * k = k * s
        OBVIOUS
      <4> QED BY <4>1, <4>2
    <3> QED BY <3>1, <3>2
  <2>3. k * s \in Int
    OBVIOUS
  <2> QED BY <1>2, <1>3, <2>1, <2>2, <2>3
<1> QED BY <1>1, <1>2, <1>3, <1>4, <1>5

\* A block starts before a position when its number is not larger than that of the position.
LEMMA DivLeast ==
  ASSUME NEW s \in Nat, NEW k \in Nat \ {0}, NEW b \in Nat
  PROVE  b <= s \div k <=> b * k <= s
<1>1. PICK q \in Nat : q = s \div k /\ k * q <= s /\ s < k * q + k
  BY DivBounds
<1>2. k * q \in Nat /\ k * b \in Nat /\ b * k = k * b
  OBVIOUS
<1>3. ASSUME b <= q PROVE k * b <= s
  <2>1. b < q => k * b + k <= k * q
    BY Times
  <2> QED BY <1>1, <1>2, <1>3, <2>1
<1>4. ASSUME q < b PROVE s < k * b
  <2>1. k * q + k <= k * b
    BY <1>4, Times
  <2> QED BY <1>1, <1>2, <2>1
<1> QED BY <1>1, <1>2, <1>3, <1>4

\* A later position is in no earlier block.
LEMMA DivMono ==
  ASSUME NEW s \in Nat, NEW r \in Nat, NEW k \in Nat \ {0}, s <= r
  PROVE  s \div k <= r \div k
<1>1. PICK q \in Nat : q = s \div k /\ k * q <= s
  BY DivBounds
<1>2. q * k <= r
  <2>1. q * k = k * q /\ k * q \in Nat
    OBVIOUS
  <2> QED BY <1>1, <2>1
<1> QED BY <1>1, <1>2, DivLeast

\* The block of the last entry is the block of the next one, unless it is full.
LEMMA DivPred ==
  ASSUME NEW s \in Nat \ {0}, NEW k \in Nat \ {0}
  PROVE  /\ (s - 1) \div k \in Nat
         /\ s % k = 0 => s \div k = (s - 1) \div k + 1
         /\ s % k # 0 => s \div k = (s - 1) \div k
<1>1. PICK q \in Nat : q = (s - 1) \div k /\ k * q <= s - 1 /\ s - 1 < k * q + k
  <2>1. s - 1 \in Nat
    OBVIOUS
  <2> QED BY <2>1, DivBounds
<1>2. PICK p \in Nat : p = s \div k
  BY DivBounds
<1>3. PICK r \in 0..(k - 1) : r = s % k /\ s = k * p + r
  BY <1>2, DivMod
<1>4. k * q \in Nat /\ k * p \in Nat /\ (k * (q + 1)) = k * q + k
  OBVIOUS
<1>5. q <= p
  <2>1. q * k <= s
    <3>1. q * k = k * q
      OBVIOUS
    <3> QED BY <1>1, <1>4, <3>1
  <2> QED BY <1>2, <2>1, DivLeast
<1>6. p <= q + 1
  <2> SUFFICES ASSUME q + 1 < p PROVE FALSE
    OBVIOUS
  <2>1. k * (q + 1) + k <= k * p
    BY Times
  <2> QED BY <1>1, <1>3, <1>4, <2>1
<1>7. ASSUME r = 0 PROVE p = q + 1
  <2>1. p # q
    BY <1>1, <1>3, <1>7
  <2> QED BY <1>5, <1>6, <2>1
<1>8. ASSUME r # 0 PROVE p = q
  <2> SUFFICES ASSUME p = q + 1 PROVE FALSE
    BY <1>5, <1>6
  <2>1. k * p = k * q + k
    BY <1>4
  <2> QED BY <1>1, <1>3, <1>4, <1>8, <2>1
<1> QED BY <1>1, <1>2, <1>3, <1>7, <1>8

\* The numbers of the blocks of files of any size
LEMMA BlockNumbers ==
  /\ Blocks \subseteq Nat /\ 0 \in Blocks
  /\ \A s \in 0..MAX_SIZE : s \div BLOCK_SIZE \in Blocks
  /\ \A b \in Blocks : \A c \in Nat : c <= b => c \in Blocks
<1>1. BLOCK_SIZE \in Nat \ {0} /\ MAX_SIZE \in Nat
  BY Consts
<1>2. PICK m \in Nat : m = MAX_SIZE \div BLOCK_SIZE
  BY <1>1, DivBounds
<1>3. Blocks = 0..m
  BY <1>2 DEF Blocks
<1>4. ASSUME NEW s \in 0..MAX_SIZE PROVE s \div BLOCK_SIZE \in Blocks
  <2>1. s \in Nat /\ s <= MAX_SIZE
    BY <1>1
  <2>2. s \div BLOCK_SIZE <= MAX_SIZE \div BLOCK_SIZE
    BY <1>1, <2>1, DivMono
  <2>3. s \div BLOCK_SIZE \in Nat
    BY <1>1, <2>1, DivBounds
  <2> QED BY <1>2, <1>3, <2>2, <2>3
<1> QED BY <1>3, <1>4

\* The level of a block number, and the first number of a level
LEMMA LevelFacts ==
  /\ \A b \in Blocks : Level(b) \in 0..NIADDR
  /\ \A b \in Blocks : Level(b) = 0 <=> b < NDADDR
  /\ \A b \in Blocks : Level(b) = 1 <=> NDADDR <= b /\ b < Reach
  /\ \A b \in Blocks : Level(b) > 0 => Base(Level(b)) <= b
  /\ \A l \in 1..NIADDR : Base(l) \in Nat /\ NDADDR <= Base(l) /\ (Base(l) \in Blocks => Level(Base(l)) = l)
  /\ Base(1) = NDADDR
<1>0. /\ LS \in Nat \ {0, 1} /\ NDADDR \in Nat \ {0} /\ LS * LS \in Nat \ {0} /\ LS * LS * LS \in Nat \ {0}
  BY Consts
<1>1. PICK q \in Nat \ {0} : q = LS * LS
  BY <1>0
<1>2. PICK c \in Nat \ {0} : c = LS * LS * LS
  BY <1>0
<1>3. \A b \in Blocks : b \in Nat /\ b < NDADDR + LS + q + c
  <2>1. MAX_SIZE \div BLOCK_SIZE < NDADDR + LS + q + c
    BY <1>1, <1>2, DataBlocksAssumption
  <2>2. MAX_SIZE \div BLOCK_SIZE \in Nat
    BY Consts, DivBounds
  <2> QED BY <1>0, <2>1, <2>2 DEF Blocks
<1>4. /\ Base(1) = NDADDR /\ Base(2) = NDADDR + LS /\ Base(3) = NDADDR + LS + q
      /\ Span(1) = LS /\ Span(2) = q /\ Span(3) = c
  BY <1>1, <1>2 DEF Base, Span
<1>5. 1..NIADDR = {1, 2, 3} /\ 0..NIADDR = {0, 1, 2, 3}
  BY DEF NIADDR
<1>6. ASSUME NEW b \in Blocks, NEW l \in {1, 2, 3}, Base(l) <= b, b < Base(l) + Span(l)
      PROVE  Level(b) = l
  <2>1. b \in Nat /\ ~(b < NDADDR)
    BY <1>0, <1>1, <1>3, <1>4, <1>6
  <2>2. \A m \in {1, 2, 3} : Base(m) <= b /\ b < Base(m) + Span(m) => m = l
    BY <1>0, <1>1, <1>4, <1>6, <2>1
  <2>3. Level(b) = CHOOSE m \in {1, 2, 3} : Base(m) <= b /\ b < Base(m) + Span(m)
    BY <1>5, <2>1 DEF Level
  <2> QED BY <1>6, <2>2, <2>3
<1>7. ASSUME NEW b \in Blocks
      PROVE  \/ b < NDADDR /\ Level(b) = 0
             \/ NDADDR <= b /\ b < NDADDR + LS /\ Level(b) = 1
             \/ NDADDR + LS <= b /\ b < NDADDR + LS + q /\ Level(b) = 2
             \/ NDADDR + LS + q <= b /\ Level(b) = 3
  <2>1. CASE b < NDADDR
    BY <2>1 DEF Level
  <2>2. CASE NDADDR <= b /\ b < NDADDR + LS
    BY <1>0, <1>4, <1>6, <2>2
  <2>3. CASE NDADDR + LS <= b /\ b < NDADDR + LS + q
    BY <1>0, <1>4, <1>6, <2>3
  <2>4. CASE NDADDR + LS + q <= b
    BY <1>0, <1>3, <1>4, <1>6, <2>4
  <2> QED BY <1>0, <1>1, <1>3, <2>1, <2>2, <2>3, <2>4
<1>8. \A b \in Blocks : b \in Nat
  BY <1>3
<1>9. Reach = NDADDR + LS
  BY DEF Reach
<1>10. ASSUME NEW b \in Blocks
       PROVE  /\ Level(b) \in 0..NIADDR /\ (Level(b) = 0 <=> b < NDADDR)
              /\ (Level(b) = 1 <=> NDADDR <= b /\ b < Reach)
              /\ (Level(b) > 0 => Base(Level(b)) <= b)
  BY <1>0, <1>1, <1>4, <1>5, <1>7, <1>8, <1>9
<1>11. ASSUME NEW l \in {1, 2, 3}
       PROVE  Base(l) \in Nat /\ NDADDR <= Base(l) /\ (Base(l) \in Blocks => Level(Base(l)) = l)
  <2>1. Base(l) \in Nat /\ NDADDR <= Base(l) /\ Base(l) <= Base(l) /\ Base(l) < Base(l) + Span(l)
    BY <1>0, <1>1, <1>2, <1>4
  <2> QED BY <1>6, <2>1
<1> QED BY <1>4, <1>5, <1>10, <1>11

-----------------------------------------------------------------------------
(* Addresses and tables. *)

\* Every block holds LS addresses.
LEMMA ContentsType ==
  ASSUME Types, NEW a
  PROVE  Contents(a) \in [0..(LS - 1) -> Arrays]
<1>1. LIST \in Nat /\ LS \in Nat
  BY Consts
<1>2. CASE a \in Data
  <2>1. blk[a] \in [Index -> Arrays] /\ rest[a] \in [Upper -> Arrays]
    BY <1>2 DEF Types, BlocksTypeOK, TypeOK, Lists, Arrays
  <2>2. \A j \in 0..(LS - 1) : (j < LIST => j \in Index) /\ (~(j < LIST) => j \in Upper)
    BY <1>1 DEF Index, Upper
  <2>3. \A j \in 0..(LS - 1) : (IF j < LIST THEN blk[a][j] ELSE rest[a][j]) \in Arrays
    BY <2>1, <2>2
  <2> QED BY <1>2, <2>3 DEF Contents
<1>3. CASE a \notin Data
  BY <1>3 DEF Contents, Arrays
<1> QED BY <1>2, <1>3

\* getDataBlockAddr through the direct addresses and the single indirect table
LEMMA WayAddr ==
  \A ic : \A b \in Blocks : b < Reach => Addr(ic, b) = Way(blk, rest, ic, b)
<1> SUFFICES ASSUME NEW ic, NEW b \in Blocks, b < Reach
             PROVE  Addr(ic, b) = Way(blk, rest, ic, b)
  OBVIOUS
<1>0. b \in Nat /\ NDADDR \in Nat /\ LS \in Nat \ {0}
  BY BlockNumbers, Consts
<1>1. CASE b < NDADDR
  BY <1>1, LevelFacts DEF Addr, Way
<1>2. CASE NDADDR <= b
  <2>1. Level(b) = 1 /\ Base(1) = NDADDR
    BY <1>2, LevelFacts
  <2>2. Entry(b, 1) = b - NDADDR
    <3>1. Rel(b) = b - NDADDR /\ Span(0) = 1 /\ 1 - 1 = 0
      BY <2>1 DEF Rel, Span
    <3>2. PICK r \in Nat : r = b - NDADDR /\ r < LS
      BY <1>0, <1>2 DEF Reach
    <3>3. r \div 1 = r /\ r % LS = r
      BY <1>0, <3>2
    <3> QED BY <2>1, <3>1, <3>2, <3>3 DEF Entry
  <2>3. Table(ic, b, 1) = ic.ib[1]
    BY <2>1 DEF Table
  <2>4. b - NDADDR \in 0..(LS - 1) /\ ~(b < NDADDR)
    BY <1>0, <1>2 DEF Reach
  <2> QED BY <2>1, <2>2, <2>3, <2>4 DEF Addr, Way, Contents
<1> QED BY <1>0, <1>1, <1>2

\* The entries that a walk through the tables follows lie in the tables.
LEMMA EntryType ==
  ASSUME NEW b \in Blocks, NEW j \in Nat, 1 <= j, j <= Level(b)
  PROVE  Entry(b, j) \in 0..(LS - 1)
<1>1. LS \in Nat \ {0} /\ LS * LS \in Nat \ {0} /\ b \in Nat
  BY Consts, BlockNumbers
<1>2. Level(b) \in {1, 2, 3} /\ Rel(b) \in Nat
  <2>1. Level(b) \in 0..3 /\ (Level(b) > 0 => Base(Level(b)) <= b)
    BY LevelFacts DEF NIADDR
  <2>2. Level(b) \in {1, 2, 3}
    BY <2>1
  <2>3. Base(Level(b)) \in Nat
    BY <2>2, LevelFacts DEF NIADDR
  <2> QED BY <1>1, <2>1, <2>2, <2>3 DEF Rel
<1>3. Level(b) - j \in {0, 1, 2}
  BY <1>2
<1>4. Span(0) = 1 /\ Span(1) = LS /\ Span(2) = LS * LS
  BY DEF Span
<1>5. PICK k \in Nat \ {0} : k = Span(Level(b) - j)
  BY <1>1, <1>3, <1>4
<1>6. Rel(b) \div k \in Nat
  BY <1>2, DivBounds
<1>7. (Rel(b) \div k) % LS \in 0..(LS - 1)
  BY <1>1, <1>6, DivMod
<1> QED BY <1>5, <1>7 DEF Entry

\* With the first block of the single indirect level its table is freed, with no
\* other block up to there.
LEMMA FreedNear ==
  ASSUME NEW b \in Blocks
  PROVE  /\ b < Reach => FreedTables(b) = IF b = NDADDR THEN {1} ELSE {}
         /\ FreedTables(b) \subseteq 1..Level(b)
<1>0. b \in Nat /\ NDADDR \in Nat /\ LS \in Nat \ {0}
  BY BlockNumbers, Consts
<1>1. CASE b < NDADDR
  <2>1. Level(b) = 0 /\ 1..0 = {} /\ b # NDADDR
    BY <1>0, <1>1, LevelFacts
  <2> QED BY <2>1 DEF FreedTables
<1>2. CASE NDADDR <= b /\ b < Reach
  <2>1. Level(b) = 1 /\ Rel(b) = b - NDADDR
    BY <1>2, LevelFacts DEF Rel
  <2>2. Span(1) = LS /\ 1 - 1 + 1 = 1 /\ 1..1 = {1}
    BY DEF Span
  <2>3. PICK r \in Nat : r = b - NDADDR /\ r < LS
    BY <1>0, <1>2 DEF Reach
  <2>4. r % LS = r /\ (r = 0 <=> b = NDADDR)
    BY <1>0, <2>3
  <2>5. \A j \in {1} : Rel(b) % Span(Level(b) - j + 1) = r
    BY <2>1, <2>2, <2>3, <2>4
  <2> QED BY <2>1, <2>2, <2>4, <2>5 DEF FreedTables
<1>3. CASE ~(b < Reach)
  BY <1>3 DEF FreedTables
<1> QED BY <1>0, <1>1, <1>2, <1>3

-----------------------------------------------------------------------------
(* Files and writes to blocks. *)

\* A file does not see what is written outside its single indirect table.
LEMMA FileFrame ==
  ASSUME NEW bl, NEW re, NEW bm, NEW rf, NEW ic, NEW id, NEW o, NEW t, NEW hi \in Int, NEW hj \in Int,
         FileOK(bl, re, ic, o, t, hi), hj <= hi, id.db = ic.db, id.ib = ic.ib,
         \A a \in t[1] : bm[a] = bl[a] /\ rf[a] = re[a]
  PROVE  FileOK(bm, rf, id, o, t, hj)
<1>1. ASSUME NEW b \in Blocks, b <= hj, b < Reach
      PROVE  Way(bm, rf, id, b) = o[b] /\ o[b] # 0
  <2>1. Way(bl, re, ic, b) = o[b] /\ o[b] # 0 /\ b \in Nat
    BY <1>1, BlockNumbers DEF FileOK
  <2>2. CASE b < NDADDR
    BY <2>1, <2>2 DEF Way
  <2>3. CASE ~(b < NDADDR)
    <3>1. ic.ib[1] \in t[1]
      BY <1>1, <2>1, <2>3, Consts DEF FileOK, Rooted
    <3> QED BY <2>1, <3>1 DEF Way
  <2> QED BY <2>2, <2>3
<1>2. Rooted(id, o, t)
  BY DEF Rooted, FileOK
<1> QED BY <1>1, <1>2 DEF FileOK

\* The same for a file whose inode does not change.
LEMMA FileSame ==
  ASSUME NEW bl, NEW re, NEW bm, NEW rf, NEW ic, NEW o, NEW t, NEW hi,
         FileOK(bl, re, ic, o, t, hi), \A a \in t[1] : bm[a] = bl[a] /\ rf[a] = re[a]
  PROVE  FileOK(bm, rf, ic, o, t, hi)
<1>1. ASSUME NEW b \in Blocks, b <= hi, b < Reach
      PROVE  Way(bm, rf, ic, b) = Way(bl, re, ic, b)
  <2>1. CASE b < NDADDR
    BY <2>1 DEF Way
  <2>2. CASE ~(b < NDADDR)
    <3>1. b >= NDADDR /\ o[b] # 0
      BY <1>1, <2>2, BlockNumbers, Consts DEF FileOK
    <3>2. ic.ib[1] \in t[1]
      BY <1>1, <3>1 DEF FileOK, Rooted
    <3> QED BY <3>2 DEF Way
  <2> QED BY <2>1, <2>2
<1> QED BY <1>1 DEF FileOK

\* A file that loses blocks and tables behind its end keeps the others.
LEMMA FileCut ==
  ASSUME NEW bl, NEW re, NEW ic, NEW o, NEW t, NEW hi, NEW p, NEW s,
         FileOK(bl, re, ic, o, t, hi),
         \A b \in Blocks : (b <= hi => p[b] = o[b]) /\ (p[b] = o[b] \/ p[b] = 0),
         ic.ib[1] \in t[1] /\ (\E b \in Blocks : NDADDR <= b /\ b < Reach /\ p[b] # 0) => ic.ib[1] \in s[1]
  PROVE  FileOK(bl, re, ic, p, s, hi)
<1>1. ASSUME NEW b \in Blocks, b <= hi, b < Reach
      PROVE  Way(bl, re, ic, b) = p[b] /\ p[b] # 0
  BY <1>1 DEF FileOK
<1>2. ASSUME NEW b \in Blocks, b >= NDADDR, b < Reach, p[b] # 0
      PROVE  ic.ib[1] \in s[1]
  <2>1. o[b] # 0 /\ b \in Nat
    BY <1>2, BlockNumbers
  <2> QED BY <1>2, <2>1, Consts DEF FileOK, Rooted
<1> QED BY <1>1, <1>2 DEF FileOK, Rooted

-----------------------------------------------------------------------------
(* No block serves two purposes. *)

\* Types of own and tabs
Owns == [Inos -> [Blocks -> Addrs]]
Tabs == [Inos -> [1..NIADDR -> SUBSET Data]]

\* More blocks may come into use.
LEMMA SepMore ==
  ASSUME NEW o, NEW t, NEW u, NEW v, Sep(o, t, u), u \subseteq v
  PROVE  Sep(o, t, v)
<1> USE DEF Sep
<1>1. \A f \in Inos : \A b \in Blocks : o[f][b] \in Data => o[f][b] \in v
  OBVIOUS
<1>2. \A f \in Inos : \A l \in 1..NIADDR : t[f][l] \subseteq v
  OBVIOUS
<1> QED BY <1>1, <1>2

\* A block that nobody has becomes a block of a file.
LEMMA SepOwn ==
  ASSUME NEW o \in Owns, NEW t \in Tabs, NEW u, Sep(o, t, u), NEW f \in Inos, NEW b \in Blocks, NEW a,
         (a \in u \cap Data /\ ~Held(o, t, a)) \/ (a = FULL /\ b = 0)
  PROVE  Sep([o EXCEPT ![f][b] = a], t, u)
<1>1. PICK p : p = [o EXCEPT ![f][b] = a]
  OBVIOUS
<1>2. p[f][b] = a /\ \A g \in Inos : \A c \in Blocks : (g = f /\ c = b) \/ p[g][c] = o[g][c]
  BY <1>1 DEF Owns
<1>3. a # SBLKNO /\ (a = FULL => a \notin Data /\ b = 0)
  BY Consts
<1>4. \A g \in Inos : \A l \in 1..NIADDR : t[g][l] \subseteq Data
  BY DEF Tabs
<1>5. \A g \in Inos : \A c \in Blocks : o[g][c] = a => a \notin Data
  BY <1>3 DEF Held
<1>6. \A g \in Inos : \A l \in 1..NIADDR : a \notin t[g][l]
  BY <1>3, <1>4 DEF Held
<1>7. \A g, h \in Inos : \A c, d \in Blocks : p[g][c] = p[h][d] /\ p[g][c] \in Data => g = h /\ c = d
  BY <1>2, <1>5 DEF Sep
<1>8. \A g, h \in Inos : \A c \in Blocks : \A l \in 1..NIADDR : p[g][c] \notin t[h][l]
  BY <1>2, <1>6 DEF Sep
<1>9. \A g \in Inos : \A c \in Blocks : p[g][c] \in Data => p[g][c] \in u
  BY <1>2, <1>3 DEF Sep
<1>10. \A g \in Inos : \A c \in Blocks : p[g][c] # SBLKNO /\ (p[g][c] = FULL => c = 0)
  BY <1>2, <1>3, Consts DEF Sep
<1> QED BY <1>1, <1>7, <1>8, <1>9, <1>10 DEF Sep

\* A block that nobody has becomes a table of a file.
LEMMA SepTab ==
  ASSUME NEW o, NEW t, NEW u, Sep(o, t, u), NEW f \in Inos, NEW l \in 1..NIADDR,
         NEW a \in u, ~Held(o, t, a), NEW s, s[f][l] = t[f][l] \cup {a},
         \A g \in Inos : \A m \in 1..NIADDR : (g = f /\ m = l) \/ s[g][m] = t[g][m]
  PROVE  Sep(o, s, u)
<1>3. /\ \A g \in Inos : \A c \in Blocks : o[g][c] # a
      /\ \A g \in Inos : \A m \in 1..NIADDR : a \notin t[g][m]
  BY DEF Held
<1>4. \A g, h \in Inos : \A c \in Blocks : \A m \in 1..NIADDR : o[g][c] \notin s[h][m]
  BY <1>3 DEF Sep
<1>5. \A g, h \in Inos : \A m, n \in 1..NIADDR : \A x \in s[g][m] : x \in s[h][n] => g = h /\ m = n
  BY <1>3 DEF Sep
<1>6. \A g \in Inos : \A m \in 1..NIADDR : s[g][m] \subseteq u
  BY DEF Sep
<1> QED BY <1>4, <1>5, <1>6 DEF Sep

\* Blocks and tables are forgotten.
LEMMA SepLess ==
  ASSUME NEW o, NEW t, NEW u, NEW p, NEW s, Sep(o, t, u),
         \A f \in Inos : \A b \in Blocks : p[f][b] = o[f][b] \/ p[f][b] = 0,
         \A f \in Inos : \A l \in 1..NIADDR : s[f][l] \subseteq t[f][l],
         \A f \in Inos : \A l \in 1..NIADDR : t[f][l] \subseteq Data
  PROVE  Sep(p, s, u)
<1>1. 0 \notin Data /\ 0 # SBLKNO /\ 0 # FULL
  BY Consts
<1>2. \A f, g \in Inos : \A b, c \in Blocks : p[f][b] = p[g][c] /\ p[f][b] \in Data => f = g /\ b = c
  BY <1>1 DEF Sep
<1>3. \A f, g \in Inos : \A b \in Blocks : \A l \in 1..NIADDR : p[f][b] \notin s[g][l]
  <2> SUFFICES ASSUME NEW f \in Inos, NEW g \in Inos, NEW b \in Blocks, NEW l \in 1..NIADDR
               PROVE  p[f][b] \notin t[g][l]
    OBVIOUS
  <2>1. 0 \notin t[g][l] /\ o[f][b] \notin t[g][l]
    BY <1>1 DEF Sep
  <2> QED BY <2>1
<1>4. \A f, g \in Inos : \A l, m \in 1..NIADDR : \A a \in s[f][l] : a \in s[g][m] => f = g /\ l = m
  BY DEF Sep
<1>5. \A f \in Inos : \A b \in Blocks : p[f][b] \in Data => p[f][b] \in u
  BY <1>1 DEF Sep
<1>6. \A f \in Inos : \A l \in 1..NIADDR : s[f][l] \subseteq u
  BY DEF Sep
<1>7. \A f \in Inos : \A b \in Blocks : p[f][b] # SBLKNO /\ (p[f][b] = FULL => b = 0)
  BY <1>1 DEF Sep
<1> QED BY <1>2, <1>3, <1>4, <1>5, <1>6, <1>7 DEF Sep

\* A block of a file is freed.
LEMMA SepFreeOwn ==
  ASSUME NEW o, NEW t \in Tabs, NEW u, Sep(o, t, u), NEW f \in Inos, NEW b \in Blocks, 
         NEW a \in Data, a = o[f][b], NEW p, p[f][b] = 0,
         \A g \in Inos : \A c \in Blocks : (g = f /\ c = b) \/ p[g][c] = o[g][c]
  PROVE  Sep(p, t, u \ {a})
<1>4. Sep(p, t, u)
  <2>1. \A g \in Inos : \A l \in 1..NIADDR : t[g][l] \subseteq t[g][l] /\ t[g][l] \subseteq Data
    BY DEF Tabs
  <2>2. \A g \in Inos : \A c \in Blocks : p[g][c] = o[g][c] \/ p[g][c] = 0
    OBVIOUS
  <2> QED BY <2>1, <2>2, SepLess
<1>5. \A g \in Inos : \A c \in Blocks : p[g][c] # a
  BY Consts DEF Sep
<1>6. \A g \in Inos : \A l \in 1..NIADDR : a \notin t[g][l]
  BY DEF Sep
<1>7. \A g \in Inos : \A c \in Blocks : p[g][c] \in Data => p[g][c] \in u \ {a}
  BY <1>4, <1>5 DEF Sep
<1>8. \A g \in Inos : \A l \in 1..NIADDR : t[g][l] \subseteq u \ {a}
  BY <1>4, <1>6 DEF Sep
<1> QED BY <1>4, <1>7, <1>8 DEF Sep

\* A table of a file is freed.
LEMMA SepFreeTab ==
  ASSUME NEW o, NEW t \in Tabs, NEW u, Sep(o, t, u), NEW f \in Inos, NEW l \in 1..NIADDR, NEW a \in t[f][l],
         NEW s, a \notin s[f][l], \A g \in Inos : \A m \in 1..NIADDR : s[g][m] \subseteq t[g][m]
  PROVE  Sep(o, s, u \ {a})
<1>3. Sep(o, s, u)
  <2>1. \A g \in Inos : \A m \in 1..NIADDR : s[g][m] \subseteq t[g][m] /\ t[g][m] \subseteq Data
    BY DEF Tabs
  <2> QED BY <2>1, SepLess
<1>4. \A g \in Inos : \A c \in Blocks : o[g][c] # a
  BY DEF Sep
<1>5. \A g \in Inos : \A m \in 1..NIADDR : a \notin s[g][m]
  BY DEF Sep
<1>6. \A g \in Inos : \A c \in Blocks : o[g][c] \in Data => o[g][c] \in u \ {a}
  BY <1>3, <1>4 DEF Sep
<1>7. \A g \in Inos : \A m \in 1..NIADDR : s[g][m] \subseteq u \ {a}
  BY <1>3, <1>5 DEF Sep
<1> QED BY <1>3, <1>6, <1>7 DEF Sep

-----------------------------------------------------------------------------
(* The calls of balloc() and bfree(), and the writes of blocks. *)

\* balloc() answers with a block that was not in use, or that the disk is full.
LEMMA BallocStep ==
  ASSUME IInv, Balloc
  PROVE  /\ IInv' /\ blk' = blk
         /\ \/ ret' = FULL /\ used' = used
            \/ ret' \in Data /\ ret' \notin used /\ used' = used \cup {ret'}
<1>1. IInv' /\ blk' = blk
  BY ReadyStepInv DEF Balloc, BallocList, BallocRefill, BallocFull
<1>2. \A x \in Free : x \notin used /\ x \in Data
  <2>1. ChainSet \subseteq Data
    BY ElementOfSeq DEF IInv, TypeOK, ChainSet
  <2> QED BY <2>1, FreeMembers DEF IInv, Apart
<1>3. CASE BallocList
  BY <1>2, <1>3, BallocListStep DEF BallocList
<1>4. CASE BallocRefill
  BY <1>2, <1>4, BallocRefillStep DEF BallocRefill
<1>5. CASE BallocFull
  BY <1>1, <1>5 DEF BallocFull
<1> QED BY <1>1, <1>3, <1>4, <1>5 DEF Balloc

\* bfree() of a block in use takes it out of use and writes at most to the block itself.
LEMMA BfreeStep ==
  ASSUME IInv, NEW a \in used, Bfree(a)
  PROVE  /\ IInv' /\ used' = used \ {a} /\ ret' = ret
         /\ \A c \in Data : c # a => blk'[c] = blk[c]
         /\ fdbhead # LIST - 1 => blk' = blk
<1>1. a \in Data /\ blk \in [Data -> Lists]
  BY DEF IInv, TypeOK
<1>2. CASE BfreeList(a)
  BY <1>2, BfreeListStep DEF BfreeList
<1>3. CASE BfreeSpill(a)
  BY <1>1, <1>3, BfreeSpillStep DEF BfreeSpill
<1> QED BY <1>1, <1>2, <1>3 DEF Bfree

\* bfree() keeps the types of the free list, whatever is freed.
LEMMA BfreeTypes ==
  ASSUME TypeOK, NEW a, Bfree(a)
  PROVE  TypeOK'
<1>0. LIST \in Nat \ {0, 1} /\ 0 \in Index
  BY BlockAllocAssumption DEF Index
<1>1. CASE a \notin Data
  BY <1>1 DEF Bfree, TypeOK, vars
<1>2. CASE a \in Data /\ BfreeList(a)
  <2>1. fdbhead \in Index /\ fdbhead + 1 \in Index
    BY <1>0, <1>2 DEF BfreeList, TypeOK, Index
  <2>2. fdb' \in Lists
    BY <1>2, <2>1 DEF BfreeList, TypeOK, Lists
  <2> QED BY <1>2, <2>1, <2>2 DEF BfreeList, UpdateSb, TypeOK
<1>3. CASE a \in Data /\ BfreeSpill(a)
  <2>1. fdb' \in Lists /\ blk' \in [Data -> Lists] /\ fdbhead' \in Index
    BY <1>0, <1>3 DEF BfreeSpill, TypeOK, Lists
  <2>2. chain' \in Seq(Data)
    BY <1>3, AppendProperties DEF BfreeSpill, TypeOK
  <2> QED BY <1>3, <2>1, <2>2 DEF BfreeSpill, UpdateSb, TypeOK
<1> QED BY <1>1, <1>2, <1>3 DEF Bfree

\* A write changes one block.
LEMMA PutTypes ==
  ASSUME Types, NEW a \in Data, NEW c \in [0..(LS - 1) -> Arrays], PutContents(a, c)
  PROVE  /\ blk' \in [Data -> Lists] /\ rest' \in [Data -> [Upper -> Arrays]]
         /\ \A x \in Data : x # a => blk'[x] = blk[x] /\ rest'[x] = rest[x]
         /\ \A j \in Index : blk'[a][j] = c[j]
         /\ \A j \in Upper : rest'[a][j] = c[j]
<1>1. LIST \in Nat /\ LS \in Nat /\ LIST <= LS
  BY Consts
<1>2. \A j \in Index : j \in 0..(LS - 1)
  BY <1>1 DEF Index
<1>3. \A j \in Upper : j \in 0..(LS - 1)
  BY <1>1 DEF Upper
<1>4. [j \in Index |-> c[j]] \in Lists /\ [j \in Upper |-> c[j]] \in [Upper -> Arrays]
  BY <1>2, <1>3 DEF Lists, Arrays
<1>5. blk \in [Data -> Lists] /\ rest \in [Data -> [Upper -> Arrays]]
  BY DEF Types, BlocksTypeOK, TypeOK
<1>6. /\ blk' = [blk EXCEPT ![a] = [j \in Index |-> c[j]]]
      /\ rest' = [rest EXCEPT ![a] = [j \in Upper |-> c[j]]]
  BY DEF PutContents
<1> QED BY <1>4, <1>5, <1>6

\* A write into a block in use does not reach the free list.
LEMMA PutStep ==
  ASSUME Types, IInv, NEW a \in used, NEW c \in [0..(LS - 1) -> Arrays], PutContents(a, c), UNCHANGED listVars
  PROVE  IInv'
<1>1. a \in Data
  BY DEF IInv, TypeOK
<1>2. PICK b \in [Data -> Lists] : b = blk'
  BY <1>1, PutTypes
<1>3. \A x \in Data \ used : b[x] = blk[x]
  BY <1>1, <1>2, PutTypes
<1>4. fdb' = fdb /\ fdbhead' = fdbhead /\ UNCHANGED <<sb, chain, used, ret>>
  BY DEF listVars
<1>5. wiped' \in (0..LISTS) \cup {TORN}
  BY DEF listVars, IInv, TypeOK
<1> QED BY <1>2, <1>3, <1>4, <1>5, OwnedWriteStep

\* A step that leaves the variables of the free list alone keeps its invariant.
LEMMA ListKept ==
  ASSUME IInv, UNCHANGED vars
  PROVE  IInv'
BY ReadyStepInv

-----------------------------------------------------------------------------
(* What the invariant says of a file and of the call in progress. *)

\* A step of a call
LEMMA AtFacts ==
  ASSUME Ind, NEW ops, NEW p, At(ops, p), "idle" \notin ops
  PROVE  /\ Types /\ Sound /\ fault = FALSE
         /\ call \in CallSet /\ call.op \in ops /\ call.at = p
<1>1. fault \in BOOLEAN
  BY DEF Ind, Types, BlocksTypeOK
<1>2. fault = FALSE
  BY <1>1 DEF At
<1>3. call # Idle
  BY DEF At, Idle
<1> QED BY <1>2, <1>3 DEF Ind, Types, At

\* The beginning of a call
LEMMA IdleFacts ==
  ASSUME Ind, call = Idle, ~fault
  PROVE  /\ Types /\ Sound /\ fault = FALSE
         /\ call.op = "idle" /\ ~Wiping /\ ~Growing /\ Pending = {}
<1>1. fault \in BOOLEAN
  BY DEF Ind, Types, BlocksTypeOK
<1>2. fault = FALSE
  BY <1>1
<1> QED BY <1>2 DEF Ind, Idle, Wiping, Growing, Pending

\* The copies of an inode
LEMMA IcFacts ==
  ASSUME Types, Shape, NEW f \in Inos
  PROVE  /\ Ic(f) \in Icommon /\ inode[f] \in Icommon
         /\ Ic(f).db = inode[f].db /\ Ic(f).ib = inode[f].ib /\ Ic(f).mode = inode[f].mode
         /\ inode[f].size <= Ic(f).size
<1>1. inode[f] \in Icommon /\ mem[f] \in Icommon \cup {CLOSED} /\ inode[f].size \in Nat
  BY Consts DEF Types, BlocksTypeOK, Icommon
<1>2. CASE mem[f] = CLOSED
  BY <1>1, <1>2 DEF Ic
<1>3. CASE mem[f] # CLOSED
  BY <1>1, <1>3 DEF Ic, Shape
<1> QED BY <1>2, <1>3

\* The last block of a linked file
LEMMA LastFacts ==
  ASSUME Types, Shape, NEW f \in linked
  PROVE  /\ f \in Inos /\ LastOf(Ic(f)) \in Blocks /\ LastOf(inode[f]) \in Blocks
         /\ LastOf(inode[f]) <= LastOf(Ic(f))
         /\ f # ROOT_DIR => /\ Ic(f).mode = "IFREG" /\ LastOf(Ic(f)) = Ic(f).size \div BLOCK_SIZE
                            /\ LastOf(inode[f]) = inode[f].size \div BLOCK_SIZE
         /\ f = ROOT_DIR => /\ Ic(f) = inode[f] /\ inode[f].size \in 1..INODES
                            /\ LastOf(Ic(f)) = (inode[f].size - 1) \div BLOCK_SIZE
<1>1. f \in Inos /\ linked \subseteq Inos
  BY DEF Types, BlocksTypeOK
<1>2. /\ Ic(f).size \in 0..MAX_SIZE /\ inode[f].size \in 0..MAX_SIZE /\ inode[f].size <= Ic(f).size
      /\ Ic(f).mode = inode[f].mode /\ BLOCK_SIZE \in Nat \ {0} /\ MAX_SIZE \in Nat
  BY <1>1, IcFacts, Consts DEF Icommon
<1>3. CASE f # ROOT_DIR
  <2>1. inode[f].mode = "IFREG"
    BY <1>3 DEF Shape
  <2>2. LastOf(Ic(f)) = Ic(f).size \div BLOCK_SIZE /\ LastOf(inode[f]) = inode[f].size \div BLOCK_SIZE
    BY <1>2, <2>1 DEF LastOf
  <2>3. Ic(f).size \div BLOCK_SIZE \in Blocks /\ inode[f].size \div BLOCK_SIZE \in Blocks
    BY <1>2, BlockNumbers
  <2>4. inode[f].size \div BLOCK_SIZE <= Ic(f).size \div BLOCK_SIZE
    BY <1>2, DivMono
  <2> QED BY <1>1, <1>2, <1>3, <2>1, <2>2, <2>3, <2>4
<1>4. CASE f = ROOT_DIR
  <2>1. Ic(f) = inode[f] /\ inode[f].mode = "IFDIR" /\ Cardinality(linked) = inode[f].size
    BY <1>4 DEF Shape, Ic
  <2>2. inode[f].size \in 1..INODES
    <3>1. IsFiniteSet(Inos) /\ Cardinality(Inos) = INODES
      BY Consts, FS_Interval DEF Inos
    <3>2. IsFiniteSet(linked) /\ Cardinality(linked) <= INODES
      BY <1>1, <3>1, FS_Subset
    <3>3. Cardinality(linked) # 0
      BY <3>2, FS_EmptySet
    <3> QED BY <1>2, <2>1, <3>2, <3>3, Consts
  <2>3. LastOf(inode[f]) = (inode[f].size - 1) \div BLOCK_SIZE
    BY <2>1 DEF LastOf
  <2>4. inode[f].size - 1 \in 0..MAX_SIZE
    BY <1>2, <2>2, Consts
  <2>5. (inode[f].size - 1) \div BLOCK_SIZE \in Blocks
    BY <2>4, BlockNumbers
  <2>6. (inode[f].size - 1) \div BLOCK_SIZE \in Nat
    BY <2>5, BlockNumbers
  <2> QED BY <1>1, <1>4, <2>1, <2>2, <2>3, <2>5, <2>6
<1> QED BY <1>3, <1>4

\* The blocks of a file up to its last one have been entered.
LEMMA HiFacts ==
  ASSUME Types, Shape, CallOK, NEW f \in linked
  PROVE  /\ Hi(f) \in Blocks /\ LastOf(Ic(f)) <= Hi(f) /\ HiT(f) \in Blocks /\ Hi(f) <= HiT(f)
<1>1. /\ LastOf(Ic(f)) \in Blocks /\ LastOf(Ic(f)) \in Nat /\ f \in Inos
      /\ BLOCK_SIZE \in Nat \ {0} /\ MAX_SIZE \in Nat
  BY LastFacts, BlockNumbers, Consts
<1>2. CASE ~(Growing /\ call.f = f)
  BY <1>1, <1>2 DEF Hi, HiT
<1>3. CASE Growing /\ call.f = f
  <2>1. call \in CallSet /\ call.i \in Blocks /\ call.last \in Blocks
    BY <1>3 DEF Types, Growing, Idle, CallSet
  <2>0. call.i \in Nat /\ call.last \in Nat
    BY <2>1, BlockNumbers
  <2>2. CASE call.at \in AllocAt
    <3>1. LastOf(Ic(f)) < call.i /\ 0 < call.i
      BY <1>3, <2>2 DEF CallOK, GrowOK
    <3>2. call.i - 1 \in Nat /\ call.i - 1 <= call.i
      BY <1>1, <2>0, <3>1
    <3>3. call.i - 1 \in Blocks
      BY <2>1, <3>2, BlockNumbers
    <3>4. Hi(f) = call.i - 1
      BY <1>3, <2>2 DEF Hi
    <3>5. HiT(f) = call.i \/ HiT(f) = Hi(f)
      BY <1>3 DEF HiT
    <3> QED BY <1>1, <2>0, <2>1, <3>1, <3>2, <3>3, <3>4, <3>5
  <2>3. CASE call.at \notin AllocAt
    <3>1. HiT(f) = Hi(f)
      BY <2>3 DEF HiT, AllocAt
    <3>2. CASE call.op = "write"
      <4>1. f \in linked /\ f # ROOT_DIR /\ mem[f] # CLOSED /\ call.last = call.end \div BLOCK_SIZE
            /\ call.end \in Nat
        BY <1>3, <2>1, <3>2 DEF CallOK, WriteOK, CallSet
      <4>2. call.at = "got" => mem[f].size < call.end
        BY <1>3, <3>2 DEF CallOK, WriteOK
      <4>3. LastOf(Ic(f)) = mem[f].size \div BLOCK_SIZE /\ mem[f].size \in Nat
        <5>1. Ic(f) = mem[f] /\ Ic(f) \in Icommon
          BY <1>1, <4>1, IcFacts DEF Ic
        <5> QED BY <1>1, <4>1, <5>1, LastFacts DEF Icommon
      <4>4. call.at = "got" => LastOf(Ic(f)) <= call.last
        BY <1>1, <4>1, <4>2, <4>3, DivMono
      <4>5. call.at # "size"
        BY <3>2 DEF CallOK, WriteOK, AllocAt
      <4> QED BY <1>1, <2>0, <2>1, <2>3, <3>1, <4>4, <4>5 DEF Hi
    <3>3. CASE call.op = "create"
      <4>1. f = ROOT_DIR /\ call.last = inode[f].size \div BLOCK_SIZE
        BY <1>3, <3>3 DEF CallOK, CreateOK
      <4>2. LastOf(Ic(f)) = (inode[f].size - 1) \div BLOCK_SIZE /\ inode[f].size \in 1..INODES
        BY <4>1, LastFacts
      <4>3. inode[f].size - 1 \in Nat /\ inode[f].size \in Nat /\ inode[f].size - 1 <= inode[f].size
        BY <4>2
      <4>4. LastOf(Ic(f)) <= call.last
        BY <1>1, <4>1, <4>2, <4>3, DivMono
      <4> QED BY <1>1, <2>0, <2>1, <2>3, <3>1, <4>4 DEF Hi
    <3> QED BY <1>3, <3>2, <3>3 DEF Growing
  <2> QED BY <2>2, <2>3
<1> QED BY <1>2, <1>3

-----------------------------------------------------------------------------
(* Steps that give no file a block and take none from it. *)

\* Addresses stay right when no single indirect table is written.
LEMMA StillMaps ==
  ASSUME Types, Sound, own' = own, tabs' = tabs, linked' = linked,
         \A f \in Inos : \A a \in tabs[f][1] : blk'[a] = blk[a] /\ rest'[a] = rest[a],
         \A f \in linked : /\ Ic(f)'.db = Ic(f).db /\ Ic(f)'.ib = Ic(f).ib
                           /\ Hi(f)' \in Int /\ Hi(f)' <= Hi(f)
  PROVE  Maps'
<1> SUFFICES ASSUME NEW f \in linked
             PROVE  FileOK(blk', rest', Ic(f)', own[f], tabs[f], Hi(f)')
  BY DEF Maps
<1>1. f \in Inos
  BY DEF Types, BlocksTypeOK
<1>2. Hi(f) \in Nat
  BY HiFacts, BlockNumbers DEF Sound
<1>3. FileOK(blk, rest, Ic(f), own[f], tabs[f], Hi(f))
  BY DEF Sound, Maps
<1> QED BY <1>1, <1>2, <1>3, FileFrame

\* No block gets a second purpose.
LEMMA StillSep ==
  ASSUME Types, Types', Sound, own' = own, tabs' = tabs, used \subseteq used',
         \A a \in Pending' : a \in used' /\ (a \in Pending \/ a \notin used)
  PROVE  Separate'
<1>1. Sep(own, tabs, used')
  BY SepMore DEF Sound, Separate
<1>2. ASSUME NEW a \in Pending' PROVE a \in used' /\ ~Held(own, tabs, a)
  <2>1. CASE a \in Pending
    BY <2>1 DEF Sound, Separate
  <2>2. CASE a \notin used
    <3>1. a \in Data
      BY <1>2 DEF Types, BlocksTypeOK, TypeOK
    <3> QED BY <1>2, <2>2, <3>1 DEF Sound, Separate, Sep, Held
  <2> QED BY <1>2, <2>1, <2>2
<1> QED BY <1>1, <1>2 DEF Separate

\* Every block in use is still accounted for.
LEMMA StillAccounted ==
  ASSUME Types, Sound, own' = own, tabs' = tabs, linked' = linked, call'.op # "remove",
         lossy' = FALSE => /\ lossy = FALSE /\ used' \subseteq used \cup Pending' /\ Pending \subseteq Pending'
                           /\ Growing' => call'.failed = FALSE,
         \A f \in linked : /\ Ic(f)'.ib = Ic(f).ib /\ Hi(f)' \in Int /\ Hi(f) <= Hi(f)'
                           /\ HiT(f)' \in Int /\ HiT(f) <= HiT(f)'
  PROVE  Accounted'
<1> SUFFICES ASSUME lossy' = FALSE
             PROVE  /\ \A a \in used' : Held(own, tabs, a) \/ a \in Pending'
                    /\ \A f \in linked : Tidy(Ic(f)', own[f], tabs[f], Hi(f)', HiT(f)')
  BY DEF Accounted
<1>1. \A a \in used' : Held(own, tabs, a) \/ a \in Pending'
  BY DEF Sound, Accounted
<1>2. ASSUME NEW f \in linked PROVE Tidy(Ic(f)', own[f], tabs[f], Hi(f)', HiT(f)')
  <2>1. Tidy(Ic(f), own[f], tabs[f], Hi(f), HiT(f))
    BY DEF Sound, Accounted
  <2>2. PICK h \in Nat : h = Hi(f)
    BY HiFacts, BlockNumbers DEF Sound
  <2>3. PICK k \in Nat : k = HiT(f)
    BY HiFacts, BlockNumbers DEF Sound
  <2>4. PICK m \in Int : m = Hi(f)' /\ h <= m
    BY <2>2
  <2>5. PICK n \in Int : n = HiT(f)' /\ k <= n
    BY <2>3
  <2>6. ASSUME NEW b \in Blocks, own[f][b] # 0 PROVE b <= m
    <3>1. b <= h /\ b \in Nat
      BY <2>1, <2>2, <2>6, BlockNumbers DEF Tidy
    <3> QED BY <2>4, <3>1
  <2>7. ASSUME NEW l \in 1..NIADDR, tabs[f][l] # {} PROVE Base(l) <= n
    <3>1. Base(l) <= k /\ Base(l) \in Nat
      BY <2>1, <2>3, <2>7, LevelFacts DEF Tidy
    <3> QED BY <2>5, <3>1
  <2> QED BY <2>1, <2>4, <2>5, <2>6, <2>7 DEF Tidy
<1> QED BY <1>1, <1>2

\* The inodes and the directory stay as they are.
LEMMA StillShape ==
  ASSUME Shape, ~Wiping, ~Wiping', UNCHANGED <<linked, inode, mem>>
  PROVE  Shape'
BY DEF Shape

\* disk_wr of data or of directory entries: unless the block is not the file's, no
\* table and no list of free blocks is written.
LEMMA PutBlockStep ==
  ASSUME Types, Sound, NEW f \in Inos, NEW i \in Blocks, PutBlock(f, i), UNCHANGED listVars
  PROVE  /\ TypeOK' /\ rest' \in [Data -> [Upper -> Arrays]] /\ fault' \in BOOLEAN
         /\ fault' = FALSE =>
              /\ IInv' /\ Addr(Ic(f), i) = own[f][i] /\ own[f][i] \in Data
              /\ \A g \in Inos : \A a \in tabs[g][1] : blk'[a] = blk[a] /\ rest'[a] = rest[a]
<1>1. PICK a : a = Addr(Ic(f), i)
  OBVIOUS
<1>2. PICK c \in [0..(LS - 1) -> Arrays] : c = [j \in 0..(LS - 1) |-> 0]
  BY DEF Arrays
<1>3. fault' = (a \notin Data \/ a # own[f][i])
  BY <1>1 DEF PutBlock
<1>4. (a \in Data /\ PutContents(a, c)) \/ (a \notin Data /\ UNCHANGED <<blk, rest>>)
  BY <1>1, <1>2 DEF PutBlock, PutData
<1>5. blk' \in [Data -> Lists] /\ rest' \in [Data -> [Upper -> Arrays]]
  <2>1. CASE a \in Data /\ PutContents(a, c)
    BY <2>1, PutTypes
  <2>2. CASE a \notin Data /\ UNCHANGED <<blk, rest>>
    BY <2>2 DEF Types, BlocksTypeOK, TypeOK
  <2> QED BY <1>4, <2>1, <2>2
<1>6. TypeOK'
  BY <1>5 DEF Types, BlocksTypeOK, TypeOK, listVars
<1>7. ASSUME fault' = FALSE
      PROVE  /\ IInv' /\ Addr(Ic(f), i) = own[f][i] /\ own[f][i] \in Data
             /\ \A g \in Inos : \A x \in tabs[g][1] : blk'[x] = blk[x] /\ rest'[x] = rest[x]
  <2>1. a \in Data /\ a = own[f][i] /\ PutContents(a, c)
    BY <1>3, <1>4, <1>7
  <2>2. a \in used
    BY <2>1 DEF Sound, Separate, Sep
  <2>3. IInv'
    BY <2>1, <2>2, PutStep DEF Sound
  <2>4. \A g \in Inos : \A x \in tabs[g][1] : x # a /\ x \in Data
    BY <2>1 DEF Sound, Separate, Sep, Types, BlocksTypeOK, NIADDR
  <2>5. \A x \in Data : x # a => blk'[x] = blk[x] /\ rest'[x] = rest[x]
    BY <2>1, PutTypes
  <2> QED BY <1>1, <2>1, <2>3, <2>4, <2>5
<1>8. fault' \in BOOLEAN
  BY <1>3
<1> QED BY <1>5, <1>6, <1>7, <1>8

\* The file that a call gives blocks to is in the directory.
LEMMA GrowFacts ==
  ASSUME Types, Sound, Growing
  PROVE  /\ call \in CallSet /\ call.f \in linked /\ call.f \in Inos /\ GrowOK
         /\ ~Wiping /\ call.op # "remove" /\ call.i \in Blocks /\ call.i \in Nat
         /\ call.last \in Blocks /\ call.last \in Nat
         /\ call.op = "create" => call.new # call.f
<1>1. call \in CallSet
  BY DEF Types, Growing, Idle
<1>2. ~Wiping /\ call.op # "remove" /\ call.op \in {"write", "create"}
  BY DEF Growing, Wiping
<1>3. call.f \in linked /\ (call.op = "create" => call.new # call.f)
  <2>1. CASE call.op = "write"
    BY <2>1 DEF Sound, CallOK, WriteOK
  <2>2. CASE call.op = "create"
    BY <1>2, <2>2 DEF Sound, Shape, CallOK, CreateOK
  <2> QED BY <1>2, <2>1, <2>2
<1>4. call.f \in Inos /\ call.i \in Blocks /\ call.last \in Blocks
  BY <1>1 DEF CallSet
<1>5. call.i \in Nat /\ call.last \in Nat
  BY <1>4, BlockNumbers
<1>6. GrowOK
  BY DEF Sound, CallOK
<1> QED BY <1>1, <1>2, <1>3, <1>4, <1>5, <1>6

\* A step of allocateDataBlockAddr leaves the caller's variables and all other files alone.
LEMMA GrowCall ==
  ASSUME Types, Sound, Growing, call.at \in AllocAt, call'.at \in AllocAt \cup {"got"},
         call'.op = call.op, call'.f = call.f, call'.last = call.last, call'.head = call.head,
         call'.end = call.end, call'.new = call.new, call.op = "create" => call'.i = call.i,
         linked' = linked, inode'[ROOT_DIR].size = inode[ROOT_DIR].size,
         mem[call.f] # CLOSED => mem'[call.f] # CLOSED /\ mem'[call.f].size = mem[call.f].size,
         \A g \in Inos : g # call.f => inode'[g] = inode[g] /\ own'[g] = own[g] /\ tabs'[g] = tabs[g]
  PROVE  /\ call.op = "write" => WriteOK'
         /\ call.op = "create" => CreateOK'
         /\ Unused'
<1>1. /\ call \in CallSet /\ call.f \in linked /\ call.new \in Inos
      /\ call.op = "create" => call.new # call.f
  BY GrowFacts DEF CallSet
<1>2. call.at \notin {"data", "first", "inode", "size", "got"} /\ call'.at \notin {"data", "first", "inode", "size"}
  BY DEF AllocAt
<1>3. call.op = "write" => WriteOK'
  BY <1>2 DEF Sound, CallOK, WriteOK
<1>4. call.op = "create" => CreateOK'
  <2> SUFFICES ASSUME call.op = "create" PROVE CreateOK'
    OBVIOUS
  <2>1. CreateOK
    BY DEF Sound, CallOK
  <2>2. inode'[call.new] = inode[call.new] /\ own'[call.new] = own[call.new] /\ tabs'[call.new] = tabs[call.new]
    BY <1>1
  <2> QED BY <1>2, <2>1, <2>2 DEF CreateOK
<1>5. Unused'
  BY <1>1, <1>2 DEF Sound, Unused
<1> QED BY <1>3, <1>4, <1>5

-----------------------------------------------------------------------------
(* allocateDataBlockAddr: the steps before a block is entered. *)

\* A failure leaves everything as it is, but for the blocks that are taken and lost.
LEMMA FailStep ==
  ASSUME Types, Sound, Types', IInv', Growing, call.at \in AllocAt,
         Fails, UNCHANGED <<rest, inode, mem, linked, own, tabs>>, blk' = blk, used \subseteq used'
  PROVE  Sound'
<1>1. /\ call \in CallSet /\ call.f \in linked /\ call.op \in {"write", "create"} /\ ~Wiping
      /\ call.i \in Nat
  BY GrowFacts DEF Growing
<1>2. /\ call'.op = call.op /\ call'.f = call.f /\ call'.last = call.last /\ call'.head = call.head
      /\ call'.end = call.end /\ call'.new = call.new /\ call'.i = call.i
      /\ call'.at = "got" /\ call'.failed = TRUE /\ lossy' = TRUE
  BY <1>1 DEF Fails, CallSet
<1>3. ~Wiping' /\ Growing' /\ Pending' = {}
  BY <1>1, <1>2 DEF Wiping, Growing, Pending
<1>4. Shape'
  BY <1>1, <1>3, StillShape DEF Sound
<1>5. (call.op = "write" => WriteOK') /\ (call.op = "create" => CreateOK') /\ Unused'
  BY <1>1, <1>2, GrowCall
<1>6. CallOK'
  BY <1>1, <1>2, <1>5 DEF CallOK, GrowOK, AllocAt
<1>7. Separate'
  BY <1>3, StillSep
<1>8. Maps'
  <2> SUFFICES ASSUME NEW f \in linked
               PROVE  Ic(f)' = Ic(f) /\ Hi(f)' \in Int /\ Hi(f)' <= Hi(f)
    BY StillMaps
  <2>1. Ic(f)' = Ic(f)
    BY DEF Ic
  <2>2. Hi(f)' = LastOf(Ic(f))
    BY <1>2, <2>1 DEF Hi, AllocAt
  <2>3. LastOf(Ic(f)) \in Nat /\ LastOf(Ic(f)) <= Hi(f)
    BY LastFacts, HiFacts, BlockNumbers DEF Sound
  <2> QED BY <2>1, <2>2, <2>3
<1>9. Removal' /\ Accounted'
  BY <1>1, <1>2 DEF Removal, Accounted
<1> QED BY <1>4, <1>5, <1>6, <1>7, <1>8, <1>9 DEF Sound

\* A step on the way to the place where the block is entered.
LEMMA WalkStep ==
  ASSUME Types, Sound, Types', IInv', Growing, call.at \in AllocAt, call'.at \in AllocAt,
         call'.op = call.op, call'.f = call.f, call'.last = call.last, call'.head = call.head,
         call'.end = call.end, call'.new = call.new, call'.i = call.i, call'.failed = call.failed,
         call.at \in {"walk", "child"} => call'.at \in {"walk", "child"},
         UNCHANGED <<rest, inode, mem, linked, own, tabs, lossy>>, blk' = blk,
         used \subseteq used', used' \subseteq used \cup Pending', Pending \subseteq Pending',
         \A a \in Pending' : a \in used' /\ (a \in Pending \/ a \notin used),
         GrowOK'
  PROVE  Sound'
<1>1. /\ call \in CallSet /\ call.f \in linked /\ call.op \in {"write", "create"} /\ ~Wiping
      /\ call.i \in Nat /\ GrowOK
  BY GrowFacts DEF Growing
<1>2. ~Wiping' /\ Growing'
  BY <1>1 DEF Wiping, Growing
<1>3. Shape'
  BY <1>1, <1>2, StillShape DEF Sound
<1>4. (call.op = "write" => WriteOK') /\ (call.op = "create" => CreateOK') /\ Unused'
  BY <1>1, GrowCall
<1>5. CallOK'
  BY <1>1, <1>4 DEF CallOK
<1>6. Separate'
  BY StillSep
<1>7. ASSUME NEW f \in linked
      PROVE  /\ Ic(f)' = Ic(f) /\ Hi(f)' = Hi(f) /\ Hi(f) \in Nat
             /\ HiT(f)' \in Int /\ HiT(f) <= HiT(f)'
  <2>1. Ic(f)' = Ic(f)
    BY DEF Ic
  <2>2. Hi(f)' = Hi(f)
    BY <1>2, <2>1 DEF Hi
  <2>3. Hi(f) \in Nat /\ HiT(f) \in Nat /\ Hi(f) <= HiT(f)
    BY HiFacts, BlockNumbers DEF Sound
  <2>4. CASE call.f # f
    BY <2>1, <2>2, <2>3, <2>4 DEF HiT
  <2>5. CASE call.f = f /\ call'.at \in {"walk", "child"}
    <3>1. HiT(f)' = call.i
      BY <1>2, <2>5 DEF HiT
    <3>2. HiT(f) = call.i \/ HiT(f) = call.i - 1
      BY <2>5 DEF HiT, Hi
    <3> QED BY <1>1, <2>1, <2>2, <2>3, <3>1, <3>2
  <2>6. CASE call.f = f /\ call'.at \notin {"walk", "child"}
    <3>1. HiT(f)' = Hi(f) /\ HiT(f) = Hi(f)
      BY <2>2, <2>6 DEF HiT
    <3> QED BY <2>1, <2>2, <2>3, <3>1
  <2> QED BY <2>1, <2>2, <2>3, <2>4, <2>5, <2>6
<1>8. Maps'
  BY <1>7, StillMaps
<1>9. Accounted'
  <2>1. \A f \in linked : Hi(f)' \in Int /\ Hi(f) <= Hi(f)'
    BY <1>7
  <2>2. call'.op # "remove" /\ (lossy' = FALSE => lossy = FALSE) /\ (Growing' => call'.failed = FALSE)
    BY <1>1 DEF GrowOK
  <2> QED BY <1>7, <2>1, <2>2, StillAccounted
<1>10. Removal'
  BY <1>1 DEF Removal
<1> QED BY <1>3, <1>4, <1>5, <1>6, <1>8, <1>9, <1>10 DEF Sound

\* The data block is taken from the free list.
LEMMA AllocDataStep ==
  ASSUME Ind, AllocData
  PROVE  Ind'
<1>1. /\ Types /\ Sound /\ fault = FALSE /\ call \in CallSet /\ call.op \in {"write", "create"}
      /\ call.at = "alloc" /\ call.at \in AllocAt
  <2>1. At({"write", "create"}, "alloc")
    BY DEF AllocData
  <2> QED BY <2>1, AtFacts DEF AllocAt
<1>2. /\ Growing /\ GrowOK /\ call.i \in Blocks /\ call.i \in Nat
  BY <1>1, GrowFacts DEF Growing
<1>3. /\ IInv' /\ blk' = blk /\ UNCHANGED <<rest, inode, mem, linked, own, tabs, events, fault>>
      /\ \/ ret' = FULL /\ used' = used
         \/ ret' \in Data /\ ret' \notin used /\ used' = used \cup {ret'}
  BY <1>1, BallocStep DEF AllocData, Sound
<1>4. TypeOK' /\ used \subseteq used'
  BY <1>3 DEF IInv
<1>5. CASE ret' = FULL
  <2>1. Fails
    BY <1>5 DEF AllocData
  <2>2. call' \in CallSet /\ lossy' = TRUE
    BY <1>1, <2>1 DEF Fails, CallSet
  <2>3. Types'
    BY <1>1, <1>3, <1>4, <2>2 DEF Types, BlocksTypeOK
  <2>4. Sound'
    BY <1>1, <1>2, <1>3, <1>4, <2>1, <2>3, FailStep
  <2> QED BY <2>3, <2>4 DEF Ind
<1>6. CASE ret' # FULL
  <2>1. PICK p : p = IF Level(call.i) = 0 THEN "direct" ELSE "top"
    OBVIOUS
  <2>2. call' = [call EXCEPT !.at = p, !.addr = ret'] /\ lossy' = lossy
    BY <1>6, <2>1 DEF AllocData
  <2>3. ret' \in Data /\ ret' \in Addrs /\ ret' # FULL /\ ret' \notin used /\ used' = used \cup {ret'}
    BY <1>3, <1>6 DEF Addrs
  <2>4. p \in {"direct", "top"} /\ (p = "direct" => call.i < NDADDR) /\ (p = "top" => NDADDR <= call.i)
    <3>1. Level(call.i) = 0 <=> call.i < NDADDR
      BY <1>2, LevelFacts
    <3> QED BY <1>2, <2>1, <3>1, Consts
  <2>5. /\ call' \in CallSet
        /\ call'.op = call.op /\ call'.f = call.f /\ call'.last = call.last /\ call'.head = call.head
        /\ call'.end = call.end /\ call'.new = call.new /\ call'.i = call.i /\ call'.failed = call.failed
        /\ call'.at = p /\ call'.addr = ret' /\ call'.j = call.j
    BY <1>1, <2>2, <2>3, <2>4 DEF CallSet, AllocAt
  <2>6. Types'
    BY <1>1, <1>3, <1>4, <2>2, <2>5 DEF Types, BlocksTypeOK
  <2>7. Pending = {} /\ Pending' = {ret'}
    BY <1>1, <2>3, <2>4, <2>5 DEF Pending, Growing
  <2>8. Ic(call.f)' = Ic(call.f)
    BY <1>3, <2>5 DEF Ic
  <2>9. GrowOK'
    BY <1>1, <1>2, <2>3, <2>4, <2>5, <2>8 DEF GrowOK, AllocAt
  <2>10. Sound'
    BY <1>1, <1>2, <1>3, <1>4, <2>2, <2>3, <2>4, <2>5, <2>6, <2>7, <2>9, WalkStep DEF AllocAt
  <2> QED BY <2>6, <2>10 DEF Ind
<1> QED BY <1>5, <1>6

\* The table at the top is found in the inode.
LEMMA OldTopStep ==
  ASSUME Ind, OldTop
  PROVE  Ind'
<1>1. /\ Types /\ Sound /\ fault = FALSE /\ call \in CallSet /\ call.op \in {"write", "create"}
      /\ call.at = "top" /\ call.at \in AllocAt
  <2>1. At({"write", "create"}, "top")
    BY DEF OldTop
  <2> QED BY <2>1, AtFacts DEF AllocAt
<1>2. /\ Growing /\ GrowOK /\ call.i \in Blocks /\ call.i \in Nat /\ call.f \in linked /\ call.f \in Inos
  BY <1>1, GrowFacts DEF Growing
<1>3. IInv' /\ UNCHANGED <<blk, used, ret, rest, inode, mem, linked, own, tabs, lossy, events, fault>>
  BY <1>1, ListKept DEF OldTop, Sound, vars
<1>4. NDADDR <= call.i /\ call.addr \in Data /\ call.j = 1
  BY <1>1, <1>2 DEF GrowOK
<1>5. Level(call.i) \in 1..NIADDR
  BY <1>2, <1>4, LevelFacts, Consts DEF NIADDR
<1>6. PICK t \in Addrs : t = Ic(call.f).ib[Level(call.i)]
  BY <1>1, <1>2, <1>5, IcFacts DEF Sound, Icommon
<1>7. /\ call' \in CallSet
      /\ call'.op = call.op /\ call'.f = call.f /\ call'.last = call.last /\ call'.head = call.head
      /\ call'.end = call.end /\ call'.new = call.new /\ call'.i = call.i /\ call'.failed = call.failed
      /\ call'.at = "walk" /\ call'.addr = call.addr /\ call'.j = call.j /\ call'.t = t
  BY <1>1, <1>6 DEF OldTop, CallSet, AllocAt
<1>8. Types'
  BY <1>1, <1>3, <1>7 DEF Types, BlocksTypeOK, IInv
<1>9. Pending' = Pending /\ call'.at \in AllocAt
  BY <1>1, <1>3, <1>7 DEF Pending, Growing, AllocAt
<1>10. call.i < Reach => t = Ic(call.f).ib[1] /\ t \in tabs[call.f][1]
  <2> SUFFICES ASSUME call.i < Reach PROVE t = Ic(call.f).ib[1] /\ t \in tabs[call.f][1]
    OBVIOUS
  <2>1. Level(call.i) = 1 /\ Rel(call.i) = call.i - NDADDR
    BY <1>2, <1>4, LevelFacts DEF Rel
  <2>2. call.i # NDADDR
    BY <1>2, <2>1 DEF OldTop
  <2>3. PICK b \in Nat : b = call.i - 1 /\ NDADDR <= b /\ b < Reach /\ b <= call.i
    BY <1>2, <1>4, <2>2, Consts DEF Reach
  <2>4. b \in Blocks
    BY <1>2, <2>3, BlockNumbers
  <2>5. Hi(call.f) = b
    BY <1>1, <1>2, <2>3 DEF Hi
  <2>6. FileOK(blk, rest, Ic(call.f), own[call.f], tabs[call.f], Hi(call.f))
    BY <1>1, <1>2 DEF Sound, Maps
  <2>7. own[call.f][b] # 0
    BY <2>3, <2>4, <2>5, <2>6 DEF FileOK
  <2> QED BY <1>6, <2>1, <2>3, <2>4, <2>6, <2>7, Consts DEF FileOK, Rooted
<1>11. Ic(call.f)' = Ic(call.f)
  BY <1>3, <1>7 DEF Ic
<1>12. GrowOK'
  BY <1>1, <1>2, <1>3, <1>4, <1>5, <1>7, <1>10, <1>11 DEF GrowOK, AllocAt
<1>13. \A a \in Pending' : a \in used' /\ (a \in Pending \/ a \notin used)
  BY <1>1, <1>3, <1>9 DEF Sound, Separate
<1>14. Sound'
  BY <1>1, <1>2, <1>3, <1>7, <1>8, <1>9, <1>12, <1>13, WalkStep
<1> QED BY <1>8, <1>14 DEF Ind

\* A table below the top is followed.
LEMMA OldChildStep ==
  ASSUME Ind, OldChild
  PROVE  Ind'
<1>1. /\ Types /\ Sound /\ fault = FALSE /\ call \in CallSet /\ call.op \in {"write", "create"}
      /\ call.at = "walk" /\ call.at \in AllocAt
  <2>1. At({"write", "create"}, "walk")
    BY DEF OldChild
  <2> QED BY <2>1, AtFacts DEF AllocAt
<1>2. /\ Growing /\ GrowOK /\ call.i \in Blocks /\ call.i \in Nat /\ call.f \in linked /\ call.f \in Inos
  BY <1>1, GrowFacts DEF Growing
<1>3. IInv' /\ UNCHANGED <<blk, used, ret, rest, inode, mem, linked, own, tabs, lossy, events, fault>>
  BY <1>1, ListKept DEF OldChild, Sound, vars
<1>4. NDADDR <= call.i /\ call.addr \in Data
  BY <1>1, <1>2 DEF GrowOK
<1>5. PICK l \in 1..NIADDR : l = Level(call.i)
  BY <1>2, <1>4, LevelFacts, Consts DEF NIADDR
<1>6. PICK j \in 1..NIADDR : j = call.j /\ j < l /\ j + 1 \in 1..NIADDR
  BY <1>1, <1>5 DEF OldChild, CallSet, NIADDR
<1>7. PICK t \in Addrs : t = Contents(call.t)[Entry(call.i, call.j)]
  <2>1. Entry(call.i, j) \in 0..(LS - 1)
    BY <1>2, <1>5, <1>6, EntryType DEF NIADDR
  <2> QED BY <1>1, <1>6, <2>1, ContentsType DEF Arrays, Addrs
<1>8. /\ call' \in CallSet
      /\ call'.op = call.op /\ call'.f = call.f /\ call'.last = call.last /\ call'.head = call.head
      /\ call'.end = call.end /\ call'.new = call.new /\ call'.i = call.i /\ call'.failed = call.failed
      /\ call'.at = "walk" /\ call'.addr = call.addr /\ call'.j = j + 1 /\ call'.t = t
  BY <1>1, <1>6, <1>7 DEF OldChild, CallSet
<1>9. Types'
  BY <1>1, <1>3, <1>8 DEF Types, BlocksTypeOK, IInv
<1>10. Pending' = Pending
  BY <1>1, <1>3, <1>8 DEF Pending, Growing
<1>11. ~(call.i < Reach)
  BY <1>2, <1>4, <1>5, <1>6, LevelFacts
<1>12. Ic(call.f)' = Ic(call.f)
  BY <1>3, <1>8 DEF Ic
<1>13. GrowOK'
  BY <1>1, <1>2, <1>3, <1>4, <1>5, <1>6, <1>8, <1>11, <1>12 DEF GrowOK, AllocAt
<1>14. \A a \in Pending' : a \in used' /\ (a \in Pending \/ a \notin used)
  BY <1>1, <1>3, <1>10 DEF Sound, Separate
<1>15. Sound'
  BY <1>1, <1>2, <1>3, <1>8, <1>9, <1>10, <1>13, <1>14, WalkStep
<1> QED BY <1>9, <1>15 DEF Ind

\* A block for a table below the top is taken from the free list.
LEMMA NewChildStep ==
  ASSUME Ind, NewChild
  PROVE  Ind'
<1>1. /\ Types /\ Sound /\ fault = FALSE /\ call \in CallSet /\ call.op \in {"write", "create"}
      /\ call.at = "walk" /\ call.at \in AllocAt
  <2>1. At({"write", "create"}, "walk")
    BY DEF NewChild
  <2> QED BY <2>1, AtFacts DEF AllocAt
<1>2. /\ Growing /\ GrowOK /\ call.i \in Blocks /\ call.i \in Nat
  BY <1>1, GrowFacts DEF Growing
<1>3. /\ IInv' /\ blk' = blk /\ UNCHANGED <<rest, inode, mem, linked, own, tabs, events, fault>>
      /\ \/ ret' = FULL /\ used' = used
         \/ ret' \in Data /\ ret' \notin used /\ used' = used \cup {ret'}
  BY <1>1, BallocStep DEF NewChild, Sound
<1>4. TypeOK' /\ used \subseteq used'
  BY <1>3 DEF IInv
<1>5. CASE ret' = FULL
  <2>1. Fails
    BY <1>5 DEF NewChild
  <2>2. call' \in CallSet /\ lossy' = TRUE
    BY <1>1, <2>1 DEF Fails, CallSet
  <2>3. Types'
    BY <1>1, <1>3, <1>4, <2>2 DEF Types, BlocksTypeOK
  <2>4. Sound'
    BY <1>1, <1>2, <1>3, <1>4, <2>1, <2>3, FailStep
  <2> QED BY <2>3, <2>4 DEF Ind
<1>6. CASE ret' # FULL
  <2>1. call' = [call EXCEPT !.at = "child"] /\ lossy' = lossy /\ call.j < Level(call.i)
    BY <1>6 DEF NewChild
  <2>2. ret' \in Data /\ ret' # FULL /\ ret' \notin used /\ used' = used \cup {ret'}
    BY <1>3, <1>6
  <2>3. /\ call' \in CallSet
        /\ call'.op = call.op /\ call'.f = call.f /\ call'.last = call.last /\ call'.head = call.head
        /\ call'.end = call.end /\ call'.new = call.new /\ call'.i = call.i /\ call'.failed = call.failed
        /\ call'.at = "child" /\ call'.addr = call.addr /\ call'.j = call.j
    BY <1>1, <2>1 DEF CallSet, AllocAt
  <2>4. Types'
    BY <1>1, <1>3, <1>4, <2>1, <2>3 DEF Types, BlocksTypeOK
  <2>5. Pending = {call.addr} \ {FULL} /\ Pending' = Pending \cup {ret'}
    BY <1>1, <2>2, <2>3 DEF Pending, Growing
  <2>6. call.addr \in Data /\ call.addr \in used
    <3>1. call.addr \in Data
      BY <1>1, <1>2 DEF GrowOK
    <3>2. call.addr \in Pending
      BY <2>5, <3>1, Consts
    <3> QED BY <1>1, <3>1, <3>2 DEF Sound, Separate
  <2>7. Ic(call.f)' = Ic(call.f)
    BY <1>3, <2>3 DEF Ic
  <2>8. GrowOK'
    BY <1>1, <1>2, <2>1, <2>2, <2>3, <2>6, <2>7 DEF GrowOK, AllocAt
  <2>9. \A a \in Pending' : a \in used' /\ (a \in Pending \/ a \notin used)
    BY <2>2, <2>5, <2>6
  <2>10. Sound'
    BY <1>1, <1>2, <1>3, <1>4, <2>1, <2>2, <2>3, <2>4, <2>5, <2>8, <2>9, WalkStep DEF AllocAt
  <2> QED BY <2>4, <2>10 DEF Ind
<1> QED BY <1>5, <1>6

-----------------------------------------------------------------------------
(* allocateDataBlockAddr: the block and its tables are entered. *)

\* writeInode of a file that keeps its kind and its size
LEMMA PutIcStep ==
  ASSUME Types, Shape, ~Wiping, ~Wiping', NEW f \in linked, NEW ic \in Icommon,
         ic.mode = Ic(f).mode, ic.size = Ic(f).size, PutIc(f, ic), linked' = linked
  PROVE  /\ inode' \in [Inos -> Icommon] /\ mem' \in [Inos -> Icommon \cup {CLOSED}]
         /\ Shape' /\ Ic(f)' = ic
         /\ \A g \in Inos : g # f => inode'[g] = inode[g] /\ mem'[g] = mem[g] /\ Ic(g)' = Ic(g)
         /\ inode'[ROOT_DIR].size = inode[ROOT_DIR].size
         /\ mem[f] # CLOSED => mem'[f] # CLOSED /\ mem'[f].size = mem[f].size
<1>1. /\ f \in Inos /\ inode \in [Inos -> Icommon] /\ mem \in [Inos -> Icommon \cup {CLOSED}]
      /\ linked \subseteq Inos
  BY DEF Types, BlocksTypeOK
<1>2. /\ inode' = [inode EXCEPT ![f] = ic]
      /\ mem[f] = CLOSED => mem' = mem
      /\ mem[f] # CLOSED => mem' = [mem EXCEPT ![f] = ic]
  BY DEF PutIc
<1>3. ic # CLOSED
  BY DEF Icommon, CLOSED
<1>4. inode' \in [Inos -> Icommon] /\ mem' \in [Inos -> Icommon \cup {CLOSED}]
  BY <1>1, <1>2
<1>5. \A g \in Inos : g # f => inode'[g] = inode[g] /\ mem'[g] = mem[g] /\ Ic(g)' = Ic(g)
  BY <1>1, <1>2 DEF Ic
<1>6. inode'[f] = ic /\ (mem[f] = CLOSED => mem'[f] = CLOSED) /\ (mem[f] # CLOSED => mem'[f] = ic)
  BY <1>1, <1>2
<1>7. Ic(f)' = ic
  BY <1>6 DEF Ic
<1>8. mem[f] # CLOSED => mem'[f] # CLOSED /\ mem'[f].size = mem[f].size
  BY <1>3, <1>6 DEF Ic
<1>9. ic.mode = inode[f].mode
  BY <1>1, IcFacts
<1>10. f = ROOT_DIR => inode[f].size = ic.size
  BY DEF Shape, Ic
<1>11. ROOT_DIR \in Inos
  BY Consts DEF Inos, ROOT_DIR
<1>12. inode'[ROOT_DIR].size = inode[ROOT_DIR].size /\ inode'[ROOT_DIR].mode = inode[ROOT_DIR].mode
  BY <1>5, <1>6, <1>9, <1>10, <1>11
<1>13. mem'[ROOT_DIR] = CLOSED
  BY <1>5, <1>6, <1>11 DEF Shape
<1>14. \A g \in linked \ {ROOT_DIR} : inode'[g].mode = "IFREG"
  BY <1>1, <1>5, <1>6, <1>9 DEF Shape
<1>15. ASSUME NEW g \in Inos, mem'[g] # CLOSED
       PROVE  /\ g \in linked /\ mem'[g].mode = inode'[g].mode /\ inode'[g].size <= mem'[g].size
              /\ mem'[g].db = inode'[g].db /\ mem'[g].ib = inode'[g].ib
  <2>1. CASE g = f
    <3>1. mem'[f] = inode'[f] /\ inode'[f].size \in Nat
      BY <1>6, <1>15, <2>1, Consts DEF Icommon
    <3> QED BY <2>1, <3>1
  <2>2. CASE g # f
    BY <1>5, <1>15, <2>2 DEF Shape
  <2> QED BY <2>1, <2>2
<1>16. Shape'
  BY <1>12, <1>13, <1>14, <1>15 DEF Shape
<1> QED BY <1>4, <1>5, <1>7, <1>8, <1>12, <1>16

\* The caller goes on with the next block, or with what follows the last one.
LEMMA AllocatedType ==
  ASSUME Types, Sound, Growing, Allocated
  PROVE  call' \in CallSet /\ call'.op = call.op
<1>1. call \in CallSet /\ call.i \in Nat /\ call.last \in Blocks /\ call.last \in Nat
  BY GrowFacts
<1>2. CASE call.op = "write" /\ call.i < call.last
  <2>1. call' = [call EXCEPT !.at = "alloc", !.i = call.i + 1, !.j = 1]
    BY <1>2 DEF Allocated
  <2>2. PICK n \in Blocks : n = call.i + 1
    <3>1. call.i + 1 \in Nat /\ call.i + 1 <= call.last
      BY <1>1, <1>2
    <3> QED BY <1>1, <3>1, BlockNumbers
  <2>3. 1 \in 1..NIADDR /\ "alloc" \in AllocAt
    BY DEF NIADDR, AllocAt
  <2> QED BY <1>1, <2>1, <2>2, <2>3 DEF CallSet
<1>3. CASE ~(call.op = "write" /\ call.i < call.last)
  <2>1. call' = [call EXCEPT !.at = "got"]
    BY <1>3 DEF Allocated
  <2> QED BY <1>1, <2>1 DEF CallSet
<1> QED BY <1>2, <1>3

\* The data block has been entered for its number.
LEMMA EnterStep ==
  ASSUME Types, Sound, Types', IInv', Growing, NEW f \in Inos, f = call.f, call.at \in {"direct", "walk"}, Allocated,
         own' = [own EXCEPT ![call.f][call.i] = call.addr], UNCHANGED <<linked, tabs, lossy, used>>,
         Shape', inode'[ROOT_DIR].size = inode[ROOT_DIR].size,
         mem[f] # CLOSED => mem'[f] # CLOSED /\ mem'[f].size = mem[f].size,
         \A g \in Inos : g # f => /\ inode'[g] = inode[g] /\ Ic(g)' = Ic(g)
                                       /\ \A a \in tabs[g][1] : blk'[a] = blk[a] /\ rest'[a] = rest[a],
         Ic(f)'.size = Ic(f).size, Ic(f)'.mode = Ic(f).mode, Ic(f)'.ib = Ic(f).ib,
         \A b \in Blocks : b <= call.i /\ b < Reach =>
           Way(blk', rest', Ic(f)', b) = own'[f][b] /\ own'[f][b] # 0,
         NDADDR <= call.i /\ call.i < Reach => Ic(f).ib[1] \in tabs[f][1]
  PROVE  Sound'
<1>1. /\ call \in CallSet /\ f \in linked /\ f \in Inos /\ call.op \in {"write", "create"}
      /\ call.i \in Nat /\ call.i \in Blocks /\ call.last \in Nat /\ GrowOK
  BY GrowFacts DEF Growing
<1>2. /\ call.at \in AllocAt /\ call.failed = FALSE /\ call.addr \in Data /\ call.i <= call.last
      /\ LastOf(Ic(f)) < call.i
  BY <1>1 DEF GrowOK, AllocAt
<1>3. /\ call'.op = call.op /\ call'.f = f /\ call'.last = call.last /\ call'.head = call.head
      /\ call'.end = call.end /\ call'.new = call.new /\ call'.failed = FALSE
      /\ call.op = "create" => call'.i = call.i
      /\ \/ call'.at = "alloc" /\ call'.i = call.i + 1 /\ call.i < call.last /\ call'.j = 1
         \/ call'.at = "got" /\ call.i = call.last
  <2>1. CASE call.op = "write" /\ call.i < call.last
    <3>1. call' = [call EXCEPT !.at = "alloc", !.i = @ + 1, !.j = 1]
      BY <2>1 DEF Allocated
    <3> QED BY <1>1, <1>2, <2>1, <3>1 DEF CallSet
  <2>2. CASE ~(call.op = "write" /\ call.i < call.last)
    <3>1. call' = [call EXCEPT !.at = "got"]
      BY <2>2 DEF Allocated
    <3>2. call.op = "create" => call.i = call.last
      BY DEF Sound, CallOK, CreateOK
    <3>3. call.i = call.last
      BY <1>1, <1>2, <2>2, <3>2
    <3> QED BY <1>1, <1>2, <3>1, <3>3 DEF CallSet
  <2> QED BY <2>1, <2>2
<1>4. Growing' /\ call'.at \in AllocAt \cup {"got"} /\ call'.at \notin {"walk", "child", "size"} /\ Pending' = {}
  BY <1>1, <1>3 DEF Growing, AllocAt, Pending
<1>5. own \in Owns /\ tabs \in Tabs /\ used \subseteq Data /\ linked \subseteq Inos
  BY DEF Types, BlocksTypeOK, TypeOK, Owns, Tabs
<1>6. /\ own'[f][call.i] = call.addr
      /\ \A g \in Inos : g # f => own'[g] = own[g]
      /\ \A b \in Blocks : b # call.i => own'[f][b] = own[f][b]
  BY <1>1, <1>5 DEF Owns
<1>7. call.addr \in Pending /\ Pending = {call.addr}
  BY <1>1, <1>2, Consts DEF Pending, Growing
<1>8. call.addr \in used /\ ~Held(own, tabs, call.addr)
  BY <1>7 DEF Sound, Separate
<1>9. (call.op = "write" => WriteOK') /\ (call.op = "create" => CreateOK') /\ Unused'
  BY <1>1, <1>2, <1>3, <1>4, <1>6, GrowCall
<1>10. LastOf(Ic(f))' = LastOf(Ic(f))
  BY <1>3 DEF LastOf
<1>11. CallOK'
  <2>1. LastOf(Ic(f)) \in Nat
    BY <1>1, LastFacts, BlockNumbers DEF Sound
  <2>2. GrowOK'
    BY <1>1, <1>2, <1>3, <1>4, <1>10, <2>1 DEF GrowOK, AllocAt
  <2> QED BY <1>1, <1>3, <1>9, <2>2 DEF CallOK
<1>12. Separate'
  <2>1. Sep(own, tabs, used)
    BY DEF Sound, Separate
  <2>2. Sep(own', tabs, used)
    BY <1>1, <1>2, <1>5, <1>8, <2>1, SepOwn
  <2> QED BY <1>4, <2>2 DEF Separate
<1>13. Hi(f)' = call.i /\ HiT(f)' = call.i
  <2>1. Hi(f)' = call.i
    <3>1. CASE call'.at = "alloc" /\ call'.i = call.i + 1
      BY <1>1, <1>3, <1>4, <3>1 DEF Hi, AllocAt
    <3>2. CASE call'.at = "got" /\ call.i = call.last
      BY <1>3, <1>4, <3>2 DEF Hi, AllocAt
    <3> QED BY <1>3, <3>1, <3>2
  <2> QED BY <1>4, <2>1 DEF HiT
<1>14. ASSUME NEW g \in linked, g # f PROVE Hi(g)' = Hi(g) /\ HiT(g)' = HiT(g) /\ Ic(g)' = Ic(g)
  <2>1. Ic(g)' = Ic(g)
    BY <1>5, <1>14
  <2> QED BY <1>3, <1>14, <2>1 DEF Hi, HiT
<1>15. Maps'
  <2> SUFFICES ASSUME NEW g \in linked PROVE FileOK(blk', rest', Ic(g)', own'[g], tabs[g], Hi(g)')
    BY DEF Maps
  <2>1. FileOK(blk, rest, Ic(g), own[g], tabs[g], Hi(g)) /\ Hi(g) \in Nat /\ g \in Inos
    BY <1>5, HiFacts, BlockNumbers DEF Sound, Maps
  <2>2. CASE g # f
    <3>1. own'[g] = own[g] /\ Ic(g)' = Ic(g) /\ Hi(g)' = Hi(g)
      BY <1>6, <1>14, <2>1, <2>2
    <3>2. \A a \in tabs[g][1] : blk'[a] = blk[a] /\ rest'[a] = rest[a]
      BY <2>1, <2>2
    <3>3. FileOK(blk', rest', Ic(g), own[g], tabs[g], Hi(g))
      BY <2>1, <3>2, FileSame
    <3> QED BY <3>1, <3>3
  <2>3. CASE g = f
    <3>1. \A b \in Blocks : b >= NDADDR /\ b < Reach /\ own'[g][b] # 0 => Ic(g).ib[1] \in tabs[g][1]
      <4> SUFFICES ASSUME NEW b \in Blocks, b >= NDADDR, b < Reach, own'[g][b] # 0
                   PROVE  Ic(g).ib[1] \in tabs[g][1]
        OBVIOUS
      <4>1. CASE b = call.i
        BY <1>1, <2>3, <4>1, Consts
      <4>2. CASE b # call.i
        BY <1>6, <2>1, <2>3, <4>2 DEF FileOK, Rooted
      <4> QED BY <4>1, <4>2
    <3>2. Hi(g)' = call.i
      BY <1>13, <2>3
    <3> QED BY <2>3, <3>1, <3>2 DEF FileOK, Rooted
  <2> QED BY <2>2, <2>3
<1>16. Accounted'
  <2> SUFFICES ASSUME lossy = FALSE
               PROVE  /\ \A a \in used : Held(own', tabs, a)
                      /\ \A g \in linked : Tidy(Ic(g)', own'[g], tabs[g], Hi(g)', HiT(g)')
    BY <1>3, <1>1 DEF Accounted
  <2>1. \A g \in linked : Tidy(Ic(g), own[g], tabs[g], Hi(g), HiT(g))
    BY DEF Sound, Accounted
  <2>2. Hi(f) = call.i - 1
    BY <1>2 DEF Hi, Growing
  <2>3. own[f][call.i] = 0
    BY <1>1, <2>1, <2>2 DEF Tidy
  <2>4. ASSUME NEW a \in used PROVE Held(own', tabs, a)
    <3>1. CASE a = call.addr
      BY <1>1, <1>6, <3>1 DEF Held
    <3>2. CASE a # call.addr
      <4>1. Held(own, tabs, a)
        BY <1>7, <3>2 DEF Sound, Accounted
      <4>2. CASE \E g \in Inos : \E l \in 1..NIADDR : a \in tabs[g][l]
        BY <4>2 DEF Held
      <4>3. CASE \E g \in Inos : \E b \in Blocks : own[g][b] = a
        <5>1. PICK g \in Inos, b \in Blocks : own[g][b] = a
          BY <4>3
        <5>2. ~(g = f /\ b = call.i)
          BY <1>5, <2>3, <5>1, Consts
        <5>3. own'[g][b] = a
          BY <1>6, <5>1, <5>2
        <5> QED BY <5>3 DEF Held
      <4> QED BY <4>1, <4>2, <4>3 DEF Held
    <3> QED BY <3>1, <3>2
  <2>5. ASSUME NEW g \in linked PROVE Tidy(Ic(g)', own'[g], tabs[g], Hi(g)', HiT(g)')
    <3>1. CASE g # f
      <4>1. own'[g] = own[g]
        BY <1>5, <1>6, <3>1
      <4> QED BY <1>14, <2>1, <3>1, <4>1
    <3>2. CASE g = f
      <4>1. HiT(g) \in Nat /\ HiT(g) <= call.i
        <5>1. HiT(g) = call.i \/ HiT(g) = call.i - 1
          BY <2>2, <3>2 DEF HiT
        <5>2. HiT(g) \in Nat
          BY HiFacts, BlockNumbers DEF Sound
        <5> QED BY <1>1, <5>1, <5>2
      <4>2. \A b \in Blocks : own'[g][b] # 0 => b <= call.i
        <5> SUFFICES ASSUME NEW b \in Blocks, own'[g][b] # 0, b # call.i PROVE b <= call.i
          BY <1>1
        <5>1. b <= call.i - 1 /\ b \in Nat
          BY <1>6, <2>1, <2>2, <3>2, BlockNumbers DEF Tidy
        <5> QED BY <1>1, <5>1
      <4>3. \A l \in 1..NIADDR : tabs[g][l] # {} => Base(l) <= call.i
        <5> SUFFICES ASSUME NEW l \in 1..NIADDR, tabs[g][l] # {} PROVE Base(l) <= call.i
          OBVIOUS
        <5>1. Base(l) <= HiT(g) /\ Base(l) \in Nat
          BY <2>1, LevelFacts DEF Tidy
        <5> QED BY <1>1, <4>1, <5>1
      <4> QED BY <1>13, <2>1, <3>2, <4>2, <4>3 DEF Tidy
    <3> QED BY <3>1, <3>2
  <2> QED BY <2>4, <2>5
<1>17. Removal'
  BY <1>1, <1>3 DEF Removal
<1> QED BY <1>9, <1>11, <1>12, <1>15, <1>16, <1>17 DEF Sound

\* The data block goes into the inode.
LEMMA EnterDirectStep ==
  ASSUME Ind, EnterDirect
  PROVE  Ind'
<1>1. /\ Types /\ Sound /\ fault = FALSE /\ call \in CallSet /\ call.op \in {"write", "create"}
      /\ call.at = "direct" /\ call.at \in AllocAt
  <2>1. At({"write", "create"}, "direct")
    BY DEF EnterDirect
  <2> QED BY <2>1, AtFacts DEF AllocAt
<1>2. PICK f \in linked : f = call.f /\ f \in Inos
  BY <1>1, GrowFacts DEF Growing
<1>3. PICK i \in Blocks : i = call.i /\ i \in Nat
  BY <1>1, GrowFacts DEF Growing
<1>4. Growing /\ GrowOK /\ ~Wiping /\ i < NDADDR /\ call.addr \in Data /\ i <= call.last /\ call.last \in Blocks
  BY <1>1, <1>3, GrowFacts DEF Growing, GrowOK, AllocAt
<1>5. i \in 0..(NDADDR - 1)
  BY <1>3, <1>4, Consts
<1>6. PICK ic : ic = [Ic(f) EXCEPT !.db[i] = call.addr]
  OBVIOUS
<1>7. /\ ic \in Icommon
       /\ ic.mode = Ic(f).mode /\ ic.size = Ic(f).size /\ ic.ib = Ic(f).ib
       /\ ic.db[i] = call.addr
       /\ \A b \in 0..(NDADDR - 1) : b # i => ic.db[b] = Ic(f).db[b]
  <2>1. Ic(f) \in Icommon /\ call.addr \in Addrs
    BY <1>1, <1>2, <1>4, IcFacts DEF Sound, Addrs
  <2> QED BY <1>5, <1>6, <2>1 DEF Icommon
<1>8. /\ PutIc(f, ic) /\ own' = [own EXCEPT ![f][i] = call.addr] /\ Allocated
      /\ UNCHANGED <<listVars, blk, rest, linked, tabs, lossy, events, fault>>
  BY <1>2, <1>3, <1>6 DEF EnterDirect
<1>9. IInv' /\ used' = used
  BY <1>1, <1>8, ListKept DEF Sound, vars, listVars
<1>10. call' \in CallSet /\ call'.op = call.op
  BY <1>1, <1>4, <1>8, AllocatedType
<1>11. ~Wiping'
  BY <1>1, <1>10 DEF Wiping
<1>12. /\ inode' \in [Inos -> Icommon] /\ mem' \in [Inos -> Icommon \cup {CLOSED}]
       /\ Shape' /\ Ic(f)' = ic
       /\ \A g \in Inos : g # f => inode'[g] = inode[g] /\ Ic(g)' = Ic(g)
       /\ inode'[ROOT_DIR].size = inode[ROOT_DIR].size
       /\ mem[f] # CLOSED => mem'[f] # CLOSED /\ mem'[f].size = mem[f].size
  BY <1>1, <1>4, <1>8, <1>11, <1>7, PutIcStep DEF Sound
<1>13. own' \in [Inos -> [Blocks -> Addrs]]
  BY <1>1, <1>2, <1>4, <1>8 DEF Types, BlocksTypeOK, Addrs
<1>14. Types'
  BY <1>1, <1>8, <1>9, <1>10, <1>12, <1>13 DEF Types, BlocksTypeOK, IInv
<1>15. ASSUME NEW b \in Blocks, b <= i, b < Reach
       PROVE  Way(blk', rest', Ic(f)', b) = own'[f][b] /\ own'[f][b] # 0
  <2>1. b \in 0..(NDADDR - 1) /\ b < NDADDR /\ b \in Nat
    BY <1>3, <1>4, <1>15, BlockNumbers, Consts
  <2>2. Way(blk', rest', Ic(f)', b) = ic.db[b]
    BY <1>12, <2>1 DEF Way
  <2>3. own \in [Inos -> [Blocks -> Addrs]]
    BY <1>1 DEF Types, BlocksTypeOK
  <2>4. CASE b = i
    <3>1. own'[f][b] = call.addr
      BY <1>2, <1>8, <2>3, <2>4
    <3> QED BY <1>4, <1>7, <2>2, <2>4, <3>1, Consts
  <2>5. CASE b # i
    <3>1. own'[f][b] = own[f][b]
      BY <1>2, <1>8, <2>3, <2>5
    <3>2. b <= Hi(f)
      <4>1. Hi(f) = i - 1
        BY <1>1, <1>2, <1>3, <1>4 DEF Hi
      <4> QED BY <1>3, <1>15, <2>1, <2>5, <4>1
    <3>3. Way(blk, rest, Ic(f), b) = own[f][b] /\ own[f][b] # 0
      BY <1>1, <1>15, <3>2 DEF Sound, Maps, FileOK
    <3>4. Way(blk, rest, Ic(f), b) = Ic(f).db[b]
      BY <2>1 DEF Way
    <3> QED BY <1>7, <2>1, <2>2, <2>5, <3>1, <3>3, <3>4
  <2> QED BY <2>4, <2>5
<1>16. Sound'
  <2>1. NDADDR <= call.i /\ call.i < Reach => Ic(f).ib[1] \in tabs[f][1]
    BY <1>3, <1>4, Consts
  <2>2. \A g \in Inos : g # f => /\ inode'[g] = inode[g] /\ Ic(g)' = Ic(g)
                                 /\ \A a \in tabs[g][1] : blk'[a] = blk[a] /\ rest'[a] = rest[a]
    BY <1>8, <1>12
  <2>3. UNCHANGED <<linked, tabs, lossy, used>> /\ own' = [own EXCEPT ![call.f][call.i] = call.addr]
    BY <1>2, <1>3, <1>8, <1>9
  <2>4. Ic(f)'.size = Ic(f).size /\ Ic(f)'.mode = Ic(f).mode /\ Ic(f)'.ib = Ic(f).ib
    BY <1>12, <1>7
  <2>5. \A b \in Blocks : b <= call.i /\ b < Reach => Way(blk', rest', Ic(f)', b) = own'[f][b] /\ own'[f][b] # 0
    BY <1>3, <1>15
  <2>6. Growing /\ f = call.f /\ call.at \in {"direct", "walk"} /\ Allocated
    BY <1>1, <1>2, <1>4, <1>8
  <2>7. Shape' /\ inode'[ROOT_DIR].size = inode[ROOT_DIR].size
    BY <1>12
  <2>8. mem[f] # CLOSED => mem'[f] # CLOSED /\ mem'[f].size = mem[f].size
    BY <1>12
  <2> QED BY <1>1, <1>9, <1>14, <2>1, <2>2, <2>3, <2>4, <2>5, <2>6, <2>7, <2>8, <1>2, EnterStep
<1> QED BY <1>14, <1>16 DEF Ind

\* The data block goes into the last table.
LEMMA EnterLeafStep ==
  ASSUME Ind, EnterLeaf
  PROVE  Ind'
<1>1. /\ Types /\ Sound /\ fault = FALSE /\ call \in CallSet /\ call.op \in {"write", "create"}
      /\ call.at = "walk" /\ call.at \in AllocAt
  <2>1. At({"write", "create"}, "walk")
    BY DEF EnterLeaf
  <2> QED BY <2>1, AtFacts DEF AllocAt
<1>2. PICK f \in linked : f = call.f /\ f \in Inos
  BY <1>1, GrowFacts DEF Growing
<1>3. PICK i \in Blocks : i = call.i /\ i \in Nat
  BY <1>1, GrowFacts DEF Growing
<1>4. /\ Growing /\ GrowOK /\ NDADDR <= i /\ call.addr \in Data
      /\ i < Reach => call.t = Ic(f).ib[1] /\ call.t \in tabs[f][1]
  BY <1>1, <1>2, <1>3, GrowFacts DEF Growing, GrowOK, AllocAt
<1>5. PICK l \in 1..NIADDR : l = Level(i) /\ l = call.j /\ (l = 1 <=> i < Reach)
  <2>1. call.j = Level(i)
    BY <1>3 DEF EnterLeaf
  <2> QED BY <1>3, <1>4, <2>1, LevelFacts, Consts DEF NIADDR
<1>6. PICK t : t = call.t
  OBVIOUS
<1>7. PICK k \in 0..(LS - 1) : k = Entry(i, l)
  <2>1. l \in Nat /\ 1 <= l /\ l <= Level(i)
    BY <1>5 DEF NIADDR
  <2> QED BY <1>3, <2>1, EntryType
<1>8. PICK c \in [0..(LS - 1) -> Arrays] : c = [Contents(t) EXCEPT ![k] = call.addr]
  BY <1>1, <1>4, ContentsType DEF Arrays
<1>9. /\ fault' = (t \notin tabs[f][l])
      /\ (t \in Data /\ PutContents(t, c)) \/ (t \notin Data /\ UNCHANGED <<blk, rest>>)
      /\ own' = [own EXCEPT ![call.f][call.i] = call.addr] /\ Allocated
      /\ UNCHANGED <<listVars, inode, mem, linked, tabs, lossy, events>>
  BY <1>2, <1>3, <1>5, <1>6, <1>7, <1>8 DEF EnterLeaf
<1>10. blk' \in [Data -> Lists] /\ rest' \in [Data -> [Upper -> Arrays]] /\ used' = used
  <2>1. CASE t \in Data /\ PutContents(t, c)
    BY <1>1, <1>9, <2>1, PutTypes DEF listVars
  <2>2. CASE t \notin Data /\ UNCHANGED <<blk, rest>>
    BY <1>1, <1>9, <2>2 DEF Types, BlocksTypeOK, TypeOK, listVars
  <2> QED BY <1>9, <2>1, <2>2
<1>11. TypeOK'
  BY <1>1, <1>9, <1>10 DEF Types, BlocksTypeOK, TypeOK, listVars
<1>12. call' \in CallSet /\ call'.op = call.op
  BY <1>1, <1>4, <1>9, AllocatedType
<1>13. own' \in [Inos -> [Blocks -> Addrs]]
  BY <1>1, <1>2, <1>3, <1>4, <1>9 DEF Types, BlocksTypeOK, Addrs
<1>14. fault' \in BOOLEAN /\ rest' \in [Data -> [Upper -> Addrs]]
  BY <1>9, <1>10 DEF Arrays, Addrs
<1>15. Types'
  BY <1>1, <1>9, <1>10, <1>11, <1>12, <1>13, <1>14 DEF Types, BlocksTypeOK
<1>16. ASSUME fault' = FALSE PROVE Sound'
  <2>1. t \in tabs[f][l] /\ t \in Data /\ t \in used /\ PutContents(t, c)
    <3>1. t \in tabs[f][l]
      BY <1>9, <1>16
    <3>2. t \in Data
      <4>1. tabs \in [Inos -> [1..NIADDR -> SUBSET Data]]
        BY <1>1 DEF Types, BlocksTypeOK
      <4>2. tabs[f][l] \in SUBSET Data
        BY <1>2, <1>5, <4>1
      <4> QED BY <3>1, <4>2
    <3>3. t \in used
      BY <1>1, <1>2, <3>1 DEF Sound, Separate, Sep
    <3> QED BY <1>9, <3>1, <3>2, <3>3
  <2>2. IInv'
    BY <1>1, <1>9, <2>1, PutStep DEF Sound
  <2>3. \A x \in Data : x # t => blk'[x] = blk[x] /\ rest'[x] = rest[x]
    BY <1>1, <2>1, PutTypes
  <2>4. ASSUME NEW g \in Inos, NEW a \in tabs[g][1], a # t
        PROVE  blk'[a] = blk[a] /\ rest'[a] = rest[a]
    <3>1. a \in Data
      BY <1>1 DEF Types, BlocksTypeOK, NIADDR
    <3> QED BY <2>3, <2>4, <3>1
  <2>5. \A g \in Inos : t \in tabs[g][1] => g = f /\ l = 1
    BY <1>1, <1>2, <2>1 DEF Sound, Separate, Sep, NIADDR
  <2>6. \A g \in Inos : Ic(g)' = Ic(g)
    BY <1>9 DEF Ic
  <2>7. ~Wiping /\ ~Wiping'
    BY <1>1, <1>12 DEF Wiping
  <2>8. Shape'
    BY <1>1, <1>9, <2>7, StillShape DEF Sound
  <2>9. FileOK(blk, rest, Ic(f), own[f], tabs[f], i - 1)
    <3>1. Hi(f) = i - 1
      BY <1>1, <1>2, <1>3, <1>4 DEF Hi
    <3> QED BY <1>1, <3>1 DEF Sound, Maps
  <2>10. own'[f][i] = call.addr /\ \A b \in Blocks : b # i => own'[f][b] = own[f][b]
    BY <1>1, <1>2, <1>3, <1>9 DEF Types, BlocksTypeOK
  <2>11. ASSUME NEW b \in Blocks, b <= i, b < Reach
         PROVE  Way(blk', rest', Ic(f), b) = own'[f][b] /\ own'[f][b] # 0
    <3>0. b \in Nat /\ NDADDR \in Nat /\ LIST \in Nat /\ LS \in Nat
      BY BlockNumbers, Consts
    <3>1. b # i => Way(blk, rest, Ic(f), b) = own[f][b] /\ own[f][b] # 0
      BY <1>3, <2>9, <2>11, <3>0 DEF FileOK
    <3>2. CASE b < NDADDR
      BY <1>3, <1>4, <2>10, <3>0, <3>1, <3>2 DEF Way
    <3>3. CASE ~(b < NDADDR) /\ l # 1
      <4>1. i # b /\ Ic(f).ib[1] \in tabs[f][1] /\ Ic(f).ib[1] # t
        <5>1. i # b
          BY <1>3, <1>5, <2>11, <3>3
        <5>2. Ic(f).ib[1] \in tabs[f][1]
          BY <2>9, <2>11, <3>0, <3>1, <3>3, <5>1 DEF FileOK, Rooted
        <5> QED BY <1>2, <2>5, <3>3, <5>1, <5>2
      <4>2. blk'[Ic(f).ib[1]] = blk[Ic(f).ib[1]] /\ rest'[Ic(f).ib[1]] = rest[Ic(f).ib[1]]
        BY <1>2, <2>4, <4>1
      <4> QED BY <2>10, <3>1, <4>1, <4>2 DEF Way
    <3>4. CASE ~(b < NDADDR) /\ l = 1
      <4>1. t = Ic(f).ib[1] /\ t \in Data
        BY <1>4, <1>5, <1>6, <2>1, <3>4
      <4>2. PICK n \in 0..(LS - 1) : n = b - NDADDR
        BY <2>11, <3>0, <3>4 DEF Reach
      <4>3. Way(blk', rest', Ic(f), b) = c[n]
        <5>1. n < LIST => n \in Index /\ blk'[t][n] = c[n]
          BY <1>1, <2>1, <3>0, PutTypes DEF Index
        <5>2. ~(n < LIST) => n \in Upper /\ rest'[t][n] = c[n]
          BY <1>1, <2>1, <3>0, PutTypes DEF Upper
        <5> QED BY <3>4, <4>1, <4>2, <5>1, <5>2 DEF Way
      <4>4. Way(blk, rest, Ic(f), b) = Contents(t)[n]
        BY <3>4, <4>1, <4>2 DEF Way, Contents
      <4>5. k = i - NDADDR
        <5>1. Addr(Ic(f), i) = Contents(t)[k] /\ Level(i) = 1 /\ Base(1) = NDADDR
          BY <1>5, <1>7, <3>4, <4>1, LevelFacts DEF Addr, Table
        <5>2. Rel(i) = i - NDADDR /\ Span(1 - 1) = 1
          BY <5>1 DEF Rel, Span
        <5>3. PICK r \in Nat : r = i - NDADDR /\ r < LS
          BY <1>3, <1>4, <1>5, <3>0, <3>4 DEF Reach
        <5>4. r \div 1 = r /\ r % LS = r
          BY <3>0, <5>3
        <5> QED BY <1>5, <1>7, <3>4, <5>1, <5>2, <5>3, <5>4 DEF Entry
      <4>6. CASE b = i
        <5>1. c[n] = call.addr
          BY <1>1, <1>8, <4>2, <4>5, <4>6, ContentsType
        <5> QED BY <1>4, <2>10, <4>3, <4>6, <5>1, Consts
      <4>7. CASE b # i
        <5>1. n # k
          BY <1>3, <3>0, <4>2, <4>5, <4>7
        <5>2. c[n] = Contents(t)[n]
          BY <1>1, <1>8, <5>1, ContentsType
        <5> QED BY <2>10, <3>1, <4>3, <4>4, <4>7, <5>2
      <4> QED BY <4>6, <4>7
    <3> QED BY <3>2, <3>3, <3>4
  <2>12. NDADDR <= call.i /\ call.i < Reach => Ic(f).ib[1] \in tabs[f][1]
    BY <1>3, <1>4
  <2>13. \A g \in Inos : g # f => /\ inode'[g] = inode[g] /\ Ic(g)' = Ic(g)
                                  /\ \A a \in tabs[g][1] : blk'[a] = blk[a] /\ rest'[a] = rest[a]
    BY <1>9, <2>4, <2>5, <2>6
  <2>14. UNCHANGED <<linked, tabs, lossy, used>> /\ own' = [own EXCEPT ![call.f][call.i] = call.addr]
    BY <1>9, <1>10
  <2>15. Ic(f)'.size = Ic(f).size /\ Ic(f)'.mode = Ic(f).mode /\ Ic(f)'.ib = Ic(f).ib
    BY <1>2, <2>6
  <2>16. \A b \in Blocks : b <= call.i /\ b < Reach => Way(blk', rest', Ic(f)', b) = own'[f][b] /\ own'[f][b] # 0
    BY <1>2, <1>3, <2>6, <2>11
  <2>17. f \in Inos /\ f = call.f /\ Growing /\ call.at \in {"direct", "walk"} /\ Allocated
    BY <1>1, <1>2, <1>4, <1>9
  <2>18. inode'[ROOT_DIR].size = inode[ROOT_DIR].size
    BY <1>9
  <2>19. mem[f] # CLOSED => mem'[f] # CLOSED /\ mem'[f].size = mem[f].size
    BY <1>9
  <2> QED BY <1>1, <1>15, <2>2, <2>8, <2>12, <2>13, <2>14, <2>15, <2>16, <2>17, <2>18, <2>19, EnterStep
<1> QED BY <1>15, <1>16 DEF Ind

\* A table has been given to the file.
LEMMA TableStep ==
  ASSUME Types, Sound, Types', IInv', Growing, NEW f \in Inos, f = call.f, NEW l \in 1..NIADDR, l = Level(call.i),
         NEW a, call.at \in {"top", "child"}, call'.at = "walk",
         call'.op = call.op, call'.f = call.f, call'.last = call.last, call'.head = call.head,
         call'.end = call.end, call'.new = call.new, call'.i = call.i, call'.failed = call.failed,
         call'.addr = call.addr, GrowOK', Shape',
         own' = own, linked' = linked, lossy' = lossy, used \subseteq used', used' \subseteq used \cup {a},
         a \in used', ~Held(own, tabs, a), a # call.addr, Pending \subseteq {call.addr, a},
         tabs'[f][l] = tabs[f][l] \cup {a}, \A m \in 1..NIADDR : m # l => tabs'[f][m] = tabs[f][m],
         \A g \in Inos : \A x \in tabs[g][1] : blk'[x] = blk[x] /\ rest'[x] = rest[x],
         inode'[ROOT_DIR].size = inode[ROOT_DIR].size,
         mem[f] # CLOSED => mem'[f] # CLOSED /\ mem'[f].size = mem[f].size,
         \A g \in Inos : g # f => inode'[g] = inode[g] /\ Ic(g)' = Ic(g) /\ tabs'[g] = tabs[g],
         Ic(f)'.db = Ic(f).db,
         l = 1 => Ic(f)'.ib[1] = a /\ call.i = NDADDR /\ call.at = "top",
         l # 1 => Ic(f)'.ib[1] = Ic(f).ib[1]
  PROVE  Sound'
<1>1. /\ call \in CallSet /\ f \in linked /\ call.op \in {"write", "create"} /\ ~Wiping
      /\ call.i \in Nat /\ call.i \in Blocks /\ GrowOK
  BY GrowFacts DEF Growing
<1>2. /\ call.at \in AllocAt /\ call'.at \in AllocAt /\ call.failed = FALSE /\ call.addr \in Data /\ call.addr # FULL
  BY <1>1, Consts DEF GrowOK, AllocAt
<1>3. Growing' /\ Pending' = {call.addr}
  BY <1>1, <1>2 DEF Growing, Pending
<1>4. (call.op = "write" => WriteOK') /\ (call.op = "create" => CreateOK') /\ Unused'
  BY <1>1, <1>2, GrowCall
<1>5. CallOK'
  BY <1>1, <1>4 DEF CallOK
<1>6. \A g \in Inos : \A m \in 1..NIADDR : (g = f /\ m = l) \/ tabs'[g][m] = tabs[g][m]
  OBVIOUS
<1>7. Separate'
  <2>1. Sep(own, tabs, used')
    BY SepMore DEF Sound, Separate
  <2>2. Sep(own, tabs', used')
    BY <1>6, <2>1, SepTab
  <2>3. call.addr \in used /\ ~Held(own, tabs, call.addr)
    <3>1. call.addr \in Pending
      BY <1>1, <1>2 DEF Pending, Growing
    <3> QED BY <3>1 DEF Sound, Separate
  <2>4. ~Held(own, tabs', call.addr)
    BY <1>6, <2>3 DEF Held
  <2> QED BY <1>3, <2>2, <2>3, <2>4 DEF Separate
<1>8. /\ Hi(f) = call.i - 1 /\ Hi(f)' = call.i - 1 /\ HiT(f)' = call.i
      /\ HiT(f) \in Nat /\ HiT(f) <= call.i /\ (call.at = "top" => HiT(f) = call.i - 1)
  <2>1. Hi(f) = call.i - 1 /\ Hi(f)' = call.i - 1 /\ HiT(f)' = call.i
    BY <1>2, <1>3 DEF Hi, HiT
  <2>2. (HiT(f) = call.i \/ HiT(f) = call.i - 1) /\ (call.at = "top" => HiT(f) = call.i - 1)
    BY <2>1 DEF HiT
  <2>3. HiT(f) \in Nat
    BY <1>1, HiFacts, BlockNumbers DEF Sound
  <2> QED BY <1>1, <2>1, <2>2, <2>3
<1>9. ASSUME NEW g \in linked, g # f
      PROVE  g \in Inos /\ Hi(g)' = Hi(g) /\ HiT(g)' = HiT(g) /\ Ic(g)' = Ic(g) /\ tabs'[g] = tabs[g]
  <2>1. g \in Inos
    BY DEF Types, BlocksTypeOK
  <2>2. Ic(g)' = Ic(g)
    BY <1>9, <2>1
  <2> QED BY <1>9, <2>1, <2>2 DEF Hi, HiT
<1>10. Maps'
  <2> SUFFICES ASSUME NEW g \in linked PROVE FileOK(blk', rest', Ic(g)', own[g], tabs'[g], Hi(g)')
    BY DEF Maps
  <2>1. FileOK(blk, rest, Ic(g), own[g], tabs[g], Hi(g))
    BY DEF Sound, Maps
  <2>2. CASE g # f
    <3>1. \A x \in tabs[g][1] : blk'[x] = blk[x] /\ rest'[x] = rest[x]
      BY <1>9, <2>2
    <3>2. FileOK(blk', rest', Ic(g), own[g], tabs[g], Hi(g))
      BY <2>1, <3>1, FileSame
    <3> QED BY <1>9, <2>2, <3>2
  <2>3. CASE g = f
    <3>1. ASSUME NEW b \in Blocks, b <= call.i - 1, b < Reach
          PROVE  Way(blk', rest', Ic(f)', b) = own[f][b] /\ own[f][b] # 0
      <4>1. Way(blk, rest, Ic(f), b) = own[f][b] /\ own[f][b] # 0 /\ b \in Nat
        BY <1>8, <2>1, <2>3, <3>1, BlockNumbers DEF FileOK
      <4>2. CASE b < NDADDR
        BY <4>1, <4>2 DEF Way
      <4>3. CASE ~(b < NDADDR)
        <5>1. l # 1
          BY <1>1, <3>1, <4>1, <4>3, Consts
        <5>2. Ic(f).ib[1] \in tabs[f][1]
          BY <2>1, <2>3, <3>1, <4>1, <4>3, Consts DEF FileOK, Rooted
        <5> QED BY <4>1, <5>1, <5>2 DEF Way
      <4> QED BY <4>2, <4>3
    <3>2. ASSUME NEW b \in Blocks, b >= NDADDR, b < Reach, own[f][b] # 0 PROVE Ic(f)'.ib[1] \in tabs'[f][1]
      <4>1. CASE l = 1
        BY <4>1
      <4>2. CASE l # 1
        <5>1. tabs'[f][1] = tabs[f][1]
          BY <4>2 DEF NIADDR
        <5> QED BY <2>1, <2>3, <3>2, <4>2, <5>1 DEF FileOK, Rooted
      <4> QED BY <4>1, <4>2
    <3> QED BY <1>8, <2>3, <3>1, <3>2 DEF FileOK, Rooted
  <2> QED BY <2>2, <2>3
<1>11. Accounted'
  <2> SUFFICES ASSUME lossy = FALSE
               PROVE  /\ \A x \in used' : Held(own, tabs', x) \/ x = call.addr
                      /\ \A g \in linked : Tidy(Ic(g)', own[g], tabs'[g], Hi(g)', HiT(g)')
    BY <1>1, <1>2, <1>3 DEF Accounted
  <2>1. ASSUME NEW x \in used' PROVE Held(own, tabs', x) \/ x = call.addr
    <3>1. CASE x = a
      BY <3>1 DEF Held
    <3>2. CASE x # a /\ x # call.addr
      <4>1. Held(own, tabs, x)
        BY <3>2 DEF Sound, Accounted
      <4>2. CASE \E g \in Inos : \E b \in Blocks : own[g][b] = x
        BY <4>2 DEF Held
      <4>3. CASE \E g \in Inos : \E m \in 1..NIADDR : x \in tabs[g][m]
        <5>1. PICK g \in Inos, m \in 1..NIADDR : x \in tabs[g][m]
          BY <4>3
        <5>2. x \in tabs'[g][m]
          BY <1>6, <5>1
        <5> QED BY <5>2 DEF Held
      <4> QED BY <4>1, <4>2, <4>3 DEF Held
    <3> QED BY <3>1, <3>2
  <2>2. ASSUME NEW g \in linked PROVE Tidy(Ic(g)', own[g], tabs'[g], Hi(g)', HiT(g)')
    <3>1. Tidy(Ic(g), own[g], tabs[g], Hi(g), HiT(g))
      BY DEF Sound, Accounted
    <3>2. CASE g # f
      BY <1>9, <3>1, <3>2
    <3>3. CASE g = f
      <4>1. \A b \in Blocks : own[f][b] # 0 => b <= call.i - 1
        BY <1>8, <3>1, <3>3 DEF Tidy
      <4>2. tabs'[f][1] \subseteq {Ic(f)'.ib[1]}
        <5>1. CASE l = 1
          <6>1. ~(Base(1) <= HiT(f))
            BY <1>1, <1>8, <5>1, LevelFacts
          <6>2. tabs[f][1] = {}
            BY <3>1, <3>3, <5>1, <6>1 DEF Tidy
          <6> QED BY <5>1, <6>2
        <5>2. CASE l # 1
          <6>1. tabs'[f][1] = tabs[f][1]
            BY <5>2 DEF NIADDR
          <6> QED BY <3>1, <3>3, <5>2, <6>1 DEF Tidy
        <5> QED BY <5>1, <5>2
      <4>3. ASSUME NEW m \in 1..NIADDR, tabs'[f][m] # {} PROVE Base(m) <= call.i
        <5>1. CASE m = l
          BY <1>1, <5>1, LevelFacts DEF NIADDR
        <5>2. CASE m # l
          <6>1. Base(m) <= HiT(f) /\ Base(m) \in Nat
            BY <3>1, <3>3, <4>3, <5>2, LevelFacts DEF Tidy
          <6> QED BY <1>1, <1>8, <6>1
        <5> QED BY <5>1, <5>2
      <4> QED BY <1>8, <3>3, <4>1, <4>2, <4>3 DEF Tidy
    <3> QED BY <3>2, <3>3
  <2> QED BY <2>1, <2>2
<1>12. Removal'
  BY <1>1 DEF Removal
<1> QED BY <1>4, <1>5, <1>7, <1>10, <1>11, <1>12 DEF Sound

\* The table at the top of a level is taken from the free list and entered in the inode.
LEMMA NewTopStep ==
  ASSUME Ind, NewTop
  PROVE  Ind'
<1>1. /\ Types /\ Sound /\ fault = FALSE /\ call \in CallSet /\ call.op \in {"write", "create"}
      /\ call.at = "top" /\ call.at \in AllocAt
  <2>1. At({"write", "create"}, "top")
    BY DEF NewTop
  <2> QED BY <2>1, AtFacts DEF AllocAt
<1>2. PICK f \in linked : f = call.f /\ f \in Inos
  BY <1>1, GrowFacts DEF Growing
<1>3. PICK i \in Blocks : i = call.i /\ i \in Nat
  BY <1>1, GrowFacts DEF Growing
<1>4. Growing /\ GrowOK /\ ~Wiping /\ NDADDR <= i /\ call.addr \in Data /\ call.j = 1
  BY <1>1, <1>2, <1>3, GrowFacts DEF Growing, GrowOK, AllocAt
<1>5. PICK l \in 1..NIADDR : l = Level(i) /\ (l = 1 => i = NDADDR)
  <2>1. Level(i) \in 1..NIADDR
    BY <1>3, <1>4, LevelFacts, Consts DEF NIADDR
  <2>2. Level(i) = 1 => i = NDADDR
    BY <1>3, LevelFacts, Consts DEF NewTop, Rel
  <2> QED BY <2>1, <2>2
<1>6. /\ IInv' /\ blk' = blk /\ UNCHANGED <<rest, linked, own, events, fault>>
      /\ \/ ret' = FULL /\ used' = used
         \/ ret' \in Data /\ ret' \notin used /\ used' = used \cup {ret'}
  BY <1>1, BallocStep DEF NewTop, Sound
<1>7. TypeOK' /\ used \subseteq used'
  BY <1>6 DEF IInv
<1>8. CASE ret' = FULL
  <2>1. Fails /\ UNCHANGED <<inode, mem, tabs>>
    BY <1>8, Consts DEF NewTop
  <2>2. call' \in CallSet /\ lossy' = TRUE
    BY <1>1, <2>1 DEF Fails, CallSet
  <2>3. Types'
    BY <1>1, <1>6, <1>7, <2>1, <2>2 DEF Types, BlocksTypeOK
  <2>4. Sound'
    BY <1>1, <1>4, <1>6, <1>7, <2>1, <2>3, FailStep
  <2> QED BY <2>3, <2>4 DEF Ind
<1>9. CASE ret' # FULL
  <2>1. PICK a \in Data : a = ret' /\ a \in Addrs /\ a \notin used /\ used' = used \cup {a}
    BY <1>6, <1>9 DEF Addrs
  <2>2. PICK ic : ic = [Ic(f) EXCEPT !.ib[l] = a]
    OBVIOUS
  <2>3. /\ PutIc(f, ic) /\ tabs' = [tabs EXCEPT ![f][l] = @ \cup {a}]
        /\ call' = [call EXCEPT !.at = "walk", !.t = a] /\ lossy' = lossy
    BY <1>2, <1>3, <1>5, <1>9, <2>1, <2>2 DEF NewTop
  <2>4. /\ ic \in Icommon /\ ic.mode = Ic(f).mode /\ ic.size = Ic(f).size /\ ic.db = Ic(f).db
        /\ ic.ib[l] = a /\ \A m \in 1..NIADDR : m # l => ic.ib[m] = Ic(f).ib[m]
    <3>1. Ic(f) \in Icommon
      BY <1>1, <1>2, IcFacts DEF Sound
    <3> QED BY <1>5, <2>1, <2>2, <3>1 DEF Icommon
  <2>5. /\ call' \in CallSet
        /\ call'.op = call.op /\ call'.f = call.f /\ call'.last = call.last /\ call'.head = call.head
        /\ call'.end = call.end /\ call'.new = call.new /\ call'.i = call.i /\ call'.failed = call.failed
        /\ call'.at = "walk" /\ call'.addr = call.addr /\ call'.j = call.j /\ call'.t = a
    BY <1>1, <2>1, <2>3 DEF CallSet, AllocAt
  <2>6. ~Wiping'
    BY <1>1, <2>5 DEF Wiping
  <2>7. /\ inode' \in [Inos -> Icommon] /\ mem' \in [Inos -> Icommon \cup {CLOSED}]
        /\ Shape' /\ Ic(f)' = ic
        /\ \A g \in Inos : g # f => inode'[g] = inode[g] /\ Ic(g)' = Ic(g)
        /\ inode'[ROOT_DIR].size = inode[ROOT_DIR].size
        /\ mem[f] # CLOSED => mem'[f] # CLOSED /\ mem'[f].size = mem[f].size
    BY <1>1, <1>4, <1>6, <2>3, <2>4, <2>6, PutIcStep DEF Sound
  <2>8. tabs \in [Inos -> [1..NIADDR -> SUBSET Data]]
    BY <1>1 DEF Types, BlocksTypeOK
  <2>9. /\ tabs' \in [Inos -> [1..NIADDR -> SUBSET Data]]
        /\ tabs'[f][l] = tabs[f][l] \cup {a} /\ \A m \in 1..NIADDR : m # l => tabs'[f][m] = tabs[f][m]
        /\ \A g \in Inos : g # f => tabs'[g] = tabs[g]
    <3>1. PICK t : t = [tabs[f] EXCEPT ![l] = @ \cup {a}]
      OBVIOUS
    <3>2. /\ t \in [1..NIADDR -> SUBSET Data] /\ t[l] = tabs[f][l] \cup {a}
          /\ \A m \in 1..NIADDR : m # l => t[m] = tabs[f][m]
      <4>1. tabs[f] \in [1..NIADDR -> SUBSET Data] /\ l \in 1..NIADDR /\ tabs[f][l] \cup {a} \in SUBSET Data
        BY <1>2, <1>5, <2>1, <2>8
      <4>2. PICK s \in SUBSET Data : s = tabs[f][l] \cup {a}
        BY <4>1
      <4>3. t = [tabs[f] EXCEPT ![l] = s]
        BY <3>1, <4>2
      <4> QED BY <4>1, <4>2, <4>3
    <3>3. tabs' = [tabs EXCEPT ![f] = t]
      BY <2>3, <3>1
    <3> QED BY <1>2, <2>8, <3>2, <3>3
  <2>10. Types'
    BY <1>1, <1>6, <1>7, <2>3, <2>5, <2>7, <2>9 DEF Types, BlocksTypeOK
  <2>11. Pending = {call.addr} /\ call.addr \in used
    <3>1. Pending = {call.addr}
      BY <1>1, <1>4, Consts DEF Pending, Growing
    <3> QED BY <1>1, <3>1 DEF Sound, Separate
  <2>12. ~Held(own, tabs, a)
    BY <1>1, <2>1 DEF Sound, Separate, Sep, Held
  <2>13. l = 1 => Ic(f)'.ib[1] = a /\ call.i = NDADDR /\ call.at = "top"
    BY <1>1, <1>3, <1>5, <2>4, <2>7
  <2>14. l # 1 => Ic(f)'.ib[1] = Ic(f).ib[1]
    BY <2>4, <2>7 DEF NIADDR
  <2>15. GrowOK'
    <3>1. Ic(call.f)' = ic /\ Ic(call.f) = Ic(f) /\ LastOf(ic) = LastOf(Ic(f))
      BY <1>2, <2>4, <2>5, <2>7 DEF LastOf
    <3>2. i < Reach => a = ic.ib[1] /\ a \in tabs'[f][1]
      <4>1. i < Reach => l = 1
        BY <1>3, <1>4, <1>5, LevelFacts
      <4> QED BY <2>4, <2>9, <4>1
    <3>3. call.j <= Level(call.i)
      BY <1>3, <1>4, <1>5 DEF NIADDR
    <3> QED BY <1>1, <1>2, <1>3, <1>4, <2>5, <3>1, <3>2, <3>3 DEF GrowOK, AllocAt
  <2>16. Sound'
    <3>1. \A g \in Inos : g # f => inode'[g] = inode[g] /\ Ic(g)' = Ic(g) /\ tabs'[g] = tabs[g]
      BY <2>7, <2>9
    <3>2. \A g \in Inos : \A x \in tabs[g][1] : blk'[x] = blk[x] /\ rest'[x] = rest[x]
      BY <1>6
    <3>3. Growing /\ f = call.f /\ l = Level(call.i) /\ call.at \in {"top", "child"} /\ Ic(f)'.db = Ic(f).db
      BY <1>1, <1>2, <1>3, <1>4, <1>5, <2>4, <2>7
    <3>4. /\ a \in used' /\ a # call.addr /\ Pending \subseteq {call.addr, a} /\ used \subseteq used'
          /\ used' \subseteq used \cup {a}
      BY <2>1, <2>11
    <3> QED BY <1>1, <1>2, <1>6, <2>3, <2>5, <2>7, <2>9, <2>10, <2>12, <2>13, <2>14, <2>15, <3>1, <3>2, <3>3, <3>4, TableStep
  <2> QED BY <2>10, <2>16 DEF Ind
<1> QED BY <1>8, <1>9

\* A table below the top is written.
LEMMA WriteChildStep ==
  ASSUME Ind, WriteChild
  PROVE  Ind'
<1>1. /\ Types /\ Sound /\ fault = FALSE /\ call \in CallSet /\ call.op \in {"write", "create"}
      /\ call.at = "child" /\ call.at \in AllocAt
  <2>1. At({"write", "create"}, "child")
    BY DEF WriteChild
  <2> QED BY <2>1, AtFacts DEF AllocAt
<1>2. PICK f \in linked : f = call.f /\ f \in Inos
  BY <1>1, GrowFacts DEF Growing
<1>3. PICK i \in Blocks : i = call.i /\ i \in Nat
  BY <1>1, GrowFacts DEF Growing
<1>4. PICK a \in Data : a = ret
  BY <1>1, GrowFacts DEF Growing, GrowOK
<1>5. /\ Growing /\ GrowOK /\ ~Wiping /\ NDADDR <= i /\ call.addr \in Data /\ call.j < Level(i) /\ a # call.addr
  BY <1>1, <1>2, <1>3, <1>4, GrowFacts DEF Growing, GrowOK, AllocAt
<1>6. PICK l \in 1..NIADDR : l = Level(i) /\ l # 1 /\ ~(i < Reach) /\ call.j + 1 \in 1..NIADDR /\ call.j + 1 <= l
  <2>1. Level(i) \in 1..NIADDR /\ call.j \in 1..NIADDR
    BY <1>1, <1>3, <1>5, LevelFacts, Consts DEF CallSet, NIADDR
  <2>2. Level(i) # 1
    BY <1>5, <2>1 DEF NIADDR
  <2>3. ~(i < Reach)
    BY <1>3, <1>5, <2>2, LevelFacts
  <2> QED BY <1>5, <2>1, <2>2, <2>3 DEF NIADDR
<1>7. PICK c \in [0..(LS - 1) -> Arrays] : c = [Contents(call.t) EXCEPT ![Entry(call.i, call.j)] = ret]
  BY <1>1, <1>4, ContentsType DEF Arrays
<1>8. /\ PutContents(a, c) /\ tabs' = [tabs EXCEPT ![f][l] = @ \cup {a}]
      /\ call' = [call EXCEPT !.at = "walk", !.t = a, !.j = call.j + 1]
      /\ UNCHANGED <<listVars, inode, mem, linked, own, lossy, events, fault>>
  BY <1>2, <1>3, <1>4, <1>6, <1>7 DEF WriteChild
<1>9. Pending = {call.addr, a}
  BY <1>1, <1>4, <1>5, Consts DEF Pending, Growing
<1>10. a \in used /\ ~Held(own, tabs, a) /\ used' = used
  BY <1>1, <1>8, <1>9 DEF Sound, Separate, listVars
<1>11. /\ blk' \in [Data -> Lists] /\ rest' \in [Data -> [Upper -> Arrays]]
       /\ \A x \in Data : x # a => blk'[x] = blk[x] /\ rest'[x] = rest[x]
  BY <1>1, <1>8, PutTypes
<1>12. IInv' /\ TypeOK'
  BY <1>1, <1>8, <1>10, PutStep DEF Sound, IInv
<1>13. a \in Addrs
  BY DEF Addrs
<1>14. /\ call' \in CallSet
       /\ call'.op = call.op /\ call'.f = call.f /\ call'.last = call.last /\ call'.head = call.head
       /\ call'.end = call.end /\ call'.new = call.new /\ call'.i = call.i /\ call'.failed = call.failed
       /\ call'.at = "walk" /\ call'.addr = call.addr /\ call'.j = call.j + 1
  BY <1>1, <1>6, <1>8, <1>13 DEF CallSet, AllocAt
<1>15. tabs \in [Inos -> [1..NIADDR -> SUBSET Data]]
  BY <1>1 DEF Types, BlocksTypeOK
<1>16. /\ tabs' \in [Inos -> [1..NIADDR -> SUBSET Data]]
       /\ tabs'[f][l] = tabs[f][l] \cup {a} /\ \A m \in 1..NIADDR : m # l => tabs'[f][m] = tabs[f][m]
       /\ \A g \in Inos : g # f => tabs'[g] = tabs[g]
  <2>1. tabs' = [tabs EXCEPT ![f][l] = tabs[f][l] \cup {a}] /\ f \in Inos /\ l \in 1..NIADDR
    BY <1>2, <1>6, <1>8
  <2>2. tabs[f][l] \cup {a} \in SUBSET Data
    BY <1>15, <2>1
  <2> QED BY <1>15, <2>1, <2>2
<1>17. rest' \in [Data -> [Upper -> Addrs]]
  BY <1>11 DEF Arrays, Addrs
<1>18. Types'
  BY <1>1, <1>8, <1>11, <1>12, <1>14, <1>16, <1>17 DEF Types, BlocksTypeOK
<1>19. \A g \in Inos : Ic(g)' = Ic(g)
  BY <1>8 DEF Ic
<1>20. ~Wiping' /\ Shape'
  <2>1. ~Wiping'
    BY <1>1, <1>14 DEF Wiping
  <2> QED BY <1>1, <1>5, <1>8, <2>1, StillShape DEF Sound
<1>21. GrowOK'
  <2>1. Ic(call.f)' = Ic(call.f)
    BY <1>2, <1>14, <1>19
  <2> QED BY <1>1, <1>3, <1>5, <1>6, <1>14, <2>1 DEF GrowOK, AllocAt
<1>22. Sound'
  <2>1. \A g \in Inos : g # f => inode'[g] = inode[g] /\ Ic(g)' = Ic(g) /\ tabs'[g] = tabs[g]
    BY <1>8, <1>16, <1>19
  <2>2. \A g \in Inos : \A x \in tabs[g][1] : blk'[x] = blk[x] /\ rest'[x] = rest[x]
    <3> SUFFICES ASSUME NEW g \in Inos, NEW x \in tabs[g][1] PROVE x \in Data /\ x # a
      BY <1>11
    <3>1. x # a
      BY <1>10 DEF Held, NIADDR
    <3> QED BY <1>15, <3>1 DEF NIADDR
  <2>3. /\ Growing /\ f = call.f /\ l = Level(call.i) /\ call.at \in {"top", "child"} /\ Ic(f)'.db = Ic(f).db
        /\ l = 1 => Ic(f)'.ib[1] = a /\ call.i = NDADDR /\ call.at = "top"
        /\ l # 1 => Ic(f)'.ib[1] = Ic(f).ib[1]
    BY <1>1, <1>2, <1>3, <1>5, <1>6, <1>19
  <2>4. /\ a \in used' /\ a # call.addr /\ Pending \subseteq {call.addr, a} /\ used \subseteq used'
        /\ used' \subseteq used \cup {a} /\ ~Held(own, tabs, a)
    BY <1>5, <1>9, <1>10
  <2>5. /\ inode'[ROOT_DIR].size = inode[ROOT_DIR].size /\ own' = own /\ linked' = linked /\ lossy' = lossy
        /\ mem[f] # CLOSED => mem'[f] # CLOSED /\ mem'[f].size = mem[f].size
    BY <1>8
  <2> QED BY <1>1, <1>2, <1>12, <1>14, <1>16, <1>18, <1>20, <1>21, <2>1, <2>2, <2>3, <2>4, <2>5, TableStep
<1> QED BY <1>8, <1>18, <1>22 DEF Ind

-----------------------------------------------------------------------------
(* Steps of calls that give no file a block. *)

\* A step that leaves the blocks of all files alone keeps what holds between calls.
LEMMA CalmStep ==
  ASSUME Types, Sound, Types', IInv', Shape', CallOK', call.op # "remove", call'.op # "remove",
         own' = own, tabs' = tabs, linked' = linked, lossy' = lossy,
         used \subseteq used', used' \subseteq used \cup Pending', Pending \subseteq Pending',
         \A a \in Pending' : a \in used' /\ (a \in Pending \/ a \notin used),
         \A f \in Inos : \A a \in tabs[f][1] : blk'[a] = blk[a] /\ rest'[a] = rest[a],
         \A f \in linked : /\ Ic(f)'.db = Ic(f).db /\ Ic(f)'.ib = Ic(f).ib
                           /\ Hi(f)' = Hi(f) /\ HiT(f)' = HiT(f),
         lossy = FALSE => (Growing' => call'.failed = FALSE),
         call.op = "create" /\ call.at \notin {"first", "inode"} =>
           call'.op = "create" /\ call'.new = call.new /\ call'.at \notin {"first", "inode"}
  PROVE  Sound'
<1>1. \A f \in linked : Hi(f) \in Int /\ HiT(f) \in Int /\ Hi(f) <= Hi(f) /\ HiT(f) <= HiT(f)
  <2> SUFFICES ASSUME NEW f \in linked PROVE Hi(f) \in Nat /\ HiT(f) \in Nat
    OBVIOUS
  <2> QED BY HiFacts, BlockNumbers DEF Sound
<1>2. Maps'
  BY <1>1, StillMaps
<1>3. Separate'
  BY StillSep
<1>4. Accounted'
  BY <1>1, StillAccounted
<1>5. Unused'
  BY DEF Sound, Unused
<1>6. Removal'
  BY DEF Removal
<1> QED BY <1>2, <1>3, <1>4, <1>5, <1>6 DEF Sound

\* Blocks that are held for later stay so when nothing is taken from the free list.
LEMMA PendingSame ==
  ASSUME Sound, used' = used, Pending' = Pending
  PROVE  /\ used \subseteq used' /\ used' \subseteq used \cup Pending' /\ Pending \subseteq Pending'
         /\ \A a \in Pending' : a \in used' /\ (a \in Pending \/ a \notin used)
BY DEF Sound, Separate

\* open() copies the inode.
LEMMA OpenStep ==
  ASSUME Ind, NEW f \in Inos, Open(f)
  PROVE  Ind'
<1>1. Types /\ Sound /\ fault = FALSE /\ call = Idle /\ call.op = "idle" /\ ~Wiping /\ ~Growing /\ Pending = {}
  BY IdleFacts DEF Open
<1>2. /\ f \in linked \ {ROOT_DIR} /\ mem[f] = CLOSED /\ mem' = [mem EXCEPT ![f] = inode[f]]
      /\ UNCHANGED <<vars, rest, inode, call, linked, own, tabs, lossy, events, fault>>
  BY DEF Open
<1>3. IInv' /\ blk' = blk /\ used' = used
  BY <1>1, <1>2, ListKept DEF Sound, vars
<1>4. mem \in [Inos -> Icommon \cup {CLOSED}] /\ inode \in [Inos -> Icommon]
  BY <1>1 DEF Types, BlocksTypeOK
<1>5. mem'[f] = inode[f] /\ \A g \in Inos : g # f => mem'[g] = mem[g]
  BY <1>2, <1>4
<1>6. mem' \in [Inos -> Icommon \cup {CLOSED}]
  BY <1>2, <1>4
<1>7. Types'
  BY <1>1, <1>2, <1>3, <1>6 DEF Types, BlocksTypeOK, IInv
<1>8. \A g \in Inos : Ic(g)' = Ic(g)
  BY <1>2, <1>4, <1>5 DEF Ic
<1>9. Shape'
  <2>1. inode[f].size \in Nat /\ inode[f].size <= inode[f].size
    BY <1>4, Consts DEF Icommon
  <2>2. ROOT_DIR \in Inos
    BY Consts DEF Inos, ROOT_DIR
  <2>3. mem'[ROOT_DIR] = CLOSED
    BY <1>1, <1>2, <1>5, <2>2 DEF Sound, Shape
  <2>4. ASSUME NEW g \in Inos, mem'[g] # CLOSED
        PROVE  /\ g \in linked /\ mem'[g].mode = inode[g].mode /\ inode[g].size <= mem'[g].size
               /\ mem'[g].db = inode[g].db /\ mem'[g].ib = inode[g].ib
    <3>1. CASE g = f
      BY <1>2, <1>5, <2>1, <3>1
    <3>2. CASE g # f
      BY <1>1, <1>5, <2>4, <3>2 DEF Sound, Shape
    <3> QED BY <3>1, <3>2
  <2>5. ~Wiping'
    BY <1>1, <1>2 DEF Wiping
  <2> QED BY <1>1, <1>2, <2>3, <2>4, <2>5 DEF Sound, Shape
<1>10. CallOK' /\ Pending' = {} /\ ~Growing'
  BY <1>1, <1>2 DEF CallOK, Pending, Growing
<1>11. \A g \in linked : g \in Inos /\ Hi(g)' = Hi(g) /\ HiT(g)' = HiT(g)
  <2> SUFFICES ASSUME NEW g \in linked PROVE g \in Inos /\ Hi(g)' = Hi(g) /\ HiT(g)' = HiT(g)
    OBVIOUS
  <2>1. g \in Inos
    BY <1>1 DEF Types, BlocksTypeOK
  <2>2. Ic(g)' = Ic(g)
    BY <1>8, <2>1
  <2> QED BY <1>1, <1>10, <2>1, <2>2 DEF Hi, HiT
<1>12. Sound'
  BY <1>1, <1>2, <1>3, <1>7, <1>8, <1>9, <1>10, <1>11, PendingSame, CalmStep
<1> QED BY <1>7, <1>12 DEF Ind

\* close() writes the inode.
LEMMA CloseStep ==
  ASSUME Ind, NEW f \in Inos, Close(f)
  PROVE  Ind'
<1>1. Types /\ Sound /\ fault = FALSE /\ call = Idle /\ call.op = "idle" /\ ~Wiping /\ ~Growing /\ Pending = {}
  BY IdleFacts DEF Close
<1>2. /\ mem[f] # CLOSED /\ inode' = [inode EXCEPT ![f] = mem[f]] /\ mem' = [mem EXCEPT ![f] = CLOSED]
      /\ UNCHANGED <<vars, rest, call, linked, own, tabs, lossy, events, fault>>
  BY DEF Close
<1>3. IInv' /\ blk' = blk /\ used' = used
  BY <1>1, <1>2, ListKept DEF Sound, vars
<1>4. mem \in [Inos -> Icommon \cup {CLOSED}] /\ inode \in [Inos -> Icommon]
  BY <1>1 DEF Types, BlocksTypeOK
<1>5. /\ mem'[f] = CLOSED /\ inode'[f] = mem[f]
      /\ \A g \in Inos : g # f => mem'[g] = mem[g] /\ inode'[g] = inode[g]
  BY <1>2, <1>4
<1>6. mem' \in [Inos -> Icommon \cup {CLOSED}] /\ inode' \in [Inos -> Icommon]
  BY <1>2, <1>4
<1>7. Types'
  BY <1>1, <1>2, <1>3, <1>6 DEF Types, BlocksTypeOK, IInv
<1>8. \A g \in Inos : Ic(g)' = Ic(g)
  BY <1>2, <1>5 DEF Ic
<1>9. Shape'
  <2>1. f \in linked /\ mem[f].mode = inode[f].mode /\ f # ROOT_DIR
    BY <1>1, <1>2 DEF Sound, Shape
  <2>2. ROOT_DIR \in Inos /\ linked \subseteq Inos
    BY <1>1, Consts DEF Inos, ROOT_DIR, Types, BlocksTypeOK
  <2>3. mem'[ROOT_DIR] = CLOSED /\ inode'[ROOT_DIR] = inode[ROOT_DIR]
    BY <1>1, <1>5, <2>1, <2>2 DEF Sound, Shape
  <2>4. \A g \in linked \ {ROOT_DIR} : inode'[g].mode = "IFREG"
    BY <1>1, <1>5, <2>1, <2>2 DEF Sound, Shape
  <2>5. ASSUME NEW g \in Inos, mem'[g] # CLOSED
        PROVE  /\ g \in linked /\ mem'[g].mode = inode'[g].mode /\ inode'[g].size <= mem'[g].size
               /\ mem'[g].db = inode'[g].db /\ mem'[g].ib = inode'[g].ib
    BY <1>1, <1>5, <2>5 DEF Sound, Shape
  <2>6. ~Wiping'
    BY <1>1, <1>2 DEF Wiping
  <2> QED BY <1>1, <1>2, <2>3, <2>4, <2>5, <2>6 DEF Sound, Shape
<1>10. CallOK' /\ Pending' = {} /\ ~Growing'
  BY <1>1, <1>2 DEF CallOK, Pending, Growing
<1>11. \A g \in linked : g \in Inos /\ Hi(g)' = Hi(g) /\ HiT(g)' = HiT(g)
  <2> SUFFICES ASSUME NEW g \in linked PROVE g \in Inos /\ Hi(g)' = Hi(g) /\ HiT(g)' = HiT(g)
    OBVIOUS
  <2>1. g \in Inos
    BY <1>1 DEF Types, BlocksTypeOK
  <2>2. Ic(g)' = Ic(g)
    BY <1>8, <2>1
  <2> QED BY <1>1, <1>10, <2>1, <2>2 DEF Hi, HiT
<1>12. Sound'
  BY <1>1, <1>2, <1>3, <1>7, <1>8, <1>9, <1>10, <1>11, PendingSame, CalmStep
<1> QED BY <1>7, <1>12 DEF Ind

\* fwrite begins: with allocateDataBlocks if the file has to grow.
LEMMA WriteStartStep ==
  ASSUME Ind, NEW f \in Inos, NEW head \in Heads, NEW n \in Lengths, Write(f, head, n)
  PROVE  Ind'
<1>1. Types /\ Sound /\ fault = FALSE /\ call = Idle /\ call.op = "idle" /\ ~Wiping /\ ~Growing /\ Pending = {}
  BY IdleFacts DEF Write
<1>2. /\ mem[f] # CLOSED /\ head + n <= MAX_SIZE
      /\ UNCHANGED <<vars, rest, inode, mem, linked, own, tabs, lossy, events, fault>>
  BY DEF Write
<1>3. /\ head \in Nat /\ n \in Nat \ {0} /\ BLOCK_SIZE \in Nat \ {0} /\ MAX_SIZE \in Nat
  BY DataBlocksAssumption
<1>4. /\ f \in linked /\ f # ROOT_DIR /\ Ic(f) = mem[f] /\ mem[f].size \in Nat /\ mem[f].size <= MAX_SIZE
      /\ LastOf(Ic(f)) = mem[f].size \div BLOCK_SIZE
  <2>1. f \in linked /\ f # ROOT_DIR /\ Ic(f) = mem[f]
    BY <1>1, <1>2 DEF Sound, Shape, Ic
  <2>2. mem[f] \in Icommon
    BY <1>1, <2>1, IcFacts DEF Sound
  <2>3. LastOf(Ic(f)) = mem[f].size \div BLOCK_SIZE
    BY <1>1, <2>1, LastFacts DEF Sound
  <2> QED BY <1>3, <2>1, <2>2, <2>3 DEF Icommon
<1>5. PICK s \in Nat : s = mem[f].size /\ s <= MAX_SIZE
  BY <1>4
<1>6. PICK k \in Nat : k = s \div BLOCK_SIZE /\ k = LastOf(Ic(f))
  BY <1>3, <1>4, <1>5, DivBounds
<1>7. PICK d \in Nat : d = head + n /\ 0 < d /\ head < d /\ head <= d - 1 /\ d - 1 \in Nat /\ d \in 0..MAX_SIZE
  BY <1>2, <1>3
<1>8. PICK e \in Blocks : e = d \div BLOCK_SIZE /\ e \in Nat
  BY <1>7, BlockNumbers
<1>9. PICK h \in Blocks : h = head \div BLOCK_SIZE /\ h <= (d - 1) \div BLOCK_SIZE
  <2>1. head \in 0..MAX_SIZE
    BY <1>3, <1>7
  <2>2. head \div BLOCK_SIZE <= (d - 1) \div BLOCK_SIZE
    BY <1>3, <1>7, DivMono
  <2> QED BY <2>1, <2>2, BlockNumbers
<1>10. PICK at : at = CASE d <= s -> "data" [] k + 1 <= e -> "alloc" [] OTHER -> "got"
  OBVIOUS
<1>11. PICK i : i = IF at = "alloc" THEN k + 1 ELSE h
  OBVIOUS
<1>12. call' = [Calling("write", at, f, i, e) EXCEPT !.head = head, !.end = d]
  BY <1>5, <1>6, <1>7, <1>8, <1>9, <1>10, <1>11 DEF Write
<1>13. \/ at = "data" /\ d <= s
       \/ at = "alloc" /\ s < d /\ k + 1 <= e
       \/ at = "got" /\ s < d /\ k = e
  <2>1. s < d => k <= e
    BY <1>3, <1>5, <1>6, <1>7, <1>8, DivMono
  <2>2. CASE d <= s
    <3>1. e <= k
      BY <1>3, <1>5, <1>6, <1>7, <1>8, <2>2, DivMono
    <3>2. ~(k + 1 <= e)
      BY <1>6, <1>8, <3>1
    <3> QED BY <1>10, <2>2, <3>2
  <2>3. CASE ~(d <= s) /\ k + 1 <= e
    <3>1. at = "alloc"
      BY <1>10, <2>3
    <3> QED BY <1>5, <1>7, <2>3, <3>1
  <2>4. CASE ~(d <= s) /\ ~(k + 1 <= e)
    <3>1. at = "got"
      BY <1>10, <2>4
    <3> QED BY <1>5, <1>6, <1>7, <1>8, <2>1, <2>4, <3>1
  <2> QED BY <2>2, <2>3, <2>4
<1>14. i \in Blocks /\ (at = "alloc" => i = k + 1) /\ (at # "alloc" => i = h)
  <2>1. at = "alloc" => k + 1 \in Nat /\ k + 1 <= e
    BY <1>6, <1>8, <1>13
  <2>2. at = "alloc" => k + 1 \in Blocks
    BY <1>8, <2>1, BlockNumbers
  <2> QED BY <1>9, <1>11, <2>2
<1>15. /\ call' \in CallSet
       /\ call'.op = "write" /\ call'.at = at /\ call'.f = f /\ call'.i = i /\ call'.last = e
       /\ call'.head = head /\ call'.end = d /\ call'.failed = FALSE /\ call'.j = 1
  <2>1. call' = [op |-> "write", at |-> at, f |-> f, i |-> i, last |-> e, addr |-> 0, t |-> 0, j |-> 1,
                 head |-> head, end |-> d, new |-> f, failed |-> FALSE, spilt |-> FALSE]
    BY <1>12 DEF Calling
  <2>2. at \in AllocAt \cup {"got", "data"} /\ 0 \in Addrs /\ 1 \in 1..NIADDR
    BY <1>13 DEF AllocAt, Addrs, NIADDR
  <2> QED BY <1>3, <1>14, <2>1, <2>2 DEF CallSet
<1>16. IInv' /\ blk' = blk /\ used' = used
  BY <1>1, <1>2, ListKept DEF Sound, vars
<1>17. Types'
  BY <1>1, <1>2, <1>15, <1>16 DEF Types, BlocksTypeOK, IInv
<1>18. Growing' /\ ~Wiping' /\ Pending' = {}
  BY <1>13, <1>15 DEF Growing, Wiping, Pending
<1>19. Shape'
  BY <1>1, <1>2, <1>18, StillShape DEF Sound
<1>20. \A g \in Inos : Ic(g)' = Ic(g)
  BY <1>2 DEF Ic
<1>21. CallOK'
  <2>1. Ic(call.f)' = Ic(f)
    BY <1>15, <1>20
  <2>2. GrowOK'
    BY <1>6, <1>8, <1>13, <1>14, <1>15, <2>1 DEF GrowOK, AllocAt
  <2>3. WriteOK'
    BY <1>2, <1>4, <1>5, <1>7, <1>8, <1>9, <1>13, <1>14, <1>15 DEF WriteOK, AllocAt
  <2> QED BY <1>15, <2>2, <2>3 DEF CallOK
<1>22. \A g \in linked : g \in Inos /\ Hi(g)' = Hi(g) /\ HiT(g)' = HiT(g)
  <2> SUFFICES ASSUME NEW g \in linked PROVE g \in Inos /\ Hi(g)' = Hi(g) /\ HiT(g)' = HiT(g)
    OBVIOUS
  <2>1. g \in Inos
    BY <1>1 DEF Types, BlocksTypeOK
  <2>2. Ic(g)' = Ic(g)
    BY <1>20, <2>1
  <2>3. Hi(g) = LastOf(Ic(g)) /\ HiT(g) = Hi(g)
    BY <1>1 DEF Hi, HiT
  <2>4. CASE g # f
    BY <1>15, <2>1, <2>2, <2>3, <2>4 DEF Hi, HiT
  <2>5. CASE g = f
    <3>1. Hi(g)' = k
      <4>1. CASE at = "alloc"
        BY <1>6, <1>14, <1>15, <1>18, <2>5, <4>1 DEF Hi, AllocAt
      <4>2. CASE at = "got" /\ k = e
        BY <1>15, <1>18, <2>5, <4>2 DEF Hi, AllocAt
      <4>3. CASE at = "data"
        BY <1>6, <1>15, <1>18, <2>2, <2>5, <4>3 DEF Hi, AllocAt
      <4> QED BY <1>13, <4>1, <4>2, <4>3
    <3>2. HiT(g)' = Hi(g)'
      BY <1>13, <1>15 DEF HiT
    <3> QED BY <1>6, <2>1, <2>3, <2>5, <3>1, <3>2
  <2> QED BY <2>4, <2>5
<1>23. Sound'
  BY <1>1, <1>2, <1>15, <1>16, <1>17, <1>18, <1>19, <1>20, <1>21, <1>22, PendingSame, CalmStep
<1> QED BY <1>17, <1>23 DEF Ind

\* The end of allocateDataBlocks: the file has the blocks of its new size.
LEMMA GrownStep ==
  ASSUME Ind, Grown
  PROVE  Ind'
<1>1. /\ Types /\ Sound /\ fault = FALSE /\ call \in CallSet /\ call.op = "write" /\ call.at = "got"
  <2>1. At({"write"}, "got") /\ "idle" \notin {"write"}
    BY DEF Grown
  <2>2. Types /\ Sound /\ fault = FALSE /\ call \in CallSet /\ call.op \in {"write"} /\ call.at = "got"
    BY <2>1, AtFacts
  <2> QED BY <2>2
<1>2. PICK f \in linked : f = call.f /\ f \in Inos
  BY <1>1, GrowFacts DEF Growing
<1>3. /\ f # ROOT_DIR /\ mem[f] # CLOSED /\ call.head < call.end /\ call.end <= MAX_SIZE
      /\ call.last = call.end \div BLOCK_SIZE /\ mem[f].size < call.end /\ call.head \in Nat /\ call.end \in Nat
  BY <1>1, <1>2 DEF Sound, CallOK, WriteOK, CallSet
<1>4. PICK d \in Nat : d = call.end /\ d <= MAX_SIZE /\ d \in 0..MAX_SIZE /\ d - 1 \in Nat /\ call.head <= d - 1
                       /\ call.head \in 0..MAX_SIZE
  BY <1>3, Consts
<1>5. PICK h \in Blocks : h = call.head \div BLOCK_SIZE /\ h <= (d - 1) \div BLOCK_SIZE
  <2>1. call.head \div BLOCK_SIZE <= (d - 1) \div BLOCK_SIZE
    BY <1>3, <1>4, DivMono, Consts
  <2> QED BY <1>4, <2>1, BlockNumbers
<1>6. /\ call' = [call EXCEPT !.at = "data", !.i = h]
      /\ call.failed = TRUE => mem' = mem
      /\ call.failed = FALSE => mem' = [mem EXCEPT ![f].size = d]
      /\ UNCHANGED <<vars, rest, inode, linked, own, tabs, lossy, events, fault>>
  BY <1>2, <1>4, <1>5 DEF Grown
<1>7. /\ call' \in CallSet
      /\ call'.op = "write" /\ call'.at = "data" /\ call'.f = f /\ call'.i = h /\ call'.last = call.last
      /\ call'.head = call.head /\ call'.end = d /\ call'.failed = call.failed
  BY <1>1, <1>2, <1>4, <1>5, <1>6 DEF CallSet
<1>8. IInv' /\ blk' = blk /\ used' = used
  BY <1>1, <1>6, ListKept DEF Sound, vars
<1>9. mem \in [Inos -> Icommon \cup {CLOSED}] /\ inode \in [Inos -> Icommon] /\ mem[f] \in Icommon
  BY <1>1, <1>2, <1>3 DEF Types, BlocksTypeOK
<1>10. PICK ic : ic = [mem[f] EXCEPT !.size = d]
  OBVIOUS
<1>11. ic \in Icommon /\ ic.mode = mem[f].mode /\ ic.db = mem[f].db /\ ic.ib = mem[f].ib /\ ic.size = d
  BY <1>4, <1>9, <1>10 DEF Icommon
<1>12. /\ mem' \in [Inos -> Icommon \cup {CLOSED}] /\ \A g \in Inos : g # f => mem'[g] = mem[g]
       /\ call.failed = TRUE => mem'[f] = mem[f]
       /\ call.failed = FALSE => mem'[f] = ic
  <2>1. call.failed \in BOOLEAN
    BY <1>1 DEF CallSet
  <2>2. CASE call.failed = TRUE
    BY <1>6, <1>9, <2>2
  <2>3. CASE call.failed = FALSE
    <3>1. mem' = [mem EXCEPT ![f] = ic]
      BY <1>6, <1>10, <2>3
    <3> QED BY <1>2, <1>9, <1>11, <2>3, <3>1
  <2> QED BY <2>1, <2>2, <2>3
<1>13. Types'
  BY <1>1, <1>6, <1>7, <1>8, <1>12 DEF Types, BlocksTypeOK, IInv
<1>14. /\ mem'[f] # CLOSED /\ Ic(f)' = mem'[f] /\ Ic(f) = mem[f]
       /\ \A g \in Inos : g # f => Ic(g)' = Ic(g)
       /\ mem'[f].db = mem[f].db /\ mem'[f].ib = mem[f].ib /\ mem'[f].mode = mem[f].mode
       /\ mem'[f].size \in Nat /\ mem[f].size \in Nat /\ mem[f].size <= mem'[f].size
  <2>1. call.failed \in BOOLEAN /\ ic # CLOSED /\ mem[f].size \in Nat
    BY <1>1, <1>9, <1>11, Consts DEF CallSet, Icommon, CLOSED
  <2>2. /\ mem'[f] # CLOSED /\ mem'[f].db = mem[f].db /\ mem'[f].ib = mem[f].ib /\ mem'[f].mode = mem[f].mode
        /\ mem'[f].size \in Nat /\ mem[f].size <= mem'[f].size
    BY <1>3, <1>4, <1>11, <1>12, <2>1
  <2> QED BY <1>2, <1>3, <1>6, <1>12, <2>1, <2>2 DEF Ic
<1>15. ~Wiping /\ ~Wiping' /\ Growing /\ Growing' /\ Pending = {} /\ Pending' = {}
  BY <1>1, <1>7 DEF Wiping, Growing, Pending
<1>16. Shape'
  <2>1. mem'[ROOT_DIR] = CLOSED
    <3>1. ROOT_DIR \in Inos
      BY Consts DEF Inos, ROOT_DIR
    <3> QED BY <1>1, <1>3, <1>12, <3>1 DEF Sound, Shape
  <2>2. ASSUME NEW g \in Inos, mem'[g] # CLOSED
        PROVE  /\ g \in linked /\ mem'[g].mode = inode[g].mode /\ inode[g].size <= mem'[g].size
               /\ mem'[g].db = inode[g].db /\ mem'[g].ib = inode[g].ib
    <3>1. CASE g = f
      <4>1. /\ mem[f].mode = inode[f].mode /\ inode[f].size <= mem[f].size
            /\ mem[f].db = inode[f].db /\ mem[f].ib = inode[f].ib /\ inode[f].size \in Nat
        BY <1>1, <1>2, <1>3, <1>9, Consts DEF Sound, Shape, Icommon
      <4> QED BY <1>2, <1>14, <3>1, <4>1
    <3>2. CASE g # f
      BY <1>1, <1>12, <2>2, <3>2 DEF Sound, Shape
    <3> QED BY <3>1, <3>2
  <2> QED BY <1>1, <1>6, <1>15, <2>1, <2>2 DEF Sound, Shape
<1>17. CallOK'
  <2>1. GrowOK'
    BY <1>7 DEF GrowOK, AllocAt
  <2>2. call.failed = FALSE => d <= mem'[f].size
    BY <1>4, <1>11, <1>12
  <2>3. WriteOK'
    BY <1>2, <1>3, <1>4, <1>5, <1>6, <1>7, <1>14, <2>2 DEF WriteOK, AllocAt
  <2> QED BY <1>7, <2>1, <2>3 DEF CallOK
<1>18. \A g \in linked : g \in Inos /\ Hi(g)' = Hi(g) /\ HiT(g)' = HiT(g)
  <2> SUFFICES ASSUME NEW g \in linked PROVE g \in Inos /\ Hi(g)' = Hi(g) /\ HiT(g)' = HiT(g)
    OBVIOUS
  <2>1. g \in Inos
    BY <1>1 DEF Types, BlocksTypeOK
  <2>2. HiT(g) = Hi(g) /\ HiT(g)' = Hi(g)'
    BY <1>1, <1>7 DEF HiT
  <2>3. CASE g # f
    <3>1. Ic(g)' = Ic(g)
      BY <1>14, <2>1, <2>3
    <3> QED BY <1>2, <1>7, <2>1, <2>2, <2>3, <3>1 DEF Hi
  <2>4. CASE g = f
    <3>1. Hi(g)' = LastOf(mem'[f])
      BY <1>7, <1>14, <2>4 DEF Hi, AllocAt
    <3>2. CASE call.failed = TRUE
      BY <1>1, <1>2, <1>12, <1>14, <2>1, <2>2, <2>4, <3>1, <3>2 DEF Hi, AllocAt
    <3>3. CASE call.failed = FALSE
      <4>1. Hi(g) = call.last
        BY <1>1, <1>2, <1>15, <2>4, <3>3 DEF Hi, AllocAt
      <4>2. mem'[f].mode = "IFREG"
        BY <1>1, <1>2, <1>3, <1>14 DEF Sound, Shape
      <4>3. LastOf(mem'[f]) = d \div BLOCK_SIZE
        BY <1>11, <1>12, <3>3, <4>2 DEF LastOf
      <4> QED BY <1>3, <1>4, <2>1, <2>2, <3>1, <4>1, <4>3
    <3>4. call.failed \in BOOLEAN
      BY <1>1 DEF CallSet
    <3> QED BY <3>2, <3>3, <3>4
  <2> QED BY <2>3, <2>4
<1>19. \A g \in linked : Ic(g)'.db = Ic(g).db /\ Ic(g)'.ib = Ic(g).ib
  BY <1>14, <1>18
<1>20. lossy = FALSE => call'.failed = FALSE
  BY <1>1, <1>7, <1>15 DEF Sound, Accounted
<1>21. Sound'
  BY <1>1, <1>6, <1>7, <1>8, <1>13, <1>15, <1>16, <1>17, <1>18, <1>19, <1>20, PendingSame, CalmStep
<1> QED BY <1>13, <1>21 DEF Ind

\* fwrite writes one block.
LEMMA WriteBlockStep ==
  ASSUME Ind, WriteBlock
  PROVE  Ind'
<1>1. /\ Types /\ Sound /\ fault = FALSE /\ call \in CallSet /\ call.op = "write" /\ call.at = "data"
  <2>1. At({"write"}, "data") /\ "idle" \notin {"write"}
    BY DEF WriteBlock
  <2>2. Types /\ Sound /\ fault = FALSE /\ call \in CallSet /\ call.op \in {"write"} /\ call.at = "data"
    BY <2>1, AtFacts
  <2> QED BY <2>2
<1>2. /\ call.f \in linked /\ call.f \in Inos /\ call.i \in Blocks /\ call.i \in Nat
  BY <1>1, GrowFacts DEF Growing
<1>3. /\ PutBlock(call.f, call.i)
      /\ call' = IF call.i < (call.end - 1) \div BLOCK_SIZE THEN [call EXCEPT !.i = @ + 1] ELSE Idle
      /\ UNCHANGED <<listVars, inode, mem, linked, own, tabs, lossy, events>>
  BY DEF WriteBlock
<1>4. /\ TypeOK' /\ rest' \in [Data -> [Upper -> Arrays]] /\ fault' \in BOOLEAN
      /\ fault' = FALSE =>
           IInv' /\ \A g \in Inos : \A a \in tabs[g][1] : blk'[a] = blk[a] /\ rest'[a] = rest[a]
  BY <1>1, <1>2, <1>3, PutBlockStep
<1>5. PICK m \in Blocks : m = (call.end - 1) \div BLOCK_SIZE /\ m \in Nat
  <2>1. call.end - 1 \in 0..MAX_SIZE
    BY <1>1, Consts DEF Sound, CallOK, WriteOK, CallSet
  <2> QED BY <2>1, BlockNumbers
<1>6. \/ call' = Idle
      \/ /\ call' \in CallSet /\ call'.i <= m
         /\ call'.op = "write" /\ call'.at = "data" /\ call'.f = call.f /\ call'.last = call.last
         /\ call'.head = call.head /\ call'.end = call.end /\ call'.failed = call.failed
  <2>1. CASE call.i < m
    <3>1. PICK j \in Blocks : j = call.i + 1 /\ j <= m
      <4>1. call.i + 1 \in Nat /\ call.i + 1 <= m
        BY <1>2, <1>5, <2>1
      <4> QED BY <1>5, <4>1, BlockNumbers
    <3>2. call' = [call EXCEPT !.i = j]
      BY <1>3, <1>5, <2>1, <3>1
    <3> QED BY <1>1, <3>1, <3>2 DEF CallSet
  <2>2. CASE ~(call.i < m)
    BY <1>3, <1>5, <2>2
  <2> QED BY <2>1, <2>2
<1>7. rest' \in [Data -> [Upper -> Addrs]]
  BY <1>4 DEF Arrays, Addrs
<1>8. Types'
  BY <1>1, <1>3, <1>4, <1>6, <1>7 DEF Types, BlocksTypeOK
<1>9. ASSUME fault' = FALSE PROVE Sound'
  <2>1. ~Wiping /\ ~Wiping' /\ Pending = {} /\ Pending' = {} /\ call'.op # "remove" /\ used' = used
    BY <1>1, <1>3, <1>6 DEF Wiping, Growing, Pending, Idle, listVars
  <2>2. Shape'
    BY <1>1, <1>3, <2>1, StillShape DEF Sound
  <2>3. \A g \in linked : Ic(g)' = Ic(g)
    BY <1>3 DEF Ic
  <2>4. CallOK'
    <3>1. CASE call' = Idle
      BY <3>1 DEF CallOK, Growing, Idle
    <3>2. CASE call' # Idle
      <4>1. GrowOK'
        BY <1>6, <3>2 DEF GrowOK, AllocAt
      <4>2. WriteOK'
        BY <1>1, <1>3, <1>5, <1>6, <3>2 DEF WriteOK, Sound, CallOK, AllocAt
      <4> QED BY <1>6, <3>2, <4>1, <4>2 DEF CallOK
    <3> QED BY <3>1, <3>2
  <2>5. ASSUME NEW g \in linked PROVE Hi(g)' = Hi(g) /\ HiT(g)' = HiT(g)
    <3>1. Hi(g) = LastOf(Ic(g)) /\ HiT(g) = Hi(g)
      BY <1>1 DEF Hi, HiT, AllocAt
    <3>2. Hi(g)' = LastOf(Ic(g)) /\ HiT(g)' = Hi(g)'
      BY <1>6, <2>3 DEF Hi, HiT, AllocAt, Growing, Idle
    <3> QED BY <3>1, <3>2
  <2>6. lossy = FALSE => (Growing' => call'.failed = FALSE)
    <3>1. Growing
      BY <1>1 DEF Growing
    <3> QED BY <1>1, <1>6, <3>1 DEF Sound, Accounted, Growing, Idle
  <2> QED BY <1>1, <1>3, <1>4, <1>8, <1>9, <2>1, <2>2, <2>3, <2>4, <2>5, <2>6, PendingSame, CalmStep
<1> QED BY <1>8, <1>9 DEF Ind

-----------------------------------------------------------------------------
(* wipe() and the creation of a file. *)

\* The root directory has an inode.
LEMMA RootIno == ROOT_DIR \in Inos
BY Consts DEF Inos, ROOT_DIR

\* The loop of path_to_ino2 finds a free inode if there is one.
LEMMA FirstFree ==
  ASSUME NEW S, S \subseteq Nat, S # {}
  PROVE  (CHOOSE f \in S : \A g \in S : f <= g) \in S
<1>1. PICK x \in S : \A y \in S : ~(<<y, x>> \in OpToRel(<, Nat))
  BY NatLessThanWellFounded, WFMin, Zenon
<1>2. ASSUME NEW y \in S PROVE x <= y
  <2>1. x \in Nat /\ y \in Nat
    OBVIOUS
  <2>2. ASSUME y < x PROVE FALSE
    <3>1. <<y, x>> \in Nat \X Nat /\ <<y, x>>[1] = y /\ <<y, x>>[2] = x
      BY <2>1
    <3>2. <<y, x>>[1] < <<y, x>>[2]
      BY <2>2, <3>1
    <3>3. <<y, x>> \in OpToRel(<, Nat)
      BY <3>1, <3>2, Zenon DEF OpToRel
    <3> QED BY <1>1, <3>3
  <2> QED BY <2>1, <2>2
<1> QED BY <1>2

\* The root directory is made, with its first block.
LEMMA WipeRootStep ==
  ASSUME Ind, WipeRoot
  PROVE  Ind'
<1>1. /\ Types /\ Sound /\ fault = FALSE /\ call \in CallSet /\ call.op = "wipe" /\ call.at = "root" /\ Wiping
  <2>1. At({"wipe"}, "root") /\ "idle" \notin {"wipe"}
    BY DEF WipeRoot
  <2>2. Types /\ Sound /\ fault = FALSE /\ call \in CallSet /\ call.op \in {"wipe"} /\ call.at = "root"
    BY <2>1, AtFacts
  <2> QED BY <2>2 DEF Wiping
<1>2. /\ linked = {} /\ mem = [f \in Inos |-> CLOSED] /\ inode = [f \in Inos |-> UnusedInode]
      /\ used = {} /\ own = [f \in Inos |-> NoBlocks] /\ tabs = [f \in Inos |-> NoTables]
      /\ call.f = ROOT_DIR /\ call.i = 0
  BY <1>1 DEF Sound, Shape, CallOK
<1>3. /\ IInv' /\ blk' = blk
      /\ \/ ret' = FULL /\ used' = used
         \/ ret' \in Data /\ ret' \notin used /\ used' = used \cup {ret'}
  BY <1>1, BallocStep DEF WipeRoot, Sound
<1>4. PICK a \in Addrs : a = ret' /\ a # 0 /\ (a \in Data \/ a = FULL) /\ used' = {a} \ {FULL}
  BY <1>2, <1>3, Consts DEF Addrs
<1>5. /\ inode' = [inode EXCEPT ![ROOT_DIR].mode = "IFDIR", ![ROOT_DIR].size = 1, ![ROOT_DIR].db[0] = a]
      /\ own' = [own EXCEPT ![ROOT_DIR][0] = a] /\ linked' = {ROOT_DIR}
      /\ call' = [call EXCEPT !.at = "entry"]
      /\ UNCHANGED <<rest, mem, tabs, lossy, events, fault>>
  BY <1>4 DEF WipeRoot
<1>6. /\ 0 \in Blocks /\ 0 \in 0..(NDADDR - 1) /\ 1 \in 0..MAX_SIZE /\ 0 < NDADDR /\ Blocks \subseteq Nat
      /\ INODES \in Nat
  BY BlockNumbers, Consts
<1>7. /\ inode \in [Inos -> Icommon] /\ own \in Owns /\ tabs \in Tabs
  BY <1>1 DEF Types, BlocksTypeOK, Owns, Tabs
<1>8. PICK ic \in Icommon : /\ ic = inode'[ROOT_DIR] /\ ic.mode = "IFDIR" /\ ic.size = 1 /\ ic.db[0] = a
                            /\ inode' = [inode EXCEPT ![ROOT_DIR] = ic]
  <2>1. inode[ROOT_DIR] \in Icommon
    BY <1>7, RootIno
  <2>2. PICK ic : ic = [inode[ROOT_DIR] EXCEPT !.mode = "IFDIR", !.size = 1, !.db[0] = a]
    OBVIOUS
  <2>3. ic \in Icommon /\ ic.mode = "IFDIR" /\ ic.size = 1 /\ ic.db[0] = a
    BY <1>6, <2>1, <2>2 DEF Icommon
  <2>4. inode' = [inode EXCEPT ![ROOT_DIR] = ic]
    BY <1>5, <2>2
  <2> QED BY <1>7, <2>3, <2>4, RootIno
<1>9. inode' \in [Inos -> Icommon] /\ \A f \in Inos : f # ROOT_DIR => inode'[f] = inode[f]
  BY <1>7, <1>8
<1>10. /\ own' \in Owns /\ own'[ROOT_DIR][0] = a
       /\ \A f \in Inos : \A b \in Blocks : (f = ROOT_DIR /\ b = 0) \/ own'[f][b] = 0
       /\ \A f \in Inos : f # ROOT_DIR => own'[f] = NoBlocks
       /\ \A b \in Blocks : b # 0 => own'[ROOT_DIR][b] = 0
  <2>1. \A f \in Inos : \A b \in Blocks : own[f][b] = 0
    BY <1>2 DEF NoBlocks
  <2>2. \A f \in Inos : f # ROOT_DIR => own'[f] = own[f]
    BY <1>5, <1>7 DEF Owns
  <2>3. own' \in Owns /\ own'[ROOT_DIR][0] = a /\ \A b \in Blocks : b # 0 => own'[ROOT_DIR][b] = own[ROOT_DIR][b]
    BY <1>5, <1>6, <1>7, RootIno DEF Owns
  <2> QED BY <1>2, <2>1, <2>2, <2>3, RootIno
<1>11. /\ call' \in CallSet /\ call'.op = "wipe" /\ call'.at = "entry" /\ call'.f = ROOT_DIR /\ call'.i = 0
  BY <1>1, <1>2, <1>5 DEF CallSet
<1>12. Types'
  <2>1. TypeOK' /\ linked' \subseteq Inos /\ own' \in [Inos -> [Blocks -> Addrs]]
    BY <1>3, <1>5, <1>10, RootIno DEF IInv, Owns
  <2> QED BY <1>1, <1>5, <1>9, <1>11, <2>1 DEF Types, BlocksTypeOK
<1>13. ~Wiping' /\ ~Growing' /\ Pending' = {} /\ call'.op # "remove"
  BY <1>11 DEF Wiping, Growing, Pending
<1>14. \A f \in Inos : mem'[f] = CLOSED
  BY <1>2, <1>5
<1>15. Shape'
  <2>1. Cardinality({ROOT_DIR}) = 1
    BY FS_Singleton
  <2> QED BY <1>5, <1>8, <1>13, <1>14, <2>1, RootIno DEF Shape
<1>16. CallOK'
  BY <1>11, <1>13 DEF CallOK
<1>17. \A f \in Inos : \A l \in 1..NIADDR : tabs[f][l] = {}
  BY <1>2 DEF NoTables
<1>18. Separate'
  <2>1. Sep(own, tabs, used')
    <3>1. Sep(own, tabs, used)
      BY <1>1 DEF Sound, Separate
    <3> QED BY <1>2, <3>1, SepMore
  <2>2. a \in Data => ~Held(own, tabs, a)
    BY <1>2, <1>4, <1>17, Consts DEF Held, NoBlocks
  <2>3. (a \in used' \cap Data /\ ~Held(own, tabs, a)) \/ (a = FULL /\ 0 = 0)
    BY <1>4, <2>2, Consts
  <2>4. Sep(own', tabs, used')
    BY <1>5, <1>6, <1>7, <2>1, <2>3, RootIno, SepOwn
  <2> QED BY <1>5, <1>13, <2>4 DEF Separate
<1>19. Ic(ROOT_DIR)' = ic /\ Hi(ROOT_DIR)' = 0 /\ HiT(ROOT_DIR)' = 0
  <2>1. Ic(ROOT_DIR)' = ic
    BY <1>8, <1>14, RootIno DEF Ic
  <2>2. LastOf(ic) = 0
    <3>1. 0 \div BLOCK_SIZE = 0
      BY DivBounds, Consts
    <3> QED BY <1>8, <3>1 DEF LastOf
  <2> QED BY <1>13, <2>1, <2>2 DEF Hi, HiT
<1>20. Maps'
  <2>1. ASSUME NEW b \in Blocks, b <= 0 PROVE Way(blk', rest', ic, b) = own'[ROOT_DIR][b] /\ own'[ROOT_DIR][b] # 0
    <3>1. b = 0
      BY <1>6, <2>1
    <3> QED BY <1>4, <1>6, <1>8, <1>10, <3>1 DEF Way
  <2>2. ASSUME NEW b \in Blocks, b >= NDADDR PROVE own'[ROOT_DIR][b] = 0
    <3>1. b # 0
      BY <2>2, Consts
    <3> QED BY <1>10, <3>1
  <2>3. Rooted(ic, own'[ROOT_DIR], tabs'[ROOT_DIR])
    BY <2>2 DEF Rooted
  <2> QED BY <1>5, <1>19, <2>1, <2>3 DEF Maps, FileOK
<1>21. Unused' /\ Removal'
  BY <1>2, <1>5, <1>10, <1>13 DEF Unused, Removal
<1>22. Accounted'
  <2>1. \A x \in used' : Held(own', tabs', x)
    BY <1>4, <1>6, <1>10, RootIno DEF Held
  <2>2. Tidy(ic, own'[ROOT_DIR], tabs'[ROOT_DIR], 0, 0)
    <3>1. \A b \in Blocks : own'[ROOT_DIR][b] # 0 => b <= 0
      BY <1>10
    <3>2. \A l \in 1..NIADDR : tabs'[ROOT_DIR][l] = {}
      BY <1>5, <1>17, RootIno
    <3>3. 1 \in 1..NIADDR
      BY DEF NIADDR
    <3> QED BY <3>1, <3>2, <3>3 DEF Tidy
  <2> QED BY <1>5, <1>13, <1>19, <2>1, <2>2 DEF Accounted
<1>23. Sound'
  BY <1>3, <1>15, <1>16, <1>18, <1>20, <1>21, <1>22 DEF Sound
<1> QED BY <1>12, <1>23 DEF Ind

\* The directory gets its first entry.
LEMMA WipeRootEntryStep ==
  ASSUME Ind, WipeRootEntry
  PROVE  Ind'
<1>1. /\ Types /\ Sound /\ fault = FALSE /\ call \in CallSet /\ call.op = "wipe" /\ call.at = "entry"
  <2>1. At({"wipe"}, "entry") /\ "idle" \notin {"wipe"}
    BY DEF WipeRootEntry
  <2>2. Types /\ Sound /\ fault = FALSE /\ call \in CallSet /\ call.op \in {"wipe"} /\ call.at = "entry"
    BY <2>1, AtFacts
  <2> QED BY <2>2
<1>2. PutBlock(ROOT_DIR, 0) /\ call' = Idle /\ UNCHANGED <<listVars, inode, mem, linked, own, tabs, lossy, events>>
  BY DEF WipeRootEntry
<1>3. /\ TypeOK' /\ rest' \in [Data -> [Upper -> Arrays]] /\ fault' \in BOOLEAN
      /\ fault' = FALSE =>
           IInv' /\ \A g \in Inos : \A a \in tabs[g][1] : blk'[a] = blk[a] /\ rest'[a] = rest[a]
  BY <1>1, <1>2, RootIno, BlockNumbers, PutBlockStep
<1>4. rest' \in [Data -> [Upper -> Addrs]]
  BY <1>3 DEF Arrays, Addrs
<1>5. Types'
  BY <1>1, <1>2, <1>3, <1>4 DEF Types, BlocksTypeOK
<1>6. ASSUME fault' = FALSE PROVE Sound'
  <2>1. /\ ~Wiping /\ ~Wiping' /\ ~Growing /\ ~Growing' /\ Pending = {} /\ Pending' = {} /\ call'.op # "remove"
        /\ used' = used
    BY <1>1, <1>2 DEF Wiping, Growing, Pending, Idle, listVars
  <2>2. Shape' /\ CallOK'
    BY <1>1, <1>2, <2>1, StillShape DEF Sound, CallOK, Idle
  <2>3. \A g \in linked : Ic(g)' = Ic(g)
    BY <1>2 DEF Ic
  <2>4. \A g \in linked : Hi(g)' = Hi(g) /\ HiT(g)' = HiT(g)
    BY <2>1, <2>3 DEF Hi, HiT
  <2> QED BY <1>1, <1>2, <1>3, <1>5, <1>6, <2>1, <2>2, <2>3, <2>4, PendingSame, CalmStep
<1> QED BY <1>5, <1>6 DEF Ind

\* The search for a free inode.
LEMMA CreateStep ==
  ASSUME Ind, Create
  PROVE  Ind'
<1>1. Types /\ Sound /\ fault = FALSE /\ call = Idle /\ call.op = "idle" /\ ~Wiping /\ ~Growing /\ Pending = {}
  BY IdleFacts DEF Create
<1>2. PICK new : new = CHOOSE f \in FreeInodes : \A g \in FreeInodes : f <= g
  OBVIOUS
<1>3. new \in FreeInodes
  <2>1. FreeInodes \subseteq Nat /\ FreeInodes # {}
    BY Consts DEF FreeInodes, Inos, Create
  <2> QED BY <1>2, <2>1, FirstFree, Zenon
<1>4. new \in Inos /\ inode[new].mode = "IFZERO" /\ new \notin linked
  BY <1>1, <1>3 DEF FreeInodes, Sound, Shape
<1>5. ROOT_DIR \in linked /\ inode[ROOT_DIR].size \in 0..MAX_SIZE
  BY <1>1, RootIno DEF Sound, Shape, Types, BlocksTypeOK, Icommon
<1>6. PICK b \in Blocks : b = inode[ROOT_DIR].size \div BLOCK_SIZE
  BY <1>5, BlockNumbers
<1>7. /\ call' = [Calling("create", "first", ROOT_DIR, b, b) EXCEPT !.new = new]
      /\ UNCHANGED <<vars, rest, inode, mem, linked, own, tabs, lossy, events, fault>>
  BY <1>2, <1>6 DEF Create
<1>8. /\ call' \in CallSet /\ call'.op = "create" /\ call'.at = "first" /\ call'.f = ROOT_DIR
      /\ call'.i = b /\ call'.last = b /\ call'.new = new /\ call'.failed = FALSE /\ call'.j = 1
  <2>1. call' = [op |-> "create", at |-> "first", f |-> ROOT_DIR, i |-> b, last |-> b, addr |-> 0, t |-> 0,
                 j |-> 1, head |-> 0, end |-> 0, new |-> new, failed |-> FALSE, spilt |-> FALSE]
    BY <1>7 DEF Calling
  <2>2. 0 \in Addrs /\ 1 \in 1..NIADDR
    BY DEF Addrs, NIADDR
  <2> QED BY <1>4, <1>6, <2>1, <2>2, RootIno DEF CallSet
<1>9. IInv' /\ blk' = blk /\ used' = used
  BY <1>1, <1>7, ListKept DEF Sound, vars
<1>10. Types'
  BY <1>1, <1>7, <1>8, <1>9 DEF Types, BlocksTypeOK, IInv
<1>11. Growing' /\ ~Wiping' /\ Pending' = {}
  BY <1>8 DEF Growing, Wiping, Pending
<1>12. Shape'
  BY <1>1, <1>7, <1>11, StillShape DEF Sound
<1>13. CallOK'
  <2>1. GrowOK'
    BY <1>8 DEF GrowOK, AllocAt
  <2>2. CreateOK'
    BY <1>4, <1>6, <1>7, <1>8 DEF CreateOK
  <2> QED BY <1>8, <2>1, <2>2 DEF CallOK
<1>14. \A g \in linked : Ic(g)' = Ic(g)
  BY <1>7 DEF Ic
<1>15. \A g \in linked : Hi(g)' = Hi(g) /\ HiT(g)' = HiT(g)
  BY <1>1, <1>8, <1>14 DEF Hi, HiT, AllocAt
<1>16. Sound'
  BY <1>1, <1>7, <1>8, <1>9, <1>10, <1>11, <1>12, <1>13, <1>14, <1>15, PendingSame, CalmStep
<1> QED BY <1>10, <1>16 DEF Ind

\* The first block of the new file; a full disk goes unnoticed.
LEMMA CreateBlockStep ==
  ASSUME Ind, CreateBlock
  PROVE  Ind'
<1>1. /\ Types /\ Sound /\ fault = FALSE /\ call \in CallSet /\ call.op = "create" /\ call.at = "first"
  <2>1. At({"create"}, "first") /\ "idle" \notin {"create"}
    BY DEF CreateBlock
  <2>2. Types /\ Sound /\ fault = FALSE /\ call \in CallSet /\ call.op \in {"create"} /\ call.at = "first"
    BY <2>1, AtFacts
  <2> QED BY <2>2
<1>2. /\ IInv' /\ blk' = blk
      /\ \/ ret' = FULL /\ used' = used
         \/ ret' \in Data /\ ret' \notin used /\ used' = used \cup {ret'}
  BY <1>1, BallocStep DEF CreateBlock, Sound
<1>3. PICK a \in Addrs : a = ret' /\ a \in Data \cup {FULL}
  BY <1>2 DEF Addrs
<1>4. call' = [call EXCEPT !.at = "inode", !.addr = a] /\ UNCHANGED <<rest, inode, mem, linked, own, tabs, lossy, events, fault>>
  BY <1>3 DEF CreateBlock
<1>5. /\ call' \in CallSet /\ call'.op = "create" /\ call'.at = "inode" /\ call'.f = call.f
      /\ call'.i = call.i /\ call'.last = call.last /\ call'.new = call.new /\ call'.failed = call.failed
      /\ call'.j = call.j /\ call'.addr = a
  BY <1>1, <1>3, <1>4 DEF CallSet
<1>6. Types'
  BY <1>1, <1>2, <1>4, <1>5 DEF Types, BlocksTypeOK, IInv
<1>7. Pending = {} /\ Pending' = {a} \ {FULL} /\ ~Wiping /\ ~Wiping'
  BY <1>1, <1>5 DEF Pending, Growing, Wiping
<1>8. /\ used \subseteq used' /\ used' \subseteq used \cup Pending' /\ Pending \subseteq Pending'
      /\ \A x \in Pending' : x \in used' /\ (x \in Pending \/ x \notin used)
  BY <1>2, <1>3, <1>7, Consts
<1>9. Shape'
  BY <1>1, <1>4, <1>7, StillShape DEF Sound
<1>10. CallOK' /\ call.failed = FALSE
  <2>1. CreateOK
    BY <1>1 DEF Sound, CallOK
  <2>2. GrowOK'
    BY <1>5 DEF GrowOK, AllocAt
  <2>3. CreateOK'
    BY <1>1, <1>3, <1>4, <1>5, <2>1 DEF CreateOK
  <2> QED BY <1>1, <1>5, <2>1, <2>2, <2>3 DEF CallOK, CreateOK
<1>11. \A g \in linked : Ic(g)' = Ic(g)
  BY <1>4 DEF Ic
<1>12. \A g \in linked : Hi(g)' = Hi(g) /\ HiT(g)' = HiT(g)
  BY <1>1, <1>5, <1>11 DEF Hi, HiT, AllocAt
<1>13. Sound'
  BY <1>1, <1>2, <1>4, <1>5, <1>6, <1>8, <1>9, <1>10, <1>11, <1>12, CalmStep
<1> QED BY <1>6, <1>13 DEF Ind

\* What the creation of a file knows of the directory
LEMMA CreateFacts ==
  ASSUME Types, Sound, call \in CallSet, call.op = "create"
  PROVE  /\ Growing /\ ~Wiping /\ CreateOK /\ GrowOK /\ call.f = ROOT_DIR /\ ROOT_DIR \in linked
         /\ call.i \in Blocks /\ call.i \in Nat /\ call.last = call.i /\ call.new \in Inos
         /\ call.new # ROOT_DIR /\ call.new \notin linked /\ mem[call.new] = CLOSED
         /\ Ic(ROOT_DIR) = inode[ROOT_DIR] /\ LastOf(inode[ROOT_DIR]) \in Nat
         /\ inode[ROOT_DIR].size \in Nat \ {0}
         /\ call.i = inode[ROOT_DIR].size \div BLOCK_SIZE
         /\ inode[ROOT_DIR].size % BLOCK_SIZE = 0 => call.i = LastOf(inode[ROOT_DIR]) + 1
         /\ inode[ROOT_DIR].size % BLOCK_SIZE # 0 => call.i = LastOf(inode[ROOT_DIR])
<1>1. Growing /\ ~Wiping
  BY DEF Growing, Wiping
<1>2. /\ CreateOK /\ GrowOK /\ call.i \in Blocks /\ call.i \in Nat
  BY <1>1, GrowFacts DEF Sound, CallOK
<1>3. /\ call.f = ROOT_DIR /\ call.last = call.i /\ call.new \notin linked /\ call.new \in Inos
      /\ call.i = inode[ROOT_DIR].size \div BLOCK_SIZE
  BY <1>2 DEF CreateOK, CallSet
<1>4. ROOT_DIR \in linked /\ call.new # ROOT_DIR /\ mem[call.new] = CLOSED
  BY <1>1, <1>3 DEF Sound, Shape
<1>5. /\ Ic(ROOT_DIR) = inode[ROOT_DIR] /\ LastOf(inode[ROOT_DIR]) = (inode[ROOT_DIR].size - 1) \div BLOCK_SIZE
      /\ inode[ROOT_DIR].size \in Nat \ {0}
  BY <1>4, LastFacts, Consts DEF Sound
<1>6. /\ (inode[ROOT_DIR].size - 1) \div BLOCK_SIZE \in Nat
      /\ inode[ROOT_DIR].size % BLOCK_SIZE = 0 => call.i = LastOf(inode[ROOT_DIR]) + 1
      /\ inode[ROOT_DIR].size % BLOCK_SIZE # 0 => call.i = LastOf(inode[ROOT_DIR])
  BY <1>3, <1>5, DivPred, Consts
<1> QED BY <1>1, <1>2, <1>3, <1>4, <1>5, <1>6

\* The inode of the new file is written.
LEMMA CreateInodeStep ==
  ASSUME Ind, CreateInode
  PROVE  Ind'
<1>1. /\ Types /\ Sound /\ fault = FALSE /\ call \in CallSet /\ call.op = "create" /\ call.at = "inode"
  <2>1. At({"create"}, "inode") /\ "idle" \notin {"create"}
    BY DEF CreateInode
  <2>2. Types /\ Sound /\ fault = FALSE /\ call \in CallSet /\ call.op \in {"create"} /\ call.at = "inode"
    BY <2>1, AtFacts
  <2> QED BY <2>2
<1>2. PICK n \in Inos : n = call.new /\ n # ROOT_DIR /\ n \notin linked /\ mem[n] = CLOSED
  BY <1>1, CreateFacts
<1>3. PICK root \in Icommon : root = inode[ROOT_DIR]
  BY <1>1, RootIno DEF Types, BlocksTypeOK
<1>4. /\ Growing /\ ~Wiping /\ CreateOK /\ call.f = ROOT_DIR /\ ROOT_DIR \in linked /\ call.i \in Nat
      /\ call.last = call.i /\ Ic(ROOT_DIR) = root /\ LastOf(root) \in Nat /\ root.size \in Nat \ {0}
      /\ call.i = root.size \div BLOCK_SIZE
      /\ root.size % BLOCK_SIZE = 0 => call.i = LastOf(root) + 1
      /\ root.size % BLOCK_SIZE # 0 => call.i = LastOf(root)
  BY <1>1, <1>3, CreateFacts
<1>5. /\ call.addr \in Data \cup {FULL} /\ call.addr # 0 /\ call.addr \in Addrs
      /\ call.failed = FALSE /\ call.j = 1
  BY <1>1, <1>4, Consts DEF CreateOK, Addrs
<1>6. PICK ic : ic = [root EXCEPT !.mode = "IFREG", !.size = 0, !.db[0] = call.addr]
  OBVIOUS
<1>7. 0 \in 0..(NDADDR - 1) /\ 0 \in 0..MAX_SIZE /\ 0 \in Blocks
  BY BlockNumbers, Consts
<1>8. ic \in Icommon /\ ic.mode = "IFREG" /\ ic.size = 0 /\ ic.db[0] = call.addr
  BY <1>5, <1>6, <1>7 DEF Icommon
<1>9. PICK p \in {"alloc", "got"} : /\ p = IF root.size % BLOCK_SIZE = 0 /\ root.size > 0 THEN "alloc" ELSE "got"
                                    /\ p = "alloc" => call.i = LastOf(root) + 1
                                    /\ p = "got" => call.i = LastOf(root)
  BY <1>4
<1>10. /\ inode' = [inode EXCEPT ![n] = ic] /\ own' = [own EXCEPT ![n][0] = call.addr]
       /\ call' = [call EXCEPT !.at = p]
       /\ UNCHANGED <<vars, rest, mem, linked, tabs, lossy, events, fault>>
  BY <1>2, <1>3, <1>6, <1>9 DEF CreateInode
<1>11. IInv' /\ blk' = blk /\ used' = used /\ ret' = ret
  BY <1>1, <1>10, ListKept DEF Sound, vars
<1>12. inode \in [Inos -> Icommon] /\ own \in Owns /\ tabs \in Tabs /\ linked \subseteq Inos /\ used \subseteq Data
  BY <1>1 DEF Types, BlocksTypeOK, TypeOK, Owns, Tabs
<1>13. /\ inode' \in [Inos -> Icommon] /\ inode'[n] = ic /\ \A g \in Inos : g # n => inode'[g] = inode[g]
  BY <1>8, <1>10, <1>12
<1>14. own[n] = NoBlocks /\ tabs[n] = NoTables
  BY <1>1, <1>2 DEF Sound, Unused
<1>15. /\ own' \in Owns /\ own'[n][0] = call.addr /\ \A g \in Inos : g # n => own'[g] = own[g]
       /\ \A b \in Blocks : b # 0 => own'[n][b] = 0
  <2>1. \A b \in Blocks : own[n][b] = 0
    BY <1>14 DEF NoBlocks
  <2>2. own' \in Owns /\ own'[n][0] = call.addr /\ \A g \in Inos : g # n => own'[g] = own[g]
    BY <1>5, <1>7, <1>10, <1>12 DEF Owns
  <2>3. \A b \in Blocks : b # 0 => own'[n][b] = own[n][b]
    BY <1>7, <1>10, <1>12 DEF Owns
  <2> QED BY <2>1, <2>2, <2>3
<1>16. /\ call' \in CallSet /\ call'.op = "create" /\ call'.at = p /\ call'.f = ROOT_DIR
       /\ call'.i = call.i /\ call'.last = call.last /\ call'.new = n /\ call'.failed = FALSE
       /\ call'.j = 1 /\ call'.addr = call.addr
  <2>1. p \in AllocAt \cup {"got"}
    BY DEF AllocAt
  <2> QED BY <1>1, <1>2, <1>4, <1>5, <1>10, <2>1 DEF CallSet
<1>17. Types'
  <2>1. own' \in [Inos -> [Blocks -> Addrs]] /\ TypeOK'
    BY <1>11, <1>15 DEF Owns, IInv
  <2> QED BY <1>1, <1>10, <1>13, <1>16, <2>1 DEF Types, BlocksTypeOK
<1>18. Pending = {call.addr} \ {FULL} /\ Pending' = {} /\ Growing' /\ ~Wiping'
  BY <1>1, <1>16 DEF Pending, Growing, Wiping
<1>19. Shape'
  <2>1. inode'[ROOT_DIR] = inode[ROOT_DIR] /\ \A g \in linked : inode'[g] = inode[g]
    BY <1>2, <1>12, <1>13, RootIno
  <2>2. \A g \in Inos : mem[g] # CLOSED => inode'[g] = inode[g]
    BY <1>2, <1>13
  <2> QED BY <1>1, <1>4, <1>10, <1>18, <2>1, <2>2 DEF Sound, Shape
<1>20. \A g \in linked : g \in Inos /\ g # n /\ Ic(g)' = Ic(g) /\ own'[g] = own[g]
  <2> SUFFICES ASSUME NEW g \in linked PROVE g \in Inos /\ g # n /\ Ic(g)' = Ic(g) /\ own'[g] = own[g]
    OBVIOUS
  <2>1. g \in Inos /\ g # n
    BY <1>2, <1>12
  <2> QED BY <1>10, <1>13, <1>15, <2>1 DEF Ic
<1>21. \A g \in linked : Hi(g)' = Hi(g) /\ HiT(g)' = HiT(g)
  <2> SUFFICES ASSUME NEW g \in linked PROVE Hi(g)' = Hi(g) /\ HiT(g)' = HiT(g)
    OBVIOUS
  <2>1. Hi(g) = LastOf(Ic(g)) /\ HiT(g) = Hi(g)
    BY <1>1 DEF Hi, HiT, AllocAt
  <2>2. HiT(g)' = Hi(g)'
    BY <1>16 DEF HiT
  <2>3. Ic(g)' = Ic(g)
    BY <1>20
  <2>4. CASE g # ROOT_DIR
    <3>1. Hi(g)' = LastOf(Ic(g))
      BY <1>16, <2>3, <2>4 DEF Hi
    <3> QED BY <2>1, <2>2, <3>1
  <2>5. CASE g = ROOT_DIR
    <3>1. CASE p = "alloc"
      <4>1. Hi(g)' = call.i - 1
        BY <1>16, <1>18, <2>5, <3>1 DEF Hi, AllocAt
      <4> QED BY <1>4, <1>9, <2>1, <2>2, <2>5, <3>1, <4>1
    <3>2. CASE p = "got"
      <4>1. Hi(g)' = call.last
        BY <1>16, <1>18, <2>5, <3>2 DEF Hi, AllocAt
      <4> QED BY <1>4, <1>9, <2>1, <2>2, <2>5, <3>2, <4>1
    <3> QED BY <3>1, <3>2
  <2> QED BY <2>4, <2>5
<1>22. CallOK'
  <2>1. Ic(ROOT_DIR)' = root
    BY <1>4, <1>20
  <2>2. GrowOK'
    <3>1. p = "alloc" => LastOf(root) < call.i /\ 0 < call.i /\ call.i <= call.last
      BY <1>4, <1>9
    <3> QED BY <1>16, <2>1, <3>1 DEF GrowOK, AllocAt
  <2>3. inode'[ROOT_DIR] = root
    BY <1>2, <1>3, <1>13, RootIno
  <2>4. CreateOK'
    BY <1>2, <1>4, <1>5, <1>8, <1>10, <1>13, <1>14, <1>15, <1>16, <2>3 DEF CreateOK, AllocAt
  <2> QED BY <1>16, <2>2, <2>4 DEF CallOK
<1>23. Separate'
  <2>1. Sep(own, tabs, used)
    BY <1>1 DEF Sound, Separate
  <2>2. (call.addr \in used \cap Data /\ ~Held(own, tabs, call.addr)) \/ (call.addr = FULL /\ 0 = 0)
    BY <1>1, <1>5, <1>18 DEF Sound, Separate
  <2>3. Sep([own EXCEPT ![n][0] = call.addr], tabs, used)
    BY <1>7, <1>12, <2>1, <2>2, SepOwn
  <2> QED BY <1>10, <1>11, <1>18, <2>3 DEF Separate
<1>24. Maps'
  <2> SUFFICES ASSUME NEW g \in linked PROVE FileOK(blk', rest', Ic(g)', own'[g], tabs'[g], Hi(g)')
    BY <1>10 DEF Maps
  <2>1. FileOK(blk, rest, Ic(g), own[g], tabs[g], Hi(g))
    BY <1>1 DEF Sound, Maps
  <2> QED BY <1>10, <1>11, <1>20, <1>21, <2>1
<1>25. Removal' /\ Unused'
  <2>1. Removal'
    BY <1>16 DEF Removal
  <2>2. Unused'
    BY <1>1, <1>2, <1>10, <1>15, <1>16 DEF Sound, Unused
  <2> QED BY <2>1, <2>2
<1>26. Accounted'
  <2> SUFFICES ASSUME lossy = FALSE
               PROVE  /\ \A a \in used : Held(own', tabs, a)
                      /\ \A g \in linked : Tidy(Ic(g)', own'[g], tabs[g], Hi(g)', HiT(g)')
    BY <1>10, <1>11, <1>16 DEF Accounted
  <2>1. ASSUME NEW a \in used PROVE Held(own', tabs, a)
    <3>1. CASE a = call.addr
      BY <1>7, <1>15, <3>1 DEF Held
    <3>2. CASE a # call.addr
      <4>1. Held(own, tabs, a)
        BY <1>1, <1>18, <3>2 DEF Sound, Accounted
      <4>2. CASE \E g \in Inos : \E l \in 1..NIADDR : a \in tabs[g][l]
        BY <4>2 DEF Held
      <4>3. CASE \E g \in Inos : \E b \in Blocks : own[g][b] = a
        <5>1. PICK g \in Inos, b \in Blocks : own[g][b] = a
          BY <4>3
        <5>2. g # n
          <6>1. a # 0
            BY <1>12, Consts
          <6>2. \A c \in Blocks : own[n][c] = 0
            BY <1>14 DEF NoBlocks
          <6> QED BY <5>1, <6>1, <6>2
        <5>3. own'[g][b] = a
          BY <1>15, <5>1, <5>2
        <5> QED BY <5>3 DEF Held
      <4> QED BY <4>1, <4>2, <4>3 DEF Held
    <3> QED BY <3>1, <3>2
  <2>2. ASSUME NEW g \in linked PROVE Tidy(Ic(g)', own'[g], tabs[g], Hi(g)', HiT(g)')
    <3>1. Tidy(Ic(g), own[g], tabs[g], Hi(g), HiT(g))
      BY <1>1 DEF Sound, Accounted
    <3> QED BY <1>20, <1>21, <3>1
  <2> QED BY <2>1, <2>2
<1>27. Sound'
  BY <1>11, <1>19, <1>22, <1>23, <1>24, <1>25, <1>26 DEF Sound
<1> QED BY <1>17, <1>27 DEF Ind

\* The name goes into the last block of the directory; when no block could be had,
\* into one that a larger directory left behind.
LEMMA EnterNameStep ==
  ASSUME Ind, EnterName
  PROVE  Ind'
<1>1. /\ Types /\ Sound /\ fault = FALSE /\ call \in CallSet /\ call.op = "create" /\ call.at = "got"
  <2>1. At({"create"}, "got") /\ "idle" \notin {"create"}
    BY DEF EnterName
  <2>2. Types /\ Sound /\ fault = FALSE /\ call \in CallSet /\ call.op \in {"create"} /\ call.at = "got"
    BY <2>1, AtFacts
  <2> QED BY <2>2
<1>2. /\ Growing /\ ~Wiping /\ CreateOK /\ call.f = ROOT_DIR /\ ROOT_DIR \in linked /\ call.i \in Nat /\ call.i \in Blocks
      /\ call.last = call.i /\ Ic(ROOT_DIR) = inode[ROOT_DIR] /\ LastOf(inode[ROOT_DIR]) \in Nat
      /\ call.i = LastOf(inode[ROOT_DIR]) + 1 \/ call.i = LastOf(inode[ROOT_DIR])
  BY <1>1, CreateFacts
<1>3. /\ PutBlock(ROOT_DIR, call.i) /\ call' = [call EXCEPT !.at = "size"]
      /\ UNCHANGED <<listVars, inode, mem, linked, own, tabs, lossy, events>>
  BY DEF EnterName
<1>4. /\ TypeOK' /\ rest' \in [Data -> [Upper -> Arrays]] /\ fault' \in BOOLEAN
      /\ fault' = FALSE =>
           /\ IInv' /\ Addr(Ic(ROOT_DIR), call.i) = own[ROOT_DIR][call.i] /\ own[ROOT_DIR][call.i] \in Data
           /\ \A g \in Inos : \A a \in tabs[g][1] : blk'[a] = blk[a] /\ rest'[a] = rest[a]
  BY <1>1, <1>2, <1>3, RootIno, PutBlockStep
<1>5. /\ call' \in CallSet /\ call'.op = "create" /\ call'.at = "size" /\ call'.f = call.f
      /\ call'.i = call.i /\ call'.last = call.last /\ call'.new = call.new /\ call'.failed = call.failed
  BY <1>1, <1>3 DEF CallSet
<1>6. rest' \in [Data -> [Upper -> Addrs]]
  BY <1>4 DEF Arrays, Addrs
<1>7. Types'
  BY <1>1, <1>3, <1>4, <1>5, <1>6 DEF Types, BlocksTypeOK
<1>8. ASSUME fault' = FALSE PROVE Sound'
  <2>1. ~Wiping' /\ Growing' /\ Pending = {} /\ Pending' = {} /\ used' = used
    BY <1>1, <1>3, <1>5 DEF Wiping, Growing, Pending, listVars
  <2>2. Shape'
    BY <1>1, <1>2, <1>3, <2>1, StillShape DEF Sound
  <2>3. CallOK'
    <3>1. GrowOK'
      BY <1>5 DEF GrowOK, AllocAt
    <3>2. CreateOK'
      BY <1>1, <1>2, <1>3, <1>5 DEF CreateOK
    <3> QED BY <1>5, <3>1, <3>2 DEF CallOK
  <2>4. \A g \in linked : g \in Inos /\ Ic(g)' = Ic(g)
    BY <1>1, <1>3 DEF Ic, Types, BlocksTypeOK
  <2>5. Separate'
    BY <1>1, <1>3, <1>7, <2>1, PendingSame, StillSep
  <2>6. ASSUME NEW g \in linked, g # ROOT_DIR PROVE Hi(g)' = Hi(g) /\ HiT(g)' = HiT(g) /\ HiT(g) = Hi(g)
    BY <1>1, <1>2, <1>5, <2>4, <2>6 DEF Hi, HiT
  <2>7. /\ Hi(ROOT_DIR)' = call.i /\ HiT(ROOT_DIR)' = call.i
        /\ Hi(ROOT_DIR) = call.i \/ Hi(ROOT_DIR) = LastOf(inode[ROOT_DIR])
        /\ call.failed = FALSE => Hi(ROOT_DIR) = call.i /\ HiT(ROOT_DIR) = call.i
    BY <1>1, <1>2, <1>5, <2>1 DEF Hi, HiT, AllocAt
  <2>8. Maps'
    <3> SUFFICES ASSUME NEW g \in linked PROVE FileOK(blk', rest', Ic(g)', own[g], tabs[g], Hi(g)')
      BY <1>3 DEF Maps
    <3>1. FileOK(blk, rest, Ic(g), own[g], tabs[g], Hi(g))
      BY <1>1 DEF Sound, Maps
    <3>2. \A a \in tabs[g][1] : blk'[a] = blk[a] /\ rest'[a] = rest[a]
      BY <1>4, <1>8, <2>4
    <3>3. CASE g # ROOT_DIR
      <4>1. FileOK(blk', rest', Ic(g), own[g], tabs[g], Hi(g))
        BY <3>1, <3>2, FileSame
      <4> QED BY <2>4, <2>6, <3>3, <4>1
    <3>4. CASE g = ROOT_DIR
      <4>1. ASSUME NEW b \in Blocks, b <= call.i, b < Reach
            PROVE  Way(blk, rest, Ic(g), b) = own[g][b] /\ own[g][b] # 0
        <5>1. CASE b <= Hi(g)
          BY <3>1, <4>1, <5>1 DEF FileOK
        <5>2. CASE ~(b <= Hi(g))
          <6>1. b \in Nat
            BY BlockNumbers
          <6>2. b = call.i
            BY <1>2, <2>7, <3>4, <4>1, <5>2, <6>1
          <6>3. Addr(Ic(g), b) = Way(blk, rest, Ic(g), b)
            BY <4>1, WayAddr
          <6> QED BY <1>4, <1>8, <3>4, <6>2, <6>3, Consts
        <5> QED BY <5>1, <5>2
      <4>2. FileOK(blk, rest, Ic(g), own[g], tabs[g], call.i)
        BY <3>1, <4>1 DEF FileOK
      <4>3. FileOK(blk', rest', Ic(g), own[g], tabs[g], call.i)
        BY <3>2, <4>2, FileSame
      <4> QED BY <2>4, <2>7, <3>4, <4>3
    <3> QED BY <3>3, <3>4
  <2>9. Removal' /\ Unused'
    BY <1>1, <1>3, <1>5 DEF Removal, Sound, Unused
  <2>10. Accounted'
    <3> SUFFICES ASSUME lossy = FALSE PROVE Accounted'
      BY <1>3 DEF Accounted
    <3>1. call.failed = FALSE
      BY <1>1, <1>2 DEF Sound, Accounted
    <3>2. ASSUME NEW g \in linked
          PROVE  Hi(g)' \in Int /\ Hi(g) <= Hi(g)' /\ HiT(g)' \in Int /\ HiT(g) <= HiT(g)'
      <4>1. Hi(g) \in Nat /\ HiT(g) \in Nat
        BY <1>1, HiFacts, BlockNumbers DEF Sound
      <4> QED BY <1>2, <2>6, <2>7, <3>1, <4>1
    <3> QED BY <1>1, <1>3, <1>5, <2>1, <2>4, <3>1, <3>2, StillAccounted
  <2> QED BY <1>4, <1>8, <2>2, <2>3, <2>5, <2>8, <2>9, <2>10 DEF Sound
<1> QED BY <1>7, <1>8 DEF Ind

\* The directory holds one entry for each of its files.
LEMMA DirFacts ==
  ASSUME Types, Shape, ~Wiping
  PROVE  /\ ROOT_DIR \in linked /\ inode[ROOT_DIR].mode = "IFDIR" /\ inode[ROOT_DIR] \in Icommon
         /\ inode[ROOT_DIR].size \in Nat \ {0} /\ linked \subseteq Inos
         /\ \A n \in Inos : n \notin linked =>
              /\ Cardinality(linked \cup {n}) = inode[ROOT_DIR].size + 1
              /\ inode[ROOT_DIR].size + 1 \in 0..MAX_SIZE
         /\ \A f \in linked \ {ROOT_DIR} :
              /\ Cardinality(linked \ {f}) = inode[ROOT_DIR].size - 1
              /\ inode[ROOT_DIR].size - 1 \in 1..MAX_SIZE
<1>1. /\ ROOT_DIR \in linked /\ inode[ROOT_DIR].mode = "IFDIR" /\ Cardinality(linked) = inode[ROOT_DIR].size
      /\ linked \subseteq Inos /\ inode[ROOT_DIR] \in Icommon
  BY RootIno DEF Shape, Types, BlocksTypeOK
<1>2. /\ IsFiniteSet(Inos) /\ Cardinality(Inos) = INODES /\ INODES \in Nat /\ MAX_SIZE \in Nat /\ INODES <= MAX_SIZE
  BY Consts, FS_Interval DEF Inos
<1>3. \A S \in SUBSET Inos : IsFiniteSet(S) /\ Cardinality(S) \in Nat /\ Cardinality(S) <= INODES
  BY <1>2, FS_Subset, FS_CardinalityType
<1>4. inode[ROOT_DIR].size \in Nat \ {0}
  <2>1. Cardinality(linked) # 0
    BY <1>1, <1>3, FS_EmptySet
  <2> QED BY <1>1, <1>3, <2>1
<1>5. ASSUME NEW n \in Inos, n \notin linked
      PROVE  /\ Cardinality(linked \cup {n}) = inode[ROOT_DIR].size + 1
             /\ inode[ROOT_DIR].size + 1 \in 0..MAX_SIZE
  <2>1. Cardinality(linked \cup {n}) = inode[ROOT_DIR].size + 1
    BY <1>1, <1>3, <1>5, FS_AddElement
  <2>2. Cardinality(linked \cup {n}) \in Nat /\ Cardinality(linked \cup {n}) <= INODES
    <3>1. linked \cup {n} \in SUBSET Inos
      BY <1>1
    <3> QED BY <1>3, <3>1
  <2> QED BY <1>2, <2>1, <2>2
<1>6. ASSUME NEW f \in linked \ {ROOT_DIR}
      PROVE  /\ Cardinality(linked \ {f}) = inode[ROOT_DIR].size - 1
             /\ inode[ROOT_DIR].size - 1 \in 1..MAX_SIZE
  <2>1. Cardinality(linked \ {f}) = inode[ROOT_DIR].size - 1
    BY <1>1, <1>3, FS_RemoveElement
  <2>2. Cardinality(linked \ {f}) \in Nat /\ Cardinality(linked \ {f}) <= INODES /\ IsFiniteSet(linked \ {f})
    <3>1. linked \ {f} \in SUBSET Inos
      BY <1>1
    <3> QED BY <1>3, <3>1
  <2>3. Cardinality(linked \ {f}) # 0
    BY <1>1, <2>2, FS_EmptySet
  <2> QED BY <1>2, <2>1, <2>2, <2>3
<1> QED BY <1>1, <1>4, <1>5, <1>6

\* A change of the size of the directory
LEMMA DirSize ==
  ASSUME Types, NEW n \in 0..MAX_SIZE, inode' = [inode EXCEPT ![ROOT_DIR].size = n], mem' = mem,
         mem[ROOT_DIR] = CLOSED, inode[ROOT_DIR].mode = "IFDIR"
  PROVE  /\ inode' \in [Inos -> Icommon] /\ inode'[ROOT_DIR].size = n /\ inode'[ROOT_DIR].mode = "IFDIR"
         /\ inode'[ROOT_DIR].db = inode[ROOT_DIR].db /\ inode'[ROOT_DIR].ib = inode[ROOT_DIR].ib
         /\ Ic(ROOT_DIR)' = inode'[ROOT_DIR] /\ Ic(ROOT_DIR) = inode[ROOT_DIR]
         /\ LastOf(inode'[ROOT_DIR]) = (n - 1) \div BLOCK_SIZE
         /\ \A g \in Inos : g # ROOT_DIR => inode'[g] = inode[g] /\ Ic(g)' = Ic(g)
<1>1. inode \in [Inos -> Icommon] /\ inode[ROOT_DIR] \in Icommon
  BY RootIno DEF Types, BlocksTypeOK
<1>2. PICK ic : ic = [inode[ROOT_DIR] EXCEPT !.size = n]
  OBVIOUS
<1>3. /\ ic \in Icommon /\ ic.size = n /\ ic.mode = "IFDIR" /\ ic.db = inode[ROOT_DIR].db
      /\ ic.ib = inode[ROOT_DIR].ib
  BY <1>1, <1>2 DEF Icommon
<1>4. inode' = [inode EXCEPT ![ROOT_DIR] = ic]
  BY <1>2
<1>5. inode' \in [Inos -> Icommon] /\ inode'[ROOT_DIR] = ic /\ \A g \in Inos : g # ROOT_DIR => inode'[g] = inode[g]
  BY <1>1, <1>3, <1>4, RootIno
<1>6. LastOf(ic) = (n - 1) \div BLOCK_SIZE
  BY <1>3 DEF LastOf
<1> QED BY <1>3, <1>5, <1>6 DEF Ic

\* The directory grows by the new file.
LEMMA EnterSizeStep ==
  ASSUME Ind, EnterSize
  PROVE  Ind'
<1>1. /\ Types /\ Sound /\ fault = FALSE /\ call \in CallSet /\ call.op = "create" /\ call.at = "size"
  <2>1. At({"create"}, "size") /\ "idle" \notin {"create"}
    BY DEF EnterSize
  <2>2. Types /\ Sound /\ fault = FALSE /\ call \in CallSet /\ call.op \in {"create"} /\ call.at = "size"
    BY <2>1, AtFacts
  <2> QED BY <2>2
<1>2. PICK n \in Inos : n = call.new /\ n # ROOT_DIR /\ n \notin linked /\ mem[n] = CLOSED
  BY <1>1, CreateFacts
<1>3. /\ Growing /\ ~Wiping /\ CreateOK /\ call.f = ROOT_DIR /\ call.last = call.i
      /\ call.i = inode[ROOT_DIR].size \div BLOCK_SIZE /\ call.i \in Nat
  BY <1>1, CreateFacts
<1>4. /\ inode[n].mode = "IFREG" /\ inode[n].size = 0 /\ inode[n].db[0] = own[n][0] /\ own[n][0] # 0
      /\ (\A b \in Blocks : b # 0 => own[n][b] = 0) /\ tabs[n] = NoTables
  BY <1>1, <1>2, <1>3 DEF CreateOK
<1>5. PICK s \in Nat \ {0} : s = inode[ROOT_DIR].size /\ s + 1 \in 0..MAX_SIZE /\ Cardinality(linked \cup {n}) = s + 1
  BY <1>1, <1>2, <1>3, DirFacts DEF Sound
<1>6. /\ inode' = [inode EXCEPT ![ROOT_DIR].size = s + 1] /\ linked' = linked \cup {n} /\ call' = Idle
      /\ UNCHANGED <<vars, rest, mem, own, tabs, lossy, events, fault>>
  BY <1>2, <1>5 DEF EnterSize
<1>7. mem[ROOT_DIR] = CLOSED /\ inode[ROOT_DIR].mode = "IFDIR" /\ ROOT_DIR \in linked /\ linked \subseteq Inos
  BY <1>1, <1>3, DirFacts DEF Sound, Shape
<1>8. /\ inode' \in [Inos -> Icommon] /\ inode'[ROOT_DIR].size = s + 1 /\ inode'[ROOT_DIR].mode = "IFDIR"
      /\ inode'[ROOT_DIR].db = inode[ROOT_DIR].db /\ inode'[ROOT_DIR].ib = inode[ROOT_DIR].ib
      /\ Ic(ROOT_DIR)' = inode'[ROOT_DIR] /\ Ic(ROOT_DIR) = inode[ROOT_DIR]
      /\ LastOf(inode'[ROOT_DIR]) = (s + 1 - 1) \div BLOCK_SIZE
      /\ \A g \in Inos : g # ROOT_DIR => inode'[g] = inode[g] /\ Ic(g)' = Ic(g)
  <2>1. PICK m \in 0..MAX_SIZE : m = s + 1
    BY <1>5
  <2>2. inode' = [inode EXCEPT ![ROOT_DIR].size = m] /\ mem' = mem
    BY <1>6, <2>1
  <2>3. /\ inode' \in [Inos -> Icommon] /\ inode'[ROOT_DIR].size = m /\ inode'[ROOT_DIR].mode = "IFDIR"
        /\ inode'[ROOT_DIR].db = inode[ROOT_DIR].db /\ inode'[ROOT_DIR].ib = inode[ROOT_DIR].ib
        /\ Ic(ROOT_DIR)' = inode'[ROOT_DIR] /\ Ic(ROOT_DIR) = inode[ROOT_DIR]
        /\ LastOf(inode'[ROOT_DIR]) = (m - 1) \div BLOCK_SIZE
        /\ \A g \in Inos : g # ROOT_DIR => inode'[g] = inode[g] /\ Ic(g)' = Ic(g)
    BY <1>1, <1>7, <2>2, DirSize
  <2> QED BY <2>1, <2>3
<1>9. IInv' /\ blk' = blk /\ used' = used
  BY <1>1, <1>6, ListKept DEF Sound, vars
<1>10. Types'
  <2>1. TypeOK' /\ linked' \subseteq Inos
    BY <1>6, <1>7, <1>9 DEF IInv
  <2> QED BY <1>1, <1>6, <1>8, <2>1 DEF Types, BlocksTypeOK
<1>11. ~Growing' /\ ~Wiping' /\ Pending = {} /\ Pending' = {} /\ call'.op = "idle"
  BY <1>1, <1>6 DEF Growing, Wiping, Pending, Idle
<1>12. Shape'
  <2>1. \A g \in linked' \ {ROOT_DIR} : inode'[g].mode = "IFREG"
    BY <1>1, <1>4, <1>6, <1>7, <1>8 DEF Sound, Shape
  <2>2. ASSUME NEW g \in Inos, mem[g] # CLOSED
        PROVE  /\ g \in linked' /\ mem[g].mode = inode'[g].mode /\ inode'[g].size <= mem[g].size
               /\ mem[g].db = inode'[g].db /\ mem[g].ib = inode'[g].ib
    BY <1>1, <1>6, <1>7, <1>8, <2>2 DEF Sound, Shape
  <2> QED BY <1>5, <1>6, <1>7, <1>8, <1>11, <2>1, <2>2 DEF Shape
<1>13. CallOK' /\ Removal'
  BY <1>11 DEF CallOK, Removal
<1>14. Separate'
  <2>1. Sep(own, tabs, used)
    BY <1>1 DEF Sound, Separate
  <2> QED BY <1>6, <1>9, <1>11, <2>1 DEF Separate
<1>15. Unused'
  BY <1>1, <1>2, <1>6 DEF Sound, Unused
<1>16. ASSUME NEW g \in linked
       PROVE  /\ g \in Inos /\ g # n /\ Hi(g)' = Hi(g) /\ HiT(g)' = HiT(g)
              /\ Ic(g)'.db = Ic(g).db /\ Ic(g)'.ib = Ic(g).ib
  <2>1. g \in Inos /\ g # n
    BY <1>2, <1>7
  <2>2. Hi(g)' = LastOf(Ic(g)') /\ HiT(g)' = Hi(g)' /\ HiT(g) = Hi(g)
    BY <1>1, <1>11 DEF Hi, HiT
  <2>3. CASE g = ROOT_DIR
    <3>1. Hi(g) = call.last
      BY <1>1, <1>3, <2>3 DEF Hi, AllocAt
    <3>2. s + 1 - 1 = s
      OBVIOUS
    <3>3. Hi(g)' = s \div BLOCK_SIZE
      BY <1>8, <2>2, <2>3, <3>2
    <3> QED BY <1>3, <1>5, <1>8, <2>1, <2>2, <2>3, <3>1, <3>3
  <2>4. CASE g # ROOT_DIR
    <3>1. Hi(g) = LastOf(Ic(g))
      BY <1>3, <2>4 DEF Hi
    <3> QED BY <1>8, <2>1, <2>2, <2>4, <3>1
  <2> QED BY <2>3, <2>4
<1>17. Ic(n)' = inode[n] /\ Hi(n)' = 0 /\ HiT(n)' = 0
  <2>1. Ic(n)' = inode[n]
    BY <1>2, <1>6, <1>8 DEF Ic
  <2>2. 0 \div BLOCK_SIZE = 0
    BY DivBounds, Consts
  <2>3. LastOf(inode[n]) = 0
    BY <1>4, <2>2 DEF LastOf
  <2> QED BY <1>11, <2>1, <2>3 DEF Hi, HiT
<1>18. Maps'
  <2> SUFFICES ASSUME NEW g \in linked' PROVE FileOK(blk', rest', Ic(g)', own[g], tabs[g], Hi(g)')
    BY <1>6 DEF Maps
  <2>1. CASE g = n
    <3>1. ASSUME NEW b \in Blocks, b <= 0, b < Reach PROVE Way(blk', rest', inode[n], b) = own[n][b] /\ own[n][b] # 0
      <4>1. b = 0 /\ 0 < NDADDR
        BY <3>1, BlockNumbers, Consts
      <4> QED BY <1>4, <4>1 DEF Way
    <3>2. ASSUME NEW b \in Blocks, b >= NDADDR PROVE own[n][b] = 0
      <4>1. b # 0
        BY <3>2, Consts
      <4> QED BY <1>4, <4>1
    <3> QED BY <1>17, <2>1, <3>1, <3>2 DEF FileOK, Rooted
  <2>2. CASE g # n
    <3>1. g \in linked
      BY <1>6, <2>2
    <3>2. FileOK(blk, rest, Ic(g), own[g], tabs[g], Hi(g)) /\ Hi(g) \in Nat
      BY <1>1, <3>1, HiFacts, BlockNumbers DEF Sound, Maps
    <3>3. FileOK(blk', rest', Ic(g)', own[g], tabs[g], Hi(g))
      <4>1. Hi(g) \in Int /\ Hi(g) <= Hi(g) /\ Ic(g)'.db = Ic(g).db /\ Ic(g)'.ib = Ic(g).ib
        BY <1>16, <3>1, <3>2
      <4>2. \A a \in tabs[g][1] : blk'[a] = blk[a] /\ rest'[a] = rest[a]
        BY <1>6, <1>9
      <4> QED BY <3>2, <4>1, <4>2, FileFrame
    <3> QED BY <1>16, <3>1, <3>3
  <2> QED BY <2>1, <2>2
<1>19. Accounted'
  <2> SUFFICES ASSUME lossy = FALSE
               PROVE  /\ \A a \in used : Held(own, tabs, a)
                      /\ \A g \in linked' : Tidy(Ic(g)', own[g], tabs[g], Hi(g)', HiT(g)')
    BY <1>6, <1>9, <1>11 DEF Accounted
  <2>1. \A a \in used : Held(own, tabs, a)
    BY <1>1, <1>11 DEF Sound, Accounted
  <2>2. ASSUME NEW g \in linked' PROVE Tidy(Ic(g)', own[g], tabs[g], Hi(g)', HiT(g)')
    <3>1. CASE g = n
      <4>1. \A b \in Blocks : own[n][b] # 0 => b <= 0
        BY <1>4
      <4>2. \A l \in 1..NIADDR : tabs[n][l] = {}
        BY <1>4 DEF NoTables
      <4>3. 1 \in 1..NIADDR
        BY DEF NIADDR
      <4> QED BY <1>17, <3>1, <4>1, <4>2, <4>3 DEF Tidy
    <3>2. CASE g # n
      <4>1. g \in linked
        BY <1>6, <3>2
      <4>2. Tidy(Ic(g), own[g], tabs[g], Hi(g), HiT(g))
        BY <1>1, <4>1 DEF Sound, Accounted
      <4> QED BY <1>16, <4>1, <4>2 DEF Tidy
    <3> QED BY <3>1, <3>2
  <2> QED BY <2>1, <2>2
<1>20. Sound'
  BY <1>9, <1>12, <1>13, <1>14, <1>15, <1>18, <1>19 DEF Sound
<1> QED BY <1>10, <1>20 DEF Ind

-----------------------------------------------------------------------------
(* unlink. *)

\* The entry is taken out of the directory.
LEMMA UnlinkStep ==
  ASSUME Ind, NEW f \in Inos, Unlink(f)
  PROVE  Ind'
<1>1. Types /\ Sound /\ fault = FALSE /\ call = Idle /\ call.op = "idle" /\ ~Wiping /\ ~Growing /\ Pending = {}
  BY IdleFacts DEF Unlink
<1>2. f \in linked \ {ROOT_DIR} /\ mem[f] = CLOSED /\ inode[f].mode = "IFREG" /\ inode[f] \in Icommon
  BY <1>1 DEF Unlink, Sound, Shape, Types, BlocksTypeOK
<1>3. PICK n \in Nat \ {0} : /\ n = inode[ROOT_DIR].size - 1 /\ inode[ROOT_DIR].size - 1 = n /\ n \in 0..MAX_SIZE
                             /\ Cardinality(linked \ {f}) = n
  <2>1. Cardinality(linked \ {f}) = inode[ROOT_DIR].size - 1 /\ inode[ROOT_DIR].size - 1 \in 1..MAX_SIZE
    BY <1>1, <1>2, DirFacts DEF Sound
  <2>2. inode[ROOT_DIR].size - 1 \in Nat \ {0} /\ inode[ROOT_DIR].size - 1 \in 0..MAX_SIZE
    BY <2>1, Consts
  <2> QED BY <2>1, <2>2
<1>4. /\ mem[ROOT_DIR] = CLOSED /\ inode[ROOT_DIR].mode = "IFDIR" /\ ROOT_DIR \in linked /\ linked \subseteq Inos
      /\ LastOf(inode[ROOT_DIR]) = (inode[ROOT_DIR].size - 1) \div BLOCK_SIZE /\ BLOCK_SIZE \in Nat \ {0}
  BY <1>1, DirFacts, Consts DEF Sound, Shape, LastOf
<1>5. PICK s \in Nat : s = inode[f].size /\ s \in 0..MAX_SIZE
  BY <1>2, Consts DEF Icommon
<1>6. PICK p \in {"leaf", "free"} : p = (IF inode[f].size > 0 THEN "leaf" ELSE "free")
  OBVIOUS
<1>7. (p = "leaf" /\ 0 < s) \/ (p = "free" /\ s = 0)
  BY <1>5, <1>6
<1>8. /\ inode' = [inode EXCEPT ![ROOT_DIR].size = n] /\ linked' = linked \ {f}
      /\ lossy' = (lossy \/ n % BLOCK_SIZE = 0)
      /\ call' = Calling("remove", p, f, 0, 0) /\ events < EVENTS /\ events' = events + 1
      /\ UNCHANGED <<vars, rest, mem, own, tabs, fault>>
  BY <1>3, <1>6 DEF Unlink
<1>9. /\ inode' \in [Inos -> Icommon] /\ inode'[ROOT_DIR].size = n /\ inode'[ROOT_DIR].mode = "IFDIR"
      /\ inode'[ROOT_DIR].db = inode[ROOT_DIR].db /\ inode'[ROOT_DIR].ib = inode[ROOT_DIR].ib
      /\ Ic(ROOT_DIR)' = inode'[ROOT_DIR] /\ Ic(ROOT_DIR) = inode[ROOT_DIR]
      /\ LastOf(inode'[ROOT_DIR]) = (n - 1) \div BLOCK_SIZE
      /\ \A g \in Inos : g # ROOT_DIR => inode'[g] = inode[g] /\ Ic(g)' = Ic(g)
  BY <1>1, <1>3, <1>4, <1>8, DirSize
<1>10. /\ call' \in CallSet /\ call'.op = "remove" /\ call'.at = p /\ call'.f = f /\ call'.i = 0
       /\ call'.spilt = FALSE
  <2>1. call' = [op |-> "remove", at |-> p, f |-> f, i |-> 0, last |-> 0, addr |-> 0, t |-> 0, j |-> 1,
                 head |-> 0, end |-> 0, new |-> f, failed |-> FALSE, spilt |-> FALSE]
    BY <1>8 DEF Calling
  <2>2. 0 \in Addrs /\ 1 \in 1..NIADDR /\ 0 \in Blocks
    BY BlockNumbers DEF Addrs, NIADDR
  <2> QED BY <2>1, <2>2 DEF CallSet
<1>11. IInv' /\ blk' = blk /\ used' = used
  BY <1>1, <1>8, ListKept DEF Sound, vars
<1>12. lossy \in BOOLEAN /\ lossy' \in BOOLEAN /\ (lossy' = FALSE => lossy = FALSE /\ n % BLOCK_SIZE # 0)
  BY <1>1, <1>8 DEF Types, BlocksTypeOK
<1>13. Types'
  <2>1. TypeOK' /\ linked' \subseteq Inos
    BY <1>4, <1>8, <1>11 DEF IInv
  <2>2. events \in 0..EVENTS /\ EVENTS \in Nat
    BY <1>1, DataBlocksAssumption DEF Types, BlocksTypeOK
  <2>3. events' \in 0..EVENTS
    BY <1>8, <2>2
  <2> QED BY <1>1, <1>8, <1>9, <1>10, <1>12, <2>1, <2>3 DEF Types, BlocksTypeOK
<1>14. ~Growing' /\ ~Wiping' /\ Pending' = {}
  BY <1>10 DEF Growing, Wiping, Pending
<1>15. inode'[f] = inode[f]
  BY <1>2, <1>9
<1>16. Shape'
  <2>1. \A g \in linked' \ {ROOT_DIR} : inode'[g].mode = "IFREG"
    BY <1>1, <1>4, <1>8, <1>9 DEF Sound, Shape
  <2>2. ASSUME NEW g \in Inos, mem[g] # CLOSED
        PROVE  /\ g \in linked' /\ mem[g].mode = inode'[g].mode /\ inode'[g].size <= mem[g].size
               /\ mem[g].db = inode'[g].db /\ mem[g].ib = inode'[g].ib
    BY <1>1, <1>2, <1>4, <1>8, <1>9, <2>2 DEF Sound, Shape
  <2> QED BY <1>2, <1>3, <1>4, <1>8, <1>9, <1>14, <2>1, <2>2 DEF Shape
<1>17. CallOK'
  <2>1. 0 * BLOCK_SIZE = 0 /\ (0 + 1) * BLOCK_SIZE = BLOCK_SIZE
    BY <1>4
  <2>2. p = "leaf" => 0 * BLOCK_SIZE < inode'[f].size
    BY <1>5, <1>7, <1>15, <2>1
  <2>3. p = "free" => inode'[f].size <= (0 + 1) * BLOCK_SIZE
    BY <1>4, <1>5, <1>7, <1>15, <2>1
  <2>4. RemoveOK'
    BY <1>2, <1>7, <1>8, <1>10, <1>15, <2>2, <2>3 DEF RemoveOK
  <2> QED BY <1>10, <1>14, <2>4 DEF CallOK
<1>18. Separate'
  <2>1. Sep(own, tabs, used)
    BY <1>1 DEF Sound, Separate
  <2> QED BY <1>8, <1>11, <1>14, <2>1 DEF Separate
<1>19. Unused'
  BY <1>1, <1>8, <1>10 DEF Sound, Unused
<1>20. PICK k \in Nat : k = LastOf(inode[f]) /\ k = s \div BLOCK_SIZE
  BY <1>2, <1>4, <1>5, DivBounds DEF LastOf
<1>21. /\ FileOK(blk, rest, inode[f], own[f], tabs[f], k)
       /\ lossy = FALSE => Tidy(inode[f], own[f], tabs[f], k, k)
  <2>1. Hi(f) = k /\ HiT(f) = k /\ Ic(f) = inode[f]
    BY <1>1, <1>2, <1>20 DEF Hi, HiT, Ic
  <2> QED BY <1>1, <1>2, <2>1 DEF Sound, Maps, Accounted
<1>22. Removal'
  <2>1. ASSUME NEW b \in Blocks, b * BLOCK_SIZE < s, b < Reach
        PROVE  Way(blk, rest, inode[f], b) = own[f][b] /\ own[f][b] # 0
    <3>1. b \in Nat /\ b * BLOCK_SIZE <= s
      <4>1. b \in Nat
        BY BlockNumbers
      <4>2. b * BLOCK_SIZE \in Nat
        BY <1>4, <4>1
      <4> QED BY <2>1, <4>1, <4>2
    <3>2. b <= k
      BY <1>4, <1>20, <3>1, DivLeast
    <3> QED BY <1>21, <2>1, <3>2 DEF FileOK
  <2>2. Rooted(inode[f], own[f], tabs[f])
    BY <1>21 DEF FileOK
  <2>3. ~(NDADDR < 0)
    BY Consts
  <2> QED BY <1>5, <1>7, <1>8, <1>10, <1>11, <1>15, <2>1, <2>2, <2>3 DEF Removal
<1>23. ASSUME NEW g \in linked
       PROVE  /\ g \in Inos /\ Ic(g)'.db = Ic(g).db /\ Ic(g)'.ib = Ic(g).ib
              /\ Hi(g) \in Nat /\ Hi(g)' \in Nat /\ Hi(g)' <= Hi(g) /\ HiT(g) = Hi(g) /\ HiT(g)' = Hi(g)'
              /\ lossy' = FALSE => Hi(g)' = Hi(g)
  <2>1. g \in Inos /\ Hi(g) \in Nat
    BY <1>1, <1>4, HiFacts, BlockNumbers DEF Sound
  <2>2. Hi(g)' = LastOf(Ic(g)') /\ HiT(g)' = Hi(g)' /\ HiT(g) = Hi(g) /\ Hi(g) = LastOf(Ic(g))
    BY <1>1, <1>14 DEF Hi, HiT
  <2>3. CASE g # ROOT_DIR
    BY <1>9, <2>1, <2>2, <2>3
  <2>4. CASE g = ROOT_DIR
    <3>1. Hi(g)' = (n - 1) \div BLOCK_SIZE /\ Hi(g) = n \div BLOCK_SIZE
      BY <1>3, <1>4, <1>9, <2>2, <2>4
    <3>2. (n - 1) \div BLOCK_SIZE \in Nat /\ (n % BLOCK_SIZE # 0 => n \div BLOCK_SIZE = (n - 1) \div BLOCK_SIZE)
      BY <1>4, DivPred
    <3>3. (n - 1) \div BLOCK_SIZE <= n \div BLOCK_SIZE
      <4>1. n - 1 \in Nat /\ n - 1 <= n
        OBVIOUS
      <4> QED BY <1>4, <4>1, DivMono
    <3> QED BY <1>9, <1>12, <2>1, <2>2, <2>4, <3>1, <3>2, <3>3
  <2> QED BY <2>3, <2>4
<1>24. Maps'
  <2> SUFFICES ASSUME NEW g \in linked PROVE FileOK(blk', rest', Ic(g)', own[g], tabs[g], Hi(g)')
    BY <1>8 DEF Maps
  <2>1. FileOK(blk, rest, Ic(g), own[g], tabs[g], Hi(g))
    BY <1>1 DEF Sound, Maps
  <2>2. /\ Hi(g) \in Int /\ Hi(g)' \in Int /\ Hi(g)' <= Hi(g) /\ Ic(g)'.db = Ic(g).db /\ Ic(g)'.ib = Ic(g).ib
    <3>1. /\ Hi(g) \in Nat /\ Hi(g)' \in Nat /\ Hi(g)' <= Hi(g)
          /\ Ic(g)'.db = Ic(g).db /\ Ic(g)'.ib = Ic(g).ib
      BY <1>23, Zenon
    <3> QED BY <3>1
  <2>3. \A a \in tabs[g][1] : blk'[a] = blk[a] /\ rest'[a] = rest[a]
    BY <1>8, <1>11
  <2> QED BY <2>1, <2>2, <2>3, FileFrame
<1>25. Accounted'
  <2> SUFFICES ASSUME lossy' = FALSE PROVE Accounted'
    BY DEF Accounted
  <2>1. \A a \in used : Held(own, tabs, a)
    BY <1>1, <1>12 DEF Sound, Accounted
  <2>2. ASSUME NEW g \in linked PROVE Tidy(Ic(g)', own[g], tabs[g], Hi(g)', HiT(g)')
    <3>1. Tidy(Ic(g), own[g], tabs[g], Hi(g), HiT(g))
      BY <1>1, <1>12 DEF Sound, Accounted
    <3> QED BY <1>23, <3>1 DEF Tidy
  <2>3. LastOf(inode'[f]) = k
    BY <1>15, <1>20
  <2>4. Tidy(inode'[f], own[f], tabs[f], LastOf(inode'[f]), LastOf(inode'[f]))
    BY <1>12, <1>15, <1>21, <2>3
  <2>5. \A b \in Blocks : 0 < b \/ (0 = b /\ (p = "leaf" \/ inode'[f].size = 0))
    BY <1>5, <1>7, <1>15, BlockNumbers
  <2>6. 0 < NDADDR
    BY Consts
  <2> QED BY <1>8, <1>10, <1>11, <1>14, <2>1, <2>2, <2>4, <2>5, <2>6 DEF Accounted
<1>26. Sound'
  BY <1>11, <1>16, <1>17, <1>18, <1>19, <1>22, <1>24, <1>25 DEF Sound
<1> QED BY <1>13, <1>26 DEF Ind

-----------------------------------------------------------------------------
(* freeDataBlocks. *)

\* The file that is being removed
LEMMA RemoveFacts ==
  ASSUME Types, Sound, call \in CallSet, call.op = "remove"
  PROVE  /\ call.f \in Inos /\ call.f \notin linked /\ call.f # ROOT_DIR /\ mem[call.f] = CLOSED
         /\ inode[call.f] \in Icommon /\ inode[call.f].size \in Nat /\ inode[call.f].size \in 0..MAX_SIZE
         /\ call.i \in Blocks /\ call.i \in Nat /\ call.j \in 1..NIADDR /\ call.spilt \in BOOLEAN
         /\ RemoveOK /\ ~Growing /\ ~Wiping /\ Pending = {} /\ linked \subseteq Inos
         /\ LastOf(inode[call.f]) = inode[call.f].size \div BLOCK_SIZE
<1>1. call.f \in Inos /\ call.i \in Blocks /\ call.j \in 1..NIADDR /\ call.spilt \in BOOLEAN
  BY DEF CallSet
<1>2. RemoveOK /\ ~Growing /\ ~Wiping /\ Pending = {}
  BY DEF Sound, CallOK, Growing, Wiping, Pending
<1>3. call.f \notin linked /\ call.f # ROOT_DIR /\ inode[call.f].mode = "IFREG"
  BY <1>2 DEF RemoveOK
<1>4. mem[call.f] = CLOSED
  BY <1>1, <1>3 DEF Sound, Shape
<1>5. inode[call.f] \in Icommon /\ linked \subseteq Inos
  BY <1>1 DEF Types, BlocksTypeOK
<1>6. inode[call.f].size \in 0..MAX_SIZE /\ MAX_SIZE \in Nat
  BY <1>5, Consts DEF Icommon
<1>7. LastOf(inode[call.f]) = inode[call.f].size \div BLOCK_SIZE
  BY <1>3 DEF LastOf
<1>8. call.i \in Nat /\ inode[call.f].size \in Nat
  <2>1. call.i \in Nat
    BY <1>1, BlockNumbers
  <2>2. inode[call.f].size \in Nat
    BY <1>6
  <2> QED BY <2>1, <2>2
<1> QED BY <1>1, <1>2, <1>3, <1>4, <1>5, <1>6, <1>7, <1>8

\* The next block, or the end of the file
LEMMA NextLeafFacts ==
  ASSUME Types, Sound, call \in CallSet, call.op = "remove"
  PROVE  /\ NextLeaf \in CallSet /\ NextLeaf.op = "remove" /\ NextLeaf.f = call.f /\ NextLeaf.spilt = call.spilt
         /\ \/ /\ NextLeaf.at = "leaf" /\ NextLeaf.i = call.i + 1
               /\ (call.i + 1) * BLOCK_SIZE < inode[call.f].size
            \/ /\ NextLeaf.at = "free" /\ NextLeaf.i = call.i
               /\ inode[call.f].size <= (call.i + 1) * BLOCK_SIZE
<1>1. PICK i \in Nat : i = call.i
  BY RemoveFacts
<1>2. PICK s \in Nat : s = inode[call.f].size /\ s \in 0..MAX_SIZE
  BY RemoveFacts
<1>3. PICK m \in Nat : m = i + 1
  BY <1>1
<1>4. BLOCK_SIZE \in Nat \ {0} /\ MAX_SIZE \in Nat
  BY Consts
<1>5. m * BLOCK_SIZE \in Nat
  BY <1>4
<1>6. CASE m * BLOCK_SIZE < s
  <2>1. m <= s \div BLOCK_SIZE
    BY <1>2, <1>4, <1>5, <1>6, DivLeast
  <2>2. m \in Blocks
    BY <1>2, <2>1, BlockNumbers
  <2>3. NextLeaf = [call EXCEPT !.at = "leaf", !.i = m]
    BY <1>1, <1>2, <1>3, <1>6 DEF NextLeaf
  <2> QED BY <1>1, <1>2, <1>3, <1>6, <2>2, <2>3 DEF CallSet
<1>7. CASE s <= m * BLOCK_SIZE
  <2>1. NextLeaf = [call EXCEPT !.at = "free"]
    BY <1>1, <1>2, <1>3, <1>5, <1>7 DEF NextLeaf
  <2> QED BY <1>1, <1>2, <1>3, <1>7, <2>1 DEF CallSet
<1> QED BY <1>2, <1>5, <1>6, <1>7

\* What a step of freeDataBlocks leaves alone: the directory and all other files
LEMMA RemoveFrame ==
  ASSUME Types, Sound, IInv', call \in CallSet, call.op = "remove", call'.op = "remove", call'.f = call.f,
         UNCHANGED <<rest, inode, mem, linked>>, RemoveOK', Sep(own', tabs', used'),
         NEW a, \A c \in Data : c # a => blk'[c] = blk[c],
         \A g \in Inos : g # call.f => own'[g] = own[g] /\ tabs'[g] = tabs[g] /\ a \notin tabs[g][1]
  PROVE  /\ Shape' /\ CallOK' /\ Separate' /\ Maps' /\ Unused' /\ Pending' = {} /\ ~Growing'
         /\ lossy = FALSE => \A g \in linked : Tidy(Ic(g)', own'[g], tabs'[g], Hi(g)', HiT(g)')
<1>1. PICK f \in Inos : f = call.f /\ f \notin linked
  BY RemoveFacts
<1>2. ~Growing /\ ~Wiping /\ Pending = {} /\ linked \subseteq Inos
  BY RemoveFacts
<1>3. ~Growing' /\ ~Wiping' /\ Pending' = {}
  BY DEF Growing, Wiping, Pending
<1>4. Shape'
  BY <1>2, <1>3, StillShape DEF Sound
<1>5. CallOK' /\ Separate'
  BY <1>3 DEF CallOK, Separate
<1>6. Unused'
  BY <1>1 DEF Sound, Unused
<1>7. ASSUME NEW g \in linked
      PROVE  /\ g \in Inos /\ own'[g] = own[g] /\ tabs'[g] = tabs[g] /\ a \notin tabs[g][1] /\ tabs[g][1] \subseteq Data
             /\ Ic(g)' = Ic(g) /\ Hi(g)' = Hi(g) /\ HiT(g)' = HiT(g)
  <2>1. g \in Inos /\ g # call.f
    BY <1>1, <1>2
  <2>2. Ic(g)' = Ic(g)
    BY DEF Ic
  <2>3. tabs[g][1] \subseteq Data
    BY <2>1 DEF Types, BlocksTypeOK, NIADDR
  <2> QED BY <1>2, <1>3, <2>1, <2>2, <2>3 DEF Hi, HiT
<1>8. Maps'
  <2> SUFFICES ASSUME NEW g \in linked PROVE FileOK(blk', rest', Ic(g)', own'[g], tabs'[g], Hi(g)')
    BY DEF Maps
  <2>1. FileOK(blk, rest, Ic(g), own[g], tabs[g], Hi(g))
    BY DEF Sound, Maps
  <2>2. \A x \in tabs[g][1] : blk'[x] = blk[x] /\ rest'[x] = rest[x]
    BY <1>7
  <2>3. FileOK(blk', rest', Ic(g), own[g], tabs[g], Hi(g))
    BY <2>1, <2>2, FileSame
  <2> QED BY <1>7, <2>3
<1>9. ASSUME lossy = FALSE, NEW g \in linked PROVE Tidy(Ic(g)', own'[g], tabs'[g], Hi(g)', HiT(g)')
  <2>1. Tidy(Ic(g), own[g], tabs[g], Hi(g), HiT(g))
    BY <1>9 DEF Sound, Accounted
  <2> QED BY <1>7, <2>1
<1> QED BY <1>3, <1>4, <1>5, <1>6, <1>8, <1>9

\* A data block is freed.
LEMMA FreeLeafStep ==
  ASSUME Ind, FreeLeaf
  PROVE  Ind'
<1>1. /\ Types /\ Sound /\ fault = FALSE /\ call \in CallSet /\ call.op = "remove" /\ call.at = "leaf"
  <2>1. At({"remove"}, "leaf") /\ "idle" \notin {"remove"}
    BY DEF FreeLeaf
  <2>2. Types /\ Sound /\ fault = FALSE /\ call \in CallSet /\ call.op \in {"remove"} /\ call.at = "leaf"
    BY <2>1, AtFacts
  <2> QED BY <2>2
<1>2. PICK f \in Inos : f = call.f /\ f \notin linked /\ f # ROOT_DIR
  BY <1>1, RemoveFacts
<1>3. PICK i \in Blocks : i = call.i /\ i \in Nat
  BY <1>1, RemoveFacts
<1>4. RemoveOK /\ Pending = {} /\ NDADDR \in Nat \ {0} /\ LS \in Nat \ {0} /\ Reach = NDADDR + LS
  BY <1>1, RemoveFacts, Consts DEF Reach
<1>5. PICK a : a = Addr(inode[f], i)
  OBVIOUS
<1>6. /\ Bfree(a) /\ fault' = (a \notin Data \/ a # own[f][i])
      /\ call' = IF FreedTables(i) = {} THEN NextLeaf ELSE [call EXCEPT !.at = "tables", !.j = Level(i)]
      /\ own' = [own EXCEPT ![f][i] = 0]
      /\ UNCHANGED <<rest, inode, mem, linked, tabs, lossy, events>>
  BY <1>2, <1>3, <1>5 DEF FreeLeaf
<1>7. own \in Owns /\ tabs \in Tabs /\ 0 \in Addrs
  BY <1>1 DEF Types, BlocksTypeOK, Owns, Tabs, Addrs
<1>8. /\ own' \in Owns /\ own'[f][i] = 0
      /\ \A g \in Inos : \A c \in Blocks : (g = f /\ c = i) \/ own'[g][c] = own[g][c]
      /\ \A g \in Inos : g # f => own'[g] = own[g]
  BY <1>6, <1>7 DEF Owns
<1>9. /\ FreedTables(i) \subseteq 1..Level(i) /\ Level(i) \in 0..NIADDR
      /\ i < Reach => (FreedTables(i) = {} <=> i # NDADDR)
  BY FreedNear, LevelFacts
<1>10. FreedTables(i) # {} => Level(i) \in 1..NIADDR
  BY <1>9 DEF NIADDR
<1>11. /\ call' \in CallSet /\ call'.op = "remove" /\ call'.f = f /\ call'.spilt = call.spilt
       /\ \/ /\ call'.at = "tables" /\ call'.i = i /\ call'.j = Level(i) /\ FreedTables(i) # {}
          \/ /\ call'.at = "leaf" /\ call'.i = i + 1 /\ FreedTables(i) = {}
             /\ (i + 1) * BLOCK_SIZE < inode[f].size
          \/ /\ call'.at = "free" /\ call'.i = i /\ FreedTables(i) = {}
             /\ inode[f].size <= (i + 1) * BLOCK_SIZE
  <2>1. CASE FreedTables(i) = {}
    <3>1. call' = NextLeaf
      BY <1>6, <2>1
    <3> QED BY <1>1, <1>2, <1>3, <2>1, <3>1, NextLeafFacts
  <2>2. CASE FreedTables(i) # {}
    <3>1. call' = [call EXCEPT !.at = "tables", !.j = Level(i)]
      BY <1>6, <2>2
    <3> QED BY <1>1, <1>2, <1>3, <1>10, <2>2, <3>1 DEF CallSet
  <2> QED BY <2>1, <2>2
<1>12. Types'
  <2>1. TypeOK' /\ fault' \in BOOLEAN
    BY <1>1, <1>6, BfreeTypes DEF Types, BlocksTypeOK
  <2> QED BY <1>1, <1>6, <1>8, <1>11, <2>1 DEF Types, BlocksTypeOK, Owns
<1> SUFFICES ASSUME fault' = FALSE PROVE Sound'
  BY <1>12 DEF Ind
<1>13. a \in Data /\ a = own[f][i] /\ a \in used /\ a # 0
  BY <1>1, <1>6, Consts DEF Sound, Separate, Sep
<1>14. /\ IInv' /\ used' = used \ {a}
       /\ \A c \in Data : c # a => blk'[c] = blk[c]
  BY <1>1, <1>6, <1>13, BfreeStep DEF Sound
<1>15. \A g \in Inos : a \notin tabs[g][1]
  BY <1>1, <1>13 DEF Sound, Separate, Sep, NIADDR
<1>16. Sep(own', tabs', used')
  <2>1. Sep(own, tabs, used)
    BY <1>1 DEF Sound, Separate
  <2>2. Sep(own', tabs, used \ {a})
    BY <1>7, <1>8, <1>13, <2>1, SepFreeOwn
  <2> QED BY <1>6, <1>14, <2>2
<1>17. RemoveOK'
  <2>1. call'.at = "tables" => i * BLOCK_SIZE < inode[f].size
    BY <1>1, <1>2, <1>3, <1>4 DEF RemoveOK
  <2>2. call'.at = "tables" => call'.j <= Level(i) /\ (i < Reach => i = NDADDR)
    BY <1>9, <1>11
  <2>3. inode[f].mode = "IFREG"
    BY <1>2, <1>4 DEF RemoveOK
  <2> QED BY <1>2, <1>6, <1>11, <2>1, <2>2, <2>3 DEF RemoveOK
<1>18. /\ Shape' /\ CallOK' /\ Separate' /\ Maps' /\ Unused' /\ Pending' = {} /\ ~Growing'
       /\ lossy = FALSE => \A g \in linked : Tidy(Ic(g)', own'[g], tabs'[g], Hi(g)', HiT(g)')
  BY <1>1, <1>2, <1>6, <1>8, <1>11, <1>14, <1>15, <1>16, <1>17, RemoveFrame
<1>19. PICK n \in Nat : n = call'.i /\ (n = i \/ n = i + 1) /\ (n = i + 1 => call'.at = "leaf" /\ i # NDADDR)
                        /\ (i = NDADDR => call'.at = "tables")
  <2>1. i = NDADDR => i < Reach
    BY <1>4
  <2> QED BY <1>3, <1>9, <1>11, <2>1
<1>20. Removal'
  <2>1. ASSUME call.spilt = FALSE, NEW b \in Blocks, b * BLOCK_SIZE < inode[f].size, b < Reach,
               n < b \/ (n = b /\ call'.at = "leaf")
        PROVE  Way(blk', rest', inode[f], b) = own'[f][b] /\ own'[f][b] # 0
    <3>1. b \in Nat /\ i < b
      <4>1. b \in Nat
        BY BlockNumbers
      <4> QED BY <1>3, <1>11, <1>19, <2>1, <4>1
    <3>2. Way(blk, rest, inode[f], b) = own[f][b] /\ own[f][b] # 0
      BY <1>1, <1>2, <1>3, <2>1, <3>1 DEF Sound, Removal
    <3>3. own'[f][b] = own[f][b]
      BY <1>3, <1>8, <3>1
    <3>4. ~(b < NDADDR) => inode[f].ib[1] # a
      <4>1. CASE i <= NDADDR
        <5>1. Rooted(inode[f], own[f], tabs[f])
          BY <1>1, <1>2, <1>3, <1>4, <4>1 DEF Sound, Removal
        <5>2. ~(b < NDADDR) => inode[f].ib[1] \in tabs[f][1]
          BY <1>4, <2>1, <3>1, <3>2, <5>1 DEF Rooted
        <5> QED BY <1>15, <5>2
      <4>2. CASE NDADDR < i
        BY <1>1, <1>2, <1>3, <1>13, <4>2 DEF Sound, Removal
      <4> QED BY <1>3, <1>4, <4>1, <4>2
    <3>5. Way(blk', rest', inode[f], b) = Way(blk, rest, inode[f], b)
      BY <1>6, <1>14, <3>4 DEF Way
    <3> QED BY <3>2, <3>3, <3>5
  <2>2. call'.at = "tables" /\ n < Reach => inode[f].ib[1] \in tabs[f][1]
    <3> SUFFICES ASSUME call'.at = "tables", n < Reach PROVE inode[f].ib[1] \in tabs[f][1]
      OBVIOUS
    <3>1. i = NDADDR /\ i < Reach
      BY <1>9, <1>11, <1>19
    <3>2. Rooted(inode[f], own[f], tabs[f])
      BY <1>1, <1>2, <1>3, <3>1 DEF Sound, Removal
    <3> QED BY <1>3, <1>4, <1>13, <3>1, <3>2 DEF Rooted
  <2>3. n < NDADDR \/ (n = NDADDR /\ call'.at = "leaf") => Rooted(inode[f], own'[f], tabs[f])
    <3> SUFFICES ASSUME n < NDADDR \/ (n = NDADDR /\ call'.at = "leaf") PROVE Rooted(inode[f], own'[f], tabs[f])
      OBVIOUS
    <3>1. i < NDADDR
      BY <1>3, <1>4, <1>19
    <3>2. Rooted(inode[f], own[f], tabs[f])
      BY <1>1, <1>2, <1>3, <3>1 DEF Sound, Removal
    <3> QED BY <1>8, <3>2 DEF Rooted
  <2>4. NDADDR < n => inode[f].ib[1] \notin used'
    <3> SUFFICES ASSUME NDADDR < n PROVE inode[f].ib[1] \notin used'
      OBVIOUS
    <3>1. NDADDR < i
      BY <1>3, <1>4, <1>19
    <3>2. inode[f].ib[1] \notin used
      BY <1>1, <1>2, <1>3, <3>1 DEF Sound, Removal
    <3> QED BY <1>14, <3>2
  <2> QED BY <1>6, <1>11, <1>19, <2>1, <2>2, <2>3, <2>4 DEF Removal
<1>21. Accounted'
  <2> SUFFICES ASSUME lossy = FALSE PROVE Accounted'
    BY <1>6 DEF Accounted
  <2>1. ASSUME NEW x \in used' PROVE Held(own', tabs', x)
    <3>1. x # a /\ Held(own, tabs, x)
      BY <1>1, <1>4, <1>14 DEF Sound, Accounted
    <3>2. CASE \E g \in Inos : \E b \in Blocks : own[g][b] = x
      BY <1>8, <1>13, <3>1, <3>2 DEF Held
    <3>3. CASE \E g \in Inos : \E l \in 1..NIADDR : x \in tabs[g][l]
      BY <1>6, <3>3 DEF Held
    <3> QED BY <3>1, <3>2, <3>3 DEF Held
  <2>2. PICK k : k = LastOf(inode[f])
    OBVIOUS
  <2>3. /\ Tidy(inode[f], own[f], tabs[f], k, k)
        /\ \A b \in Blocks : own[f][b] # 0 => i < b \/ i = b
        /\ tabs[f][1] # {} => i < NDADDR \/ i = NDADDR \/ inode[f].size % BLOCK_SIZE = 0
    BY <1>1, <1>2, <1>3, <2>2 DEF Sound, Accounted
  <2>4. Tidy(inode[f], own'[f], tabs[f], k, k)
    BY <1>8, <2>3 DEF Tidy
  <2>5. ASSUME NEW b \in Blocks, own'[f][b] # 0 PROVE n < b \/ (n = b /\ call'.at = "leaf")
    <3>1. b # i /\ own[f][b] # 0 /\ b \in Nat
      BY <1>8, <2>5, BlockNumbers
    <3>2. i < b
      BY <2>3, <3>1
    <3> QED BY <1>3, <1>19, <3>1, <3>2
  <2>6. tabs[f][1] # {} => \/ n < NDADDR \/ (n = NDADDR /\ call'.at # "free")
                           \/ inode[f].size % BLOCK_SIZE = 0
    BY <1>3, <1>4, <1>19, <2>3
  <2> QED BY <1>6, <1>11, <1>18, <1>19, <2>1, <2>2, <2>4, <2>5, <2>6 DEF Accounted
<1> QED BY <1>14, <1>18, <1>20, <1>21 DEF Sound

\* A table is freed.
LEMMA FreeTableStep ==
  ASSUME Ind, FreeTable
  PROVE  Ind'
<1>1. /\ Types /\ Sound /\ fault = FALSE /\ call \in CallSet /\ call.op = "remove" /\ call.at = "tables"
  <2>1. At({"remove"}, "tables") /\ "idle" \notin {"remove"}
    BY DEF FreeTable
  <2>2. Types /\ Sound /\ fault = FALSE /\ call \in CallSet /\ call.op \in {"remove"} /\ call.at = "tables"
    BY <2>1, AtFacts
  <2> QED BY <2>2
<1>2. PICK f \in Inos : f = call.f /\ f \notin linked /\ f # ROOT_DIR
  BY <1>1, RemoveFacts
<1>3. PICK i \in Blocks : i = call.i /\ i \in Nat
  BY <1>1, RemoveFacts
<1>4. RemoveOK /\ Pending = {} /\ NDADDR \in Nat \ {0} /\ BLOCK_SIZE \in Nat \ {0}
  BY <1>1, RemoveFacts, Consts
<1>5. PICK j \in 1..NIADDR : j = call.j /\ j <= Level(i) /\ (i < Reach => i = NDADDR)
  BY <1>1, <1>3, <1>4, RemoveFacts DEF RemoveOK
<1>6. PICK l \in 1..NIADDR : l = Level(i) /\ NDADDR <= i /\ (i = NDADDR => l = 1 /\ j = 1)
  <2>1. Level(i) \in 1..NIADDR
    BY <1>5, LevelFacts DEF NIADDR
  <2>2. ~(i < NDADDR)
    BY <2>1, LevelFacts DEF NIADDR
  <2>3. i = NDADDR => Level(i) = 1
    BY <1>4, LevelFacts, Consts DEF Reach
  <2> QED BY <1>3, <1>4, <1>5, <2>1, <2>2, <2>3 DEF NIADDR
<1>7. PICK a : a = Table(inode[f], i, j)
  OBVIOUS
<1>8. PICK c : c = (IF j - 1 \in FreedTables(i) THEN [call EXCEPT !.j = j - 1] ELSE NextLeaf)
  OBVIOUS
<1>9. PICK sp \in BOOLEAN : sp = (call.spilt \/ fdbhead = LIST - 1)
  OBVIOUS
<1>10. /\ c \in CallSet /\ c.op = "remove" /\ c.f = f /\ c.spilt = call.spilt
       /\ \/ /\ c.at = "tables" /\ c.i = i /\ c.j = j - 1 /\ j - 1 \in FreedTables(i)
          \/ c.at = "leaf" /\ c.i = i + 1 /\ (i + 1) * BLOCK_SIZE < inode[f].size
          \/ c.at = "free" /\ c.i = i /\ inode[f].size <= (i + 1) * BLOCK_SIZE
  <2>1. CASE j - 1 \in FreedTables(i)
    <3>1. j - 1 \in 1..NIADDR
      BY <1>5, <1>6, <2>1, FreedNear DEF NIADDR
    <3>2. c = [call EXCEPT !.j = j - 1]
      BY <1>8, <2>1
    <3> QED BY <1>1, <1>2, <1>3, <2>1, <3>1, <3>2 DEF CallSet
  <2>2. CASE j - 1 \notin FreedTables(i)
    <3>1. c = NextLeaf
      BY <1>8, <2>2
    <3> QED BY <1>1, <1>2, <1>3, <3>1, NextLeafFacts
  <2> QED BY <2>1, <2>2
<1>11. /\ Bfree(a) /\ fault' = (a \notin tabs[f][l])
       /\ tabs' = [tabs EXCEPT ![f][l] = @ \ {a}]
       /\ call' = [c EXCEPT !.spilt = @ \/ (fdbhead = LIST - 1)]
       /\ UNCHANGED <<rest, inode, mem, linked, own, lossy, events>>
  BY <1>2, <1>3, <1>5, <1>6, <1>7, <1>8 DEF FreeTable
<1>12. /\ call' \in CallSet /\ call'.op = "remove" /\ call'.f = f /\ call'.spilt = sp
       /\ call'.at = c.at /\ call'.i = c.i /\ call'.j = c.j
  <2>1. call' = [c EXCEPT !.spilt = sp]
    BY <1>9, <1>10, <1>11
  <2> QED BY <1>10, <2>1 DEF CallSet
<1>13. own \in Owns /\ tabs \in Tabs
  BY <1>1 DEF Types, BlocksTypeOK, Owns, Tabs
<1>14. /\ tabs' \in Tabs /\ tabs'[f][l] = tabs[f][l] \ {a}
       /\ \A g \in Inos : \A m \in 1..NIADDR : (g = f /\ m = l) \/ tabs'[g][m] = tabs[g][m]
       /\ \A g \in Inos : g # f => tabs'[g] = tabs[g]
  BY <1>11, <1>13 DEF Tabs
<1>15. Types'
  <2>1. TypeOK' /\ fault' \in BOOLEAN
    BY <1>1, <1>11, BfreeTypes DEF Types, BlocksTypeOK
  <2> QED BY <1>1, <1>11, <1>12, <1>14, <2>1 DEF Types, BlocksTypeOK, Tabs
<1> SUFFICES ASSUME fault' = FALSE PROVE Sound'
  BY <1>15 DEF Ind
<1>16. a \in tabs[f][l] /\ a \in used
  BY <1>1, <1>11 DEF Sound, Separate, Sep
<1>17. /\ IInv' /\ used' = used \ {a}
       /\ \A x \in Data : x # a => blk'[x] = blk[x]
       /\ sp = FALSE => call.spilt = FALSE /\ blk' = blk
  <2>1. fdbhead # LIST - 1 => blk' = blk
    BY <1>1, <1>11, <1>16, BfreeStep DEF Sound
  <2> QED BY <1>1, <1>9, <1>11, <1>16, <2>1, BfreeStep, RemoveFacts DEF Sound
<1>18. \A g \in Inos : g # f => a \notin tabs[g][1]
  <2>1. 1 \in 1..NIADDR
    BY DEF NIADDR
  <2> QED BY <1>1, <1>16, <2>1 DEF Sound, Separate, Sep
<1>19. Sep(own', tabs', used')
  <2>1. Sep(own, tabs, used)
    BY <1>1 DEF Sound, Separate
  <2>2. Sep(own, tabs', used \ {a})
    <3>1. a \notin tabs'[f][l] /\ \A g \in Inos : \A m \in 1..NIADDR : tabs'[g][m] \subseteq tabs[g][m]
      BY <1>14
    <3> QED BY <1>13, <1>16, <2>1, <3>1, SepFreeTab
  <2> QED BY <1>11, <1>17, <2>2
<1>20. i * BLOCK_SIZE < inode[f].size /\ inode[f].mode = "IFREG"
  BY <1>1, <1>2, <1>3, <1>4 DEF RemoveOK
<1>21. RemoveOK'
  <2>1. c.at = "tables" => c.j <= Level(c.i) /\ (c.i < Reach => c.i = NDADDR)
    <3> SUFFICES ASSUME c.at = "tables" PROVE c.j <= Level(c.i) /\ (c.i < Reach => c.i = NDADDR)
      OBVIOUS
    <3>1. c.j = j - 1 /\ c.i = i
      BY <1>10
    <3>2. j - 1 <= l
      BY <1>5, <1>6 DEF NIADDR
    <3> QED BY <1>5, <1>6, <3>1, <3>2
  <2> QED BY <1>2, <1>10, <1>11, <1>12, <1>20, <2>1 DEF RemoveOK
<1>22. /\ Shape' /\ CallOK' /\ Separate' /\ Maps' /\ Unused' /\ Pending' = {} /\ ~Growing'
       /\ lossy = FALSE => \A g \in linked : Tidy(Ic(g)', own'[g], tabs'[g], Hi(g)', HiT(g)')
  BY <1>1, <1>2, <1>11, <1>12, <1>14, <1>17, <1>18, <1>19, <1>21, RemoveFrame
<1>23. i = NDADDR => a = inode[f].ib[1] /\ c.at # "tables"
  <2> SUFFICES ASSUME i = NDADDR PROVE a = inode[f].ib[1] /\ c.at # "tables"
    OBVIOUS
  <2>1. l = 1 /\ j = 1
    BY <1>6
  <2>2. a = inode[f].ib[1]
    BY <1>6, <1>7, <2>1 DEF Table
  <2>3. j - 1 \notin FreedTables(i)
    BY <1>5, <1>6, <2>1, FreedNear DEF NIADDR
  <2> QED BY <1>10, <2>2, <2>3
<1>24. PICK n \in Nat : n = call'.i /\ (n = i \/ n = i + 1) /\ (n = i + 1 <=> call'.at = "leaf")
  BY <1>3, <1>10, <1>12
<1>25. Removal'
  <2>1. ASSUME sp = FALSE, NEW b \in Blocks, b * BLOCK_SIZE < inode[f].size, b < Reach,
               n < b \/ (n = b /\ call'.at = "leaf")
        PROVE  Way(blk', rest', inode[f], b) = own[f][b] /\ own[f][b] # 0
    <3>1. b \in Nat /\ i < b
      <4>1. b \in Nat
        BY BlockNumbers
      <4> QED BY <1>3, <1>24, <2>1, <4>1
    <3>2. Way(blk, rest, inode[f], b) = own[f][b] /\ own[f][b] # 0
      BY <1>1, <1>2, <1>3, <1>17, <2>1, <3>1 DEF Sound, Removal
    <3> QED BY <1>11, <1>17, <2>1, <3>2
  <2>2. ~(call'.at = "tables" /\ n < Reach)
    BY <1>5, <1>12, <1>23, <1>24
  <2>3. ~(n < NDADDR) /\ ~(n = NDADDR /\ call'.at = "leaf")
    BY <1>3, <1>4, <1>6, <1>24
  <2>4. NDADDR < n => inode[f].ib[1] \notin used'
    <3>1. CASE NDADDR < i
      BY <1>1, <1>2, <1>3, <1>17, <3>1 DEF Sound, Removal
    <3>2. CASE i = NDADDR
      BY <1>17, <1>23, <3>2
    <3> QED BY <1>3, <1>4, <1>6, <3>1, <3>2
  <2> QED BY <1>11, <1>12, <1>24, <2>1, <2>2, <2>3, <2>4 DEF Removal
<1>26. Accounted'
  <2> SUFFICES ASSUME lossy = FALSE PROVE Accounted'
    BY <1>11 DEF Accounted
  <2>1. ASSUME NEW x \in used' PROVE Held(own', tabs', x)
    <3>1. x # a /\ Held(own, tabs, x)
      BY <1>1, <1>4, <1>17 DEF Sound, Accounted
    <3>2. CASE \E g \in Inos : \E b \in Blocks : own[g][b] = x
      BY <1>11, <3>2 DEF Held
    <3>3. CASE \E g \in Inos : \E m \in 1..NIADDR : x \in tabs[g][m]
      <4>1. PICK g \in Inos, m \in 1..NIADDR : x \in tabs[g][m]
        BY <3>3
      <4>2. x \in tabs'[g][m]
        BY <1>14, <3>1, <4>1
      <4> QED BY <4>2 DEF Held
    <3> QED BY <3>1, <3>2, <3>3 DEF Held
  <2>2. PICK k : k = LastOf(inode[f])
    OBVIOUS
  <2>3. /\ Tidy(inode[f], own[f], tabs[f], k, k)
        /\ \A b \in Blocks : own[f][b] # 0 => i < b \/ (i = b /\ inode[f].size = 0)
        /\ tabs[f][1] # {} => i < NDADDR \/ i = NDADDR \/ inode[f].size % BLOCK_SIZE = 0
    BY <1>1, <1>2, <1>3, <2>2 DEF Sound, Accounted
  <2>4. \A m \in 1..NIADDR : tabs'[f][m] \subseteq tabs[f][m]
    BY <1>14
  <2>5. 1 \in 1..NIADDR
    BY DEF NIADDR
  <2>6. Tidy(inode[f], own[f], tabs'[f], k, k)
    BY <2>3, <2>4, <2>5 DEF Tidy
  <2>7. inode[f].size # 0
    <3>1. i * BLOCK_SIZE \in Nat
      BY <1>3, <1>4
    <3> QED BY <1>20, <3>1
  <2>8. ASSUME NEW b \in Blocks, own[f][b] # 0 PROVE n < b \/ (n = b /\ call'.at = "leaf")
    <3>1. i < b /\ b \in Nat
      BY <2>3, <2>7, <2>8, BlockNumbers
    <3> QED BY <1>3, <1>24, <3>1
  <2>9. tabs'[f][1] # {} => inode[f].size % BLOCK_SIZE = 0
    <3> SUFFICES ASSUME tabs'[f][1] # {}, inode[f].size % BLOCK_SIZE # 0 PROVE FALSE
      OBVIOUS
    <3>1. tabs[f][1] # {}
      BY <2>4, <2>5
    <3>2. i = NDADDR
      BY <1>3, <1>4, <1>6, <2>3, <3>1
    <3>3. a = inode[f].ib[1] /\ l = 1 /\ tabs[f][1] \subseteq {inode[f].ib[1]}
      BY <1>6, <1>23, <2>3, <3>2 DEF Tidy
    <3> QED BY <1>14, <3>3
  <2> QED BY <1>11, <1>12, <1>22, <1>24, <2>1, <2>2, <2>6, <2>8, <2>9 DEF Accounted
<1> QED BY <1>17, <1>22, <1>25, <1>26 DEF Sound

\* No block starts in a file behind the one in which the file ends.
LEMMA BehindEnd ==
  ASSUME NEW s \in Nat, s % BLOCK_SIZE # 0, NEW i \in Nat, s <= (i + 1) * BLOCK_SIZE,
         NEW b \in Nat, b <= s \div BLOCK_SIZE
  PROVE  b <= i
<1> SUFFICES ASSUME i < b PROVE FALSE
  OBVIOUS
<1>1. BLOCK_SIZE \in Nat \ {0} /\ s # 0
  BY Consts
<1>2. PICK r \in Nat : r = s - 1
  BY <1>1
<1>3. b <= r \div BLOCK_SIZE
  BY <1>1, <1>2, DivPred
<1>4. b * BLOCK_SIZE <= r
  BY <1>1, <1>3, DivLeast
<1>5. BLOCK_SIZE * i + BLOCK_SIZE <= BLOCK_SIZE * b
  BY <1>1, Times
<1>6. /\ BLOCK_SIZE * b = b * BLOCK_SIZE /\ (i + 1) * BLOCK_SIZE = BLOCK_SIZE * i + BLOCK_SIZE
      /\ BLOCK_SIZE * i \in Nat /\ BLOCK_SIZE * b \in Nat
  BY <1>1
<1> QED BY <1>1, <1>2, <1>4, <1>5, <1>6

\* The inode is freed.
LEMMA FreeInodeStep ==
  ASSUME Ind, FreeInode
  PROVE  Ind'
<1>1. /\ Types /\ Sound /\ fault = FALSE /\ call \in CallSet /\ call.op = "remove" /\ call.at = "free"
  <2>1. At({"remove"}, "free") /\ "idle" \notin {"remove"}
    BY DEF FreeInode
  <2>2. Types /\ Sound /\ fault = FALSE /\ call \in CallSet /\ call.op \in {"remove"} /\ call.at = "free"
    BY <2>1, AtFacts
  <2> QED BY <2>2
<1>2. PICK f \in Inos : f = call.f /\ f \notin linked /\ f # ROOT_DIR /\ mem[f] = CLOSED
  BY <1>1, RemoveFacts
<1>3. PICK i \in Nat : i = call.i
  BY <1>1, RemoveFacts
<1>4. PICK s \in Nat : s = inode[f].size /\ LastOf(inode[f]) = s \div BLOCK_SIZE /\ s \in 0..MAX_SIZE
  BY <1>1, <1>2, RemoveFacts
<1>5. /\ RemoveOK /\ Pending = {} /\ ~Growing /\ ~Wiping /\ linked \subseteq Inos /\ NDADDR \in Nat \ {0}
      /\ BLOCK_SIZE \in Nat \ {0}
  BY <1>1, RemoveFacts, Consts
<1>6. s <= (i + 1) * BLOCK_SIZE /\ inode[f].mode = "IFREG"
  BY <1>1, <1>2, <1>3, <1>4, <1>5 DEF RemoveOK
<1>7. /\ inode' = [inode EXCEPT ![f] = UnusedInode]
      /\ own' = [own EXCEPT ![f] = NoBlocks]
      /\ tabs' = [tabs EXCEPT ![f] = NoTables]
      /\ lossy' = (lossy \/ s % BLOCK_SIZE = 0 \/ \E b \in BlocksOf(inode[f]) : Level(b) > 1)
      /\ call' = Idle
      /\ UNCHANGED <<vars, rest, mem, linked, events, fault>>
  BY <1>2, <1>4 DEF FreeInode
<1>8. own \in Owns /\ tabs \in Tabs /\ inode \in [Inos -> Icommon] /\ lossy \in BOOLEAN
  BY <1>1 DEF Types, BlocksTypeOK, Owns, Tabs
<1>9. NoBlocks \in [Blocks -> Addrs] /\ NoTables \in [1..NIADDR -> SUBSET Data] /\ UnusedInode \in Icommon
  <2>1. 0 \in Addrs /\ 0 \in 0..MAX_SIZE
    BY Consts DEF Addrs
  <2>2. [n \in 0..(NDADDR - 1) |-> 0] \in [0..(NDADDR - 1) -> Addrs] /\ [n \in 1..NIADDR |-> 0] \in [1..NIADDR -> Addrs]
    BY <2>1
  <2> QED BY <2>1, <2>2 DEF NoBlocks, NoTables, UnusedInode, Icommon
<1>10. /\ own' \in Owns /\ tabs' \in Tabs /\ inode' \in [Inos -> Icommon]
       /\ own'[f] = NoBlocks /\ tabs'[f] = NoTables
       /\ \A g \in Inos : g # f => own'[g] = own[g] /\ tabs'[g] = tabs[g] /\ inode'[g] = inode[g]
  BY <1>7, <1>8, <1>9 DEF Owns, Tabs
<1>11. IInv' /\ blk' = blk /\ used' = used
  BY <1>1, <1>7, ListKept DEF Sound, vars
<1>12. Types'
  <2>1. TypeOK' /\ lossy' \in BOOLEAN
    BY <1>7, <1>8, <1>11 DEF IInv
  <2> QED BY <1>1, <1>7, <1>10, <2>1 DEF Types, BlocksTypeOK, Owns, Tabs
<1>13. ~Growing' /\ ~Wiping' /\ Pending' = {} /\ call'.op = "idle"
  BY <1>7 DEF Growing, Wiping, Pending, Idle
<1>14. Shape'
  <2>1. inode'[ROOT_DIR] = inode[ROOT_DIR]
    BY <1>2, <1>10, RootIno
  <2>2. \A g \in linked \ {ROOT_DIR} : inode'[g].mode = "IFREG"
    BY <1>1, <1>2, <1>5, <1>10 DEF Sound, Shape
  <2>3. ASSUME NEW g \in Inos, mem[g] # CLOSED
        PROVE  /\ g \in linked /\ mem[g].mode = inode'[g].mode /\ inode'[g].size <= mem[g].size
               /\ mem[g].db = inode'[g].db /\ mem[g].ib = inode'[g].ib
    BY <1>1, <1>2, <1>10, <2>3 DEF Sound, Shape
  <2> QED BY <1>1, <1>5, <1>7, <1>13, <2>1, <2>2, <2>3 DEF Sound, Shape
<1>15. CallOK' /\ Removal'
  BY <1>13 DEF CallOK, Removal
<1>16. Separate'
  <2>1. Sep(own, tabs, used)
    BY <1>1 DEF Sound, Separate
  <2>2. \A g \in Inos : \A b \in Blocks : own'[g][b] = own[g][b] \/ own'[g][b] = 0
    BY <1>10 DEF NoBlocks
  <2>3. \A g \in Inos : \A l \in 1..NIADDR : tabs'[g][l] \subseteq tabs[g][l] /\ tabs[g][l] \subseteq Data
    <3> SUFFICES ASSUME NEW g \in Inos, NEW l \in 1..NIADDR
                 PROVE  tabs'[g][l] \subseteq tabs[g][l] /\ tabs[g][l] \subseteq Data
      OBVIOUS
    <3>1. tabs[g][l] \subseteq Data
      BY <1>8 DEF Tabs
    <3>2. tabs'[g][l] = {} \/ tabs'[g][l] = tabs[g][l]
      BY <1>10 DEF NoTables
    <3> QED BY <3>1, <3>2
  <2>4. Sep(own', tabs', used)
    BY <2>1, <2>2, <2>3, SepLess
  <2> QED BY <1>11, <1>13, <2>4 DEF Separate
<1>17. Unused'
  BY <1>1, <1>2, <1>7, <1>10 DEF Sound, Unused
<1>18. ASSUME NEW g \in linked
       PROVE  /\ own'[g] = own[g] /\ tabs'[g] = tabs[g] /\ Ic(g)' = Ic(g) /\ Hi(g)' = Hi(g) /\ HiT(g)' = HiT(g)
  <2>1. g \in Inos /\ g # f
    BY <1>2, <1>5
  <2>2. Ic(g)' = Ic(g)
    BY <1>7, <1>10, <2>1 DEF Ic
  <2> QED BY <1>5, <1>10, <1>13, <2>1, <2>2 DEF Hi, HiT
<1>19. Maps'
  BY <1>1, <1>7, <1>11, <1>18 DEF Sound, Maps
<1>20. Accounted'
  <2> SUFFICES ASSUME lossy' = FALSE PROVE Accounted'
    BY DEF Accounted
  <2>1. lossy = FALSE /\ s % BLOCK_SIZE # 0 /\ \A b \in BlocksOf(inode[f]) : ~(Level(b) > 1)
    BY <1>7, <1>8
  <2>2. /\ Tidy(inode[f], own[f], tabs[f], s \div BLOCK_SIZE, s \div BLOCK_SIZE)
        /\ \A b \in Blocks : own[f][b] # 0 => i < b \/ inode[f].size = 0
        /\ tabs[f][1] # {} => i < NDADDR
    BY <1>1, <1>2, <1>3, <1>4, <2>1 DEF Sound, Accounted
  <2>3. s # 0
    BY <1>5, <2>1
  <2>4. ASSUME NEW b \in Blocks PROVE own[f][b] = 0
    <3> SUFFICES ASSUME own[f][b] # 0 PROVE FALSE
      OBVIOUS
    <3>1. i < b /\ b <= s \div BLOCK_SIZE /\ b \in Nat
      BY <1>4, <2>2, <2>3, BlockNumbers DEF Tidy
    <3>2. b <= i
      BY <1>6, <2>1, <3>1, BehindEnd
    <3> QED BY <3>1, <3>2
  <2>5. ASSUME NEW l \in 1..NIADDR PROVE tabs[f][l] = {}
    <3> SUFFICES ASSUME tabs[f][l] # {} PROVE FALSE
      OBVIOUS
    <3>1. PICK c \in Nat : c = Base(l) /\ NDADDR <= c /\ (c \in Blocks => Level(c) = l)
      BY LevelFacts
    <3>2. PICK k \in Blocks : k = s \div BLOCK_SIZE /\ k \in Nat
      BY <1>4, BlockNumbers
    <3>3. c <= k
      BY <2>2, <3>1, <3>2 DEF Tidy
    <3>4. c \in Blocks
      BY <3>2, <3>3, BlockNumbers
    <3>5. c \in BlocksOf(inode[f])
      BY <1>4, <1>6, <3>1, <3>2, <3>3 DEF BlocksOf
    <3>6. l = 1
      BY <2>1, <3>1, <3>4, <3>5 DEF NIADDR
    <3>7. i < NDADDR
      BY <2>2, <3>6
    <3>8. c <= i
      BY <1>6, <2>1, <3>1, <3>2, <3>3, BehindEnd
    <3> QED BY <1>5, <3>1, <3>7, <3>8
  <2>6. ASSUME NEW x \in used PROVE Held(own', tabs', x)
    <3>1. Held(own, tabs, x) /\ x # 0
      BY <1>1, <1>5, <2>1, Consts DEF Sound, Accounted, IInv, TypeOK
    <3>2. CASE \E g \in Inos : \E b \in Blocks : own[g][b] = x
      BY <1>10, <2>4, <3>1, <3>2 DEF Held
    <3>3. CASE \E g \in Inos : \E m \in 1..NIADDR : x \in tabs[g][m]
      <4>1. PICK g \in Inos, m \in 1..NIADDR : x \in tabs[g][m]
        BY <3>3
      <4>2. x \in tabs'[g][m]
        BY <1>10, <2>5, <4>1
      <4> QED BY <4>2 DEF Held
    <3> QED BY <3>1, <3>2, <3>3 DEF Held
  <2>7. ASSUME NEW g \in linked PROVE Tidy(Ic(g)', own'[g], tabs'[g], Hi(g)', HiT(g)')
    <3>1. Tidy(Ic(g), own[g], tabs[g], Hi(g), HiT(g))
      BY <1>1, <2>1 DEF Sound, Accounted
    <3> QED BY <1>18, <3>1
  <2> QED BY <1>7, <1>11, <1>13, <2>6, <2>7 DEF Accounted
<1>21. Sound'
  BY <1>11, <1>14, <1>15, <1>16, <1>17, <1>19, <1>20 DEF Sound
<1> QED BY <1>12, <1>21 DEF Ind

-----------------------------------------------------------------------------
(* Loss of power. *)

\* The blocks of a file or directory
LEMMA BlocksLast ==
  ASSUME NEW ic
  PROVE  BlocksOf(ic) = 0..LastOf(ic)
BY DEF BlocksOf, LastOf

\* After a loss of power every variable has its type.
LEMMA ForgetTypes ==
  ASSUME Types, Forget, TypeOK', fault' \in BOOLEAN
  PROVE  Types'
<1>1. /\ own \in Owns /\ tabs \in Tabs /\ events \in 0..EVENTS /\ EVENTS \in Nat /\ 0 \in Addrs
  BY DataBlocksAssumption DEF Types, BlocksTypeOK, Owns, Tabs, Addrs
<1>2. own' \in Owns
  BY <1>1 DEF Forget, Owns
<1>3. tabs' \in Tabs
  BY <1>1 DEF Forget, Tabs
<1>4. events' \in 0..EVENTS
  BY <1>1 DEF Forget
<1>5. mem' \in [Inos -> Icommon \cup {CLOSED}] /\ call' = Idle /\ lossy' = TRUE /\ UNCHANGED <<rest, inode, linked>>
  BY DEF Forget
<1> QED BY <1>2, <1>3, <1>4, <1>5 DEF Types, BlocksTypeOK, Owns, Tabs

\* What the disk holds is a file system, as long as no single indirect table has been written.
LEMMA ForgetStep ==
  ASSUME Types, Sound, IInv', Forget, used' = used,
         \A g \in linked : \A x \in tabs[g][1] : blk'[x] = blk[x]
  PROVE  Sound'
<1>1. /\ ~Wiping /\ mem' = [f \in Inos |-> CLOSED] /\ call' = Idle /\ lossy' = TRUE
      /\ UNCHANGED <<rest, inode, linked>> /\ linked \subseteq Inos
  BY DEF Forget, Wiping, Types, BlocksTypeOK
<1>2. own \in Owns /\ tabs \in Tabs
  BY DEF Types, BlocksTypeOK, Owns, Tabs
<1>3. \A f \in Inos : \A b \in Blocks :
        own'[f][b] = IF f \in linked /\ b \in BlocksOf(inode[f]) THEN own[f][b] ELSE 0
  BY DEF Forget
<1>4. ASSUME NEW f \in Inos, NEW l \in 1..NIADDR
      PROVE  \A x : x \in tabs'[f][l] <=> f \in linked /\ x \in tabs[f][l] /\ x \in Tables(inode[f])
  <2>1. tabs'[f][l] = IF f \in linked THEN tabs[f][l] \cap Tables(inode[f]) ELSE {}
    BY DEF Forget
  <2>2. CASE f \in linked
    BY <2>1, <2>2
  <2>3. CASE f \notin linked
    BY <2>1, <2>3
  <2> QED BY <2>2, <2>3
<1>5. ~Growing' /\ ~Wiping' /\ Pending' = {} /\ call'.op = "idle"
  BY <1>1 DEF Growing, Wiping, Pending, Idle
<1>6. Shape'
  BY <1>1, <1>5, RootIno DEF Sound, Shape
<1>7. CallOK' /\ Removal' /\ Accounted'
  BY <1>1, <1>5 DEF CallOK, Removal, Accounted
<1>8. Separate'
  <2>1. Sep(own, tabs, used)
    BY DEF Sound, Separate
  <2>2. \A f \in Inos : \A b \in Blocks : own'[f][b] = own[f][b] \/ own'[f][b] = 0
    BY <1>3
  <2>3. \A f \in Inos : \A l \in 1..NIADDR : tabs'[f][l] \subseteq tabs[f][l] /\ tabs[f][l] \subseteq Data
    BY <1>2, <1>4 DEF Tabs
  <2>4. Sep(own', tabs', used)
    BY <2>1, <2>2, <2>3, SepLess
  <2> QED BY <1>5, <2>4 DEF Separate
<1>9. Unused'
  <2> SUFFICES ASSUME NEW f \in Inos, f \notin linked PROVE own'[f] = NoBlocks /\ tabs'[f] = NoTables
    BY <1>1 DEF Unused
  <2>1. own'[f] = [b \in Blocks |-> IF f \in linked /\ b \in BlocksOf(inode[f]) THEN own[f][b] ELSE 0]
    BY DEF Forget
  <2>2. tabs'[f] = [l \in 1..NIADDR |-> IF f \in linked THEN tabs[f][l] \cap Tables(inode[f]) ELSE {}]
    BY DEF Forget
  <2> QED BY <2>1, <2>2 DEF NoBlocks, NoTables
<1>10. Maps'
  <2> SUFFICES ASSUME NEW g \in linked PROVE FileOK(blk', rest, Ic(g)', own'[g], tabs'[g], Hi(g)')
    BY <1>1 DEF Maps
  <2>1. g \in Inos
    BY <1>1
  <2>2. PICK ic : ic = inode[g] /\ Ic(g)' = ic /\ ic.db = Ic(g).db /\ ic.ib = Ic(g).ib
    BY <1>1, <2>1, IcFacts DEF Ic, Sound
  <2>3. PICK k \in Nat : k = LastOf(ic) /\ Hi(g)' = k /\ k <= Hi(g) /\ Hi(g) \in Nat
    <3>1. Hi(g)' = LastOf(ic)
      BY <1>5, <2>2 DEF Hi
    <3>2. LastOf(ic) \in Nat /\ LastOf(Ic(g)) \in Nat /\ LastOf(ic) <= LastOf(Ic(g))
      BY <2>2, LastFacts, BlockNumbers DEF Sound
    <3>3. Hi(g) \in Nat /\ LastOf(Ic(g)) <= Hi(g)
      BY HiFacts, BlockNumbers DEF Sound
    <3> QED BY <3>1, <3>2, <3>3
  <2>4. FileOK(blk', rest, ic, own[g], tabs[g], k)
    <3>1. FileOK(blk, rest, Ic(g), own[g], tabs[g], Hi(g))
      BY DEF Sound, Maps
    <3>2. Hi(g) \in Int /\ k \in Int /\ k <= Hi(g)
      BY <2>3
    <3>3. \A x \in tabs[g][1] : blk'[x] = blk[x] /\ rest[x] = rest[x]
      OBVIOUS
    <3> QED BY <2>2, <3>1, <3>2, <3>3, FileFrame
  <2>5. BlocksOf(ic) = 0..k
    BY <2>3, BlocksLast
  <2>6. \A b \in Blocks : (b <= k => own'[g][b] = own[g][b]) /\ (own'[g][b] = own[g][b] \/ own'[g][b] = 0)
    <3>1. \A b \in Blocks : b \in Nat
      BY BlockNumbers
    <3> QED BY <1>3, <2>1, <2>2, <2>3, <2>5, <3>1
  <2>7. ASSUME ic.ib[1] \in tabs[g][1], NEW b \in Blocks, NDADDR <= b, b < Reach, own'[g][b] # 0
        PROVE  ic.ib[1] \in tabs'[g][1]
    <3>1. b \in BlocksOf(ic)
      BY <1>3, <2>1, <2>2, <2>7
    <3>2. Level(b) = 1
      BY <2>7, LevelFacts
    <3>3. Table(ic, b, 1) = ic.ib[1] /\ 1 \in 1..1
      BY <3>2 DEF Table
    <3>4. ic.ib[1] \in Tables(ic)
      BY <3>1, <3>2, <3>3 DEF Tables
    <3>5. 1 \in 1..NIADDR
      BY DEF NIADDR
    <3> QED BY <1>4, <2>1, <2>2, <2>7, <3>4, <3>5
  <2>8. FileOK(blk', rest, ic, own'[g], tabs'[g], k)
    <3>1. PICK p : p = own'[g]
      OBVIOUS
    <3>2. PICK s : s = tabs'[g]
      OBVIOUS
    <3>3. \A b \in Blocks : (b <= k => p[b] = own[g][b]) /\ (p[b] = own[g][b] \/ p[b] = 0)
      BY <2>6, <3>1
    <3>4. ic.ib[1] \in tabs[g][1] /\ (\E b \in Blocks : NDADDR <= b /\ b < Reach /\ p[b] # 0) => ic.ib[1] \in s[1]
      BY <2>7, <3>1, <3>2
    <3>5. FileOK(blk', rest, ic, p, s, k)
      BY <2>4, <3>3, <3>4, FileCut
    <3> QED BY <3>1, <3>2, <3>5
  <2> QED BY <2>2, <2>3, <2>8
<1> QED BY <1>6, <1>7, <1>8, <1>9, <1>10 DEF Sound

\* Power is lost between two writes.
LEMMA CrashStep ==
  ASSUME Ind, Crash
  PROVE  Ind'
<1>1. Types /\ fault \in BOOLEAN /\ fault = FALSE /\ Sound
  BY DEF Ind, Types, BlocksTypeOK, Crash, Forget
<1>2. IInv' /\ used' = used /\ blk' = blk
  BY <1>1, RebootInv DEF Crash, Reboot, Sound
<1>3. Types'
  BY <1>1, <1>2, ForgetTypes DEF Crash, IInv
<1>4. Sound'
  BY <1>1, <1>2, ForgetStep DEF Crash
<1> QED BY <1>3, <1>4 DEF Ind

\* Power is lost between the two writes of a bfree().
LEMMA FreeCrashStep ==
  ASSUME Ind, FreeCrash
  PROVE  Ind'
<1>1. Types /\ fault \in BOOLEAN /\ fault = FALSE /\ Sound /\ Forget
  BY DEF Ind, Types, BlocksTypeOK, FreeCrash, Forget
<1>2. PICK a \in Data :
        /\ \/ /\ At({"remove"}, "leaf") /\ a = Addr(inode[call.f], call.i)
              /\ fault' = (a # own[call.f][call.i])
           \/ /\ At({"remove"}, "tables") /\ a = Table(inode[call.f], call.i, call.j)
              /\ fault' = (a \notin tabs[call.f][Level(call.i)])
        /\ BfreeSpillCrash(a)
  BY DEF FreeCrash
<1>3. call \in CallSet /\ call.op = "remove" /\ call.at \in {"leaf", "tables"}
  <2>1. call.op = "remove" /\ call.at \in {"leaf", "tables"}
    BY <1>2 DEF At
  <2> QED BY <1>1, <2>1 DEF Types, Idle
<1>4. PICK f \in Inos : f = call.f /\ f \notin linked /\ linked \subseteq Inos
  BY <1>1, <1>3, RemoveFacts
<1>5. fault' \in BOOLEAN /\ blk' = [blk EXCEPT ![a] = fdb] /\ used' = used
  BY <1>2 DEF BfreeSpillCrash
<1>6. TypeOK' /\ \A x \in Data : x # a => blk'[x] = blk[x]
  <2>1. TypeOK
    BY <1>1 DEF Types, BlocksTypeOK
  <2> QED BY <1>2, <1>5, <2>1 DEF TypeOK, BfreeSpillCrash
<1>7. Types'
  BY <1>1, <1>5, <1>6, ForgetTypes
<1> SUFFICES ASSUME fault' = FALSE PROVE Sound'
  BY <1>7 DEF Ind
<1>8. \/ a = own[f][call.i] /\ call.i \in Blocks
      \/ \E l \in 1..NIADDR : a \in tabs[f][l]
  <2>1. CASE At({"remove"}, "leaf") /\ fault' = (a # own[call.f][call.i])
    BY <1>1, <1>3, <1>4, <2>1, RemoveFacts
  <2>2. CASE At({"remove"}, "tables") /\ fault' = (a \notin tabs[call.f][Level(call.i)])
    <3>1. call.at = "tables" /\ RemoveOK /\ call.i \in Blocks /\ call.j \in 1..NIADDR
      BY <1>1, <1>3, <2>2, RemoveFacts DEF At
    <3>2. Level(call.i) \in 1..NIADDR
      BY <3>1, LevelFacts DEF RemoveOK, NIADDR
    <3> QED BY <1>4, <2>2, <3>2
  <2> QED BY <1>2, <2>1, <2>2
<1>9. a \in used /\ \A g \in linked : a \notin tabs[g][1]
  <2>1. 1 \in 1..NIADDR
    BY DEF NIADDR
  <2> QED BY <1>1, <1>2, <1>4, <1>8, <2>1 DEF Sound, Separate, Sep
<1>10. IInv'
  BY <1>1, <1>2, <1>9, ReadyStepInv DEF Sound
<1>11. \A g \in linked : \A x \in tabs[g][1] : blk'[x] = blk[x]
  <2>1. \A g \in linked : tabs[g][1] \subseteq Data
    BY <1>1, <1>4 DEF Types, BlocksTypeOK, NIADDR
  <2> QED BY <1>6, <1>9, <2>1
<1> QED BY <1>1, <1>5, <1>10, <1>11, ForgetStep

-----------------------------------------------------------------------------
(* The invariant holds. *)

\* A formatted disk satisfies the invariant.
LEMMA BlocksInitInd == BlocksInit => Ind
<1> SUFFICES ASSUME BlocksInit PROVE Ind
  OBVIOUS
<1>1. IInv /\ TypeOK /\ used = {}
  BY InitFormatted, FormattedInv DEF BlocksInit, Init, IInv
<1>2. /\ rest = [a \in Data |-> [j \in Upper |-> 0]] /\ inode = [f \in Inos |-> UnusedInode]
      /\ mem = [f \in Inos |-> CLOSED] /\ call = Calling("wipe", "root", ROOT_DIR, 0, 0) /\ linked = {}
      /\ own = [f \in Inos |-> NoBlocks] /\ tabs = [f \in Inos |-> NoTables]
      /\ lossy = FALSE /\ events = 0 /\ fault = FALSE
  BY DEF BlocksInit
<1>3. call \in CallSet /\ call.op = "wipe" /\ call.at = "root" /\ call.f = ROOT_DIR /\ call.i = 0
  <2>1. call = [op |-> "wipe", at |-> "root", f |-> ROOT_DIR, i |-> 0, last |-> 0, addr |-> 0, t |-> 0, j |-> 1,
                head |-> 0, end |-> 0, new |-> ROOT_DIR, failed |-> FALSE, spilt |-> FALSE]
    BY <1>2 DEF Calling
  <2>2. 0 \in Addrs /\ 1 \in 1..NIADDR /\ 0 \in Blocks /\ ROOT_DIR \in Inos
    BY BlockNumbers, RootIno DEF Addrs, NIADDR
  <2> QED BY <2>1, <2>2 DEF CallSet
<1>4. NoBlocks \in [Blocks -> Addrs] /\ NoTables \in [1..NIADDR -> SUBSET Data] /\ UnusedInode \in Icommon
  <2>1. 0 \in Addrs /\ 0 \in 0..MAX_SIZE
    BY Consts DEF Addrs
  <2>2. [n \in 0..(NDADDR - 1) |-> 0] \in [0..(NDADDR - 1) -> Addrs] /\ [n \in 1..NIADDR |-> 0] \in [1..NIADDR -> Addrs]
    BY <2>1
  <2> QED BY <2>1, <2>2 DEF NoBlocks, NoTables, UnusedInode, Icommon
<1>5. Types
  <2>1. rest \in [Data -> [Upper -> Arrays]] /\ rest \in [Data -> [Upper -> Addrs]]
    BY <1>2 DEF Arrays, Addrs
  <2>2. events \in 0..EVENTS
    BY <1>2, DataBlocksAssumption
  <2> QED BY <1>1, <1>2, <1>3, <1>4, <2>1, <2>2 DEF Types, BlocksTypeOK
<1>6. ~Growing /\ Wiping /\ Pending = {}
  BY <1>3 DEF Growing, Wiping, Pending
<1>7. Shape
  BY <1>1, <1>2, <1>6, RootIno DEF Shape
<1>8. CallOK /\ Removal /\ Maps
  BY <1>2, <1>3, <1>6 DEF CallOK, Removal, Maps
<1>9. \A f \in Inos : (\A b \in Blocks : own[f][b] = 0) /\ (\A l \in 1..NIADDR : tabs[f][l] = {})
  BY <1>2 DEF NoBlocks, NoTables
<1>10. Separate
  <2>1. 0 \notin Data /\ 0 # SBLKNO /\ 0 # FULL
    BY Consts
  <2>2. Sep(own, tabs, used)
    BY <1>9, <2>1 DEF Sep
  <2> QED BY <1>6, <2>2 DEF Separate
<1>11. Unused
  BY <1>2 DEF Unused
<1>12. Accounted
  BY <1>1, <1>2, <1>3, <1>6 DEF Accounted
<1> QED BY <1>1, <1>5, <1>7, <1>8, <1>10, <1>11, <1>12 DEF Ind, Sound

\* Nothing happens.
LEMMA StutterStep ==
  ASSUME Ind, UNCHANGED <<vars, blockVars>>
  PROVE  Ind'
<1>1. UNCHANGED vars /\ UNCHANGED <<fdb, fdbhead, sb, blk, chain, used, ret, wiped>>
  BY DEF vars
<1>2. UNCHANGED <<rest, inode, mem, call, linked, own, tabs, lossy, events, fault>>
  BY DEF blockVars
<1>3. Types'
  BY <1>1, <1>2 DEF Ind, Types, BlocksTypeOK, TypeOK
<1> SUFFICES ASSUME fault = FALSE PROVE Sound'
  BY <1>2, <1>3 DEF Ind
<1>4. Sound
  BY DEF Ind
<1>5. IInv'
  BY <1>1, <1>4, ListKept DEF Sound
<1>6. (Growing' <=> Growing) /\ (Wiping' <=> Wiping) /\ Pending' = Pending
  BY <1>1, <1>2 DEF Growing, Wiping, Pending
<1>7. ASSUME NEW f PROVE Ic(f)' = Ic(f) /\ Hi(f)' = Hi(f) /\ HiT(f)' = HiT(f)
  <2>1. Ic(f)' = Ic(f)
    BY <1>2 DEF Ic
  <2>2. Hi(f)' = Hi(f)
    BY <1>2, <1>6, <2>1 DEF Hi
  <2> QED BY <1>2, <1>6, <2>1, <2>2 DEF HiT
<1>8. Shape'
  BY <1>1, <1>2, <1>4, <1>6 DEF Sound, Shape
<1>9. CallOK'
  <2>1. GrowOK => GrowOK'
    BY <1>1, <1>2, <1>7 DEF GrowOK
  <2>2. WriteOK => WriteOK'
    BY <1>2 DEF WriteOK
  <2>3. CreateOK => CreateOK'
    BY <1>2 DEF CreateOK
  <2>4. RemoveOK => RemoveOK'
    BY <1>2 DEF RemoveOK
  <2> QED BY <1>2, <1>4, <1>6, <2>1, <2>2, <2>3, <2>4 DEF Sound, CallOK
<1>10. Separate'
  BY <1>1, <1>2, <1>4, <1>6 DEF Sound, Separate
<1>11. Maps'
  BY <1>1, <1>2, <1>4, <1>7 DEF Sound, Maps
<1>12. Removal'
  BY <1>1, <1>2, <1>4 DEF Sound, Removal
<1>13. Unused'
  BY <1>2, <1>4 DEF Sound, Unused
<1>14. Accounted'
  BY <1>1, <1>2, <1>4, <1>6, <1>7 DEF Sound, Accounted
<1> QED BY <1>5, <1>8, <1>9, <1>10, <1>11, <1>12, <1>13, <1>14 DEF Sound

\* Every step keeps the invariant.
LEMMA BlocksStepInd == Ind /\ [BlocksNext]_<<vars, blockVars>> => Ind'
<1> SUFFICES ASSUME Ind, [BlocksNext]_<<vars, blockVars>> PROVE Ind'
  OBVIOUS
<1>1. CASE UNCHANGED <<vars, blockVars>>
  BY <1>1, StutterStep
<1>2. CASE Crash \/ FreeCrash \/ WipeRoot \/ WipeRootEntry
  BY <1>2, CrashStep, FreeCrashStep, WipeRootStep, WipeRootEntryStep
<1>3. CASE AllocateDataBlockAddr
  BY <1>3, AllocDataStep, EnterDirectStep, NewTopStep, OldTopStep, OldChildStep, NewChildStep, WriteChildStep,
     EnterLeafStep DEF AllocateDataBlockAddr
<1>4. CASE Grown \/ WriteBlock
  BY <1>4, GrownStep, WriteBlockStep
<1>5. CASE \E f \in Inos : Open(f) \/ Close(f) \/ Unlink(f)
  BY <1>5, OpenStep, CloseStep, UnlinkStep
<1>6. CASE \E f \in Inos, head \in Heads, n \in Lengths : Write(f, head, n)
  BY <1>6, WriteStartStep
<1>7. CASE Create \/ CreateBlock \/ CreateInode \/ EnterName \/ EnterSize
  BY <1>7, CreateStep, CreateBlockStep, CreateInodeStep, EnterNameStep, EnterSizeStep
<1>8. CASE FreeLeaf \/ FreeTable \/ FreeInode
  BY <1>8, FreeLeafStep, FreeTableStep, FreeInodeStep
<1> QED BY <1>1, <1>2, <1>3, <1>4, <1>5, <1>6, <1>7, <1>8 DEF BlocksNext

\* The invariant holds in every reachable state.
LEMMA BlocksInvariance == BlocksSpec => []Ind
BY BlocksInitInd, BlocksStepInd, PTL DEF BlocksSpec

-----------------------------------------------------------------------------
(* What follows from it. *)

\* The block that was allocated for a part of a file is a block, or there was none.
LEMMA OwnKinds ==
  ASSUME Types, Sound, NEW f \in Inos, NEW b \in Blocks, own[f][b] # 0
  PROVE  own[f][b] \in Data \/ (own[f][b] = FULL /\ b = 0)
<1>1. own[f][b] \in Addrs
  BY DEF Types, BlocksTypeOK
<1> QED BY <1>1 DEF Addrs, Sound, Separate, Sep

\* Reading a file up to the block entered last
LEMMA WayOwn ==
  ASSUME Types, Sound, NEW f \in linked, NEW b \in Blocks, b <= Hi(f), b < Reach
  PROVE  Addr(Ic(f), b) = own[f][b] /\ own[f][b] # 0
<1>1. FileOK(blk, rest, Ic(f), own[f], tabs[f], Hi(f))
  BY DEF Sound, Maps
<1> QED BY <1>1, WayAddr DEF FileOK

\* Reading a file, by its inode in memory or on the disk
LEMMA CopyFacts ==
  ASSUME Types, Sound, NEW f \in linked, NEW ic \in Copies(f), NEW b \in Near(ic)
  PROVE  /\ f \in Inos /\ b \in Blocks /\ b < Reach /\ Addr(ic, b) = own[f][b]
         /\ own[f][b] \in Data \/ (own[f][b] = FULL /\ b = 0)
         /\ ~(b < NDADDR) => ic.ib[1] \in tabs[f][1]
<1>1. f \in Inos
  BY LastFacts DEF Sound
<1>2. ic = inode[f] \/ ic = Ic(f)
  BY DEF Copies, Ic
<1>3. ic.db = Ic(f).db /\ ic.ib = Ic(f).ib
  BY <1>1, <1>2, IcFacts DEF Sound
<1>4. PICK k \in Blocks : k = LastOf(ic) /\ k <= Hi(f) /\ k \in Nat /\ Hi(f) \in Nat
  <2>1. LastOf(ic) \in Blocks /\ LastOf(ic) <= LastOf(Ic(f)) /\ LastOf(Ic(f)) \in Nat /\ LastOf(ic) \in Nat
    BY <1>2, LastFacts, BlockNumbers DEF Sound
  <2>2. Hi(f) \in Nat /\ LastOf(Ic(f)) <= Hi(f)
    BY HiFacts, BlockNumbers DEF Sound
  <2> QED BY <2>1, <2>2
<1>5. b \in 0..k /\ Level(b) <= 1
  BY <1>4, BlocksLast DEF Near
<1>6. b \in Blocks /\ b \in Nat /\ b <= Hi(f)
  <2>1. b \in Nat /\ b <= k
    BY <1>5
  <2> QED BY <1>4, <2>1, BlockNumbers
<1>7. b < Reach
  <2>1. Level(b) = 0 \/ Level(b) = 1
    BY <1>5, <1>6, LevelFacts DEF NIADDR
  <2>2. CASE Level(b) = 0
    BY <1>6, <2>2, LevelFacts, Consts DEF Reach
  <2>3. CASE Level(b) = 1
    BY <1>6, <2>3, LevelFacts
  <2> QED BY <2>1, <2>2, <2>3
<1>8. FileOK(blk, rest, Ic(f), own[f], tabs[f], Hi(f))
  BY DEF Sound, Maps
<1>9. Way(blk, rest, Ic(f), b) = own[f][b] /\ own[f][b] # 0
  BY <1>6, <1>7, <1>8 DEF FileOK
<1>10. Addr(ic, b) = own[f][b]
  <2>1. Addr(ic, b) = Way(blk, rest, ic, b)
    BY <1>6, <1>7, WayAddr
  <2> QED BY <1>3, <1>9, <2>1 DEF Way
<1>11. ~(b < NDADDR) => ic.ib[1] \in tabs[f][1]
  BY <1>3, <1>6, <1>7, <1>8, <1>9, Consts DEF FileOK, Rooted
<1> QED BY <1>1, <1>6, <1>7, <1>9, <1>10, <1>11, OwnKinds

\* The data blocks and the table that a file leads to are its own.
LEMMA OwnedFacts ==
  ASSUME Types, Sound, NEW f \in linked, NEW ic \in Copies(f), NEW x \in Owned(ic)
  PROVE  /\ f \in Inos /\ x \in Data /\ x \in used
         /\ (\E b \in Blocks : own[f][b] = x) \/ x \in tabs[f][1]
<1>1. f \in Inos /\ tabs[f][1] \subseteq used /\ used \subseteq Data
  BY LastFacts DEF Sound, Separate, Sep, IInv, TypeOK, NIADDR
<1>2. CASE x \in Leaves(ic)
  <2>1. PICK b \in Near(ic) : x = Addr(ic, b) /\ x # FULL
    BY <1>2 DEF Leaves
  <2>2. b \in Blocks /\ x = own[f][b] /\ x \in Data
    BY <2>1, CopyFacts
  <2> QED BY <1>1, <2>2 DEF Sound, Separate, Sep
<1>3. CASE x \notin Leaves(ic)
  <2>1. x = ic.ib[1] /\ ~(Near(ic) \subseteq 0..(NDADDR - 1))
    BY <1>3 DEF Owned
  <2>2. PICK b \in Near(ic) : b \notin 0..(NDADDR - 1)
    BY <2>1
  <2>3. ~(b < NDADDR)
    <3>1. b \in Blocks
      BY CopyFacts
    <3>2. b \in Nat /\ NDADDR \in Nat
      BY <3>1, BlockNumbers, Consts
    <3> QED BY <2>2, <3>2
  <2>4. x \in tabs[f][1]
    BY <2>1, <2>2, <2>3, CopyFacts
  <2> QED BY <1>1, <2>4
<1> QED BY <1>2, <1>3

\* Without a fault the invariant says all it has to say.
LEMMA NoFault ==
  ASSUME Ind, ~fault
  PROVE  Types /\ Sound /\ fault = FALSE
<1>1. fault \in BOOLEAN
  BY DEF Ind, Types, BlocksTypeOK
<1> QED BY <1>1 DEF Ind

\* Reading a file finds the blocks that were allocated for it, in memory and, after a
\* loss of power between any two writes of any call, on the disk.
THEOREM MapsCorrect == BlocksSpec => []MapsKept
<1>1. Ind => MapsKept
  <2> SUFFICES ASSUME Ind PROVE MapsKept
    OBVIOUS
  <2>1. BlocksTypeOK
    BY DEF Ind, Types
  <2>2. ASSUME ~fault, NEW f \in linked, NEW ic \in Copies(f), NEW b \in Near(ic) PROVE Addr(ic, b) = own[f][b]
    BY <2>2, NoFault, CopyFacts
  <2> QED BY <2>1, <2>2 DEF MapsKept
<1> QED BY <1>1, BlocksInvariance, PTL

\* No two files and no two parts of a file share a block, and none of them is free.
THEOREM SharingCorrect == BlocksSpec => []NoSharing
<1>1. Ind => NoSharing
  <2> SUFFICES ASSUME Ind, ~fault
               PROVE  /\ Linked /\ Disjoint
                      /\ \A f \in linked : \A ic \in Copies(f) :
                        /\ Owned(ic) \subseteq used
                        /\ \A b, c \in Near(ic) : b # c => Addr(ic, b) # Addr(ic, c)
                        /\ Near(ic) \subseteq 0..(NDADDR - 1) \/ ic.ib[1] \notin Leaves(ic)
                        /\ \A g \in linked \ {f} : Owned(ic) \cap Owned(Ic(g)) = {}
    BY DEF NoSharing
  <2>1. Types /\ Sound
    BY NoFault
  <2>2. Linked
    BY <2>1 DEF Sound, IInv
  <2>3. Disjoint
    <3> SUFFICES ASSUME NEW x \in Free PROVE x \notin used
      BY DEF Disjoint
    <3> QED BY <2>1, FreeMembers DEF Sound, IInv, Apart
  <2>4. ASSUME NEW f \in linked, NEW ic \in Copies(f) PROVE Owned(ic) \subseteq used
    BY <2>1, OwnedFacts
  <2>5. ASSUME NEW f \in linked, NEW ic \in Copies(f), NEW b \in Near(ic), NEW c \in Near(ic), b # c
        PROVE  Addr(ic, b) # Addr(ic, c)
    <3>1. /\ f \in Inos /\ b \in Blocks /\ Addr(ic, b) = own[f][b]
          /\ own[f][b] \in Data \/ (own[f][b] = FULL /\ b = 0)
      BY <2>1, CopyFacts
    <3>2. /\ c \in Blocks /\ Addr(ic, c) = own[f][c]
          /\ own[f][c] \in Data \/ (own[f][c] = FULL /\ c = 0)
      BY <2>1, CopyFacts
    <3> QED BY <2>1, <2>5, <3>1, <3>2, Consts DEF Sound, Separate, Sep
  <2>6. ASSUME NEW f \in linked, NEW ic \in Copies(f)
        PROVE  Near(ic) \subseteq 0..(NDADDR - 1) \/ ic.ib[1] \notin Leaves(ic)
    <3> SUFFICES ASSUME NEW c \in Near(ic), c \notin 0..(NDADDR - 1), NEW b \in Near(ic), ic.ib[1] = Addr(ic, b)
                 PROVE  FALSE
      BY DEF Leaves
    <3>1. ~(c < NDADDR)
      <4>1. c \in Blocks
        BY <2>1, CopyFacts
      <4>2. c \in Nat /\ NDADDR \in Nat
        BY <4>1, BlockNumbers, Consts
      <4> QED BY <4>2
    <3>2. f \in Inos /\ ic.ib[1] \in tabs[f][1] /\ 1 \in 1..NIADDR
      BY <2>1, <3>1, CopyFacts DEF NIADDR
    <3>3. b \in Blocks /\ ic.ib[1] = own[f][b]
      BY <2>1, CopyFacts
    <3> QED BY <2>1, <3>2, <3>3 DEF Sound, Separate, Sep
  <2>7. ASSUME NEW f \in linked, NEW ic \in Copies(f), NEW g \in linked \ {f}
        PROVE  Owned(ic) \cap Owned(Ic(g)) = {}
    <3> SUFFICES ASSUME NEW x \in Owned(ic), x \in Owned(Ic(g)) PROVE FALSE
      OBVIOUS
    <3>1. Ic(g) \in Copies(g) /\ g \in linked /\ g # f
      <4>1. g \in Inos /\ inode[g] \in Icommon
        BY <2>1, LastFacts DEF Sound, Types, BlocksTypeOK
      <4>2. inode[g] # CLOSED
        BY <4>1 DEF Icommon, CLOSED
      <4> QED BY <4>2 DEF Copies, Ic
    <3>2. f \in Inos /\ x \in Data /\ ((\E b \in Blocks : own[f][b] = x) \/ x \in tabs[f][1])
      BY <2>1, OwnedFacts
    <3>3. g \in Inos /\ ((\E b \in Blocks : own[g][b] = x) \/ x \in tabs[g][1])
      BY <2>1, <3>1, OwnedFacts
    <3>4. 1 \in 1..NIADDR
      BY DEF NIADDR
    <3> QED BY <2>1, <3>1, <3>2, <3>3, <3>4 DEF Sound, Separate, Sep
  <2> QED BY <2>2, <2>3, <2>4, <2>5, <2>6, <2>7
<1> QED BY <1>1, BlocksInvariance, PTL

\* Between calls every block is free or belongs to a file, unless one of the events
\* that the code does not clean up after has happened.
THEOREM NothingLostCorrect == BlocksSpec => []NothingLost
<1>1. Ind => NothingLost
  <2> SUFFICES ASSUME Ind, call = Idle, ~lossy, ~fault, \A f \in linked : Near(Ic(f)) = BlocksOf(Ic(f))
               PROVE  used = UNION {Owned(Ic(f)) : f \in linked}
    BY DEF NothingLost
  <2>1. Types /\ Sound /\ call.op = "idle" /\ ~Growing /\ Pending = {}
    BY IdleFacts
  <2>2. lossy = FALSE /\ linked \subseteq Inos
    BY <2>1 DEF Types, BlocksTypeOK
  <2>3. \A f \in linked : Ic(f) \in Copies(f)
    <3> SUFFICES ASSUME NEW f \in linked PROVE Ic(f) \in Copies(f)
      OBVIOUS
    <3>1. inode[f] \in Icommon
      BY <2>1, <2>2 DEF Types, BlocksTypeOK
    <3>2. inode[f] # CLOSED
      BY <3>1 DEF Icommon, CLOSED
    <3> QED BY <3>2 DEF Copies, Ic
  <2>4. ASSUME NEW f \in linked, NEW x \in Owned(Ic(f)) PROVE x \in used
    BY <2>1, <2>3, OwnedFacts
  <2>5. ASSUME NEW f \in Inos, f \notin linked PROVE own[f] = NoBlocks /\ tabs[f] = NoTables
    BY <2>1, <2>5 DEF Sound, Unused
  <2>6. ASSUME NEW f \in linked
        PROVE  \E k \in Blocks : /\ BlocksOf(Ic(f)) = 0..k /\ k \in Nat
                                 /\ Tidy(Ic(f), own[f], tabs[f], k, k)
    <3>1. LastOf(Ic(f)) \in Blocks /\ LastOf(Ic(f)) \in Nat
      BY <2>1, LastFacts, BlockNumbers DEF Sound
    <3>2. Hi(f) = LastOf(Ic(f)) /\ HiT(f) = LastOf(Ic(f))
      BY <2>1 DEF Hi, HiT
    <3>3. Tidy(Ic(f), own[f], tabs[f], LastOf(Ic(f)), LastOf(Ic(f)))
      BY <2>1, <2>2, <3>2 DEF Sound, Accounted
    <3> QED BY <3>1, <3>3, BlocksLast
  <2>7. ASSUME NEW x \in used PROVE \E f \in linked : x \in Owned(Ic(f))
    <3>1. Held(own, tabs, x) /\ x \in Data /\ x # 0 /\ x # FULL
      BY <2>1, <2>2, Consts DEF Sound, Accounted, IInv, TypeOK
    <3>2. CASE \E f \in Inos : \E b \in Blocks : own[f][b] = x
      <4>1. PICK f \in Inos, b \in Blocks : own[f][b] = x
        BY <3>2
      <4>2. f \in linked
        BY <2>5, <3>1, <4>1 DEF NoBlocks
      <4>3. PICK k \in Blocks : BlocksOf(Ic(f)) = 0..k /\ k \in Nat /\ Tidy(Ic(f), own[f], tabs[f], k, k)
        BY <2>6, <4>2
      <4>4. b <= k /\ b \in Nat
        BY <3>1, <4>1, <4>3, BlockNumbers DEF Tidy
      <4>5. b \in Near(Ic(f))
        BY <4>2, <4>3, <4>4
      <4>6. Addr(Ic(f), b) = x
        BY <2>1, <2>3, <4>1, <4>2, <4>5, CopyFacts
      <4>7. x \in Leaves(Ic(f))
        BY <3>1, <4>5, <4>6 DEF Leaves
      <4> QED BY <4>2, <4>7 DEF Owned
    <3>3. CASE \E f \in Inos : \E l \in 1..NIADDR : x \in tabs[f][l]
      <4>1. PICK f \in Inos, l \in 1..NIADDR : x \in tabs[f][l]
        BY <3>3
      <4>2. f \in linked
        BY <2>5, <4>1 DEF NoTables
      <4>3. PICK k \in Blocks : BlocksOf(Ic(f)) = 0..k /\ k \in Nat /\ Tidy(Ic(f), own[f], tabs[f], k, k)
        BY <2>6, <4>2
      <4>4. PICK c \in Nat : c = Base(l) /\ NDADDR <= c /\ (c \in Blocks => Level(c) = l)
        BY LevelFacts
      <4>5. c <= k
        BY <4>1, <4>3, <4>4 DEF Tidy
      <4>6. c \in Blocks /\ c \in Near(Ic(f))
        BY <4>2, <4>3, <4>4, <4>5, BlockNumbers
      <4>7. l = 1
        BY <4>4, <4>6 DEF Near, NIADDR
      <4>8. x = Ic(f).ib[1]
        BY <4>1, <4>3, <4>7 DEF Tidy
      <4>9. ~(Near(Ic(f)) \subseteq 0..(NDADDR - 1))
        BY <4>4, <4>6, Consts
      <4> QED BY <4>2, <4>8, <4>9 DEF Owned
    <3> QED BY <3>1, <3>2, <3>3 DEF Held
  <2> QED BY <2>4, <2>7
<1> QED BY <1>1, BlocksInvariance, PTL

-----------------------------------------------------------------------------
(* When a call touches a block that is not its file's. *)

\* The reasons
Reason ==
  \/ Level(call.i) > 1
  \/ call.failed
  \/ own[call.f][call.i] = FULL
  \/ call.op = "remove" /\ call.spilt

\* A block number without a reason has at most one table on the way.
LEMMA NoReason ==
  ASSUME Types, call \in CallSet, ~Reason
  PROVE  /\ call.f \in Inos /\ call.i \in Blocks /\ call.i < Reach /\ call.failed = FALSE
         /\ own[call.f][call.i] # FULL
         /\ call.op = "remove" => call.spilt = FALSE
<1>1. call.f \in Inos /\ call.i \in Blocks /\ call.failed \in BOOLEAN /\ call.spilt \in BOOLEAN
  BY DEF CallSet
<1>2. ~(Level(call.i) > 1) /\ Level(call.i) \in 0..NIADDR /\ call.i \in Nat
  BY <1>1, LevelFacts, BlockNumbers DEF Reason
<1>3. Level(call.i) = 0 \/ Level(call.i) = 1
  BY <1>2 DEF NIADDR
<1>4. call.i < Reach
  <2>1. CASE Level(call.i) = 0
    BY <1>1, <1>2, <2>1, LevelFacts, Consts DEF Reach
  <2>2. CASE Level(call.i) = 1
    BY <1>1, <2>2, LevelFacts
  <2> QED BY <1>3, <2>1, <2>2
<1> QED BY <1>1, <1>4 DEF Reason

\* Writing a block that has been entered
LEMMA PutReason ==
  ASSUME Types, Sound, call \in CallSet, call.f \in linked,
         call.failed = FALSE => call.i <= Hi(call.f), PutBlock(call.f, call.i), fault' # FALSE
  PROVE  Reason
<1> SUFFICES ASSUME ~Reason PROVE FALSE
  OBVIOUS
<1>1. PICK f \in linked : f = call.f
  OBVIOUS
<1>2. PICK i \in Blocks : i = call.i /\ i < Reach /\ own[f][i] # FULL /\ i <= Hi(f) /\ f \in Inos
  BY <1>1, NoReason
<1>3. Addr(Ic(f), i) = own[f][i] /\ own[f][i] # 0
  BY <1>2, WayOwn
<1>4. own[f][i] \in Data
  BY <1>2, <1>3, OwnKinds
<1> QED BY <1>1, <1>2, <1>3, <1>4 DEF PutBlock

\* The entry "." of the root directory
LEMMA WipeReason ==
  ASSUME Ind, WipeRootEntry, fault' # FALSE
  PROVE  Reason
<1>1. /\ Types /\ Sound /\ call \in CallSet /\ call.op = "wipe" /\ call.at = "entry"
  <2>1. At({"wipe"}, "entry") /\ "idle" \notin {"wipe"}
    BY DEF WipeRootEntry
  <2>2. Types /\ Sound /\ call \in CallSet /\ call.op \in {"wipe"} /\ call.at = "entry"
    BY <2>1, AtFacts
  <2> QED BY <2>2
<1>2. call.f = ROOT_DIR /\ call.i = 0 /\ ROOT_DIR \in linked
  BY <1>1 DEF Sound, CallOK, Shape, Wiping
<1>3. 0 <= Hi(ROOT_DIR)
  <2>1. Hi(ROOT_DIR) \in Blocks
    BY <1>1, <1>2, HiFacts DEF Sound
  <2>2. Hi(ROOT_DIR) \in Nat
    BY <2>1, BlockNumbers
  <2> QED BY <2>2
<1> QED BY <1>1, <1>2, <1>3, PutReason DEF WipeRootEntry

\* A block of fwrite
LEMMA WriteReason ==
  ASSUME Ind, WriteBlock, fault' # FALSE
  PROVE  Reason
<1>1. /\ Types /\ Sound /\ call \in CallSet /\ call.op = "write" /\ call.at = "data"
  <2>1. At({"write"}, "data") /\ "idle" \notin {"write"}
    BY DEF WriteBlock
  <2>2. Types /\ Sound /\ call \in CallSet /\ call.op \in {"write"} /\ call.at = "data"
    BY <2>1, AtFacts
  <2> QED BY <2>2
<1>2. PICK f \in linked : f = call.f /\ f # ROOT_DIR /\ mem[f] # CLOSED
  BY <1>1 DEF Sound, CallOK, WriteOK
<1>3. PICK e \in Nat : e = call.end /\ e # 0 /\ call.i <= (e - 1) \div BLOCK_SIZE /\ call.i \in Nat
                       /\ (call.failed = FALSE => e <= mem[f].size)
  <2>1. call.end \in Nat /\ call.head \in Nat /\ call.i \in Nat
    BY <1>1, BlockNumbers DEF CallSet
  <2> QED BY <1>1, <1>2, <2>1 DEF Sound, CallOK, WriteOK
<1>4. Ic(f) = mem[f] /\ mem[f].size \in Nat /\ f \in Inos
  <2>1. f \in Inos /\ Ic(f) = mem[f]
    BY <1>1, <1>2, LastFacts DEF Ic, Sound
  <2>2. Ic(f) \in Icommon
    BY <1>1, <2>1, IcFacts DEF Sound
  <2> QED BY <2>1, <2>2, Consts DEF Icommon
<1>5. Hi(f) = mem[f].size \div BLOCK_SIZE
  <2>1. Hi(f) = LastOf(Ic(f))
    BY <1>1 DEF Hi, AllocAt
  <2> QED BY <1>1, <1>2, <1>4, <2>1, LastFacts DEF Sound
<1>6. call.failed = FALSE => call.i <= Hi(f)
  <2> SUFFICES ASSUME e <= mem[f].size PROVE call.i <= Hi(f)
    BY <1>3
  <2>1. PICK d \in Nat : d = e - 1 /\ d <= mem[f].size
    BY <1>3, <1>4
  <2>2. d \div BLOCK_SIZE <= mem[f].size \div BLOCK_SIZE
    BY <1>4, <2>1, DivMono, Consts
  <2>3. d \div BLOCK_SIZE \in Nat /\ mem[f].size \div BLOCK_SIZE \in Nat
    BY <1>4, DivBounds, Consts
  <2> QED BY <1>3, <1>5, <2>1, <2>2, <2>3
<1> QED BY <1>1, <1>2, <1>6, PutReason DEF WriteBlock

\* The name in the directory
LEMMA NameReason ==
  ASSUME Ind, EnterName, fault' # FALSE
  PROVE  Reason
<1>1. /\ Types /\ Sound /\ call \in CallSet /\ call.op = "create" /\ call.at = "got"
  <2>1. At({"create"}, "got") /\ "idle" \notin {"create"}
    BY DEF EnterName
  <2>2. Types /\ Sound /\ call \in CallSet /\ call.op \in {"create"} /\ call.at = "got"
    BY <2>1, AtFacts
  <2> QED BY <2>2
<1>2. Growing /\ call.f = ROOT_DIR /\ call.last = call.i /\ call.i \in Nat /\ call.f \in linked
  BY <1>1, GrowFacts, CreateFacts DEF Growing
<1>3. call.failed = FALSE => Hi(call.f) = call.i
  BY <1>1, <1>2 DEF Hi, AllocAt
<1>4. call.failed = FALSE => call.i <= Hi(call.f)
  BY <1>2, <1>3
<1> QED BY <1>1, <1>2, <1>4, PutReason DEF EnterName

\* The address in a table
LEMMA LeafReason ==
  ASSUME Ind, EnterLeaf, fault' # FALSE
  PROVE  Reason
<1>1. /\ Types /\ Sound /\ call \in CallSet /\ call.op \in {"write", "create"} /\ call.at = "walk"
  <2>1. At({"write", "create"}, "walk")
    BY DEF EnterLeaf
  <2> QED BY <2>1, AtFacts
<1> SUFFICES ASSUME ~Reason PROVE FALSE
  OBVIOUS
<1>2. call.i \in Blocks /\ call.i < Reach
  BY <1>1, NoReason
<1>3. GrowOK
  BY <1>1, GrowFacts DEF Growing
<1>4. call.t \in tabs[call.f][1] /\ NDADDR <= call.i
  BY <1>1, <1>2, <1>3 DEF GrowOK
<1>5. Level(call.i) = 1
  BY <1>2, <1>4, LevelFacts
<1> QED BY <1>4, <1>5 DEF EnterLeaf

\* A block of a file that is removed
LEMMA RemoveLeaf ==
  ASSUME Ind, At({"remove"}, "leaf"), ~Reason
  PROVE  Addr(inode[call.f], call.i) = own[call.f][call.i] /\ own[call.f][call.i] \in Data
<1>1. /\ Types /\ Sound /\ call \in CallSet /\ call.op = "remove" /\ call.at = "leaf"
  <2>1. "idle" \notin {"remove"}
    OBVIOUS
  <2>2. Types /\ Sound /\ call \in CallSet /\ call.op \in {"remove"} /\ call.at = "leaf"
    BY <2>1, AtFacts
  <2> QED BY <2>2
<1>2. PICK f \in Inos : f = call.f
  BY <1>1, NoReason
<1>3. PICK i \in Blocks : i = call.i /\ i < Reach /\ own[f][i] # FULL /\ call.spilt = FALSE
  BY <1>1, <1>2, NoReason
<1>4. i * BLOCK_SIZE < inode[f].size
  BY <1>1, <1>2, <1>3, RemoveFacts DEF RemoveOK
<1>5. Way(blk, rest, inode[f], i) = own[f][i] /\ own[f][i] # 0
  BY <1>1, <1>2, <1>3, <1>4 DEF Sound, Removal
<1>6. Addr(inode[f], i) = own[f][i]
  BY <1>3, <1>5, WayAddr
<1>7. own[f][i] \in Data
  BY <1>1, <1>3, <1>5, OwnKinds
<1> QED BY <1>2, <1>3, <1>6, <1>7

\* A table of a file that is removed
LEMMA RemoveTable ==
  ASSUME Ind, At({"remove"}, "tables"), ~Reason
  PROVE  Table(inode[call.f], call.i, call.j) \in tabs[call.f][Level(call.i)]
<1>1. /\ Types /\ Sound /\ call \in CallSet /\ call.op = "remove" /\ call.at = "tables"
  <2>1. "idle" \notin {"remove"}
    OBVIOUS
  <2>2. Types /\ Sound /\ call \in CallSet /\ call.op \in {"remove"} /\ call.at = "tables"
    BY <2>1, AtFacts
  <2> QED BY <2>2
<1>2. call.i \in Blocks /\ call.i < Reach
  BY <1>1, NoReason
<1>3. call.i = NDADDR /\ call.j \in 1..NIADDR /\ call.j <= Level(call.i)
  BY <1>1, <1>2, RemoveFacts DEF RemoveOK
<1>4. Level(call.i) = 1
  BY <1>2, <1>3, LevelFacts, Consts
<1>5. call.j = 1
  BY <1>3, <1>4 DEF NIADDR
<1>6. inode[call.f].ib[1] \in tabs[call.f][1]
  BY <1>1, <1>2 DEF Sound, Removal
<1> QED BY <1>4, <1>5, <1>6 DEF Table

\* Only blocks behind two tables, a full disk, or a table that has received a list of
\* free blocks make a call write or free a block that is not its file's.
THEOREM FaultCorrect == BlocksSpec => FaultOnlyWhen
<1>1. ASSUME Ind, BlocksNext, fault', ~fault PROVE Reason
  <2>1. fault' # fault /\ fault' # FALSE
    BY <1>1
  <2>2. CASE WipeRootEntry \/ WriteBlock \/ EnterName \/ EnterLeaf
    BY <1>1, <2>1, <2>2, WipeReason, WriteReason, NameReason, LeafReason
  <2>3. CASE FreeLeaf
    BY <1>1, <2>1, <2>3, RemoveLeaf DEF FreeLeaf
  <2>4. CASE FreeTable
    BY <1>1, <2>1, <2>4, RemoveTable DEF FreeTable
  <2>5. CASE FreeCrash
    BY <1>1, <2>1, <2>5, RemoveLeaf, RemoveTable DEF FreeCrash
  <2>6. CASE Crash \/ WipeRoot \/ Grown
    BY <2>1, <2>6 DEF Crash, WipeRoot, Grown
  <2>7. CASE AllocData \/ EnterDirect \/ NewTop \/ OldTop \/ OldChild \/ NewChild \/ WriteChild
    BY <2>1, <2>7 DEF AllocData, EnterDirect, NewTop, OldTop, OldChild, NewChild, WriteChild
  <2>8. CASE \E f \in Inos : Open(f) \/ Close(f) \/ Unlink(f)
    BY <2>1, <2>8 DEF Open, Close, Unlink
  <2>9. CASE \E f \in Inos, head \in Heads, n \in Lengths : Write(f, head, n)
    BY <2>1, <2>9 DEF Write
  <2>10. CASE Create \/ CreateBlock \/ CreateInode \/ EnterSize \/ FreeInode
    BY <2>1, <2>10 DEF Create, CreateBlock, CreateInode, EnterSize, FreeInode
  <2> QED BY <1>1, <2>2, <2>3, <2>4, <2>5, <2>6, <2>7, <2>8, <2>9, <2>10 DEF BlocksNext, AllocateDataBlockAddr
<1>2. Ind /\ [BlocksNext]_<<vars, blockVars>> => [(fault' /\ ~fault) => Reason]_<<vars, blockVars>>
  BY <1>1
<1>3. BlocksSpec => [][(fault' /\ ~fault) => Reason]_<<vars, blockVars>>
  BY <1>2, BlocksInvariance, PTL DEF BlocksSpec
<1> QED BY <1>3 DEF FaultOnlyWhen, Reason
=============================================================================
