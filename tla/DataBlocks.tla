----------------------------- MODULE DataBlocks -----------------------------
(***************************************************************************)
(* The blocks of files and of a directory: getDataBlockAddr,               *)
(* allocateDataBlockAddr, allocateDataBlocks, freeDataBlocks and the calls *)
(* that use them (creation, fwrite, unlink), on top of the free list of    *)
(* BlockAlloc, whose actions are steps of the calls here.                  *)
(*                                                                         *)
(* A call runs alone, but it is several disk writes; "call" says how far   *)
(* it is, and power may be lost between two steps.  A block holds LS       *)
(* addresses: a table of an inode uses all of them, a list of free blocks  *)
(* the first LIST (blk of BlockAlloc; "rest" holds the others).  Sizes     *)
(* count words of one directory entry.                                     *)
(***************************************************************************)
EXTENDS BlockAlloc

CONSTANTS
  NDADDR,      \* direct addresses in an inode, 11 in the code
  LS,          \* addresses in a block, 128 in the code
  BLOCK_SIZE,  \* words in a block, 16 entries in the code
  INODES,      \* inodes on the disk
  MAX_SIZE,    \* bound on the sizes of files and of the directory
  EVENTS,      \* bound on the number of losses of power and removals of files
  Heads,       \* positions to which programs seek
  Lengths      \* numbers of words that one fwrite writes

ASSUME DataBlocksAssumption ==
  /\ NDADDR \in Nat \ {0} /\ LS \in Nat /\ LIST <= LS
  /\ BLOCK_SIZE \in Nat \ {0} /\ INODES \in Nat \ {0}
  /\ INODES <= MAX_SIZE /\ MAX_SIZE \div BLOCK_SIZE < NDADDR + LS + LS * LS + LS * LS * LS
  /\ MAX_SIZE \in Nat /\ EVENTS \in Nat /\ Heads \subseteq Nat /\ Lengths \subseteq Nat \ {0}

NIADDR   == 3
ROOT_DIR == 0
Inos     == 0..(INODES - 1)
Blocks   == 0..(MAX_SIZE \div BLOCK_SIZE)
Addrs    == Data \cup {0, SBLKNO, FULL}
Upper    == LIST..(LS - 1)
Icommon  == [mode : {"IFZERO", "IFDIR", "IFREG"}, size : 0..MAX_SIZE,
             db : [0..(NDADDR - 1) -> Addrs], ib : [1..NIADDR -> Addrs]]

VARIABLES
  rest,    \* the addresses behind the first LIST in each data block
  inode,   \* the inodes on the disk
  mem,     \* the copy of an open file's inode in the AIT, or CLOSED
  call,    \* the system call in progress and its local variables
  linked,  \* auxiliary: the files that are in the directory
  own,     \* auxiliary: the block that was last given to each block number of a file, until it is freed
  tabs,    \* auxiliary: the blocks that each level of a file has as tables
  lossy,   \* auxiliary: something has happened that loses blocks
  events,  \* auxiliary: the number of losses of power and removals so far
  fault    \* a call has written or freed a block that is not its file's; the model ends here

blockVars == <<rest, inode, mem, call, linked, own, tabs, lossy, events, fault>>

CLOSED == [mode |-> "CLOSED"]
NoBlocks == [b \in Blocks |-> 0]
NoTables == [l \in 1..NIADDR |-> {}]
UnusedInode == [mode |-> "IFZERO", size |-> 0,
                db |-> [i \in 0..(NDADDR - 1) |-> 0], ib |-> [i \in 1..NIADDR |-> 0]]

-----------------------------------------------------------------------------
(* Where the number of a block leads: the direct addresses, or a table of    *)
(* tables of level 1, 2 or 3.                                                *)

\* The number of blocks that tables of a level lead to
Span(l) == CASE l = 0 -> 1 [] l = 1 -> LS [] l = 2 -> LS * LS [] l = 3 -> LS * LS * LS

\* The first block number of a level, counting from NDADDR
Base(l) == CASE l = 1 -> NDADDR [] l = 2 -> NDADDR + LS [] l = 3 -> NDADDR + LS + LS * LS

Level(b) == IF b < NDADDR THEN 0
            ELSE CHOOSE l \in 1..NIADDR : Base(l) <= b /\ b < Base(l) + Span(l)

Rel(b) == b - Base(Level(b))

\* The entry to follow in the table at depth j
Entry(b, j) == (Rel(b) \div Span(Level(b) - j)) % LS

\* The addresses that a block holds
Contents(a) == IF a \in Data THEN [j \in 0..(LS - 1) |-> IF j < LIST THEN blk[a][j] ELSE rest[a][j]]
               ELSE [j \in 0..(LS - 1) |-> 0]

\* The table at depth j on the way to block b of an inode
Table(ic, b, j) ==
  LET top == ic.ib[Level(b)]
      mid == Contents(top)[Entry(b, 1)]
  IN CASE j = 1 -> top [] j = 2 -> mid [] j = 3 -> Contents(mid)[Entry(b, 2)]

\* getDataBlockAddr
Addr(ic, b) == IF Level(b) = 0 THEN ic.db[b]
               ELSE Contents(Table(ic, b, Level(b)))[Entry(b, Level(b))]

-----------------------------------------------------------------------------
(* The inodes, and the call in progress. *)

Ic(f) == IF mem[f] = CLOSED THEN inode[f] ELSE mem[f]

\* writeInode of an inode that may also be in memory
PutIc(f, ic) ==
  /\ inode' = [inode EXCEPT ![f] = ic]
  /\ mem' = IF mem[f] = CLOSED THEN mem ELSE [mem EXCEPT ![f] = ic]

Idle == [op |-> "idle"]

\* A call that works on inode f from block number i up to last
Calling(op, at, f, i, last) ==
  [op |-> op, at |-> at, f |-> f, i |-> i, last |-> last, addr |-> 0, t |-> 0, j |-> 1,
   head |-> 0, end |-> 0, new |-> f, failed |-> FALSE, spilt |-> FALSE]

At(op, at) == call.op \in op /\ call.at = at /\ ~fault

\* disk_wr of addresses c to block a
PutContents(a, c) ==
  /\ blk' = [blk EXCEPT ![a] = [j \in Index |-> c[j]]]
  /\ rest' = [rest EXCEPT ![a] = [j \in Upper |-> c[j]]]

\* disk_wr of file data
PutData(a) == PutContents(a, [j \in 0..(LS - 1) |-> 0])

\* disk_wr of one block of data or of directory entries
PutBlock(f, i) ==
  LET a == Addr(Ic(f), i)
  IN /\ fault' = (a \notin Data \/ a # own[f][i])
     /\ IF a \in Data THEN PutData(a) ELSE UNCHANGED <<blk, rest>>

listVars == <<fdb, fdbhead, sb, chain, used, ret, wiped>>

Balloc == BallocList \/ BallocRefill \/ BallocFull

-----------------------------------------------------------------------------
(* Power on, wipe, and loss of power. *)

\* The superblock and the list blocks are written; wipe has still to make the root
BlocksInit ==
  /\ Init
  /\ rest = [a \in Data |-> [j \in Upper |-> 0]]
  /\ inode = [f \in Inos |-> UnusedInode]
  /\ mem = [f \in Inos |-> CLOSED]
  /\ call = Calling("wipe", "root", ROOT_DIR, 0, 0)
  /\ linked = {}
  /\ own = [f \in Inos |-> NoBlocks]
  /\ tabs = [f \in Inos |-> NoTables]
  /\ lossy = FALSE /\ events = 0 /\ fault = FALSE

\* The root directory gets its block
WipeRoot ==
  /\ At({"wipe"}, "root")
  /\ Balloc
  /\ inode' = [inode EXCEPT ![ROOT_DIR].mode = "IFDIR", ![ROOT_DIR].size = 1, ![ROOT_DIR].db[0] = ret']
  /\ own' = [own EXCEPT ![ROOT_DIR][0] = ret']
  /\ linked' = {ROOT_DIR}
  /\ call' = [call EXCEPT !.at = "entry"]
  /\ UNCHANGED <<rest, mem, tabs, lossy, events, fault>>

\* and in it its one entry, "."
WipeRootEntry ==
  /\ At({"wipe"}, "entry")
  /\ PutBlock(ROOT_DIR, 0)
  /\ call' = Idle
  /\ UNCHANGED <<listVars, inode, mem, linked, own, tabs, lossy, events>>

\* The blocks that a file of this size has: one behind the end when the size is a
\* multiple of the block size; a directory has none behind its last entry
BlocksOf(ic) == IF ic.mode = "IFDIR" THEN 0..((ic.size - 1) \div BLOCK_SIZE)
                ELSE 0..(ic.size \div BLOCK_SIZE)

Tables(ic) == UNION {{Table(ic, b, j) : j \in 1..Level(b)} : b \in BlocksOf(ic)}

\* Power is lost and the kernel boots: what is left is what the disk holds
Forget ==
  /\ ~fault
  /\ call.op # "wipe"
  /\ events < EVENTS
  /\ mem' = [f \in Inos |-> CLOSED]
  /\ call' = Idle
  /\ own' = [f \in Inos |-> [b \in Blocks |->
               IF f \in linked /\ b \in BlocksOf(inode[f]) THEN own[f][b] ELSE 0]]
  /\ tabs' = [f \in Inos |-> [l \in 1..NIADDR |->
                IF f \in linked THEN tabs[f][l] \cap Tables(inode[f]) ELSE {}]]
  /\ lossy' = TRUE
  /\ events' = events + 1
  /\ UNCHANGED <<rest, inode, linked>>

Crash == Reboot /\ Forget /\ UNCHANGED fault

-----------------------------------------------------------------------------
(* allocateDataBlockAddr. *)

\* What the caller does next, after the block was entered or could not be had
Allocated ==
  IF call.op = "write" /\ call.i < call.last
    THEN call' = [call EXCEPT !.at = "alloc", !.i = @ + 1, !.j = 1]
    ELSE call' = [call EXCEPT !.at = "got"]

Fails == call' = [call EXCEPT !.at = "got", !.failed = TRUE] /\ lossy' = TRUE

\* The data block
AllocData ==
  /\ At({"write", "create"}, "alloc")
  /\ Balloc
  /\ \/ ret' = FULL /\ Fails
     \/ /\ ret' # FULL
        /\ call' = [call EXCEPT !.at = IF Level(call.i) = 0 THEN "direct" ELSE "top", !.addr = ret']
        /\ UNCHANGED lossy
  /\ UNCHANGED <<rest, inode, mem, linked, own, tabs, events, fault>>

EnterDirect ==
  /\ At({"write", "create"}, "direct")
  /\ PutIc(call.f, [Ic(call.f) EXCEPT !.db[call.i] = call.addr])
  /\ own' = [own EXCEPT ![call.f][call.i] = call.addr]
  /\ Allocated
  /\ UNCHANGED <<listVars, blk, rest, linked, tabs, lossy, events, fault>>

\* The first block of a level needs the table at the top
NewTop ==
  /\ At({"write", "create"}, "top")
  /\ Rel(call.i) = 0
  /\ Balloc
  /\ \/ ret' = FULL /\ Fails /\ UNCHANGED <<inode, mem, tabs>>
     \/ /\ ret' # FULL
        /\ PutIc(call.f, [Ic(call.f) EXCEPT !.ib[Level(call.i)] = ret'])
        /\ tabs' = [tabs EXCEPT ![call.f][Level(call.i)] = @ \cup {ret'}]
        /\ call' = [call EXCEPT !.at = "walk", !.t = ret']
        /\ UNCHANGED lossy
  /\ UNCHANGED <<rest, linked, own, events, fault>>

OldTop ==
  /\ At({"write", "create"}, "top")
  /\ Rel(call.i) # 0
  /\ call' = [call EXCEPT !.at = "walk", !.t = Ic(call.f).ib[Level(call.i)]]
  /\ UNCHANGED <<vars, rest, inode, mem, linked, own, tabs, lossy, events, fault>>

FirstBelow(b, j) == Rel(b) % Span(Level(b) - j) = 0

\* A table below the top: an old one is followed
OldChild ==
  /\ At({"write", "create"}, "walk")
  /\ call.j < Level(call.i)
  /\ ~FirstBelow(call.i, call.j)
  /\ call' = [call EXCEPT !.t = Contents(call.t)[Entry(call.i, call.j)], !.j = @ + 1]
  /\ UNCHANGED <<vars, rest, inode, mem, linked, own, tabs, lossy, events, fault>>

\* A new one is allocated; the contents of its parent, with its address entered,
\* are then written to the new table itself
NewChild ==
  /\ At({"write", "create"}, "walk")
  /\ call.j < Level(call.i)
  /\ FirstBelow(call.i, call.j)
  /\ Balloc
  /\ \/ ret' = FULL /\ Fails
     \/ ret' # FULL /\ call' = [call EXCEPT !.at = "child"] /\ UNCHANGED lossy
  /\ UNCHANGED <<rest, inode, mem, linked, own, tabs, events, fault>>

WriteChild ==
  /\ At({"write", "create"}, "child")
  /\ PutContents(ret, [Contents(call.t) EXCEPT ![Entry(call.i, call.j)] = ret])
  /\ tabs' = [tabs EXCEPT ![call.f][Level(call.i)] = @ \cup {ret}]
  /\ call' = [call EXCEPT !.at = "walk", !.t = ret, !.j = @ + 1]
  /\ UNCHANGED <<listVars, inode, mem, linked, own, lossy, events, fault>>

\* Mutant of EnterLeaf: the table is changed in memory and not written back
EnterLeafUnwritten ==
  /\ At({"write", "create"}, "walk")
  /\ call.j = Level(call.i)
  /\ fault' = (call.t \notin tabs[call.f][Level(call.i)])
  /\ own' = [own EXCEPT ![call.f][call.i] = call.addr]
  /\ Allocated
  /\ UNCHANGED <<vars, rest, inode, mem, linked, tabs, lossy, events>>

\* The address of the data block goes into the last table
EnterLeaf ==
  /\ At({"write", "create"}, "walk")
  /\ call.j = Level(call.i)
  /\ fault' = (call.t \notin tabs[call.f][Level(call.i)])
  /\ IF call.t \in Data
       THEN PutContents(call.t, [Contents(call.t) EXCEPT ![Entry(call.i, call.j)] = call.addr])
       ELSE UNCHANGED <<blk, rest>>
  /\ own' = [own EXCEPT ![call.f][call.i] = call.addr]
  /\ Allocated
  /\ UNCHANGED <<listVars, inode, mem, linked, tabs, lossy, events>>

-----------------------------------------------------------------------------
(* open, fwrite and close of a file. *)

Open(f) ==
  /\ call = Idle /\ ~fault
  /\ f \in linked \ {ROOT_DIR} /\ mem[f] = CLOSED
  /\ mem' = [mem EXCEPT ![f] = inode[f]]
  /\ UNCHANGED <<vars, rest, inode, call, linked, own, tabs, lossy, events, fault>>

Close(f) ==
  /\ call = Idle /\ ~fault
  /\ mem[f] # CLOSED
  /\ inode' = [inode EXCEPT ![f] = mem[f]]
  /\ mem' = [mem EXCEPT ![f] = CLOSED]
  /\ UNCHANGED <<vars, rest, call, linked, own, tabs, lossy, events, fault>>

\* fwrite of n words at position head; allocateDataBlocks comes first, if needed
Write(f, head, n) ==
  LET b == mem[f].size \div BLOCK_SIZE + 1
      e == (head + n) \div BLOCK_SIZE
      at == CASE head + n <= mem[f].size -> "data" [] b <= e -> "alloc" [] OTHER -> "got"
  IN /\ call = Idle /\ ~fault
     /\ mem[f] # CLOSED
     /\ head + n <= MAX_SIZE
     /\ call' = [Calling("write", at, f, IF at = "alloc" THEN b ELSE head \div BLOCK_SIZE, e)
                   EXCEPT !.head = head, !.end = head + n]
     /\ UNCHANGED <<vars, rest, inode, mem, linked, own, tabs, lossy, events, fault>>

\* Mutant of Grown: the size grows although the disk is full
GrownAlways ==
  /\ At({"write"}, "got")
  /\ mem' = [mem EXCEPT ![call.f].size = call.end]
  /\ call' = [call EXCEPT !.at = "data", !.i = call.head \div BLOCK_SIZE]
  /\ UNCHANGED <<vars, rest, inode, linked, own, tabs, lossy, events, fault>>

\* The end of allocateDataBlocks: the new size, in memory only; after a failure
\* fwrite goes on all the same
Grown ==
  /\ At({"write"}, "got")
  /\ mem' = IF call.failed THEN mem ELSE [mem EXCEPT ![call.f].size = call.end]
  /\ call' = [call EXCEPT !.at = "data", !.i = call.head \div BLOCK_SIZE]
  /\ UNCHANGED <<vars, rest, inode, linked, own, tabs, lossy, events, fault>>

WriteBlock ==
  /\ At({"write"}, "data")
  /\ PutBlock(call.f, call.i)
  /\ call' = IF call.i < (call.end - 1) \div BLOCK_SIZE THEN [call EXCEPT !.i = @ + 1] ELSE Idle
  /\ UNCHANGED <<listVars, inode, mem, linked, own, tabs, lossy, events>>

-----------------------------------------------------------------------------
(* The end of path_to_ino2: a new file in the directory. *)

FreeInodes == {f \in Inos : inode[f].mode = "IFZERO"}

Create ==
  LET root == inode[ROOT_DIR]
      new  == CHOOSE f \in FreeInodes : \A g \in FreeInodes : f <= g
      b    == root.size \div BLOCK_SIZE
  IN /\ call = Idle /\ ~fault
     /\ FreeInodes # {}
     /\ call' = [Calling("create", "first", ROOT_DIR, b, b) EXCEPT !.new = new]
     /\ UNCHANGED <<vars, rest, inode, mem, linked, own, tabs, lossy, events, fault>>

\* The first data block; that there is none goes unnoticed
CreateBlock ==
  /\ At({"create"}, "first")
  /\ Balloc
  /\ call' = [call EXCEPT !.at = "inode", !.addr = ret']
  /\ UNCHANGED <<rest, inode, mem, linked, own, tabs, lossy, events, fault>>

\* writeInode: the variable last held the parent, whose other addresses stay in it;
\* then addInodeToDirectory, which needs a block when the last one is full
CreateInode ==
  LET root == inode[ROOT_DIR]
  IN /\ At({"create"}, "inode")
     /\ inode' = [inode EXCEPT ![call.new] =
                    [root EXCEPT !.mode = "IFREG", !.size = 0, !.db[0] = call.addr]]
     /\ own' = [own EXCEPT ![call.new][0] = call.addr]
     /\ call' = [call EXCEPT !.at = IF root.size % BLOCK_SIZE = 0 /\ root.size > 0 THEN "alloc" ELSE "got"]
     /\ UNCHANGED <<vars, rest, mem, linked, tabs, lossy, events, fault>>

\* Mutant of EnterName: the entry goes to the block behind
EnterNameBehind ==
  /\ At({"create"}, "got")
  /\ PutBlock(ROOT_DIR, call.i + 1)
  /\ call' = [call EXCEPT !.at = "size"]
  /\ UNCHANGED <<listVars, inode, mem, linked, own, tabs, lossy, events>>

EnterName ==
  /\ At({"create"}, "got")
  /\ PutBlock(ROOT_DIR, call.i)
  /\ call' = [call EXCEPT !.at = "size"]
  /\ UNCHANGED <<listVars, inode, mem, linked, own, tabs, lossy, events>>

EnterSize ==
  /\ At({"create"}, "size")
  /\ inode' = [inode EXCEPT ![ROOT_DIR].size = @ + 1]
  /\ linked' = linked \cup {call.new}
  /\ call' = Idle
  /\ UNCHANGED <<vars, rest, mem, own, tabs, lossy, events, fault>>

-----------------------------------------------------------------------------
(* unlink of a closed file, with freeDataBlocks. *)

\* The entry goes; a directory that shrinks to full blocks has one too many, which
\* the next entry will not find
Unlink(f) ==
  LET n == inode[ROOT_DIR].size - 1
  IN /\ call = Idle /\ ~fault
     /\ f \in linked \ {ROOT_DIR} /\ mem[f] = CLOSED
     /\ events < EVENTS
     /\ inode' = [inode EXCEPT ![ROOT_DIR].size = n]
     /\ linked' = linked \ {f}
     /\ lossy' = (lossy \/ n % BLOCK_SIZE = 0)
     /\ call' = Calling("remove", IF inode[f].size > 0 THEN "leaf" ELSE "free", f, 0, 0)
     /\ events' = events + 1
     /\ UNCHANGED <<vars, rest, mem, own, tabs, fault>>

Bfree(a) == IF a \in Data THEN BfreeList(a) \/ BfreeSpill(a) ELSE UNCHANGED vars

\* After block i and its tables: the next one, as long as it starts in the file
NextLeaf ==
  IF (call.i + 1) * BLOCK_SIZE < inode[call.f].size
    THEN [call EXCEPT !.at = "leaf", !.i = @ + 1]
    ELSE [call EXCEPT !.at = "free"]

\* Mutant of FreedTables: tables are not freed
FreedTablesNone(b) == {}

\* The tables that are freed along with block b, the deepest first
FreedTables(b) == {j \in 1..Level(b) : Rel(b) % Span(Level(b) - j + 1) = 0}

FreeLeaf ==
  LET a == Addr(inode[call.f], call.i)
  IN /\ At({"remove"}, "leaf")
     /\ Bfree(a)
     /\ fault' = (a \notin Data \/ a # own[call.f][call.i])
     /\ call' = IF FreedTables(call.i) = {} THEN NextLeaf
                ELSE [call EXCEPT !.at = "tables", !.j = Level(call.i)]
     /\ own' = [own EXCEPT ![call.f][call.i] = 0]
     /\ UNCHANGED <<rest, inode, mem, linked, tabs, lossy, events>>

FreeTable ==
  LET a == Table(inode[call.f], call.i, call.j)
  IN /\ At({"remove"}, "tables")
     /\ Bfree(a)
     /\ fault' = (a \notin tabs[call.f][Level(call.i)])
     /\ tabs' = [tabs EXCEPT ![call.f][Level(call.i)] = @ \ {a}]
     /\ call' = [IF call.j - 1 \in FreedTables(call.i) THEN [call EXCEPT !.j = @ - 1] ELSE NextLeaf
                   EXCEPT !.spilt = @ \/ (fdbhead = LIST - 1)]
     /\ UNCHANGED <<rest, inode, mem, linked, own, lossy, events>>

\* The inode is freed; the addresses that stay in it are not read again
FreeInode ==
  /\ At({"remove"}, "free")
  /\ inode' = [inode EXCEPT ![call.f] = UnusedInode]
  /\ own' = [own EXCEPT ![call.f] = NoBlocks]
  /\ tabs' = [tabs EXCEPT ![call.f] = NoTables]
  /\ lossy' = \/ lossy \/ inode[call.f].size % BLOCK_SIZE = 0
               \/ \E b \in BlocksOf(inode[call.f]) : Level(b) > 1
  /\ call' = Idle
  /\ UNCHANGED <<vars, rest, mem, linked, events, fault>>

\* Power is lost between the two writes of a bfree
FreeCrash ==
  /\ \E a \in Data :
       /\ \/ /\ At({"remove"}, "leaf") /\ a = Addr(inode[call.f], call.i)
             /\ fault' = (a # own[call.f][call.i])
          \/ /\ At({"remove"}, "tables") /\ a = Table(inode[call.f], call.i, call.j)
             /\ fault' = (a \notin tabs[call.f][Level(call.i)])
       /\ BfreeSpillCrash(a)
  /\ Forget

AllocateDataBlockAddr ==
  AllocData \/ EnterDirect \/ NewTop \/ OldTop \/ OldChild \/ NewChild \/ WriteChild \/ EnterLeaf

BlocksNext ==
  \/ Crash \/ FreeCrash
  \/ WipeRoot \/ WipeRootEntry \/ AllocateDataBlockAddr \/ Grown \/ WriteBlock
  \/ \E f \in Inos : Open(f) \/ Close(f) \/ Unlink(f)
  \/ \E f \in Inos, head \in Heads, n \in Lengths : Write(f, head, n)
  \/ Create \/ CreateBlock \/ CreateInode \/ EnterName \/ EnterSize
  \/ FreeLeaf \/ FreeTable \/ FreeInode

BlocksSpec == BlocksInit /\ [][BlocksNext]_<<vars, blockVars>>

-----------------------------------------------------------------------------
(* Properties. *)

\* Every variable has its type.
BlocksTypeOK ==
  /\ TypeOK
  /\ rest \in [Data -> [Upper -> Addrs]]
  /\ inode \in [Inos -> Icommon]
  /\ mem \in [Inos -> Icommon \cup {CLOSED}]
  /\ linked \subseteq Inos
  /\ own \in [Inos -> [Blocks -> Addrs]]
  /\ tabs \in [Inos -> [1..NIADDR -> SUBSET Data]]
  /\ {lossy, fault} \subseteq BOOLEAN /\ events \in 0..EVENTS

\* The copies of a file's inode, in memory and on the disk
Copies(f) == {inode[f], mem[f]} \ {CLOSED}

\* The blocks with at most one table on the way, and what they take of the disk
Near(ic)   == {b \in BlocksOf(ic) : Level(b) <= 1}
Leaves(ic) == {Addr(ic, b) : b \in Near(ic)} \ {FULL}
Owned(ic)  == Leaves(ic) \cup (IF Near(ic) \subseteq 0..(NDADDR - 1) THEN {} ELSE {ic.ib[1]})

\* Reading a file finds the block that was allocated for that part of it, through
\* direct and single indirect addresses, in memory and, after a loss of power, on the
\* disk.  The variables have their types.
MapsKept ==
  /\ BlocksTypeOK
  /\ ~fault => \A f \in linked : \A ic \in Copies(f) : \A b \in Near(ic) : Addr(ic, b) = own[f][b]

\* README.md: "Supports direct and indirect blocks (filesize limit of ~1GB, however, has
\* only been tested to around 400kB)."  Reading a file finds the block that was allocated
\* for that part of it, behind any number of tables; no power is lost and the disk is
\* never full.
AllMapsKept ==
  ~lossy => \A f \in linked : \A ic \in Copies(f) : \A b \in BlocksOf(ic) : Addr(ic, b) = own[f][b]

\* No block serves two purposes: the data blocks and tables of all files and of the
\* directory are different, and none of them is in the free list, which survives what
\* the file calls write into blocks and tables.
NoSharing ==
  ~fault =>
    /\ Linked /\ Disjoint
    /\ \A f \in linked : \A ic \in Copies(f) :
      /\ Owned(ic) \subseteq used
      /\ \A b, c \in Near(ic) : b # c => Addr(ic, b) # Addr(ic, c)
      /\ Near(ic) \subseteq 0..(NDADDR - 1) \/ ic.ib[1] \notin Leaves(ic)
      /\ \A g \in linked \ {f} : Owned(ic) \cap Owned(Ic(g)) = {}

\* Between calls every block is free or belongs to a file, unless power was lost, the
\* disk was full, a file with blocks behind two tables, or whose size is a multiple of
\* the block size, was removed, or the directory shrank to full blocks.
NothingLost ==
  (call = Idle /\ ~lossy /\ ~fault /\ \A f \in linked : Near(Ic(f)) = BlocksOf(Ic(f))) =>
    used = UNION {Owned(Ic(f)) : f \in linked}

\* A call writes or frees a block that is not its file's only if the block is reached
\* through two or more tables, if the disk was full during that call or when the file
\* was created, or if the table that leads to the block was freed before and has
\* received a list of free blocks.
FaultOnlyWhen ==
  [][(fault' /\ ~fault) =>
       \/ Level(call.i) > 1
       \/ call.failed
       \/ own[call.f][call.i] = FULL
       \/ call.op = "remove" /\ call.spilt]_<<vars, blockVars>>
=============================================================================
