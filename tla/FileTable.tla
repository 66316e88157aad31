----------------------------- MODULE FileTable -----------------------------
(***************************************************************************)
(* The tables behind the POSIX calls of kernel.c: the descriptor table of  *)
(* each process, the open file table (OFT) and the active inode table      *)
(* (AIT) in memory; the inodes and the root directory on the disk.         *)
(*                                                                         *)
(* A system call runs with interrupts off, so each is one step; processes  *)
(* call in any order.  A file is its size and the set of its blocks that   *)
(* have been allocated; what the blocks hold is left out.  Sizes count     *)
(* words of 8 bytes, the size of an object file; the size of the directory *)
(* counts entries.  Files use direct blocks only, and the directory fits   *)
(* its first block.                                                        *)
(*                                                                         *)
(* There are no names here.  Which entry a path leads to depends on stale  *)
(* bytes, on names that are entered twice and on a block that is not       *)
(* searched: that is the subject of module Directory.  In this module a    *)
(* path leads to any entry or to none, whatever the lookup makes of it.    *)
(***************************************************************************)
EXTENDS Integers, SequencesExt, FiniteSets

CONSTANTS
  PROCESS_LIMIT,  \* slots of the process table
  FDT_LIMIT,      \* descriptors per process
  OFT_LIMIT,      \* entries of the OFT; fs.h has FDT_LIMIT * PROCESS_LIMIT
  AIT_LIMIT,      \* entries of the AIT; fs.h has OFT_LIMIT
  INODES,         \* inodes on the disk
  BLOCK_SIZE,     \* words in a block
  MAX_SIZE,       \* bound on file sizes and positions
  Lengths,        \* numbers of words that one call reads or writes
  MayFill         \* whether balloc may find the disk full

ASSUME FileAssumption ==
  /\ PROCESS_LIMIT \in Nat \ {0} /\ FDT_LIMIT \in Nat \ {0}
  /\ OFT_LIMIT \in Nat \ {0} /\ AIT_LIMIT \in Nat \ {0}
  /\ INODES \in Nat \ {0, 1}
  /\ BLOCK_SIZE \in Nat \ {0} /\ MAX_SIZE \in Nat \ {0} /\ Lengths \subseteq Nat \ {0}
  /\ MayFill \in BOOLEAN

NULL     == 0
ROOT_DIR == 0

Pids   == 0..(PROCESS_LIMIT - 1)
Fds    == 1..FDT_LIMIT
Ofiles == 1..OFT_LIMIT
Actives == 1..AIT_LIMIT
Inos   == 0..(INODES - 1)
Blocks == 0..(MAX_SIZE \div BLOCK_SIZE)
Icommon == [mode : {"IFZERO", "IFDIR", "IFREG"}, size : 0..(MAX_SIZE + INODES), db : SUBSET Blocks]

VARIABLES
  fd,     \* pcb[ p ].fd: index into of, or NULL
  of,     \* open file table: o_inptr (index into ai, or NULL) and o_head
  ai,     \* active inode table: i_number, i_links and i_ic
  inode,  \* the inodes on the disk
  dir,    \* d_ino in the slots of the root directory; its size says how many count
  len     \* auxiliary: the size that the writes so far have given to each file

fileVars == <<fd, of, ai, inode, dir, len>>

\* The tables as one value, for the functions that a system call is made of
Tables == [fd |-> fd, of |-> of, ai |-> ai, inode |-> inode, dir |-> dir]

Become(t) ==
  /\ fd' = t.fd /\ of' = t.of /\ ai' = t.ai /\ inode' = t.inode /\ dir' = t.dir

Closed(t, p, f) == t.fd[p][f] = NULL

-----------------------------------------------------------------------------
(* Power on, with the disk as wipe leaves it: "." and an object file. *)

UnusedInode == [mode |-> "IFZERO", size |-> 0, db |-> {}]

NoDescriptors == [p \in Pids |-> [f \in Fds |-> NULL]]
NoOpenFiles   == [o \in Ofiles |-> [inptr |-> NULL, head |-> 0]]
NoActives     == [a \in Actives |-> [number |-> 0, links |-> 0, ic |-> UnusedInode]]

Sizes == [i \in Inos |-> IF inode[i].mode = "IFREG" THEN inode[i].size ELSE 0]

Init ==
  /\ fd = NoDescriptors /\ of = NoOpenFiles /\ ai = NoActives
  /\ inode = [i \in Inos |-> CASE i = ROOT_DIR -> [mode |-> "IFDIR", size |-> 2, db |-> {0}]
                               [] i = 1        -> [mode |-> "IFREG", size |-> 1, db |-> 0..(1 \div BLOCK_SIZE)]
                               [] OTHER        -> UnusedInode]
  /\ dir = <<ROOT_DIR, 1>>
  /\ len = Sizes

\* The machine is switched off and on: the memory is zeroed, the disk stays
Reboot ==
  /\ fd' = NoDescriptors /\ of' = NoOpenFiles /\ ai' = NoActives
  /\ len' = Sizes
  /\ UNCHANGED <<inode, dir>>

-----------------------------------------------------------------------------
(* The root directory. *)

Entries(t) == 1..t.inode[ROOT_DIR].size

\* The entries that a path may lead to.  The calls do not keep "." from being
\* opened like a file; what comes of it is part of module Directory (its Close).
Files(t) == {i \in Entries(t) : t.dir[i] # ROOT_DIR}

FreeInodes(t) == {i \in Inos : t.inode[i].mode = "IFZERO"}

\* addInodeToDirectory: the slot behind the last entry, then the parent's size
AddToDirectory(t, ino) ==
  LET n == t.inode[ROOT_DIR].size + 1
  IN [t EXCEPT !.dir = IF n <= Len(t.dir) THEN [t.dir EXCEPT ![n] = ino] ELSE Append(t.dir, ino),
               !.inode[ROOT_DIR].size = n]

\* The end of path_to_ino2: a new inode with its first block, if there is one
CreateFile(t, db) ==
  LET ino == Min(FreeInodes(t))
  IN AddToDirectory([t EXCEPT !.inode[ino] = [mode |-> "IFREG", size |-> 0, db |-> db]], ino)

-----------------------------------------------------------------------------
(* The three tables. *)

GetFD(t, p) == {f \in Fds : Closed(t, p, f)}

GetOFT(t) == {o \in Ofiles : t.of[o].inptr = NULL}

Active(t, ino) == {a \in Actives : t.ai[a].number = ino /\ t.ai[a].ic.mode # "IFZERO"}
Inactive(t)    == {a \in Actives : t.ai[a].ic.mode = "IFZERO"}

\* Mutant of GetAIT: always takes an empty entry
GetAITAgain(t, ino) == IF Inactive(t) = {} THEN NULL ELSE Min(Inactive(t))

\* The AIT entry for an inode: the one it has, else an empty one
GetAIT(t, ino) ==
  CASE Active(t, ino) # {} -> Min(Active(t, ino))
    [] Active(t, ino) = {} /\ Inactive(t) # {} -> Min(Inactive(t))
    [] OTHER -> NULL

\* An inode that is not in the table yet is read from the disk; i_links stays
ReadInode(t, a, ino) ==
  IF a \in Active(t, ino) THEN t
  ELSE [t EXCEPT !.ai[a].number = ino, !.ai[a].ic = t.inode[ino]]

Link(t, p, a) ==
  LET o == Min(GetOFT(t))
  IN [t EXCEPT !.ai[a].links = @ + 1, !.fd[p][Min(GetFD(t, p))] = o, !.of[o].inptr = a]

\* Mutant of OpenInode: the link is counted before the OFT entry is found
OpenInodeCountsFirst(t, p, ino) ==
  LET a == GetAIT(t, ino) IN
  IF a = NULL THEN t
  ELSE LET u == ReadInode(t, a, ino)
       IN IF GetOFT(u) = {} THEN [u EXCEPT !.ai[a].links = @ + 1] ELSE Link(u, p, a)

\* The second half of open: with no OFT entry left the inode stays in the AIT
OpenInode(t, p, ino) ==
  LET a == GetAIT(t, ino) IN
  IF a = NULL THEN t
  ELSE LET u == ReadInode(t, a, ino) IN IF GetOFT(u) = {} THEN u ELSE Link(u, p, a)

\* Mutant of Unlinked: the position is not reset
UnlinkedKeepsHead(t, p, f) ==
  LET o == t.fd[p][f]
  IN [t EXCEPT !.of[o].inptr = NULL, !.fd[p][f] = NULL]

\* close clears the OFT entry and the descriptor
Unlinked(t, p, f) ==
  LET o == t.fd[p][f]
  IN [t EXCEPT !.of[o] = [inptr |-> NULL, head |-> 0], !.fd[p][f] = NULL]

\* An AIT entry is emptied by its mode; what else it holds is not read again
Emptied(t, a) == [t EXCEPT !.ai[a].number = 0, !.ai[a].ic = UnusedInode]

\* Mutant of CloseFile: the inode is not written back
CloseFileForgets(t, p, f) ==
  LET a == t.of[t.fd[p][f]].inptr
      u == [t EXCEPT !.ai[a].links = @ - 1]
      v == IF u.ai[a].links = 0 THEN Emptied(u, a) ELSE u
  IN Unlinked(v, p, f)

\* close: the last one writes the inode back and empties its AIT entry
CloseFile(t, p, f) ==
  LET a == t.of[t.fd[p][f]].inptr
      u == [t EXCEPT !.ai[a].links = @ - 1]
      v == IF u.ai[a].links = 0
             THEN Emptied([u EXCEPT !.inode[u.ai[a].number] = u.ai[a].ic], a)
             ELSE u
  IN Unlinked(v, p, f)

-----------------------------------------------------------------------------
(* The system calls.  A call that fails before it changes anything is no step. *)

\* open of a path that leads to entry i, with either flag
OpenExisting(p, i) ==
  /\ GetFD(Tables, p) # {}
  /\ Become(OpenInode(Tables, p, dir[i]))
  /\ UNCHANGED len

\* open( O_CREAT ) of a path that leads to no entry; a full disk goes unnoticed
\* here, and a full OFT or AIT is noticed only when the file exists
OpenNew(p, db) ==
  /\ GetFD(Tables, p) # {}
  /\ FreeInodes(Tables) # {}
  /\ LET ino == Min(FreeInodes(Tables)) IN
       /\ Become(OpenInode(CreateFile(Tables, db), p, ino))
       /\ len' = [len EXCEPT ![ino] = 0]

Close(p, f) ==
  /\ ~Closed(Tables, p, f)
  /\ Become(CloseFile(Tables, p, f))
  /\ UNCHANGED len

\* allocateDataBlocks: the blocks from behind the last one to the one with the new
\* end; each is entered into the inode on the disk, with the old size
NewBlocks(ic, end) == (ic.size \div BLOCK_SIZE + 1)..(end \div BLOCK_SIZE)

\* Mutant of Grow: the size is set before the blocks are there
GrowFirst(a, end, got) ==
  LET ic == [ai[a].ic EXCEPT !.db = @ \cup got, !.size = end]
  IN /\ ai' = [ai EXCEPT ![a].ic = ic]
     /\ inode' = IF got = {} THEN inode ELSE [inode EXCEPT ![ai[a].number] = ic]
     /\ len' = [len EXCEPT ![ai[a].number] = end]

\* The inode after an extension to end that was given the blocks got
Grow(a, end, got) ==
  LET ic   == [ai[a].ic EXCEPT !.db = @ \cup got]
      done == got = NewBlocks(ic, end)
  IN /\ ai' = [ai EXCEPT ![a].ic = IF done THEN [ic EXCEPT !.size = end] ELSE ic]
     /\ inode' = IF got = {} THEN inode ELSE [inode EXCEPT ![ai[a].number] = ic]
     /\ len' = IF done THEN [len EXCEPT ![ai[a].number] = end] ELSE len

\* fwrite of n words (to a regular file: what a write does to the entries of a
\* directory is left out).  The position moves on even if the disk is full.
Write(p, f, n, k) ==
  LET o   == fd[p][f]
      a   == of[o].inptr
      ic  == ai[a].ic
      end == of[o].head + n
      got == {b \in NewBlocks(ic, end) : b <= ic.size \div BLOCK_SIZE + k}
  IN /\ ~Closed(Tables, p, f)
     /\ ic.mode = "IFREG"
     /\ end <= MAX_SIZE
     /\ got = NewBlocks(ic, end) \/ MayFill
     /\ IF end > ic.size THEN Grow(a, end, got) ELSE UNCHANGED <<ai, inode, len>>
     /\ of' = [of EXCEPT ![o].head = end]
     /\ UNCHANGED <<fd, dir>>

\* fread of n words, refused when fewer are left
Read(p, f, n) ==
  LET o == fd[p][f] IN
  /\ ~Closed(Tables, p, f)
  /\ of[o].head + n <= ai[of[o].inptr].ic.size
  /\ of' = [of EXCEPT ![o].head = @ + n]
  /\ UNCHANGED <<fd, ai, inode, dir, len>>

\* lseek: SEEK_SET reaches every position, SEEK_CUR and SEEK_END no other one
Seek(p, f, h) ==
  /\ ~Closed(Tables, p, f)
  /\ of' = [of EXCEPT ![fd[p][f]].head = h]
  /\ UNCHANGED <<fd, ai, inode, dir, len>>

\* A file that is in the AIT, and the current directory, may not be removed
Removable(t, ino) == ino # ROOT_DIR /\ Active(t, ino) = {}

\* Mutant of RemoveEntry: the directory's size stays
RemoveEntryKeepsSize(t, i) == [t EXCEPT !.dir[i] = t.dir[t.inode[ROOT_DIR].size]]

\* remove: the last entry of the directory takes the place of entry i
RemoveEntry(t, i) ==
  LET n == t.inode[ROOT_DIR].size
  IN [t EXCEPT !.dir[i] = t.dir[n], !.inode[ROOT_DIR].size = n - 1]

\* unlink of a path that leads to entry i of the root directory; the addresses that
\* stay in the freed inode are not read again
Unlink(i) ==
  /\ Removable(Tables, dir[i])
  /\ Become([RemoveEntry(Tables, i) EXCEPT !.inode[dir[i]] = UnusedInode])
  /\ len' = [len EXCEPT ![dir[i]] = 0]

\* exec in a forked child: the object file is opened, read and closed through the
\* descriptors the slot's last process left; then all descriptors are dropped, and
\* the OFT entries behind them stay in use
Exec(p, i) ==
  LET t == OpenInode(Tables, p, dir[i])
      f == Min(GetFD(Tables, p))
  IN /\ GetFD(Tables, p) # {}
     /\ IF Closed(t, p, f) THEN Become(t)
        ELSE Become([CloseFile(t, p, f) EXCEPT !.fd[p] = [g \in Fds |-> NULL]])
     /\ UNCHANGED len

FirstBlock == IF MayFill THEN {{0}, {}} ELSE {{0}}

Next ==
  \/ \E p \in Pids, i \in Files(Tables) : OpenExisting(p, i)
  \/ \E p \in Pids, db \in FirstBlock : OpenNew(p, db)
  \/ \E p \in Pids, f \in Fds :
       \/ Close(p, f)
       \/ \E n \in Lengths, k \in Blocks : Write(p, f, n, k)
       \/ \E n \in Lengths : Read(p, f, n)
       \/ \E h \in 0..MAX_SIZE : Seek(p, f, h)
  \/ \E i \in Entries(Tables) : Unlink(i)
  \/ \E p \in Pids \ {0}, i \in Files(Tables) : Exec(p, i)
  \/ Reboot

Spec == Init /\ [][Next]_fileVars

-----------------------------------------------------------------------------
(* Properties. *)

\* Every variable has its type.
TypeOK ==
  /\ fd \in [Pids -> [Fds -> Ofiles \cup {NULL}]]
  /\ of \in [Ofiles -> [inptr : Actives \cup {NULL}, head : 0..MAX_SIZE]]
  /\ ai \in [Actives -> [number : Inos, links : 0..OFT_LIMIT, ic : Icommon]]
  /\ inode \in [Inos -> Icommon]
  /\ dir \in Seq(Inos)
  /\ inode[ROOT_DIR].size <= Len(dir)
  /\ len \in [Inos -> 0..MAX_SIZE]

\* i_links counts the OFT entries of an inode exactly, through leaked entries and
\* opens that fail half way: close writes an inode back when, and only when, its
\* last user is gone, and an AIT entry that is reused starts at zero.
LinksExact ==
  \A a \in Actives : ai[a].links = Cardinality({o \in Ofiles : of[o].inptr = a})

\* An inode is never in memory twice, so that all descriptors of a file see one size;
\* and one in memory is not freed on the disk, so that close never brings a removed
\* file back or overwrites another file's inode.
OneCopy ==
  /\ \A a, b \in Actives :
       (ai[a].ic.mode # "IFZERO" /\ ai[b].ic.mode # "IFZERO" /\ ai[a].number = ai[b].number) => a = b
  /\ \A a \in Actives : ai[a].ic.mode # "IFZERO" => inode[ai[a].number].mode = ai[a].ic.mode

\* An open descriptor has an OFT entry of its own, which leads to an inode that is
\* in memory; an entry that is not in use has its position reset, so that an open
\* starts at the beginning of the file.  The tables have their types.
DescriptorsSound ==
  /\ TypeOK
  /\ \A p, q \in Pids, f, g \in Fds :
       (fd[p][f] # NULL /\ fd[p][f] = fd[q][g]) => p = q /\ f = g
  /\ \A p \in Pids, f \in Fds : fd[p][f] # NULL => of[fd[p][f]].inptr # NULL
  /\ \A o \in Ofiles : IF of[o].inptr = NULL THEN of[o].head = 0
                       ELSE ai[of[o].inptr].ic.mode # "IFZERO"

\* No write is forgotten: the size of a file, in memory while the file is open and
\* on the disk afterwards, is the one that its writers have given it.
SizeKept ==
  \A i \in Inos : inode[i].mode = "IFREG" =>
    \/ \E a \in Active(Tables, i) : ai[a].ic.size = len[i]
    \/ Active(Tables, i) = {} /\ inode[i].size = len[i]

\* Whatever entries the paths lead to, the root directory has one entry, and only
\* one, for each inode in use: no file that was created is lost when another one is
\* removed and the last entry moves into the hole, and no entry leads to a freed
\* inode, which the next file would be given.
EntriesKept ==
  LET used == {i \in Inos : inode[i].mode # "IFZERO"} IN
  /\ {dir[i] : i \in Entries(Tables)} = used
  /\ Cardinality(used) = inode[ROOT_DIR].size

\* Every word of a file lies in a block that was allocated to it, in memory and on
\* the disk (so also after a loss of power, and when the disk was full during a
\* write), unless the disk was full when the file was created.
BlocksCover ==
  \A ic \in {inode[i] : i \in Inos} \cup {ai[a].ic : a \in Actives} :
    (ic.mode = "IFREG" /\ 0 \in ic.db) =>
      \A b \in Blocks : b * BLOCK_SIZE < ic.size => b \in ic.db
=============================================================================
