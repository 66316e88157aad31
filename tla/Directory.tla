----------------------------- MODULE Directory ------------------------------
(***************************************************************************)
(* Directories and the commands on names: open with O_CREAT, mkdir, cd,    *)
(* unlink, mv, cp and wipe, with the current directory and the inodes that *)
(* are open.                                                               *)
(*                                                                         *)
(* A command runs alone but is several disk writes; "call" says which one  *)
(* comes next, and power may be lost before it.  A directory is the        *)
(* sequence of the entries in its blocks; those behind its size are not in *)
(* use but keep their bytes.  The data blocks themselves are in            *)
(* DataBlocks, and what is in memory of an open file in FileTable.         *)
(*                                                                         *)
(* Some uses of the commands, and power lost at some points, break the     *)
(* tree of names: the actions say which in "broken", where the model ends. *)
(***************************************************************************)
EXTENDS Integers, Sequences, FiniteSets, FiniteSetsExt

CONSTANTS
  NAMES,        \* the names that a user gives, as sequences of characters
  Paths,        \* the paths that a user gives, as sequences of names; "/" has none
  Fresh,        \* what the name of an entry never written may read as
  MAXNAMLEN,    \* d_name has one byte more, for the null character; 25 in the code
  PROGRAM,      \* the name of the object file that wipe makes, 8 files in the code
  PER_BLOCK,    \* entries in a block, 16 in the code
  INODES,       \* inodes on the disk, 512 in the code
  AIT_LIMIT,    \* inodes that can be open
  MAX_ENTRIES,  \* bound on the entries of a directory
  CRASHES       \* bound on the number of losses of power

ASSUME DirectoryAssumption ==
  /\ MAXNAMLEN \in Nat /\ PER_BLOCK \in Nat \ {0} /\ INODES \in Nat \ {0, 1}
  /\ AIT_LIMIT \in Nat /\ MAX_ENTRIES \in Nat \ {0, 1} /\ CRASHES \in Nat

\* Commands are cut into words and paths into names by strtok, which never gives an
\* empty one
ASSUME NamesAssumption ==
  /\ NAMES \subseteq Seq(STRING) \ {<<>>} /\ Fresh \subseteq Seq(STRING)
  /\ Paths \subseteq Seq(NAMES \cup {<<".">>, <<".", ".">>})
  /\ PROGRAM \in NAMES \ {<<".">>, <<".", ".">>}
  /\ \A name \in Fresh \cup {PROGRAM} : Len(name) <= MAXNAMLEN + 1

VARIABLES
  inode,    \* mode and size, in entries, of the inodes on the disk
  dir,      \* the entries in the blocks of each inode
  cwd,      \* the current directory
  ai,       \* the inodes in the AIT, as they were read
  call,     \* the command in progress and its local variables
  moved,    \* auxiliary: directories that were moved, whose ".." is the old one
  broken,   \* auxiliary: a command, or a loss of power in it, breaks the tree of names
  crashes   \* auxiliary: the number of losses of power so far

vars == <<inode, dir, cwd, ai, call, moved, broken, crashes>>

NONE     == -1
ROOT_DIR == 0
Inos     == 0..(INODES - 1)
DOT      == <<".">>
DOTDOT   == <<".", ".">>
Unused   == [mode |-> "IFZERO", size |-> 0]
Idle     == [op |-> "idle", at |-> "idle"]

Used     == {i \in Inos : inode[i].mode # "IFZERO"}
Dirs     == {i \in Inos : inode[i].mode = "IFDIR"}
NewInode == Min(Inos \ Used)
Active   == DOMAIN ai

-----------------------------------------------------------------------------
(* Entries and names. *)

\* The names that unlink, mv and cp refuse
Hidden(name) == name[1] = "."

\* A longer name is written over the next entry, or over the stack behind the last
Fits(name) == Len(name) <= MAXNAMLEN + 1

\* strncpy of the characters of a name, without the null character behind it
Overwrite(name, old) ==
  name \o (IF Len(name) < Len(old) THEN SubSeq(old, Len(name) + 1, Len(old)) ELSE <<>>)

NewEntry(ino, name, old) ==
  [d_ino |-> ino, d_namlen |-> Len(name), d_name |-> Overwrite(name, old)]

\* The name that was given to an entry
NameOf(e) == SubSeq(e.d_name, 1, e.d_namlen)

\* strncmp over the longer of d_namlen and strlen( name ): a name longer than that of
\* the entry is compared with the bytes behind it, but (which is left out) one longer
\* than d_name with the bytes of the next entry
Matches(name, e) ==
  /\ Len(name) >= e.d_namlen
  /\ Len(name) <= Len(e.d_name)
  /\ SubSeq(e.d_name, 1, Len(name)) = name

\* Mutant of Searched: the last block is never searched
SearchedShort(n) == IF n = 0 THEN 0 ELSE ((n - 1) \div PER_BLOCK) * PER_BLOCK

\* The number of entries that name_to_ino, remove and ls go through: r = 0 in the last
\* block when it is full
Searched(n) == IF n = 0 THEN 0 ELSE ((n - 1) \div PER_BLOCK) * PER_BLOCK + (n % PER_BLOCK)

Hits(name, d) == {s \in 1..Searched(inode[d].size) : Matches(name, dir[d][s])}

NameToIno(name, d) ==
  LET hits == Hits(name, d) IN IF hits = {} THEN NONE ELSE dir[d][Min(hits)].d_ino

\* path_to_ino, also the loop in path_to_ino2 and in cd: the inode before each name
\* of the path, and at its end
Walk(path, from) ==
  LET w[i \in 0..Len(path)] ==
        IF i = 0 THEN from
        ELSE LET d == w[i - 1] IN IF d = NONE THEN NONE ELSE NameToIno(path[i], d)
  IN w

Leads(path, from) == Walk(path, from)[Len(path)]

\* Mutant of Removable: the entries of a directory are not looked at
RemovableFull(e) == e.d_ino # cwd /\ e.d_ino \notin Active

Removable(e) ==
  /\ e.d_ino # cwd
  /\ e.d_ino \notin Active
  /\ ~(inode[e.d_ino].mode = "IFDIR" /\ inode[e.d_ino].size > 2)

\* The entry that remove takes: the first of this name that it may
Targets(name, d) == {s \in Hits(name, d) : Removable(dir[d][s])}

-----------------------------------------------------------------------------
(* The commands.  Each begins with what it reads; its writes follow. *)

Begin == call = Idle /\ ~broken

\* A command that enters "name" for inode ino into directory d, of the size it has read
Entering(op, at, ino, name, d) ==
  [op |-> op, at |-> at, ino |-> ino, name |-> name, d |-> d, size |-> inode[d].size,
   slot |-> 0, to |-> d, room |-> inode[d].size]

\* getAIT and the rest of open: a copy in memory, if there is none yet and room for it
Activate(ino, ic) ==
  ai' = IF ino \notin Active /\ Cardinality(Active) < AIT_LIMIT
          THEN [f \in Active \cup {ino} |-> IF f = ino THEN ic ELSE ai[f]]
          ELSE ai

\* open of what exists, file or directory
Open(path) ==
  LET ino == Leads(path, ROOT_DIR)
  IN /\ Begin
     /\ ino # NONE /\ ino \notin Active
     /\ Activate(ino, inode[ino])
     /\ UNCHANGED <<inode, dir, cwd, call, moved, broken, crashes>>

\* The last close writes the inode back, although a directory may have changed on disk
Close(ino) ==
  /\ Begin
  /\ inode' = [inode EXCEPT ![ino] = ai[ino]]
  /\ ai' = [f \in Active \ {ino} |-> ai[f]]
  /\ broken' = (inode[ino] # ai[ino])
  /\ UNCHANGED <<dir, cwd, call, moved, crashes>>

\* open( O_CREAT ) of a file that does not; its parent may be any inode, and its name
\* "..", which the root does not have, or ".", which is not found in a full block
Create(path) ==
  LET w == Walk(path, ROOT_DIR)
      par == w[Len(path) - 1]
  IN /\ Begin
     /\ path # <<>> /\ w[Len(path)] = NONE /\ par # NONE
     /\ Inos # Used
     /\ inode[par].size < MAX_ENTRIES
     /\ call' = Entering("create", "inode", NewInode, path[Len(path)], par)
     /\ broken' = \/ inode[par].mode # "IFDIR"
                  \/ path[Len(path)] \in {DOT, DOTDOT}
                  \/ ~Fits(path[Len(path)])
     /\ UNCHANGED <<inode, dir, cwd, ai, moved, crashes>>

\* mkdir, which does not look for an entry of that name, "." and ".." included
Mkdir(name) ==
  /\ Begin
  /\ Inos # Used
  /\ inode[cwd].size < MAX_ENTRIES
  /\ call' = Entering("mkdir", "block", NewInode, name, cwd)
  /\ broken' = (name \in {DOT, DOTDOT} \/ ~Fits(name))
  /\ UNCHANGED <<inode, dir, cwd, ai, moved, crashes>>

\* Mutant of WriteFirst: both entries are the new directory
WriteFirstSelf ==
  /\ call.at = "block"
  /\ \E g, h \in Fresh :
       dir' = [dir EXCEPT ![call.ino] = <<NewEntry(call.ino, DOT, g), NewEntry(call.ino, DOTDOT, h)>>]
  /\ call' = [call EXCEPT !.at = "inode"]
  /\ UNCHANGED <<inode, cwd, ai, moved, broken, crashes>>

\* "." and ".." of a new directory, written before its inode; the bytes behind them
\* are those that were on the stack
WriteFirst ==
  /\ call.at = "block"
  /\ \E g, h \in Fresh :
       dir' = [dir EXCEPT ![call.ino] = <<NewEntry(call.ino, DOT, g), NewEntry(cwd, DOTDOT, h)>>]
  /\ call' = [call EXCEPT !.at = "inode"]
  /\ UNCHANGED <<inode, cwd, ai, moved, broken, crashes>>

\* writeInode of a new file or directory
WriteNew ==
  /\ call.at = "inode"
  /\ inode' = [inode EXCEPT ![call.ino] =
                 IF call.op = "mkdir" THEN [mode |-> "IFDIR", size |-> 2]
                                      ELSE [mode |-> "IFREG", size |-> 0]]
  /\ call' = [call EXCEPT !.at = "add"]
  /\ UNCHANGED <<dir, cwd, ai, moved, broken, crashes>>

\* addInodeToDirectory: the entry behind the last one; in a new block when the last is full
Add ==
  LET s == call.size + 1
      es == dir[call.d]
      new == call.size % PER_BLOCK = 0 /\ call.size > 0
  IN /\ call.at = "add"
     /\ \E g \in Fresh :
          LET e == NewEntry(call.ino, call.name, IF new \/ s > Len(es) THEN g ELSE es[s].d_name)
          IN dir' = [dir EXCEPT ![call.d] =
                       IF new \/ s > Len(es) THEN SubSeq(es, 1, call.size) \o <<e>> ELSE [es EXCEPT ![s] = e]]
     /\ call' = [call EXCEPT !.at = "count"]
     /\ UNCHANGED <<inode, cwd, ai, moved, broken, crashes>>

\* and then its new size; a file that was created is open, and the entry that cp made
\* leads to an inode that is still free
Count ==
  /\ call.at = "count"
  /\ inode' = [inode EXCEPT ![call.d].size = call.size + 1]
  /\ IF call.op = "create" THEN Activate(call.ino, inode[call.ino]) ELSE UNCHANGED ai
  /\ call' = Idle
  /\ broken' = (call.op = "cp")
  /\ UNCHANGED <<dir, cwd, moved, crashes>>

\* cd, which takes any inode that the path leads to
Cd(path) ==
  LET ino == Leads(path, cwd)
  IN /\ Begin
     /\ ino # NONE
     /\ cwd' = ino
     /\ broken' = (inode[ino].mode # "IFDIR")
     /\ UNCHANGED <<inode, dir, ai, call, moved, crashes>>

\* unlink of a name in the current directory
Unlink(name) ==
  LET s == Min(Targets(name, cwd))
  IN /\ Begin
     /\ ~Hidden(name) /\ Targets(name, cwd) # {}
     /\ call' = [Entering("unlink", "take", dir[cwd][s].d_ino, name, cwd) EXCEPT !.slot = s]
     /\ UNCHANGED <<inode, dir, cwd, ai, moved, broken, crashes>>

\* mv to the directory of a path from the root: the destination is read here, before
\* remove changes the current directory, and the new name is all of d_name, up to a
\* null character that a name of full length does not have
Mv(name, path) ==
  LET to == Leads(path, ROOT_DIR)
      s == Min(Targets(name, cwd))
      e == dir[cwd][s]
  IN /\ Begin
     /\ ~Hidden(name)
     /\ to # NONE /\ inode[to].mode = "IFDIR" /\ inode[to].size < MAX_ENTRIES
     /\ Targets(name, cwd) # {}
     /\ call' = [Entering("mv", "take", e.d_ino, e.d_name, cwd)
                   EXCEPT !.slot = s, !.to = to, !.room = inode[to].size]
     /\ broken' = (to \in {cwd, e.d_ino} \/ Len(e.d_name) > MAXNAMLEN)
     /\ moved' = IF inode[e.d_ino].mode = "IFDIR" THEN moved \cup {e.d_ino} ELSE moved
     /\ UNCHANGED <<inode, dir, cwd, ai, crashes>>

\* Mutant of Take: the entry before the last one takes the place
TakeBefore ==
  /\ call.at = "take"
  /\ dir' = [dir EXCEPT ![call.d][call.slot] = dir[call.d][call.size - 1]]
  /\ call' = [call EXCEPT !.at = "drop"]
  /\ UNCHANGED <<inode, cwd, ai, moved, broken, crashes>>

\* remove: the last entry of the directory takes the place of this one
Take ==
  /\ call.at = "take"
  /\ dir' = [dir EXCEPT ![call.d][call.slot] = dir[call.d][call.size]]
  /\ call' = [call EXCEPT !.at = "drop"]
  /\ UNCHANGED <<inode, cwd, ai, moved, broken, crashes>>

\* and then the size; mv goes on with its destination
Drop ==
  /\ call.at = "drop"
  /\ inode' = [inode EXCEPT ![call.d].size = call.size - 1]
  /\ call' = IF call.op = "mv" THEN [call EXCEPT !.at = "add", !.d = call.to, !.size = call.room]
             ELSE [call EXCEPT !.at = "free"]
  /\ UNCHANGED <<dir, cwd, ai, moved, broken, crashes>>

\* The end of unlink: the inode is unused
Free ==
  /\ call.at = "free"
  /\ inode' = [inode EXCEPT ![call.ino] = Unused]
  /\ dir' = [dir EXCEPT ![call.ino] = <<>>]
  /\ moved' = moved \ {call.ino}
  /\ call' = Idle
  /\ UNCHANGED <<cwd, ai, broken, crashes>>

\* The inode that copyInode takes for the copy and does not write; none is left when
\* all are in use, which cp does not look at
CopyInode == IF Inos = Used THEN NONE ELSE NewInode

\* cp of a file or directory, whose blocks, if it has any, go to addresses that were
\* never set; what is left to write is the entry
Cp(path, name) ==
  LET ino == Leads(path, cwd)
  IN /\ Begin
     /\ path # <<>> => ~Hidden(path[1])
     /\ ino # NONE /\ inode[ino].mode # "IFZERO"
     /\ inode[cwd].size < MAX_ENTRIES
     /\ call' = Entering("cp", "add", CopyInode, name, cwd)
     /\ \E empty \in BOOLEAN :
          broken' = (Inos = Used \/ inode[ino].mode = "IFDIR" \/ ~empty \/ ~Fits(name))
     /\ UNCHANGED <<inode, dir, cwd, ai, moved, crashes>>

\* wipe, which leaves the current directory and the inodes in memory as they are: the
\* superblock
Wipe ==
  /\ Begin
  /\ call' = Entering("wipe", "table", NONE, PROGRAM, ROOT_DIR)
  /\ broken' = (cwd # ROOT_DIR)
  /\ UNCHANGED <<inode, dir, cwd, ai, moved, crashes>>

\* the inodes and the one entry of the root; then createObjFiles
WipeTable ==
  /\ call.at = "table"
  /\ inode' = [i \in Inos |-> IF i = ROOT_DIR THEN [mode |-> "IFDIR", size |-> 1] ELSE Unused]
  /\ \E g \in Fresh :
       dir' = [i \in Inos |-> IF i = ROOT_DIR THEN <<NewEntry(ROOT_DIR, DOT, g)>> ELSE <<>>]
  /\ moved' = {}
  /\ call' = [call EXCEPT !.at = "inode", !.ino = ROOT_DIR + 1, !.size = 1]
  /\ UNCHANGED <<cwd, ai, broken, crashes>>

\* Power is lost and the kernel boots.  Between the two writes of remove the last
\* entry is there twice; in wipe the old tree is in blocks that are free
Crash ==
  /\ ~broken
  /\ crashes < CRASHES
  /\ crashes' = crashes + 1
  /\ cwd' = ROOT_DIR
  /\ ai' = <<>>
  /\ call' = Idle
  /\ broken' = \/ call.at = "drop" /\ call.slot # call.size
               \/ call.at = "table"
  /\ UNCHANGED <<inode, dir, moved>>

\* Power on, with a new disk that the first wipe is formatting
Init ==
  /\ inode = [i \in Inos |-> Unused]
  /\ dir = [i \in Inos |-> <<>>]
  /\ cwd = ROOT_DIR /\ ai = <<>> /\ moved = {} /\ broken = FALSE /\ crashes = 0
  /\ call = Entering("wipe", "table", NONE, PROGRAM, ROOT_DIR)

Step == WriteFirst \/ WriteNew \/ Add \/ Count \/ Take \/ Drop \/ Free \/ WipeTable

Next ==
  \/ ~broken /\ Step
  \/ Wipe \/ Crash
  \/ \E ino \in Active : Close(ino)
  \/ \E path \in Paths : Open(path) \/ Create(path) \/ Cd(path)
  \/ \E name \in NAMES : Mkdir(name) \/ Unlink(name)
  \/ \E name \in NAMES, path \in Paths : Mv(name, path) \/ Cp(path, name)

Spec == Init /\ [][Next]_vars

-----------------------------------------------------------------------------
(* Properties. *)

\* The entries of a directory; a broken one may lack the last
Entries(d) == 1..Min({inode[d].size, Len(dir[d])})

\* The entries but "." and ".."
Named(d) == {s \in Entries(d) : NameOf(dir[d][s]) \notin {DOT, DOTDOT}}

\* Every variable has its type, and a directory has the entries that its size says.
TypeOK ==
  /\ inode \in [Inos -> [mode : {"IFZERO", "IFDIR", "IFREG"}, size : 0..(MAX_ENTRIES + 1)]]
  /\ ~broken => \A d \in Inos : inode[d].size <= Len(dir[d])
  /\ cwd \in Inos /\ Active \subseteq Inos /\ moved \subseteq Inos
  /\ broken \in BOOLEAN /\ crashes \in 0..CRASHES

Refs(i) == UNION {{<<d, s>> : s \in {t \in Named(d) : dir[d][t].d_ino = i}} : d \in Dirs}

\* Between commands every entry leads to an inode in use, and no inode has two entries,
\* in any order of create, mkdir, unlink, mv, cd, open, close and wipe and with power
\* lost between their writes.  Not so after what sets broken: a cp that reaches its
\* last write (the entry leads to a free inode), a mv to the current directory (the
\* size that remove wrote is overwritten with the old one), a mv of a directory into
\* itself, and power lost between the two writes of remove (the last entry is there
\* twice).
OneEntry ==
  call = Idle /\ ~broken =>
    \A i \in Inos : Cardinality(Refs(i)) <= IF i \in Used \ {ROOT_DIR} THEN 1 ELSE 0

\* What can be reached by names from the root
Children(S) == UNION {{dir[d][s].d_ino : s \in Named(d)} : d \in S \cap Dirs}
Reachable ==
  LET r[n \in 0..INODES] ==
        IF n = 0 THEN {ROOT_DIR} ELSE LET S == r[n - 1] IN S \cup Children(S)
  IN r[INODES]

\* As long as power was not lost every file and directory in use can be reached from
\* the root: nothing is cut off by remove, by mv or by moving the last entry.
AllReachable == call = Idle /\ ~broken /\ crashes = 0 => Reachable = Used

\* As long as no command has broken the tree (cd to a file and wipe from elsewhere than
\* the root do), the current directory is a directory in use, and the entries "." and
\* ".." of a directory are itself and the directory it is in, unless it was moved; so
\* also after a loss of power in mkdir or mv, and when an inode is used again.  All
\* along a directory has the entries that its size says.
InATree ==
  /\ TypeOK
  /\ call = Idle /\ ~broken =>
      /\ cwd \in Dirs
      /\ \A d \in Dirs \ {ROOT_DIR} :
           /\ dir[d][1].d_ino = d
           /\ d \in moved \/ Refs(d) = {} \/ \E r \in Refs(d) : r[1] = dir[d][2].d_ino

\* Commands act on the name they are given: a file is created only where there is none
\* of that name, unless the directory has a multiple of PER_BLOCK entries; and unlink
\* takes an entry of that name, unless its bytes held a longer name before.
ActsOnName ==
  [][LET c == call' IN
     (call = Idle /\ c # Idle) =>
       /\ c.op = "create" => \/ inode[c.d].size % PER_BLOCK = 0
                             \/ \A s \in Entries(c.d) : NameOf(dir[c.d][s]) # c.name
       /\ c.op = "unlink" => LET e == dir[c.d][c.slot]
                             IN NameOf(e) = c.name \/ Len(e.d_name) > e.d_namlen]_vars

\* The entries as a set of links
Links == UNION {{[dir |-> d, name |-> NameOf(dir[d][s]), ino |-> dir[d][s].d_ino] : s \in Named(d)} : d \in Dirs}

Abstract == INSTANCE NameSpace
  WITH ROOT <- ROOT_DIR, links <- Links, at <- cwd

\* Every step changes at most one link, as NameSpace says: a loss of power leaves the
\* entries as before or after the write it prevents, a link is made only to an inode
\* that has none, and only an empty directory, never the current one, is unlinked or
\* moved.
Implements == Abstract!Spec
=============================================================================
