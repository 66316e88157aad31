--------------------------- MODULE FileTableProofs ---------------------------
(***************************************************************************)
(* Proofs about the file tables of module FileTable, for every size of the *)
(* tables, of the blocks and of the disk.                                  *)
(*                                                                         *)
(* A system call is a composition of functions on the tables, so the       *)
(* invariant is stated of tables t, and there is a lemma for each function *)
(* that says it keeps the invariant.                                       *)
(***************************************************************************)
EXTENDS FileTable, FiniteSetTheorems, SequenceTheorems, WellFoundedInduction, TLAPS

TableSet ==
  [fd    : [Pids -> [Fds -> Ofiles \cup {NULL}]],
   of    : [Ofiles -> [inptr : Actives \cup {NULL}, head : 0..MAX_SIZE]],
   ai    : [Actives -> [number : Inos, links : 0..OFT_LIMIT, ic : Icommon]],
   inode : [Inos -> Icommon],
   dir   : Seq(Inos)]

-----------------------------------------------------------------------------
(***************************************************************************)
(* The inductive invariant.  Of the tables: what LinksExact, OneCopy and   *)
(* DescriptorsSound say, and that only regular files are in the AIT, whose *)
(* blocks reach up to the block of the position behind the last word.      *)
(***************************************************************************)

Users(t, a) == {o \in Ofiles : t.of[o].inptr = a}

\* i_links counts the users of each AIT entry.
Counted(t) == \A a \in Actives : t.ai[a].links = Cardinality(Users(t, a))

\* No inode is in the AIT twice.
Single(t) ==
  \A a, b \in Actives :
    (t.ai[a].ic.mode # "IFZERO" /\ t.ai[b].ic.mode # "IFZERO" /\ t.ai[a].number = t.ai[b].number) => a = b

\* What is in the AIT is a regular file, on the disk too.
Backed(t) ==
  \A a \in Actives : t.ai[a].ic.mode # "IFZERO" =>
    t.ai[a].ic.mode = "IFREG" /\ t.inode[t.ai[a].number].mode = "IFREG"

\* A descriptor has an OFT entry of its own, which is in use.
Owned(t) ==
  /\ \A p, q \in Pids, f, g \in Fds :
       (t.fd[p][f] # NULL /\ t.fd[p][f] = t.fd[q][g]) => p = q /\ f = g
  /\ \A p \in Pids, f \in Fds : t.fd[p][f] # NULL => t.of[t.fd[p][f]].inptr # NULL

\* An OFT entry leads to an inode in memory, or its position is reset.
Leads(t) ==
  \A o \in Ofiles : IF t.of[o].inptr = NULL THEN t.of[o].head = 0
                    ELSE t.ai[t.of[o].inptr].ic.mode # "IFZERO"

\* The root directory is the only one.
OneRoot(t) == \A i \in Inos : t.inode[i].mode = "IFDIR" <=> i = ROOT_DIR

\* The size of a file is in bounds, and it has every block up to the one with its end.
Filled(ic) ==
  ic.mode = "IFREG" =>
    ic.size <= MAX_SIZE /\ (0 \in ic.db => 0..(ic.size \div BLOCK_SIZE) \subseteq ic.db)

AllFilled(t) ==
  (\A i \in Inos : Filled(t.inode[i])) /\ (\A a \in Actives : Filled(t.ai[a].ic))

TableInv(t) ==
  /\ t \in TableSet
  /\ Counted(t) /\ Single(t) /\ Backed(t) /\ Owned(t) /\ Leads(t)
  /\ OneRoot(t) /\ AllFilled(t)

\* Of the sizes l that the writes have given: the AIT has them, and the disk has
\* those of the files that are not in the AIT.
SizeInv(t, l) ==
  /\ l \in [Inos -> 0..MAX_SIZE]
  /\ \A a \in Actives : t.ai[a].ic.mode # "IFZERO" => t.ai[a].ic.size = l[t.ai[a].number]
  /\ \A i \in Inos : (t.inode[i].mode = "IFREG" /\ Active(t, i) = {}) => t.inode[i].size = l[i]

InUse(t) == {i \in Inos : t.inode[i].mode # "IFZERO"}

\* The directory has one entry for each inode in use.
EntryInv(t) ==
  LET n == t.inode[ROOT_DIR].size IN
  /\ n <= Len(t.dir)
  /\ \A i, j \in 1..n : t.dir[i] = t.dir[j] => i = j
  /\ {t.dir[i] : i \in 1..n} = InUse(t)
  /\ Cardinality(InUse(t)) = n

IInv == TableInv(Tables) /\ SizeInv(Tables, len) /\ EntryInv(Tables)

-----------------------------------------------------------------------------
(* Numbers. *)

\* A set of natural numbers that is not empty has a least element: what the loops
\* of the code find first.
LEMMA MinIn ==
  ASSUME NEW S, S \subseteq Nat, S # {}
  PROVE  Min(S) \in S
<1>0. ASSUME NEW x \in Nat, NEW y \in Nat, x < y
      PROVE  <<x, y>> \in OpToRel(<, Nat)
  <2>1. <<x, y>> \in Nat \X Nat /\ <<x, y>>[1] = x /\ <<x, y>>[2] = y
    OBVIOUS
  <2>2. <<x, y>>[1] < <<x, y>>[2]
    BY <1>0
  <2> QED BY <2>1, <2>2, Zenon DEF OpToRel
<1>1. PICK x \in S : \A y \in S : ~(<<y, x>> \in OpToRel(<, Nat))
  BY NatLessThanWellFounded, WFMin, Zenon
<1>2. ASSUME NEW y \in S PROVE x <= y
  <2>1. x \in Nat /\ y \in Nat
    OBVIOUS
  <2>2. ~(y < x)
    BY <1>0, <1>1, <2>1, Zenon
  <2> QED BY <2>1, <2>2
<1> QED BY <1>2 DEF Min

\* Quotient and remainder.
LEMMA DivFacts ==
  ASSUME NEW b \in Nat \ {0}, NEW x \in Nat
  PROVE  /\ x \div b \in Nat
         /\ b * (x \div b) <= x /\ x < b * (x \div b) + b
OBVIOUS

\* A later position lies in the same block or in a later one.
LEMMA DivMono ==
  ASSUME NEW b \in Nat \ {0}, NEW x \in Nat, NEW y \in Nat, x <= y
  PROVE  x \div b <= y \div b
<1>1. PICK q \in Nat : q = x \div b
  BY DivFacts
<1>2. PICK r \in Nat : r = y \div b
  BY DivFacts
<1>3. b * q <= x /\ y < b * r + b
  BY DivFacts, <1>1, <1>2
<1>4. b * q < b * (r + 1)
  BY <1>3
<1>5. q < r + 1
  BY <1>4
<1> QED BY <1>1, <1>2, <1>5

-----------------------------------------------------------------------------
(* The functions that system calls are made of. *)

\* iread of a regular file that is not in the AIT, into an empty entry.
LEMMA ReadKeeps ==
  ASSUME NEW t, TableInv(t), NEW a \in Inactive(t), NEW ino \in Inos,
         t.inode[ino].mode = "IFREG", Active(t, ino) = {}
  PROVE  /\ TableInv(ReadInode(t, a, ino))
         /\ \A l : SizeInv(t, l) => SizeInv(ReadInode(t, a, ino), l)
         /\ ReadInode(t, a, ino).ai[a].ic.mode = "IFREG"
         /\ ReadInode(t, a, ino).fd = t.fd
         /\ ReadInode(t, a, ino).inode = t.inode
         /\ ReadInode(t, a, ino).dir = t.dir
<1>1. PICK u : u = ReadInode(t, a, ino)
  OBVIOUS
<1>2. t \in TableSet /\ a \in Actives /\ t.ai[a].ic.mode = "IFZERO"
  BY DEF TableInv, Inactive
<1>3. u = [t EXCEPT !.ai[a].number = ino, !.ai[a].ic = t.inode[ino]]
  BY <1>1 DEF ReadInode
<1>4. /\ u.fd = t.fd /\ u.of = t.of /\ u.inode = t.inode /\ u.dir = t.dir
      /\ u.ai = [t.ai EXCEPT ![a] = [number |-> ino, links |-> t.ai[a].links, ic |-> t.inode[ino]]]
      /\ u \in TableSet
  BY <1>2, <1>3 DEF TableSet
<1>5. /\ u.ai[a].number = ino /\ u.ai[a].ic = t.inode[ino] /\ u.ai[a].links = t.ai[a].links
      /\ \A b \in Actives \ {a} : u.ai[b] = t.ai[b]
      /\ \A b \in Actives : u.ai[b].links = t.ai[b].links
  BY <1>2, <1>4 DEF TableSet
<1>6. \A b \in Actives : t.ai[b].ic.mode # "IFZERO" => t.ai[b].number # ino
  BY DEF Active
<1>7. Counted(u)
  BY <1>4, <1>5 DEF TableInv, Counted, Users
<1>8. Single(u)
  BY <1>5, <1>6 DEF TableInv, Single
<1>9. Backed(u)
  BY <1>4, <1>5 DEF TableInv, Backed
<1>10. Owned(u) /\ OneRoot(u)
  BY <1>4 DEF TableInv, Owned, OneRoot
<1>11. Leads(u)
  BY <1>2, <1>4, <1>5 DEF TableInv, Leads, TableSet
<1>12. AllFilled(u)
  BY <1>4, <1>5 DEF TableInv, AllFilled
<1>13. ASSUME NEW l, SizeInv(t, l)
       PROVE  SizeInv(u, l)
  <2>1. t.inode[ino].size = l[ino]
    BY <1>13 DEF SizeInv
  <2>2. \A b \in Actives : u.ai[b].ic.mode # "IFZERO" => u.ai[b].ic.size = l[u.ai[b].number]
    BY <1>5, <1>13, <2>1 DEF SizeInv
  <2>3. ASSUME NEW i \in Inos, u.inode[i].mode = "IFREG", Active(u, i) = {}
        PROVE  u.inode[i].size = l[i]
    <3>1. Active(t, i) = {}
      BY <1>2, <1>5, <2>3 DEF Active
    <3> QED BY <1>4, <1>13, <2>3, <3>1 DEF SizeInv
  <2> QED BY <1>13, <2>2, <2>3 DEF SizeInv
<1> QED BY <1>1, <1>4, <1>5, <1>7, <1>8, <1>9, <1>10, <1>11, <1>12, <1>13 DEF TableInv

\* The end of open: a new user of an inode in memory.
LEMMA LinkKeeps ==
  ASSUME NEW t, TableInv(t), NEW p \in Pids, NEW a \in Actives,
         t.ai[a].ic.mode # "IFZERO", GetFD(t, p) # {}, GetOFT(t) # {}
  PROVE  /\ TableInv(Link(t, p, a))
         /\ \A l : SizeInv(t, l) => SizeInv(Link(t, p, a), l)
         /\ Link(t, p, a).inode = t.inode
         /\ Link(t, p, a).dir = t.dir
<1> USE FileAssumption DEF NULL
<1>1. PICK f \in Fds : f = Min(GetFD(t, p)) /\ t.fd[p][f] = NULL
  <2>1. GetFD(t, p) \subseteq Nat
    BY DEF GetFD, Fds
  <2>2. Min(GetFD(t, p)) \in GetFD(t, p)
    BY <2>1, MinIn
  <2> QED BY <2>2 DEF GetFD, Closed
<1>2. PICK o \in Ofiles : o = Min(GetOFT(t)) /\ t.of[o].inptr = NULL
  <2>1. GetOFT(t) \subseteq Nat
    BY DEF GetOFT, Ofiles
  <2>2. Min(GetOFT(t)) \in GetOFT(t)
    BY <2>1, MinIn
  <2> QED BY <2>2 DEF GetOFT
<1>3. PICK u : u = Link(t, p, a)
  OBVIOUS
<1>4. u = [t EXCEPT !.ai[a].links = @ + 1, !.fd[p][f] = o, !.of[o].inptr = a]
  BY <1>1, <1>2, <1>3 DEF Link
<1>5. t \in TableSet /\ o # NULL /\ a # NULL
  BY DEF TableInv, Ofiles, Actives
<1>6. /\ u.fd = [t.fd EXCEPT ![p][f] = o]
      /\ u.of = [t.of EXCEPT ![o].inptr = a]
      /\ u.ai = [t.ai EXCEPT ![a].links = @ + 1]
      /\ u.inode = t.inode /\ u.dir = t.dir
      /\ u = [fd |-> u.fd, of |-> u.of, ai |-> u.ai, inode |-> u.inode, dir |-> u.dir]
  BY <1>4, <1>5 DEF TableSet
<1>7. /\ \A b \in Actives : u.ai[b].ic = t.ai[b].ic /\ u.ai[b].number = t.ai[b].number
      /\ \A b \in Actives \ {a} : u.ai[b].links = t.ai[b].links
      /\ u.ai[a].links = t.ai[a].links + 1
  BY <1>5, <1>6 DEF TableSet
<1>8. /\ \A r \in Ofiles \ {o} : u.of[r] = t.of[r]
      /\ u.of[o].inptr = a /\ u.of[o].head = t.of[o].head
  BY <1>5, <1>6 DEF TableSet
<1>9. Counted(u)
  <2>1. IsFiniteSet(Users(t, a)) /\ Users(u, a) = Users(t, a) \cup {o} /\ o \notin Users(t, a)
    <3>1. IsFiniteSet(Ofiles)
      BY FS_Interval DEF Ofiles
    <3> QED BY <1>2, <1>5, <1>8, <3>1, FS_Subset DEF Users
  <2>2. Cardinality(Users(u, a)) = Cardinality(Users(t, a)) + 1
    BY <2>1, FS_AddElement
  <2>3. \A b \in Actives \ {a} : Users(u, b) = Users(t, b)
    BY <1>2, <1>5, <1>8 DEF Users, Actives
  <2> QED BY <1>7, <2>2, <2>3 DEF Counted, TableInv
<1>10. u.ai[a].links \in 0..OFT_LIMIT
  <2>1. Cardinality(Ofiles) = OFT_LIMIT /\ IsFiniteSet(Ofiles)
    BY FS_Interval DEF Ofiles
  <2>2. Users(u, a) \in SUBSET Ofiles
    BY DEF Users
  <2>3. Cardinality(Users(u, a)) <= OFT_LIMIT /\ Cardinality(Users(u, a)) \in Nat
    BY <2>1, <2>2, FS_Subset, FS_CardinalityType
  <2> QED BY <1>9, <2>3 DEF Counted
<1>11. u \in TableSet
  <2>1. u.fd \in [Pids -> [Fds -> Ofiles \cup {NULL}]]
    BY <1>5, <1>6 DEF TableSet
  <2>2. u.of \in [Ofiles -> [inptr : Actives \cup {NULL}, head : 0..MAX_SIZE]]
    <3>1. t.of \in [Ofiles -> [inptr : Actives \cup {NULL}, head : 0..MAX_SIZE]]
      BY <1>5 DEF TableSet
    <3>2. [t.of[o] EXCEPT !.inptr = a] \in [inptr : Actives \cup {NULL}, head : 0..MAX_SIZE]
      BY <3>1
    <3> QED BY <1>6, <3>1, <3>2
  <2>3. u.ai \in [Actives -> [number : Inos, links : 0..OFT_LIMIT, ic : Icommon]]
    <3>1. t.ai \in [Actives -> [number : Inos, links : 0..OFT_LIMIT, ic : Icommon]]
      BY <1>5 DEF TableSet
    <3>2. [t.ai[a] EXCEPT !.links = @ + 1] \in [number : Inos, links : 0..OFT_LIMIT, ic : Icommon]
      BY <1>7, <1>10, <3>1
    <3> QED BY <1>6, <3>1, <3>2
  <2> QED BY <1>5, <1>6, <2>1, <2>2, <2>3 DEF TableSet
<1>12. Single(u) /\ Backed(u) /\ OneRoot(u) /\ AllFilled(u)
  <2>1. Single(t) /\ Backed(t) /\ OneRoot(t) /\ AllFilled(t)
    BY DEF TableInv
  <2>2. Single(u)
    BY <1>7, <2>1 DEF Single
  <2>3. Backed(u)
    BY <1>6, <1>7, <2>1 DEF Backed
  <2>4. OneRoot(u) /\ AllFilled(u)
    BY <1>6, <1>7, <2>1 DEF OneRoot, AllFilled
  <2> QED BY <2>2, <2>3, <2>4
<1>13. Owned(u)
  <2>1. \A q \in Pids, g \in Fds : t.fd[q][g] # o
    BY <1>2, <1>5 DEF TableInv, Owned
  <2>2. \A q \in Pids, g \in Fds : u.fd[q][g] = IF q = p /\ g = f THEN o ELSE t.fd[q][g]
    BY <1>5, <1>6 DEF TableSet
  <2>3. \A q \in Pids, g \in Fds : t.fd[q][g] \in Ofiles \cup {NULL}
    BY <1>5 DEF TableSet
  <2>4. Owned(t)
    BY DEF TableInv
  <2>5. \A q, r \in Pids, g, h \in Fds :
          (u.fd[q][g] # NULL /\ u.fd[q][g] = u.fd[r][h]) => q = r /\ g = h
    BY <2>1, <2>2, <2>4 DEF Owned
  <2>6. ASSUME NEW q \in Pids, NEW g \in Fds, u.fd[q][g] # NULL PROVE u.of[u.fd[q][g]].inptr # NULL
    <3>1. CASE q = p /\ g = f
      BY <1>5, <1>8, <2>2, <3>1
    <3>2. CASE ~(q = p /\ g = f)
      BY <1>8, <2>1, <2>2, <2>3, <2>4, <2>6, <3>2 DEF Owned
    <3> QED BY <3>1, <3>2
  <2> QED BY <2>5, <2>6 DEF Owned
<1>14. Leads(u)
  <2>1. \A r \in Ofiles : t.of[r].inptr \in Actives \cup {NULL}
    BY <1>5 DEF TableSet
  <2>2. Leads(t) /\ t.of[o].inptr = NULL
    BY <1>2 DEF TableInv
  <2>3. ASSUME NEW r \in Ofiles
        PROVE  IF u.of[r].inptr = NULL THEN u.of[r].head = 0 ELSE u.ai[u.of[r].inptr].ic.mode # "IFZERO"
    <3>1. CASE r = o
      BY <1>5, <1>7, <1>8, <3>1
    <3>2. CASE r # o
      <4>1. u.of[r] = t.of[r] /\ t.of[r].inptr \in Actives \cup {NULL}
        BY <1>8, <2>1, <3>2
      <4>2. IF t.of[r].inptr = NULL THEN t.of[r].head = 0 ELSE t.ai[t.of[r].inptr].ic.mode # "IFZERO"
        BY <2>2 DEF Leads
      <4> QED BY <1>7, <4>1, <4>2, Zenon
    <3> QED BY <3>1, <3>2
  <2> QED BY <2>3 DEF Leads
<1>15. \A l : SizeInv(t, l) => SizeInv(u, l)
  BY <1>6, <1>7 DEF SizeInv, Active
<1> QED BY <1>3, <1>6, <1>9, <1>11, <1>12, <1>13, <1>14, <1>15 DEF TableInv

\* open behind the path: it may fail at the AIT or at the OFT.
LEMMA OpenKeeps ==
  ASSUME NEW t, TableInv(t), NEW p \in Pids, NEW ino \in Inos,
         t.inode[ino].mode = "IFREG", GetFD(t, p) # {}
  PROVE  /\ TableInv(OpenInode(t, p, ino))
         /\ \A l : SizeInv(t, l) => SizeInv(OpenInode(t, p, ino), l)
         /\ OpenInode(t, p, ino).inode = t.inode
         /\ OpenInode(t, p, ino).dir = t.dir
<1> USE FileAssumption DEF NULL
<1>1. PICK a : a = GetAIT(t, ino)
  OBVIOUS
<1>2. Active(t, ino) \subseteq Nat /\ Inactive(t) \subseteq Nat
  BY DEF Active, Inactive, Actives
<1>3. CASE a = NULL
  BY <1>1, <1>3 DEF OpenInode
<1>4. CASE a # NULL
  <2>1. PICK u : u = ReadInode(t, a, ino)
    OBVIOUS
  <2>2. OpenInode(t, p, ino) = IF GetOFT(u) = {} THEN u ELSE Link(u, p, a)
    BY <1>1, <1>4, <2>1 DEF OpenInode
  <2>3. /\ TableInv(u) /\ a \in Actives /\ u.ai[a].ic.mode # "IFZERO"
        /\ \A l : SizeInv(t, l) => SizeInv(u, l)
        /\ u.fd = t.fd /\ u.inode = t.inode /\ u.dir = t.dir
    <3>1. CASE Active(t, ino) # {}
      <4>1. a \in Active(t, ino)
        BY <1>1, <1>2, <3>1, MinIn DEF GetAIT
      <4>2. u = t
        BY <2>1, <4>1 DEF ReadInode
      <4> QED BY <4>1, <4>2 DEF Active
    <3>2. CASE Active(t, ino) = {}
      <4>1. a \in Inactive(t)
        BY <1>1, <1>2, <1>4, <3>2, MinIn DEF GetAIT
      <4>2. a \in Actives
        BY <4>1 DEF Inactive
      <4> QED BY <2>1, <3>2, <4>1, <4>2, ReadKeeps
    <3> QED BY <3>1, <3>2
  <2>4. CASE GetOFT(u) = {}
    BY <2>2, <2>3, <2>4
  <2>5. CASE GetOFT(u) # {}
    <3>1. GetFD(u, p) # {}
      BY <2>3 DEF GetFD, Closed
    <3> QED BY <2>2, <2>3, <2>5, <3>1, LinkKeeps
  <2> QED BY <2>4, <2>5
<1> QED BY <1>3, <1>4

\* The entries stay when neither the entries nor the modes change.
LEMMA EntriesSame ==
  ASSUME NEW t, NEW u, EntryInv(t), u.dir = t.dir,
         \A i \in Inos : u.inode[i].mode = t.inode[i].mode,
         u.inode[ROOT_DIR].size = t.inode[ROOT_DIR].size
  PROVE  EntryInv(u)
<1>1. InUse(u) = InUse(t)
  BY DEF InUse
<1> QED BY <1>1 DEF EntryInv

\* close, of the last user or of another one.
LEMMA CloseKeeps ==
  ASSUME NEW t, TableInv(t), NEW p \in Pids, NEW f \in Fds, t.fd[p][f] # NULL
  PROVE  /\ TableInv(CloseFile(t, p, f))
         /\ \A l : SizeInv(t, l) => SizeInv(CloseFile(t, p, f), l)
         /\ EntryInv(t) => EntryInv(CloseFile(t, p, f))
<1> USE FileAssumption DEF NULL
<1>1. t \in TableSet
  BY DEF TableInv
<1>2. PICK o \in Ofiles : o = t.fd[p][f]
  BY <1>1 DEF TableSet
<1>3. PICK a \in Actives : a = t.of[o].inptr
  BY <1>1, <1>2 DEF TableSet, TableInv, Owned
<1>4. PICK v : v = CloseFile(t, p, f)
  OBVIOUS
<1>5. o # NULL /\ a # NULL
  BY DEF Ofiles, Actives
<1>6. t.ai[a].ic.mode = "IFREG"
  BY <1>3, <1>5 DEF TableInv, Leads, Backed
<1>7. PICK i \in Inos : i = t.ai[a].number
  BY <1>1 DEF TableSet
<1>8. t.inode[i].mode = "IFREG" /\ i # ROOT_DIR
  BY <1>6, <1>7 DEF TableInv, Backed, OneRoot
<1>9. PICK k : k = t.ai[a].links - 1
  OBVIOUS
<1>10. /\ v.fd = [t.fd EXCEPT ![p][f] = NULL]
       /\ v.of = [t.of EXCEPT ![o] = [inptr |-> NULL, head |-> 0]]
       /\ k = 0 => /\ v.ai = [t.ai EXCEPT ![a] = [number |-> 0, links |-> 0, ic |-> UnusedInode]]
                   /\ v.inode = [t.inode EXCEPT ![i] = t.ai[a].ic]
       /\ k # 0 => /\ v.ai = [t.ai EXCEPT ![a].links = k]
                   /\ v.inode = t.inode
       /\ v.dir = t.dir
       /\ v = [fd |-> v.fd, of |-> v.of, ai |-> v.ai, inode |-> v.inode, dir |-> v.dir]
  <2>1. PICK u : u = [t EXCEPT !.ai[a].links = @ - 1]
    OBVIOUS
  <2>2. /\ u.fd = t.fd /\ u.of = t.of /\ u.inode = t.inode /\ u.dir = t.dir
        /\ u.ai = [t.ai EXCEPT ![a].links = k]
        /\ u = [fd |-> u.fd, of |-> u.of, ai |-> u.ai, inode |-> u.inode, dir |-> u.dir]
    BY <1>1, <1>9, <2>1 DEF TableSet
  <2>3. /\ u.ai[a].links = k /\ u.ai[a].number = i /\ u.ai[a].ic = t.ai[a].ic
        /\ t.ai[a] = [number |-> t.ai[a].number, links |-> t.ai[a].links, ic |-> t.ai[a].ic]
    BY <1>1, <1>7, <2>2 DEF TableSet
  <2>4. CASE k = 0
    <3>1. PICK w : w = Emptied([u EXCEPT !.inode[u.ai[a].number] = u.ai[a].ic], a)
      OBVIOUS
    <3>2. v = Unlinked(w, p, f)
      BY <1>2, <1>3, <1>4, <2>1, <2>3, <2>4, <3>1 DEF CloseFile
    <3>3. w = [[u EXCEPT !.inode[i] = t.ai[a].ic] EXCEPT !.ai[a].number = 0, !.ai[a].ic = UnusedInode]
      BY <2>3, <3>1 DEF Emptied
    <3>4. /\ w.fd = t.fd /\ w.of = t.of /\ w.dir = t.dir
          /\ w.inode = [t.inode EXCEPT ![i] = t.ai[a].ic]
          /\ w.ai = [t.ai EXCEPT ![a] = [number |-> 0, links |-> 0, ic |-> UnusedInode]]
          /\ w = [fd |-> w.fd, of |-> w.of, ai |-> w.ai, inode |-> w.inode, dir |-> w.dir]
      <4>1. /\ w.fd = t.fd /\ w.of = t.of /\ w.dir = t.dir
            /\ w.inode = [t.inode EXCEPT ![i] = t.ai[a].ic]
            /\ w.ai = [u.ai EXCEPT ![a].number = 0, ![a].ic = UnusedInode]
            /\ w = [fd |-> w.fd, of |-> w.of, ai |-> w.ai, inode |-> w.inode, dir |-> w.dir]
        BY <2>2, <3>3
      <4>2. u.ai[a] = [number |-> i, links |-> 0, ic |-> t.ai[a].ic]
        BY <1>1, <2>2, <2>3, <2>4 DEF TableSet
      <4>3. DOMAIN t.ai = Actives /\ t.ai = [b \in Actives |-> t.ai[b]]
        BY <1>1 DEF TableSet
      <4>4. DOMAIN u.ai = Actives /\ \A b \in Actives \ {a} : u.ai[b] = t.ai[b]
        BY <2>2, <4>3
      <4>5. PICK g : g = [u.ai EXCEPT ![a].number = 0]
        OBVIOUS
      <4>6. /\ DOMAIN g = Actives /\ g[a] = [number |-> 0, links |-> 0, ic |-> t.ai[a].ic]
            /\ \A b \in Actives \ {a} : g[b] = t.ai[b]
        BY <4>2, <4>4, <4>5
      <4>7. w.ai = [g EXCEPT ![a].ic = UnusedInode]
        BY <4>1, <4>5
      <4>8. /\ w.ai = [b \in Actives |-> w.ai[b]]
            /\ w.ai[a] = [number |-> 0, links |-> 0, ic |-> UnusedInode]
            /\ \A b \in Actives \ {a} : w.ai[b] = t.ai[b]
        <5>1. w.ai = [b \in Actives |-> w.ai[b]]
          BY <4>6, <4>7, Zenon
        <5>2. w.ai[a] = [g[a] EXCEPT !.ic = UnusedInode]
          BY <4>6, <4>7
        <5>3. \A b \in Actives \ {a} : w.ai[b] = t.ai[b]
          BY <4>6, <4>7
        <5> QED BY <4>6, <5>1, <5>2, <5>3
      <4>9. w.ai = [t.ai EXCEPT ![a] = [number |-> 0, links |-> 0, ic |-> UnusedInode]]
        <5>1. PICK x : x = [number |-> 0, links |-> 0, ic |-> UnusedInode]
          OBVIOUS
        <5>2. w.ai = [b \in Actives |-> IF b = a THEN x ELSE t.ai[b]]
          BY <4>8, <5>1
        <5>3. [t.ai EXCEPT ![a] = x] = [b \in Actives |-> IF b = a THEN x ELSE t.ai[b]]
          BY <4>3, Zenon
        <5> QED BY <5>1, <5>2, <5>3, Zenon
      <4> QED BY <4>1, <4>9
    <3> QED BY <1>2, <2>4, <3>2, <3>4 DEF Unlinked
  <2>5. CASE k # 0
    <3>1. v = Unlinked(u, p, f)
      BY <1>2, <1>3, <1>4, <2>1, <2>3, <2>5 DEF CloseFile
    <3> QED BY <1>2, <2>2, <2>5, <3>1 DEF Unlinked
  <2> QED BY <2>4, <2>5
<1>11. /\ \A r \in Ofiles \ {o} : v.of[r] = t.of[r]
       /\ v.of[o].inptr = NULL /\ v.of[o].head = 0
       /\ \A r \in Ofiles : t.of[r].inptr \in Actives \cup {NULL}
  BY <1>1, <1>10 DEF TableSet
<1>12. /\ \A b \in Actives \ {a} : v.ai[b] = t.ai[b]
       /\ k = 0 => v.ai[a].links = 0 /\ v.ai[a].ic.mode = "IFZERO"
       /\ k # 0 => v.ai[a].links = k /\ v.ai[a].ic = t.ai[a].ic /\ v.ai[a].number = i
       /\ v.ai[a].links = k
  <2>1. t.ai \in [Actives -> [number : Inos, links : 0..OFT_LIMIT, ic : Icommon]]
    BY <1>1 DEF TableSet
  <2>2. CASE k = 0
    BY <1>7, <1>10, <2>1, <2>2 DEF UnusedInode
  <2>3. CASE k # 0
    BY <1>7, <1>10, <2>1, <2>3
  <2> QED BY <2>2, <2>3
<1>13. /\ \A j \in Inos \ {i} : v.inode[j] = t.inode[j]
       /\ k = 0 => v.inode[i] = t.ai[a].ic
       /\ k # 0 => v.inode[i] = t.inode[i]
       /\ \A j \in Inos : v.inode[j].mode = t.inode[j].mode
  BY <1>1, <1>6, <1>8, <1>10 DEF TableSet
<1>14. /\ Users(v, a) = Users(t, a) \ {o}
       /\ \A b \in Actives \ {a} : Users(v, b) = Users(t, b)
  BY <1>3, <1>5, <1>11 DEF Users, Actives
<1>15. IsFiniteSet(Users(t, a)) /\ o \in Users(t, a) /\ Cardinality(Users(t, a)) \in Nat
  <2>1. IsFiniteSet(Ofiles)
    BY FS_Interval DEF Ofiles
  <2>2. IsFiniteSet(Users(t, a))
    BY <2>1, FS_Subset DEF Users
  <2> QED BY <1>3, <2>2, FS_CardinalityType DEF Users
<1>16. /\ k = Cardinality(Users(v, a)) /\ k \in 0..OFT_LIMIT
       /\ k = 0 => Users(v, a) = {}
  <2>1. IsFiniteSet(Users(v, a)) /\ Cardinality(Users(v, a)) = Cardinality(Users(t, a)) - 1
    BY <1>14, <1>15, FS_RemoveElement
  <2>2. Cardinality(Users(v, a)) \in Nat
    BY <2>1, FS_CardinalityType
  <2>3. t.ai[a].links = Cardinality(Users(t, a)) /\ t.ai[a].links \in 0..OFT_LIMIT
    BY <1>1 DEF TableInv, Counted, TableSet
  <2> QED BY <1>9, <2>1, <2>2, <2>3, FS_EmptySet
<1>17. Counted(v)
  BY <1>12, <1>14, <1>16 DEF Counted, TableInv
<1>18. v \in TableSet
  <2>1. v.fd \in [Pids -> [Fds -> Ofiles \cup {NULL}]]
    BY <1>1, <1>10 DEF TableSet
  <2>2. v.of \in [Ofiles -> [inptr : Actives \cup {NULL}, head : 0..MAX_SIZE]]
    BY <1>1, <1>10 DEF TableSet
  <2>3. v.inode \in [Inos -> Icommon]
    <3>1. t.inode \in [Inos -> Icommon] /\ t.ai[a].ic \in Icommon
      BY <1>1 DEF TableSet
    <3> QED BY <1>10, <3>1
  <2>4. v.ai \in [Actives -> [number : Inos, links : 0..OFT_LIMIT, ic : Icommon]]
    <3>1. t.ai \in [Actives -> [number : Inos, links : 0..OFT_LIMIT, ic : Icommon]]
      BY <1>1 DEF TableSet
    <3>2. [t.ai[a] EXCEPT !.links = k] \in [number : Inos, links : 0..OFT_LIMIT, ic : Icommon]
      BY <1>16, <3>1
    <3>3. [number |-> 0, links |-> 0, ic |-> UnusedInode] \in [number : Inos, links : 0..OFT_LIMIT, ic : Icommon]
      BY DEF UnusedInode, Icommon, Inos
    <3> QED BY <1>10, <3>1, <3>2, <3>3
  <2> QED BY <1>1, <1>10, <2>1, <2>2, <2>3, <2>4 DEF TableSet
<1>19. Single(v)
  BY <1>7, <1>12 DEF TableInv, Single
<1>20. Backed(v)
  <2>1. \A b \in Actives : t.ai[b].number \in Inos
    BY <1>1 DEF TableSet
  <2> QED BY <1>6, <1>8, <1>12, <1>13, <2>1 DEF TableInv, Backed
<1>21. Owned(v)
  <2>1. \A q \in Pids, g \in Fds : v.fd[q][g] = IF q = p /\ g = f THEN NULL ELSE t.fd[q][g]
    BY <1>1, <1>10 DEF TableSet
  <2>2. \A q \in Pids, g \in Fds : t.fd[q][g] \in Ofiles \cup {NULL}
    BY <1>1 DEF TableSet
  <2> QED BY <1>2, <1>11, <2>1, <2>2 DEF TableInv, Owned
<1>22. Leads(v)
  <2> SUFFICES ASSUME NEW r \in Ofiles \ {o}, t.of[r].inptr # NULL
               PROVE  v.ai[t.of[r].inptr].ic.mode # "IFZERO"
    BY <1>11 DEF TableInv, Leads
  <2>1. t.ai[t.of[r].inptr].ic.mode # "IFZERO"
    BY DEF TableInv, Leads
  <2>2. k = 0 => t.of[r].inptr # a
    BY <1>11, <1>16 DEF Users
  <2> QED BY <1>11, <1>12, <2>1, <2>2
<1>23. OneRoot(v)
  BY <1>13 DEF TableInv, OneRoot
<1>24. AllFilled(v)
  <2>1. \A j \in Inos : Filled(v.inode[j])
    BY <1>13 DEF TableInv, AllFilled
  <2>2. \A b \in Actives : Filled(v.ai[b].ic)
    BY <1>12 DEF TableInv, AllFilled, Filled
  <2> QED BY <2>1, <2>2 DEF AllFilled
<1>25. ASSUME NEW l, SizeInv(t, l)
       PROVE  SizeInv(v, l)
  <2>1. \A b \in Actives : v.ai[b].ic.mode # "IFZERO" => v.ai[b].ic.size = l[v.ai[b].number]
    BY <1>7, <1>12, <1>25 DEF SizeInv
  <2>2. ASSUME NEW j \in Inos, v.inode[j].mode = "IFREG", Active(v, j) = {}
        PROVE  v.inode[j].size = l[j]
    <3>1. CASE j = i
      <4>1. k = 0
        BY <1>6, <1>12, <2>2, <3>1 DEF Active
      <4> QED BY <1>6, <1>7, <1>13, <1>25, <3>1, <4>1 DEF SizeInv
    <3>2. CASE j # i
      <4>1. Active(t, j) = {}
        BY <1>7, <1>12, <2>2, <3>2 DEF Active
      <4> QED BY <1>13, <1>25, <2>2, <3>2, <4>1 DEF SizeInv
    <3> QED BY <3>1, <3>2
  <2> QED BY <1>25, <2>1, <2>2 DEF SizeInv
<1>26. EntryInv(t) => EntryInv(v)
  <2>1. v.inode[ROOT_DIR] = t.inode[ROOT_DIR]
    BY <1>8, <1>13 DEF ROOT_DIR, Inos
  <2> QED BY <1>10, <1>13, <2>1, EntriesSame
<1>27. TableInv(v)
  BY <1>17, <1>18, <1>19, <1>20, <1>21, <1>22, <1>23, <1>24 DEF TableInv
<1> QED BY <1>4, <1>25, <1>26, <1>27

\* exec drops the descriptors of its slot.
LEMMA DropKeeps ==
  ASSUME NEW t, TableInv(t), NEW p \in Pids
  PROVE  LET u == [t EXCEPT !.fd[p] = [g \in Fds |-> NULL]] IN
         /\ TableInv(u)
         /\ \A l : SizeInv(t, l) => SizeInv(u, l)
         /\ EntryInv(t) => EntryInv(u)
<1> USE DEF NULL
<1>1. PICK u : u = [t EXCEPT !.fd[p] = [g \in Fds |-> NULL]]
  OBVIOUS
<1>2. t \in TableSet
  BY DEF TableInv
<1>3. /\ u.fd = [t.fd EXCEPT ![p] = [g \in Fds |-> NULL]]
      /\ u.of = t.of /\ u.ai = t.ai /\ u.inode = t.inode /\ u.dir = t.dir
      /\ u \in TableSet
  BY <1>1, <1>2 DEF TableSet
<1>4. Counted(u) /\ Single(u) /\ Backed(u) /\ Leads(u) /\ OneRoot(u) /\ AllFilled(u)
  BY <1>3 DEF TableInv, Counted, Users, Single, Backed, Leads, OneRoot, AllFilled
<1>5. Owned(u)
  <2>1. \A q \in Pids, g \in Fds : u.fd[q][g] = IF q = p THEN NULL ELSE t.fd[q][g]
    BY <1>2, <1>3 DEF TableSet
  <2> QED BY <1>3, <2>1 DEF TableInv, Owned
<1>6. \A l : SizeInv(t, l) => SizeInv(u, l)
  BY <1>3 DEF SizeInv, Active
<1>7. EntryInv(t) => EntryInv(u)
  BY <1>3, EntriesSame
<1> QED BY <1>1, <1>3, <1>4, <1>5, <1>6, <1>7 DEF TableInv

\* What the tables keep when an inode that is not in memory is overwritten on the disk.
LEMMA OverwriteKeeps ==
  ASSUME NEW t, TableInv(t), NEW l, SizeInv(t, l), NEW u \in TableSet,
         u.fd = t.fd, u.of = t.of, u.ai = t.ai,
         NEW ino \in Inos, ino # ROOT_DIR, Active(t, ino) = {},
         u.inode[ino].mode # "IFDIR", Filled(u.inode[ino]), u.inode[ino].size = 0,
         u.inode[ROOT_DIR].mode = "IFDIR",
         \A i \in Inos \ {ino, ROOT_DIR} : u.inode[i] = t.inode[i]
  PROVE  TableInv(u) /\ SizeInv(u, [l EXCEPT ![ino] = 0])
<1>1. t \in TableSet /\ u \in TableSet
  BY DEF TableInv
<1>2. \A a \in Actives : u.ai[a].ic.mode # "IFZERO" =>
                           u.ai[a].number \in Inos \ {ino, ROOT_DIR}
  BY <1>1 DEF Active, TableInv, Backed, OneRoot, TableSet
<1>3. Counted(u) /\ Single(u) /\ Owned(u) /\ Leads(u)
  BY DEF TableInv, Counted, Users, Single, Owned, Leads
<1>4. Backed(u)
  BY <1>2 DEF TableInv, Backed
<1>5. OneRoot(u)
  BY DEF TableInv, OneRoot
<1>6. AllFilled(u)
  BY DEF TableInv, AllFilled, Filled
<1>7. SizeInv(u, [l EXCEPT ![ino] = 0])
  <2>1. l \in [Inos -> 0..MAX_SIZE]
    BY DEF SizeInv
  <2>2. [l EXCEPT ![ino] = 0] \in [Inos -> 0..MAX_SIZE]
    BY <2>1, FileAssumption
  <2>3. \A a \in Actives : u.ai[a].ic.mode # "IFZERO" =>
                             u.ai[a].ic.size = [l EXCEPT ![ino] = 0][u.ai[a].number]
    BY <1>2, <2>1 DEF SizeInv
  <2>4. ASSUME NEW i \in Inos, u.inode[i].mode = "IFREG", Active(u, i) = {}
        PROVE  u.inode[i].size = [l EXCEPT ![ino] = 0][i]
    <3>1. Active(t, i) = {}
      BY <2>4 DEF Active
    <3> QED BY <2>1, <2>4, <3>1 DEF SizeInv
  <2> QED BY <2>2, <2>3, <2>4 DEF SizeInv
<1> QED BY <1>1, <1>3, <1>4, <1>5, <1>6, <1>7 DEF TableInv

\* The creation of a file: the lowest free inode, and an entry behind the last one.
LEMMA CreateKeeps ==
  ASSUME NEW t, TableInv(t), NEW l, SizeInv(t, l), EntryInv(t),
         FreeInodes(t) # {}, NEW db \in {{0}, {}}
  PROVE  LET u   == CreateFile(t, db)
             ino == Min(FreeInodes(t))
         IN /\ ino \in Inos /\ u.inode[ino].mode = "IFREG" /\ u.fd = t.fd
            /\ TableInv(u)
            /\ SizeInv(u, [l EXCEPT ![ino] = 0])
            /\ EntryInv(u)
<1>1. t \in TableSet
  BY DEF TableInv
<1>2. PICK ino \in Inos : ino = Min(FreeInodes(t)) /\ t.inode[ino].mode = "IFZERO"
  <2>1. FreeInodes(t) \subseteq Nat
    BY FileAssumption DEF FreeInodes, Inos
  <2>2. Min(FreeInodes(t)) \in FreeInodes(t)
    BY <2>1, MinIn
  <2> QED BY <2>2 DEF FreeInodes
<1>3. ROOT_DIR \in Inos /\ t.inode[ROOT_DIR].mode = "IFDIR" /\ ino # ROOT_DIR
  <2>1. ROOT_DIR \in Inos
    BY FileAssumption DEF ROOT_DIR, Inos
  <2> QED BY <1>2, <2>1 DEF TableInv, OneRoot
<1>4. PICK n \in 0..(MAX_SIZE + INODES) : n = t.inode[ROOT_DIR].size
  BY <1>1, <1>3 DEF TableSet, Icommon
<1>5. PICK new : new = [mode |-> "IFREG", size |-> 0, db |-> db]
  OBVIOUS
<1>6. PICK e : e = ino
  OBVIOUS
<1>7. PICK u : u = CreateFile(t, db)
  OBVIOUS
<1>8. /\ u.fd = t.fd /\ u.of = t.of /\ u.ai = t.ai
      /\ u.inode = [[t.inode EXCEPT ![ino] = new] EXCEPT ![ROOT_DIR].size = n + 1]
      /\ u.dir = IF n + 1 <= Len(t.dir) THEN [t.dir EXCEPT ![n + 1] = e] ELSE Append(t.dir, e)
      /\ u = [fd |-> u.fd, of |-> u.of, ai |-> u.ai, inode |-> u.inode, dir |-> u.dir]
  <2>1. PICK w : w = [t EXCEPT !.inode[ino] = new]
    OBVIOUS
  <2>2. u = AddToDirectory(w, ino)
    BY <1>2, <1>5, <1>7, <2>1 DEF CreateFile
  <2>3. /\ w.fd = t.fd /\ w.of = t.of /\ w.ai = t.ai /\ w.dir = t.dir
        /\ w.inode = [t.inode EXCEPT ![ino] = new]
        /\ w = [fd |-> w.fd, of |-> w.of, ai |-> w.ai, inode |-> w.inode, dir |-> w.dir]
    BY <1>1, <2>1 DEF TableSet
  <2>4. w.inode[ROOT_DIR].size = n
    BY <1>1, <1>3, <1>4, <2>3 DEF TableSet
  <2>5. u = [w EXCEPT !.dir = IF n + 1 <= Len(w.dir) THEN [w.dir EXCEPT ![n + 1] = e] ELSE Append(w.dir, e),
                      !.inode[ROOT_DIR].size = n + 1]
    BY <1>6, <2>2, <2>4 DEF AddToDirectory
  <2> QED BY <2>3, <2>5
<1>9. /\ u.inode[ino] = new
      /\ u.inode[ROOT_DIR] = [t.inode[ROOT_DIR] EXCEPT !.size = n + 1]
      /\ \A i \in Inos \ {ino, ROOT_DIR} : u.inode[i] = t.inode[i]
      /\ u.inode[ROOT_DIR].mode = "IFDIR" /\ u.inode[ROOT_DIR].size = n + 1
      /\ DOMAIN u.inode = Inos
  <2>1. t.inode \in [Inos -> Icommon]
    BY <1>1 DEF TableSet
  <2> QED BY <1>3, <1>8, <2>1 DEF Icommon
<1>10. InUse(u) = InUse(t) \cup {ino} /\ ino \notin InUse(t)
  <2>1. u.inode[ino].mode = "IFREG"
    BY <1>5, <1>9
  <2>2. \A i \in Inos \ {ino} : u.inode[i].mode = t.inode[i].mode
    BY <1>3, <1>9
  <2> QED BY <1>2, <2>1, <2>2 DEF InUse
<1>11. /\ IsFiniteSet(InUse(t)) /\ Cardinality(InUse(t)) = n
       /\ Cardinality(InUse(u)) = n + 1 /\ n + 1 <= INODES
  <2>1. IsFiniteSet(Inos) /\ Cardinality(Inos) = INODES
    BY FileAssumption, FS_Interval DEF Inos
  <2>2. IsFiniteSet(InUse(t)) /\ InUse(u) \in SUBSET Inos
    BY <2>1, FS_Subset DEF InUse
  <2>3. Cardinality(InUse(t)) = n
    BY <1>4 DEF EntryInv
  <2>4. Cardinality(InUse(u)) = n + 1
    BY <1>10, <2>2, <2>3, FS_AddElement
  <2>5. Cardinality(InUse(u)) <= INODES
    BY <2>1, <2>2, FS_Subset
  <2> QED BY <2>2, <2>3, <2>4, <2>5
<1>12. t.dir \in Seq(Inos) /\ n <= Len(t.dir) /\ Len(t.dir) \in Nat /\ e \in Inos
  <2>1. t.dir \in Seq(Inos)
    BY <1>1 DEF TableSet
  <2>2. n <= Len(t.dir)
    BY <1>4 DEF EntryInv
  <2>3. e \in Inos
    BY <1>6
  <2> QED BY <2>1, <2>2, <2>3, LenProperties
<1>13. /\ u.dir \in Seq(Inos) /\ n + 1 <= Len(u.dir) /\ u.dir[n + 1] = e
       /\ \A i \in 1..n : u.dir[i] = t.dir[i]
  <2>1. CASE n + 1 <= Len(t.dir)
    <3>1. n + 1 \in 1..Len(t.dir)
      BY <2>1, <1>4, <1>12
    <3> QED BY <1>4, <1>8, <1>12, <2>1, <3>1, ExceptSeq
  <2>2. CASE ~(n + 1 <= Len(t.dir))
    <3>1. Len(t.dir) = n
      BY <1>4, <1>12, <2>2
    <3>2. u.dir = Append(t.dir, e)
      BY <1>8, <2>2
    <3> QED BY <1>4, <1>12, <3>1, <3>2, AppendProperties
  <2> QED BY <2>1, <2>2
<1>14. u \in TableSet
  <2>1. t.inode \in [Inos -> Icommon]
    BY <1>1 DEF TableSet
  <2>2. new \in Icommon
    <3>1. 0 \in Blocks
      BY FileAssumption, DivFacts DEF Blocks
    <3> QED BY <1>5, <3>1, FileAssumption DEF Icommon
  <2>3. [t.inode[ROOT_DIR] EXCEPT !.size = n + 1] \in Icommon
    <3>1. n + 1 \in 0..(MAX_SIZE + INODES)
      BY <1>4, <1>11, FileAssumption
    <3> QED BY <1>3, <2>1, <3>1 DEF Icommon
  <2>4. u.inode \in [Inos -> Icommon]
    <3>1. \A i \in Inos : u.inode[i] \in Icommon
      BY <1>9, <2>1, <2>2, <2>3
    <3>2. u.inode = [i \in Inos |-> u.inode[i]]
      <4>1. PICK w : w = [t.inode EXCEPT ![ino] = new]
        OBVIOUS
      <4>2. u.inode = [w EXCEPT ![ROOT_DIR].size = n + 1]
        BY <1>8, <4>1
      <4> QED BY <1>9, <4>2, Zenon
    <3> QED BY <3>1, <3>2, Zenon
  <2> QED BY <1>1, <1>8, <1>13, <2>4 DEF TableSet
<1>15. TableInv(u) /\ SizeInv(u, [l EXCEPT ![ino] = 0])
  <2>1. Active(t, ino) = {}
    BY <1>2 DEF Active, TableInv, Backed
  <2>2. Filled(u.inode[ino]) /\ u.inode[ino].mode # "IFDIR" /\ u.inode[ino].size = 0
    <3>1. 0 \div BLOCK_SIZE = 0
      BY FileAssumption
    <3> QED BY <1>5, <1>9, <3>1, FileAssumption DEF Filled
  <2> QED BY <1>3, <1>8, <1>9, <1>14, <2>1, <2>2, OverwriteKeeps
<1>16. EntryInv(u)
  <2>1. /\ \A i, j \in 1..n : t.dir[i] = t.dir[j] => i = j
        /\ {t.dir[i] : i \in 1..n} = InUse(t)
    BY <1>4 DEF EntryInv
  <2>2. \A i \in 1..(n + 1) : i \in 1..n \/ i = n + 1
    BY <1>4
  <2>3. \A i \in 1..n : i \in 1..(n + 1)
    BY <1>4
  <2>4. u.dir[n + 1] = ino /\ n + 1 \in 1..(n + 1)
    BY <1>4, <1>6, <1>13
  <2>5. \A i \in 1..n : u.dir[i] = t.dir[i] /\ t.dir[i] # ino
    BY <1>10, <1>13, <2>1
  <2>6. \A i, j \in 1..(n + 1) : u.dir[i] = u.dir[j] => i = j
    BY <2>1, <2>2, <2>4, <2>5, Zenon
  <2>7. {u.dir[i] : i \in 1..(n + 1)} = InUse(u)
    <3>1. ASSUME NEW i \in 1..(n + 1) PROVE u.dir[i] \in InUse(u)
      BY <1>10, <2>1, <2>2, <2>4, <2>5
    <3>2. ASSUME NEW x \in InUse(t) PROVE \E i \in 1..(n + 1) : x = u.dir[i]
      BY <2>1, <2>3, <2>5
    <3> QED BY <1>10, <2>4, <3>1, <3>2
  <2> QED BY <1>9, <1>11, <1>13, <2>6, <2>7 DEF EntryInv
<1> QED BY <1>2, <1>5, <1>7, <1>8, <1>9, <1>15, <1>16

\* The removal of entry i, where its file is not in memory: the last entry takes
\* its place and the inode is free.
LEMMA RemoveKeeps ==
  ASSUME NEW t, TableInv(t), NEW l, SizeInv(t, l), EntryInv(t),
         NEW i \in Entries(t), Removable(t, t.dir[i])
  PROVE  LET u == [RemoveEntry(t, i) EXCEPT !.inode[t.dir[i]] = UnusedInode]
         IN /\ TableInv(u)
            /\ SizeInv(u, [l EXCEPT ![t.dir[i]] = 0])
            /\ EntryInv(u)
<1>1. t \in TableSet
  BY DEF TableInv
<1>2. ROOT_DIR \in Inos
  BY FileAssumption DEF ROOT_DIR, Inos
<1>3. t.inode[ROOT_DIR].mode = "IFDIR"
  BY <1>2 DEF TableInv, OneRoot
<1>4. PICK n \in 0..(MAX_SIZE + INODES) : n = t.inode[ROOT_DIR].size
  BY <1>1, <1>2 DEF TableSet, Icommon
<1>5. i \in 1..n
  BY <1>4 DEF Entries
<1>6. t.dir \in Seq(Inos) /\ n <= Len(t.dir) /\ Len(t.dir) \in Nat
  <2>1. t.dir \in Seq(Inos)
    BY <1>1 DEF TableSet
  <2>2. n <= Len(t.dir)
    BY <1>4 DEF EntryInv
  <2> QED BY <2>1, <2>2, LenProperties
<1>7. n \in 1..Len(t.dir) /\ i \in 1..Len(t.dir) /\ n \in 1..n
  BY <1>4, <1>5, <1>6
<1>8. t.dir[i] \in Inos /\ t.dir[n] \in Inos
  BY <1>6, <1>7, ElementOfSeq
<1>9. PICK ino \in Inos : ino = t.dir[i]
  BY <1>8
<1>10. ino # ROOT_DIR /\ Active(t, ino) = {}
  BY <1>9 DEF Removable
<1>11. PICK u : u = [RemoveEntry(t, i) EXCEPT !.inode[ino] = UnusedInode]
  OBVIOUS
<1>12. /\ u.fd = t.fd /\ u.of = t.of /\ u.ai = t.ai
       /\ u.inode = [[t.inode EXCEPT ![ROOT_DIR].size = n - 1] EXCEPT ![ino] = UnusedInode]
       /\ u.dir = [t.dir EXCEPT ![i] = t.dir[n]]
       /\ u = [fd |-> u.fd, of |-> u.of, ai |-> u.ai, inode |-> u.inode, dir |-> u.dir]
  <2>1. PICK w : w = RemoveEntry(t, i)
    OBVIOUS
  <2>2. w = [t EXCEPT !.dir[i] = t.dir[n], !.inode[ROOT_DIR].size = n - 1]
    BY <1>4, <2>1 DEF RemoveEntry
  <2>3. /\ w.fd = t.fd /\ w.of = t.of /\ w.ai = t.ai
        /\ w.inode = [t.inode EXCEPT ![ROOT_DIR].size = n - 1]
        /\ w.dir = [t.dir EXCEPT ![i] = t.dir[n]]
        /\ w = [fd |-> w.fd, of |-> w.of, ai |-> w.ai, inode |-> w.inode, dir |-> w.dir]
    BY <1>1, <2>2 DEF TableSet
  <2> QED BY <1>11, <2>1, <2>3
<1>13. /\ u.inode[ino] = UnusedInode
       /\ u.inode[ROOT_DIR] = [t.inode[ROOT_DIR] EXCEPT !.size = n - 1]
       /\ \A j \in Inos \ {ino, ROOT_DIR} : u.inode[j] = t.inode[j]
       /\ u.inode[ROOT_DIR].mode = "IFDIR" /\ u.inode[ROOT_DIR].size = n - 1
       /\ DOMAIN u.inode = Inos
  <2>1. t.inode \in [Inos -> Icommon]
    BY <1>1 DEF TableSet
  <2> QED BY <1>2, <1>3, <1>10, <1>12, <2>1 DEF Icommon
<1>14. u.dir \in Seq(Inos) /\ Len(u.dir) = Len(t.dir)
       /\ \A j \in 1..n : u.dir[j] = IF j = i THEN t.dir[n] ELSE t.dir[j]
  BY <1>6, <1>7, <1>8, <1>12, ExceptSeq
<1>15. u \in TableSet
  <2>1. t.inode \in [Inos -> Icommon]
    BY <1>1 DEF TableSet
  <2>2. UnusedInode \in Icommon
    BY FileAssumption DEF Icommon, UnusedInode
  <2>3. [t.inode[ROOT_DIR] EXCEPT !.size = n - 1] \in Icommon
    <3>1. n - 1 \in 0..(MAX_SIZE + INODES)
      BY <1>4, <1>7, FileAssumption
    <3> QED BY <1>2, <2>1, <3>1 DEF Icommon
  <2>4. u.inode \in [Inos -> Icommon]
    <3>1. \A j \in Inos : u.inode[j] \in Icommon
      BY <1>13, <2>1, <2>2, <2>3
    <3>2. u.inode = [j \in Inos |-> u.inode[j]]
      <4>1. PICK w : w = [t.inode EXCEPT ![ROOT_DIR].size = n - 1]
        OBVIOUS
      <4>2. u.inode = [w EXCEPT ![ino] = UnusedInode]
        BY <1>12, <4>1
      <4> QED BY <1>13, <4>2, Zenon
    <3> QED BY <3>1, <3>2, Zenon
  <2> QED BY <1>1, <1>12, <1>14, <2>4 DEF TableSet
<1>16. TableInv(u) /\ SizeInv(u, [l EXCEPT ![ino] = 0])
  <2>1. Filled(u.inode[ino]) /\ u.inode[ino].mode # "IFDIR" /\ u.inode[ino].size = 0
    BY <1>13 DEF Filled, UnusedInode
  <2> QED BY <1>10, <1>12, <1>13, <1>15, <2>1, OverwriteKeeps
<1>17. EntryInv(u)
  <2>1. /\ \A j, k \in 1..n : t.dir[j] = t.dir[k] => j = k
        /\ {t.dir[j] : j \in 1..n} = InUse(t)
        /\ Cardinality(InUse(t)) = n
    BY <1>4 DEF EntryInv
  <2>2. InUse(u) = InUse(t) \ {ino} /\ ino \in InUse(t)
    <3>1. ino \in InUse(t)
      BY <1>5, <1>9, <2>1
    <3>2. u.inode[ino].mode = "IFZERO"
      BY <1>13 DEF UnusedInode
    <3>3. \A j \in Inos \ {ino} : u.inode[j].mode = t.inode[j].mode
      BY <1>3, <1>13
    <3> QED BY <3>1, <3>2, <3>3 DEF InUse
  <2>3. \A j \in 1..(n - 1) : j \in 1..n /\ j # n
    BY <1>4
  <2>4. \A j \in 1..n : j # n => j \in 1..(n - 1)
    BY <1>4
  <2>5. \A j, k \in 1..(n - 1) : u.dir[j] = u.dir[k] => j = k
    BY <1>7, <1>14, <2>1, <2>3
  <2>6. \A j \in 1..(n - 1) : \E k \in 1..n : k # i /\ u.dir[j] = t.dir[k]
    BY <1>7, <1>14, <2>3
  <2>7. \A k \in 1..n : k # i => \E j \in 1..(n - 1) : u.dir[j] = t.dir[k]
    <3> SUFFICES ASSUME NEW k \in 1..n, k # i
                 PROVE  \E j \in 1..(n - 1) : u.dir[j] = t.dir[k]
      OBVIOUS
    <3>1. CASE k = n
      BY <1>5, <1>14, <2>4, <3>1
    <3>2. CASE k # n
      BY <1>14, <2>4, <3>2
    <3> QED BY <3>1, <3>2
  <2>8. {u.dir[j] : j \in 1..(n - 1)} = InUse(u)
    <3>1. \A k \in 1..n : t.dir[k] = ino <=> k = i
      BY <1>5, <1>9, <2>1
    <3>2. ASSUME NEW j \in 1..(n - 1) PROVE u.dir[j] \in InUse(u)
      BY <2>1, <2>2, <2>6, <3>1
    <3>3. ASSUME NEW x \in InUse(u) PROVE \E j \in 1..(n - 1) : x = u.dir[j]
      <4>1. PICK k \in 1..n : x = t.dir[k]
        BY <2>1, <2>2
      <4> QED BY <2>2, <2>7, <3>1, <4>1
    <3> QED BY <3>2, <3>3
  <2>9. Cardinality(InUse(u)) = n - 1
    <3>1. IsFiniteSet(InUse(t))
      <4>1. IsFiniteSet(Inos)
        BY FileAssumption, FS_Interval DEF Inos
      <4> QED BY <4>1, FS_Subset DEF InUse
    <3> QED BY <2>1, <2>2, <3>1, FS_RemoveElement
  <2>10. n - 1 <= Len(u.dir)
    BY <1>4, <1>6, <1>14
  <2> QED BY <1>13, <2>5, <2>8, <2>9, <2>10 DEF EntryInv
<1> QED BY <1>9, <1>11, <1>16, <1>17

\* Tables with a new position, and with new inodes of an open file.
Moved(t, o, h)      == [t EXCEPT !.of[o].head = h]
Updated(t, a, x, y) == [t EXCEPT !.ai[a].ic = x, !.inode[t.ai[a].number] = y]

\* lseek, and the end of fread and fwrite: a position in an open file.
LEMMA MoveKeeps ==
  ASSUME NEW t, TableInv(t), NEW o \in Ofiles, t.of[o].inptr # NULL, NEW h \in 0..MAX_SIZE
  PROVE  LET u == Moved(t, o, h) IN
         /\ TableInv(u)
         /\ \A l : SizeInv(t, l) => SizeInv(u, l)
         /\ EntryInv(t) => EntryInv(u)
<1>1. PICK u : u = Moved(t, o, h)
  OBVIOUS
<1>2. t \in TableSet
  BY DEF TableInv
<1>3. /\ u.of = [t.of EXCEPT ![o].head = h]
      /\ u.fd = t.fd /\ u.ai = t.ai /\ u.inode = t.inode /\ u.dir = t.dir
      /\ u = [fd |-> u.fd, of |-> u.of, ai |-> u.ai, inode |-> u.inode, dir |-> u.dir]
  BY <1>1, <1>2 DEF TableSet, Moved
<1>4. t.of \in [Ofiles -> [inptr : Actives \cup {NULL}, head : 0..MAX_SIZE]]
  BY <1>2 DEF TableSet
<1>5. [t.of[o] EXCEPT !.head = h] \in [inptr : Actives \cup {NULL}, head : 0..MAX_SIZE]
  BY <1>4
<1>6. u.of \in [Ofiles -> [inptr : Actives \cup {NULL}, head : 0..MAX_SIZE]]
  BY <1>3, <1>4, <1>5
<1>7. u \in TableSet
  BY <1>2, <1>3, <1>6 DEF TableSet
<1>8. /\ \A r \in Ofiles : u.of[r].inptr = t.of[r].inptr
      /\ \A r \in Ofiles \ {o} : u.of[r] = t.of[r]
  BY <1>3, <1>4
<1>9. Counted(u) /\ Single(u) /\ Backed(u) /\ OneRoot(u) /\ AllFilled(u)
  BY <1>3, <1>8 DEF TableInv, Counted, Users, Single, Backed, OneRoot, AllFilled
<1>10. Leads(u)
  BY <1>3, <1>8 DEF TableInv, Leads
<1>11. Owned(u)
  <2>1. \A p \in Pids, f \in Fds : t.fd[p][f] \in Ofiles \cup {NULL}
    BY <1>2 DEF TableSet
  <2> QED BY <1>3, <1>8, <2>1 DEF TableInv, Owned
<1>12. \A l : SizeInv(t, l) => SizeInv(u, l)
  BY <1>3 DEF SizeInv, Active
<1>13. EntryInv(t) => EntryInv(u)
  BY <1>3, EntriesSame
<1> QED BY <1>1, <1>7, <1>9, <1>10, <1>11, <1>12, <1>13 DEF TableInv

\* fwrite: inode x in memory and y on the disk instead of those of an open file.
LEMMA UpdateKeeps ==
  ASSUME NEW t, TableInv(t), NEW a \in Actives, t.ai[a].ic.mode = "IFREG",
         NEW x \in Icommon, x.mode = "IFREG", Filled(x),
         NEW y \in Icommon, y.mode = "IFREG", Filled(y)
  PROVE  LET u == Updated(t, a, x, y) IN
         /\ TableInv(u)
         /\ \A l : SizeInv(t, l) => SizeInv(u, [l EXCEPT ![t.ai[a].number] = x.size])
         /\ EntryInv(t) => EntryInv(u)
<1>1. t \in TableSet
  BY DEF TableInv
<1>2. PICK i \in Inos : i = t.ai[a].number
  BY <1>1 DEF TableSet
<1>3. t.inode[i].mode = "IFREG" /\ i # ROOT_DIR
  BY <1>2 DEF TableInv, Backed, OneRoot
<1>4. PICK u : u = Updated(t, a, x, y)
  OBVIOUS
<1>5. /\ u.fd = t.fd /\ u.of = t.of /\ u.dir = t.dir
      /\ u.ai = [t.ai EXCEPT ![a].ic = x]
      /\ u.inode = [t.inode EXCEPT ![i] = y]
      /\ u = [fd |-> u.fd, of |-> u.of, ai |-> u.ai, inode |-> u.inode, dir |-> u.dir]
  BY <1>1, <1>2, <1>4 DEF TableSet, Updated
<1>6. /\ t.ai \in [Actives -> [number : Inos, links : 0..OFT_LIMIT, ic : Icommon]]
      /\ t.inode \in [Inos -> Icommon]
  BY <1>1 DEF TableSet
<1>7. u \in TableSet
  <2>1. [t.ai[a] EXCEPT !.ic = x] \in [number : Inos, links : 0..OFT_LIMIT, ic : Icommon]
    BY <1>6
  <2>2. u.ai \in [Actives -> [number : Inos, links : 0..OFT_LIMIT, ic : Icommon]]
    BY <1>5, <1>6, <2>1
  <2>3. u.inode \in [Inos -> Icommon]
    BY <1>5, <1>6
  <2> QED BY <1>1, <1>5, <2>2, <2>3 DEF TableSet
<1>8. /\ \A b \in Actives \ {a} : u.ai[b] = t.ai[b]
      /\ \A b \in Actives : u.ai[b].links = t.ai[b].links /\ u.ai[b].number = t.ai[b].number
      /\ u.ai[a].ic = x
      /\ \A b \in Actives : u.ai[b].ic.mode = t.ai[b].ic.mode
  BY <1>5, <1>6
<1>9. /\ \A j \in Inos \ {i} : u.inode[j] = t.inode[j]
      /\ u.inode[i] = y
      /\ \A j \in Inos : u.inode[j].mode = t.inode[j].mode
  BY <1>3, <1>5, <1>6
<1>10. Counted(u)
  BY <1>5, <1>8 DEF TableInv, Counted, Users
<1>11. Single(u)
  BY <1>8 DEF TableInv, Single
<1>12. Backed(u)
  BY <1>6, <1>8, <1>9 DEF TableInv, Backed
<1>13. Owned(u)
  BY <1>5 DEF TableInv, Owned
<1>14. Leads(u)
  <2>1. \A r \in Ofiles : t.of[r].inptr \in Actives \cup {NULL}
    BY <1>1 DEF TableSet
  <2> QED BY <1>5, <1>8, <2>1 DEF TableInv, Leads
<1>15. OneRoot(u)
  BY <1>9 DEF TableInv, OneRoot
<1>16. AllFilled(u)
  BY <1>8, <1>9 DEF TableInv, AllFilled
<1>17. ASSUME NEW l, SizeInv(t, l)
       PROVE  SizeInv(u, [l EXCEPT ![i] = x.size])
  <2>1. l \in [Inos -> 0..MAX_SIZE]
    BY <1>17 DEF SizeInv
  <2>2. x.size \in 0..MAX_SIZE
    BY FileAssumption DEF Icommon, Filled
  <2>3. [l EXCEPT ![i] = x.size] \in [Inos -> 0..MAX_SIZE]
    BY <2>1, <2>2
  <2>4. \A b \in Actives \ {a} : t.ai[b].ic.mode # "IFZERO" => t.ai[b].number # i
    BY <1>2 DEF TableInv, Single
  <2>5. \A b \in Actives : u.ai[b].ic.mode # "IFZERO" =>
                             u.ai[b].ic.size = [l EXCEPT ![i] = x.size][u.ai[b].number]
    BY <1>2, <1>6, <1>8, <1>17, <2>1, <2>4 DEF SizeInv
  <2>6. ASSUME NEW j \in Inos, u.inode[j].mode = "IFREG", Active(u, j) = {}
        PROVE  u.inode[j].size = [l EXCEPT ![i] = x.size][j]
    <3>1. Active(t, j) = {} /\ j # i
      BY <1>2, <1>8, <2>6 DEF Active
    <3> QED BY <1>9, <1>17, <2>1, <2>6, <3>1 DEF SizeInv
  <2> QED BY <2>3, <2>5, <2>6 DEF SizeInv
<1>18. EntryInv(t) => EntryInv(u)
  <2>1. u.inode[ROOT_DIR] = t.inode[ROOT_DIR]
    BY <1>3, <1>9, FileAssumption DEF ROOT_DIR, Inos
  <2>2. u.dir = t.dir /\ \A j \in Inos : u.inode[j].mode = t.inode[j].mode
    BY <1>5, <1>9
  <2>3. u.inode[ROOT_DIR].size = t.inode[ROOT_DIR].size
    BY <2>1
  <2> QED BY <2>2, <2>3, EntriesSame
<1>19. TableInv(u)
  BY <1>7, <1>10, <1>11, <1>12, <1>13, <1>14, <1>15, <1>16 DEF TableInv
<1> QED BY <1>2, <1>4, <1>17, <1>18, <1>19

\* Every entry but "." leads to a regular file.
LEMMA EntryIsFile ==
  ASSUME NEW t, TableInv(t), EntryInv(t), NEW i \in Files(t)
  PROVE  t.dir[i] \in Inos /\ t.inode[t.dir[i]].mode = "IFREG"
<1>1. t \in TableSet
  BY DEF TableInv
<1>2. i \in 1..t.inode[ROOT_DIR].size /\ t.dir[i] # ROOT_DIR
  BY DEF Files, Entries
<1>3. t.dir[i] \in InUse(t)
  BY <1>2 DEF EntryInv
<1>4. t.dir[i] \in Inos /\ t.inode[t.dir[i]].mode \notin {"IFZERO", "IFDIR"}
  BY <1>2, <1>3 DEF InUse, TableInv, OneRoot
<1>5. t.inode[t.dir[i]].mode \in {"IFZERO", "IFDIR", "IFREG"}
  BY <1>1, <1>4 DEF TableSet, Icommon
<1> QED BY <1>4, <1>5

-----------------------------------------------------------------------------
(* The steps.  Each system call is shown to be a composition of the above. *)

\* The variables are the tables t after a step that ends in Become( t ).
LEMMA BecomeInv ==
  ASSUME NEW t \in TableSet, Become(t), TableInv(t), SizeInv(t, len'), EntryInv(t)
  PROVE  IInv'
<1>1. Tables' = t
  BY DEF Tables, Become, TableSet
<1> QED BY <1>1 DEF IInv

\* After a reset the tables in memory are empty.
LEMMA EmptyTables ==
  ASSUME NEW t \in TableSet, t.fd = NoDescriptors, t.of = NoOpenFiles, t.ai = NoActives,
         OneRoot(t), \A i \in Inos : Filled(t.inode[i])
  PROVE  /\ TableInv(t)
         /\ SizeInv(t, [i \in Inos |-> IF t.inode[i].mode = "IFREG" THEN t.inode[i].size ELSE 0])
<1>1. /\ \A p \in Pids, f \in Fds : t.fd[p][f] = NULL
      /\ \A o \in Ofiles : t.of[o].inptr = NULL /\ t.of[o].head = 0
      /\ \A a \in Actives : t.ai[a].links = 0 /\ t.ai[a].ic.mode = "IFZERO"
  BY DEF NoDescriptors, NoOpenFiles, NoActives, UnusedInode
<1>2. Counted(t)
  <2>1. \A a \in Actives : Users(t, a) = {}
    BY <1>1 DEF Users, Actives, NULL
  <2> QED BY <1>1, <2>1, FS_EmptySet DEF Counted
<1>3. Single(t) /\ Backed(t) /\ Owned(t) /\ Leads(t)
  BY <1>1 DEF Single, Backed, Owned, Leads
<1>4. AllFilled(t)
  BY <1>1 DEF AllFilled, Filled
<1>5. SizeInv(t, [i \in Inos |-> IF t.inode[i].mode = "IFREG" THEN t.inode[i].size ELSE 0])
  <2>1. ASSUME NEW i \in Inos, t.inode[i].mode = "IFREG"
        PROVE  t.inode[i].size \in 0..MAX_SIZE
    <3>1. t.inode[i] \in Icommon
      BY DEF TableSet
    <3> QED BY <2>1, <3>1, FileAssumption DEF Icommon, Filled
  <2>2. [i \in Inos |-> IF t.inode[i].mode = "IFREG" THEN t.inode[i].size ELSE 0] \in [Inos -> 0..MAX_SIZE]
    BY <2>1, FileAssumption
  <2> QED BY <1>1, <2>2 DEF SizeInv
<1> QED BY <1>2, <1>3, <1>4, <1>5 DEF TableInv

\* The disk as wipe leaves it.
LEMMA InitInv == Init => IInv
<1> SUFFICES ASSUME Init PROVE IInv
  OBVIOUS
<1> USE FileAssumption
<1>1. PICK t : t = Tables
  OBVIOUS
<1>2. /\ t.fd = NoDescriptors /\ t.of = NoOpenFiles /\ t.ai = NoActives
      /\ t.inode = inode /\ t.dir = dir
      /\ t = [fd |-> fd, of |-> of, ai |-> ai, inode |-> inode, dir |-> dir]
  BY <1>1 DEF Init, Tables
<1>3. 1 \div BLOCK_SIZE \in 0..(MAX_SIZE \div BLOCK_SIZE)
  BY DivFacts, DivMono
<1>4. 0 \in Blocks /\ 0..(1 \div BLOCK_SIZE) \subseteq Blocks /\ ROOT_DIR \in Inos /\ 1 \in Inos
  BY <1>3, DivFacts DEF Blocks, ROOT_DIR, Inos
<1>5. UnusedInode \in Icommon
  BY DEF UnusedInode, Icommon
<1>6. /\ inode[ROOT_DIR] = [mode |-> "IFDIR", size |-> 2, db |-> {0}]
      /\ inode[1] = [mode |-> "IFREG", size |-> 1, db |-> 0..(1 \div BLOCK_SIZE)]
      /\ \A i \in Inos \ {0, 1} : inode[i] = UnusedInode
      /\ DOMAIN inode = Inos
      /\ inode = [i \in Inos |-> inode[i]]
  BY <1>4 DEF Init, ROOT_DIR
<1>7. inode \in [Inos -> Icommon]
  <2>1. [mode |-> "IFDIR", size |-> 2, db |-> {0}] \in Icommon
    BY <1>4 DEF Icommon
  <2>2. [mode |-> "IFREG", size |-> 1, db |-> 0..(1 \div BLOCK_SIZE)] \in Icommon
    BY <1>4 DEF Icommon
  <2>3. \A i \in Inos : inode[i] \in Icommon
    BY <1>5, <1>6, <2>1, <2>2 DEF ROOT_DIR
  <2> QED BY <1>6, <2>3, Zenon
<1>8. dir \in Seq(Inos) /\ Len(dir) = 2 /\ dir[1] = ROOT_DIR /\ dir[2] = 1
  BY <1>4 DEF Init
<1>9. t \in TableSet
  <2>1. NoDescriptors \in [Pids -> [Fds -> Ofiles \cup {NULL}]]
    BY DEF NoDescriptors
  <2>2. NoOpenFiles \in [Ofiles -> [inptr : Actives \cup {NULL}, head : 0..MAX_SIZE]]
    BY DEF NoOpenFiles
  <2>3. NoActives \in [Actives -> [number : Inos, links : 0..OFT_LIMIT, ic : Icommon]]
    BY <1>4, <1>5 DEF NoActives, ROOT_DIR
  <2> QED BY <1>2, <1>7, <1>8, <2>1, <2>2, <2>3 DEF TableSet
<1>10. OneRoot(t)
  BY <1>2, <1>6 DEF OneRoot, ROOT_DIR, UnusedInode
<1>11. \A i \in Inos : Filled(t.inode[i])
  BY <1>2, <1>6 DEF Filled, ROOT_DIR, UnusedInode
<1>12. TableInv(t) /\ SizeInv(t, len)
  <2>1. len = [i \in Inos |-> IF t.inode[i].mode = "IFREG" THEN t.inode[i].size ELSE 0]
    BY <1>2 DEF Init, Sizes
  <2> QED BY <1>2, <1>9, <1>10, <1>11, <2>1, EmptyTables
<1>13. EntryInv(t)
  <2>1. t.inode[ROOT_DIR].size = 2 /\ 1..2 = {1, 2}
    BY <1>2, <1>6
  <2>2. InUse(t) = {0, 1}
    BY <1>2, <1>4, <1>6 DEF InUse, ROOT_DIR, UnusedInode
  <2>3. t.dir[1] = 0 /\ t.dir[2] = 1 /\ Len(t.dir) = 2
    BY <1>2, <1>8 DEF ROOT_DIR
  <2>4. {t.dir[i] : i \in 1..2} = InUse(t)
    <3>1. {t.dir[i] : i \in {1, 2}} = {0, 1}
      BY <2>3
    <3> QED BY <2>1, <2>2, <3>1
  <2>5. Cardinality(InUse(t)) = 2
    <3>1. IsFiniteSet({0}) /\ Cardinality({0}) = 1
      BY FS_Singleton, Zenon
    <3>2. 1 \notin {0} /\ InUse(t) = {0} \cup {1}
      BY <2>2
    <3> QED BY <3>1, <3>2, FS_AddElement
  <2>6. \A i, j \in 1..2 : t.dir[i] = t.dir[j] => i = j
    BY <2>1, <2>3
  <2> QED BY <2>1, <2>3, <2>4, <2>5, <2>6 DEF EntryInv
<1> QED BY <1>1, <1>12, <1>13 DEF IInv

\* What is true of an open descriptor.
LEMMA OpenDescriptor ==
  ASSUME IInv, NEW p \in Pids, NEW f \in Fds, ~Closed(Tables, p, f)
  PROVE  /\ fd[p][f] \in Ofiles /\ of[fd[p][f]].inptr \in Actives /\ of[fd[p][f]].inptr # NULL
         /\ of[fd[p][f]].head \in 0..MAX_SIZE
         /\ ai[of[fd[p][f]].inptr].ic.mode = "IFREG"
         /\ ai[of[fd[p][f]].inptr].ic \in Icommon
         /\ Filled(ai[of[fd[p][f]].inptr].ic)
         /\ ai[of[fd[p][f]].inptr].number \in Inos
<1>1. PICK t : t = Tables
  OBVIOUS
<1>2. t.fd = fd /\ t.of = of /\ t.ai = ai
  BY <1>1 DEF Tables
<1>3. TableInv(t) /\ t \in TableSet
  BY <1>1 DEF IInv, TableInv
<1>4. fd[p][f] \in Ofiles
  BY <1>2, <1>3, <1>1 DEF TableSet, Closed
<1>5. of[fd[p][f]].inptr \in Actives /\ of[fd[p][f]].inptr # NULL
  <2>1. fd[p][f] # NULL
    BY <1>1, <1>2 DEF Closed
  <2>2. of[fd[p][f]].inptr # NULL
    BY <1>2, <1>3, <2>1 DEF TableInv, Owned
  <2> QED BY <1>2, <1>3, <1>4, <2>2 DEF TableSet
<1>6. of[fd[p][f]].head \in 0..MAX_SIZE
  BY <1>2, <1>3, <1>4 DEF TableSet
<1>7. ai[of[fd[p][f]].inptr].ic.mode = "IFREG"
  BY <1>2, <1>3, <1>4, <1>5 DEF TableInv, Leads, Backed
<1>8. /\ ai[of[fd[p][f]].inptr].ic \in Icommon
      /\ ai[of[fd[p][f]].inptr].number \in Inos
  BY <1>2, <1>3, <1>5 DEF TableSet
<1>9. Filled(ai[of[fd[p][f]].inptr].ic)
  BY <1>2, <1>3, <1>5 DEF TableInv, AllFilled
<1> QED BY <1>4, <1>5, <1>6, <1>7, <1>8, <1>9

\* open of a file that exists.
LEMMA OpenExistingInv ==
  ASSUME IInv, NEW p \in Pids, NEW i \in Files(Tables), OpenExisting(p, i)
  PROVE  IInv'
<1>1. PICK t : t = Tables
  OBVIOUS
<1>2. PICK u : u = OpenInode(t, p, t.dir[i])
  OBVIOUS
<1>3. TableInv(t) /\ SizeInv(t, len) /\ EntryInv(t)
  BY <1>1 DEF IInv
<1>4. GetFD(t, p) # {} /\ Become(u) /\ UNCHANGED len
  BY <1>1, <1>2 DEF OpenExisting, Tables
<1>5. t.dir[i] \in Inos /\ t.inode[t.dir[i]].mode = "IFREG"
  BY <1>1, <1>3, EntryIsFile
<1>6. TableInv(u) /\ SizeInv(u, len) /\ u.inode = t.inode /\ u.dir = t.dir
  BY <1>2, <1>3, <1>4, <1>5, OpenKeeps
<1>7. EntryInv(u)
  BY <1>3, <1>6, EntriesSame
<1>8. u \in TableSet
  BY <1>6 DEF TableInv
<1> QED BY <1>4, <1>6, <1>7, <1>8, BecomeInv

\* open( O_CREAT ) of a new file.
LEMMA OpenNewInv ==
  ASSUME IInv, NEW p \in Pids, NEW db \in FirstBlock, OpenNew(p, db)
  PROVE  IInv'
<1>1. PICK t : t = Tables
  OBVIOUS
<1>2. PICK ino : ino = Min(FreeInodes(t))
  OBVIOUS
<1>3. PICK w : w = CreateFile(t, db)
  OBVIOUS
<1>4. PICK u : u = OpenInode(w, p, ino)
  OBVIOUS
<1>5. TableInv(t) /\ SizeInv(t, len) /\ EntryInv(t)
  BY <1>1 DEF IInv
<1>6. /\ GetFD(t, p) # {} /\ FreeInodes(t) # {} /\ Become(u)
      /\ len' = [len EXCEPT ![ino] = 0]
  BY <1>1, <1>2, <1>3, <1>4 DEF OpenNew
<1>7. db \in {{0}, {}}
  BY DEF FirstBlock
<1>8. /\ ino \in Inos /\ w.inode[ino].mode = "IFREG" /\ w.fd = t.fd
      /\ TableInv(w) /\ SizeInv(w, len') /\ EntryInv(w)
  BY <1>2, <1>3, <1>5, <1>6, <1>7, CreateKeeps
<1>9. GetFD(w, p) # {}
  BY <1>6, <1>8 DEF GetFD, Closed
<1>10. TableInv(u) /\ SizeInv(u, len') /\ u.inode = w.inode /\ u.dir = w.dir
  BY <1>4, <1>8, <1>9, OpenKeeps
<1>11. EntryInv(u)
  BY <1>8, <1>10, EntriesSame
<1>12. u \in TableSet
  BY <1>10 DEF TableInv
<1> QED BY <1>6, <1>10, <1>11, <1>12, BecomeInv

\* close.
LEMMA CloseInv ==
  ASSUME IInv, NEW p \in Pids, NEW f \in Fds, Close(p, f)
  PROVE  IInv'
<1>1. PICK t : t = Tables
  OBVIOUS
<1>2. PICK u : u = CloseFile(t, p, f)
  OBVIOUS
<1>3. TableInv(t) /\ SizeInv(t, len) /\ EntryInv(t)
  BY <1>1 DEF IInv
<1>4. t.fd[p][f] # NULL /\ Become(u) /\ UNCHANGED len
  BY <1>1, <1>2 DEF Close, Closed
<1>5. TableInv(u) /\ SizeInv(u, len) /\ EntryInv(u)
  BY <1>2, <1>3, <1>4, CloseKeeps
<1>6. u \in TableSet
  BY <1>5 DEF TableInv
<1> QED BY <1>4, <1>5, <1>6, BecomeInv

\* fread and lseek.
LEMMA ReadSeekInv ==
  ASSUME IInv, NEW p \in Pids, NEW f \in Fds,
         (\E n \in Lengths : Read(p, f, n)) \/ (\E h \in 0..MAX_SIZE : Seek(p, f, h))
  PROVE  IInv'
<1>1. PICK t : t = Tables
  OBVIOUS
<1>2. TableInv(t) /\ SizeInv(t, len) /\ EntryInv(t)
  BY <1>1 DEF IInv
<1>3. ~Closed(Tables, p, f)
  BY DEF Read, Seek
<1>4. PICK o \in Ofiles : o = fd[p][f] /\ of[o].inptr # NULL
  BY <1>3, OpenDescriptor
<1>5. PICK h \in 0..MAX_SIZE : /\ of' = [of EXCEPT ![o].head = h]
                               /\ UNCHANGED <<fd, ai, inode, dir, len>>
  <2>1. ASSUME NEW n \in Lengths, Read(p, f, n)
        PROVE  /\ of[o].head + n \in 0..MAX_SIZE
               /\ of' = [of EXCEPT ![o].head = of[o].head + n]
               /\ UNCHANGED <<fd, ai, inode, dir, len>>
    <3>1. of[o].head + n <= ai[of[o].inptr].ic.size
      BY <1>4, <2>1 DEF Read
    <3>2. ai[of[o].inptr].ic.size \in Nat /\ ai[of[o].inptr].ic.size <= MAX_SIZE /\ of[o].head \in Nat
      <4>1. /\ ai[of[o].inptr].ic \in Icommon /\ ai[of[o].inptr].ic.mode = "IFREG"
            /\ Filled(ai[of[o].inptr].ic) /\ of[o].head \in 0..MAX_SIZE
        BY <1>3, <1>4, OpenDescriptor
      <4> QED BY <4>1, FileAssumption DEF Icommon, Filled
    <3>3. of[o].head + n \in 0..MAX_SIZE
      BY <3>1, <3>2, FileAssumption
    <3> QED BY <1>4, <2>1, <3>3 DEF Read
  <2>2. ASSUME NEW h \in 0..MAX_SIZE, Seek(p, f, h)
        PROVE  /\ of' = [of EXCEPT ![o].head = h]
               /\ UNCHANGED <<fd, ai, inode, dir, len>>
    BY <1>4, <2>2 DEF Seek
  <2> QED BY <2>1, <2>2
<1>6. PICK u : u = Moved(t, o, h)
  OBVIOUS
<1>7. Become(u) /\ t.of[o].inptr # NULL
  BY <1>1, <1>4, <1>5, <1>6 DEF Become, Tables, Moved
<1>8. TableInv(u) /\ SizeInv(u, len) /\ EntryInv(u)
  BY <1>2, <1>6, <1>7, MoveKeeps
<1>9. u \in TableSet
  BY <1>8 DEF TableInv
<1> QED BY <1>5, <1>7, <1>8, <1>9, BecomeInv

\* unlink.
LEMMA UnlinkInv ==
  ASSUME IInv, NEW i \in Entries(Tables), Unlink(i)
  PROVE  IInv'
<1>1. PICK t : t = Tables
  OBVIOUS
<1>2. TableInv(t) /\ SizeInv(t, len) /\ EntryInv(t) /\ t.dir = dir
  BY <1>1 DEF IInv, Tables
<1>3. /\ Removable(t, dir[i])
      /\ Become([RemoveEntry(t, i) EXCEPT !.inode[dir[i]] = UnusedInode])
      /\ len' = [len EXCEPT ![dir[i]] = 0]
  BY <1>1 DEF Unlink
<1>4. i \in Entries(t)
  BY <1>1
<1>5. PICK u : u = [RemoveEntry(t, i) EXCEPT !.inode[t.dir[i]] = UnusedInode]
  OBVIOUS
<1>6. TableInv(u) /\ SizeInv(u, len') /\ EntryInv(u)
  BY <1>2, <1>3, <1>4, <1>5, RemoveKeeps
<1>7. Become(u)
  BY <1>2, <1>3, <1>5
<1>8. u \in TableSet
  BY <1>6 DEF TableInv
<1> QED BY <1>6, <1>7, <1>8, BecomeInv

\* exec, whether or not the program can be opened.
LEMMA ExecInv ==
  ASSUME IInv, NEW p \in Pids, NEW i \in Files(Tables), Exec(p, i)
  PROVE  IInv'
<1>1. PICK t : t = Tables
  OBVIOUS
<1>2. PICK u : u = OpenInode(t, p, t.dir[i])
  OBVIOUS
<1>3. TableInv(t) /\ SizeInv(t, len) /\ EntryInv(t)
  BY <1>1 DEF IInv
<1>4. PICK f : f = Min(GetFD(t, p))
  OBVIOUS
<1>5. /\ GetFD(t, p) # {} /\ UNCHANGED len
      /\ IF Closed(u, p, f) THEN Become(u)
         ELSE Become([CloseFile(u, p, f) EXCEPT !.fd[p] = [g \in Fds |-> NULL]])
  BY <1>1, <1>2, <1>4 DEF Exec, Tables
<1>6. f \in Fds
  <2>1. GetFD(t, p) \subseteq Nat
    BY FileAssumption DEF GetFD, Fds
  <2> QED BY <1>4, <1>5, <2>1, MinIn DEF GetFD
<1>7. t.dir[i] \in Inos /\ t.inode[t.dir[i]].mode = "IFREG"
  BY <1>1, <1>3, EntryIsFile
<1>8. TableInv(u) /\ SizeInv(u, len) /\ u.inode = t.inode /\ u.dir = t.dir
  BY <1>2, <1>3, <1>5, <1>7, OpenKeeps
<1>9. EntryInv(u)
  BY <1>3, <1>8, EntriesSame
<1>10. CASE Closed(u, p, f)
  <2>1. u \in TableSet
    BY <1>8 DEF TableInv
  <2> QED BY <1>5, <1>8, <1>9, <1>10, <2>1, BecomeInv
<1>11. CASE ~Closed(u, p, f)
  <2>1. PICK v : v = CloseFile(u, p, f)
    OBVIOUS
  <2>2. TableInv(v) /\ SizeInv(v, len) /\ EntryInv(v)
    BY <1>6, <1>8, <1>9, <1>11, <2>1, CloseKeeps DEF Closed
  <2>3. PICK w : w = [v EXCEPT !.fd[p] = [g \in Fds |-> NULL]]
    OBVIOUS
  <2>4. TableInv(w) /\ SizeInv(w, len) /\ EntryInv(w)
    BY <2>2, <2>3, DropKeeps
  <2>5. w \in TableSet /\ Become(w)
    BY <1>5, <1>11, <2>1, <2>3, <2>4 DEF TableInv
  <2> QED BY <1>5, <2>4, <2>5, BecomeInv
<1> QED BY <1>10, <1>11

\* The machine is switched off and on.
LEMMA RebootInv ==
  ASSUME IInv, Reboot
  PROVE  IInv'
<1>1. PICK t : t = Tables
  OBVIOUS
<1>2. TableInv(t) /\ EntryInv(t) /\ t.inode = inode /\ t.dir = dir
  BY <1>1 DEF IInv, Tables
<1>3. PICK u : u = [fd |-> NoDescriptors, of |-> NoOpenFiles, ai |-> NoActives, inode |-> inode, dir |-> dir]
  OBVIOUS
<1>4. u \in TableSet
  <2>1. NoDescriptors \in [Pids -> [Fds -> Ofiles \cup {NULL}]]
    BY DEF NoDescriptors
  <2>2. NoOpenFiles \in [Ofiles -> [inptr : Actives \cup {NULL}, head : 0..MAX_SIZE]]
    BY FileAssumption DEF NoOpenFiles
  <2>3. UnusedInode \in Icommon /\ 0 \in Inos /\ 0 \in 0..OFT_LIMIT
    BY FileAssumption DEF UnusedInode, Icommon, Inos
  <2>4. NoActives \in [Actives -> [number : Inos, links : 0..OFT_LIMIT, ic : Icommon]]
    BY <2>3 DEF NoActives
  <2> QED BY <1>2, <1>3, <2>1, <2>2, <2>4 DEF TableInv, TableSet
<1>5. TableInv(u) /\ SizeInv(u, len')
  <2>1. OneRoot(u) /\ \A i \in Inos : Filled(u.inode[i])
    BY <1>2, <1>3 DEF TableInv, OneRoot, AllFilled
  <2>2. len' = [i \in Inos |-> IF u.inode[i].mode = "IFREG" THEN u.inode[i].size ELSE 0]
    BY <1>3 DEF Reboot, Sizes
  <2> QED BY <1>3, <1>4, <2>1, <2>2, EmptyTables
<1>6. EntryInv(u)
  BY <1>2, <1>3, EntriesSame
<1> QED BY <1>3, <1>4, <1>5, <1>6, BecomeInv DEF Reboot, Become

\* An inode with new blocks, and with a new size.
Grown(ic, got) == [ic EXCEPT !.db = @ \cup got]
Sized(ic, end) == [ic EXCEPT !.size = end]

\* The two inodes that an extension leaves, in memory and on the disk.  Block 0 is
\* never among the new blocks, so a file that was created without one stays so.
LEMMA GrownFilled ==
  ASSUME NEW ic \in Icommon, ic.mode = "IFREG", Filled(ic),
         NEW end \in 0..MAX_SIZE, end > ic.size, NEW got \in SUBSET NewBlocks(ic, end)
  PROVE  LET x == Grown(ic, got)
             y == Sized(x, end)
         IN /\ x \in Icommon /\ x.mode = "IFREG" /\ Filled(x) /\ x.size = ic.size
            /\ y \in Icommon /\ y.mode = "IFREG" /\ y.size = end
            /\ got = NewBlocks(ic, end) => Filled(y)
            /\ NewBlocks(x, end) = NewBlocks(ic, end)
<1> USE FileAssumption
<1>1. PICK s \in Nat : s = ic.size /\ s <= MAX_SIZE
  BY DEF Icommon, Filled
<1>2. PICK q \in Nat : q = s \div BLOCK_SIZE
  BY DivFacts
<1>3. PICK r \in Nat : r = end \div BLOCK_SIZE
  BY DivFacts
<1>4. PICK m \in Nat : m = MAX_SIZE \div BLOCK_SIZE
  BY DivFacts
<1>5. r <= m
  BY <1>3, <1>4, DivMono
<1>6. NewBlocks(ic, end) = (q + 1)..r /\ Blocks = 0..m
  BY <1>1, <1>2, <1>3, <1>4 DEF NewBlocks, Blocks
<1>7. got \subseteq (q + 1)..r /\ got \subseteq Blocks /\ 0 \notin got
  BY <1>5, <1>6
<1>8. PICK x : x = Grown(ic, got)
  OBVIOUS
<1>9. PICK y : y = Sized(x, end)
  OBVIOUS
<1>10. /\ x \in Icommon /\ x.mode = "IFREG" /\ x.size = s /\ x.db = ic.db \cup got
       /\ y \in Icommon /\ y.mode = "IFREG" /\ y.size = end /\ y.db = ic.db \cup got
  <2>1. x.db = ic.db \cup got /\ x.mode = ic.mode /\ x.size = ic.size
    BY <1>8 DEF Icommon, Grown
  <2>2. ic.db \cup got \in SUBSET Blocks
    BY <1>7 DEF Icommon
  <2>3. x \in Icommon
    BY <1>8, <2>2 DEF Icommon, Grown
  <2>4. end \in 0..(MAX_SIZE + INODES)
    OBVIOUS
  <2>5. y \in Icommon /\ y.mode = x.mode /\ y.size = end /\ y.db = x.db
    BY <1>9, <2>3, <2>4 DEF Icommon, Sized
  <2> QED BY <1>1, <2>1, <2>3, <2>5
<1>11. 0 \in ic.db => 0..q \subseteq ic.db
  BY <1>1, <1>2 DEF Filled
<1>12. Filled(x)
  BY <1>1, <1>2, <1>7, <1>10, <1>11 DEF Filled
<1>13. got = NewBlocks(ic, end) => Filled(y)
  <2>1. SUFFICES ASSUME got = (q + 1)..r, 0 \in ic.db, NEW b \in 0..r
                 PROVE  b \in ic.db \cup got
    BY <1>3, <1>6, <1>7, <1>10 DEF Filled
  <2>2. b \in 0..q \/ b \in (q + 1)..r
    OBVIOUS
  <2> QED BY <1>11, <2>1, <2>2
<1>14. NewBlocks(x, end) = NewBlocks(ic, end)
  BY <1>1, <1>10 DEF NewBlocks
<1> QED BY <1>1, <1>8, <1>9, <1>10, <1>12, <1>13, <1>14

\* fwrite, with enough space on the disk or without.
LEMMA WriteInv ==
  ASSUME IInv, NEW p \in Pids, NEW f \in Fds, NEW n \in Lengths, NEW k \in Blocks, Write(p, f, n, k)
  PROVE  IInv'
<1>1. PICK t : t = Tables
  OBVIOUS
<1>2. /\ TableInv(t) /\ SizeInv(t, len) /\ EntryInv(t) /\ t \in TableSet
      /\ t.fd = fd /\ t.of = of /\ t.ai = ai /\ t.inode = inode /\ t.dir = dir
  BY <1>1 DEF IInv, Tables, TableInv
<1>3. ~Closed(Tables, p, f)
  BY DEF Write
<1>4. PICK o \in Ofiles : o = fd[p][f] /\ of[o].inptr # NULL
  BY <1>3, OpenDescriptor
<1>5. PICK a \in Actives : a = of[o].inptr
  BY <1>3, <1>4, OpenDescriptor
<1>6. PICK ic \in Icommon : ic = ai[a].ic /\ ic.mode = "IFREG" /\ Filled(ic)
  BY <1>3, <1>4, <1>5, OpenDescriptor
<1>7. PICK i \in Inos : i = ai[a].number
  BY <1>3, <1>4, <1>5, OpenDescriptor
<1>8. PICK end : end = of[o].head + n
  OBVIOUS
<1>9. PICK got : got = {b \in NewBlocks(ic, end) : b <= ic.size \div BLOCK_SIZE + k}
  OBVIOUS
<1>10. /\ end <= MAX_SIZE
       /\ IF end > ic.size THEN Grow(a, end, got) ELSE UNCHANGED <<ai, inode, len>>
       /\ of' = [of EXCEPT ![o].head = end]
       /\ UNCHANGED <<fd, dir>>
  BY <1>4, <1>5, <1>6, <1>8, <1>9 DEF Write
<1>11. end \in 0..MAX_SIZE
  <2>1. of[o].head \in 0..MAX_SIZE
    BY <1>3, <1>4, OpenDescriptor
  <2> QED BY <1>8, <1>10, <2>1, FileAssumption
<1>12. PICK w : /\ w = [t EXCEPT !.ai = ai', !.inode = inode']
                /\ TableInv(w) /\ SizeInv(w, len') /\ EntryInv(w)
  <2>1. CASE ~(end > ic.size)
    <3>1. ai' = t.ai /\ inode' = t.inode /\ len' = len
      BY <1>2, <1>10, <2>1
    <3>2. [t EXCEPT !.ai = ai', !.inode = inode'] = t
      BY <1>2, <3>1 DEF TableSet
    <3> QED BY <1>2, <3>1, <3>2
  <2>2. CASE end > ic.size
    <3>1. got \in SUBSET NewBlocks(ic, end)
      BY <1>9
    <3>2. PICK x : x = Grown(ic, got)
      OBVIOUS
    <3>3. PICK z : z = Sized(x, end)
      OBVIOUS
    <3>4. /\ x \in Icommon /\ x.mode = "IFREG" /\ Filled(x) /\ x.size = ic.size
          /\ z \in Icommon /\ z.mode = "IFREG" /\ z.size = end
          /\ got = NewBlocks(ic, end) => Filled(z)
          /\ NewBlocks(x, end) = NewBlocks(ic, end)
      BY <1>6, <1>11, <2>2, <3>1, <3>2, <3>3, GrownFilled
    <3>5. PICK done \in BOOLEAN : done <=> got = NewBlocks(ic, end)
      OBVIOUS
    <3>6. PICK m : m = IF done THEN z ELSE x
      OBVIOUS
    <3>7. PICK y : y = IF got = {} THEN inode[i] ELSE x
      OBVIOUS
    <3>8. m \in Icommon /\ m.mode = "IFREG" /\ Filled(m)
      BY <3>4, <3>5, <3>6
    <3>9. y \in Icommon /\ y.mode = "IFREG" /\ Filled(y)
      <4>1. inode[i] \in Icommon
        BY <1>2 DEF TableSet
      <4>2. inode[i].mode = "IFREG"
        BY <1>2, <1>6, <1>7 DEF TableInv, Backed
      <4>3. Filled(inode[i])
        BY <1>2 DEF TableInv, AllFilled
      <4> QED BY <3>4, <3>7, <4>1, <4>2, <4>3
    <3>10. ai' = [ai EXCEPT ![a].ic = m]
      BY <1>6, <1>10, <2>2, <3>2, <3>3, <3>4, <3>5, <3>6 DEF Grow, Grown, Sized
    <3>11. inode' = [inode EXCEPT ![i] = y]
      <4>1. inode' = IF got = {} THEN inode ELSE [inode EXCEPT ![i] = x]
        BY <1>6, <1>7, <1>10, <2>2, <3>2 DEF Grow, Grown, Sized
      <4>2. inode \in [Inos -> Icommon]
        BY <1>2 DEF TableSet
      <4>3. [inode EXCEPT ![i] = inode[i]] = inode
        BY <4>2
      <4> QED BY <3>7, <4>1, <4>3
    <3>12. len' = [len EXCEPT ![i] = m.size]
      <4>1. len' = IF done THEN [len EXCEPT ![i] = end] ELSE len
        BY <1>6, <1>7, <1>10, <2>2, <3>2, <3>4, <3>5 DEF Grow, Grown, Sized
      <4>2. len[i] = ic.size /\ len \in [Inos -> 0..MAX_SIZE]
        BY <1>2, <1>6, <1>7 DEF SizeInv
      <4>3. [len EXCEPT ![i] = len[i]] = len
        BY <4>2
      <4> QED BY <3>4, <3>6, <4>1, <4>2, <4>3
    <3>13. PICK w : w = Updated(t, a, m, y)
      OBVIOUS
    <3>14. TableInv(w) /\ SizeInv(w, len') /\ EntryInv(w)
      <4>1. t.ai[a].ic.mode = "IFREG" /\ t.ai[a].number = i
        BY <1>2, <1>6, <1>7
      <4> QED BY <1>2, <3>8, <3>9, <3>12, <3>13, <4>1, UpdateKeeps
    <3>15. w = [t EXCEPT !.ai = ai', !.inode = inode']
      BY <1>2, <1>7, <3>10, <3>11, <3>13 DEF TableSet, Updated
    <3> QED BY <3>14, <3>15
  <2> QED BY <2>1, <2>2
<1>13. PICK u : u = Moved(w, o, end)
  OBVIOUS
<1>14. w.of[o].inptr # NULL
  BY <1>2, <1>4, <1>12 DEF TableSet
<1>15. TableInv(u) /\ SizeInv(u, len') /\ EntryInv(u)
  BY <1>11, <1>12, <1>13, <1>14, MoveKeeps
<1>16. Become(u)
  BY <1>2, <1>10, <1>12, <1>13 DEF Become, TableSet, Moved
<1>17. u \in TableSet
  BY <1>15 DEF TableInv
<1> QED BY <1>10, <1>15, <1>16, <1>17, BecomeInv

\* Every step keeps the invariant.
LEMMA NextInv == IInv /\ [Next]_fileVars => IInv'
<1> SUFFICES ASSUME IInv, [Next]_fileVars
             PROVE  IInv'
  OBVIOUS
<1>1. ASSUME NEW p \in Pids, NEW i \in Files(Tables), OpenExisting(p, i)
      PROVE  IInv'
  BY <1>1, OpenExistingInv
<1>2. ASSUME NEW p \in Pids, NEW db \in FirstBlock, OpenNew(p, db)
      PROVE  IInv'
  BY <1>2, OpenNewInv
<1>3. ASSUME NEW p \in Pids, NEW f \in Fds, Close(p, f)
      PROVE  IInv'
  BY <1>3, CloseInv
<1>4. ASSUME NEW p \in Pids, NEW f \in Fds, NEW n \in Lengths, NEW k \in Blocks, Write(p, f, n, k)
      PROVE  IInv'
  BY <1>4, WriteInv
<1>5. ASSUME NEW p \in Pids, NEW f \in Fds,
             (\E n \in Lengths : Read(p, f, n)) \/ (\E h \in 0..MAX_SIZE : Seek(p, f, h))
      PROVE  IInv'
  BY <1>5, ReadSeekInv
<1>6. ASSUME NEW i \in Entries(Tables), Unlink(i)
      PROVE  IInv'
  BY <1>6, UnlinkInv
<1>7. ASSUME NEW p \in Pids \ {0}, NEW i \in Files(Tables), Exec(p, i)
      PROVE  IInv'
  BY <1>7, ExecInv
<1>8. CASE Reboot
  BY <1>8, RebootInv
<1>9. CASE UNCHANGED fileVars
  BY <1>9 DEF fileVars, IInv, Tables
<1> QED BY <1>1, <1>2, <1>3, <1>4, <1>5, <1>6, <1>7, <1>8, <1>9 DEF Next

\* The invariant holds throughout.
LEMMA Invariance == Spec => []IInv
  BY InitInv, NextInv, PTL DEF Spec

-----------------------------------------------------------------------------
(* The results. *)

\* open, close, exec and failures half way through them keep i_links equal to the
\* number of OFT entries that lead to the inode.
THEOREM LinksCorrect == Spec => []LinksExact
<1>1. IInv => LinksExact
  BY DEF IInv, TableInv, Counted, Users, LinksExact, Tables
<1> QED BY <1>1, Invariance, PTL

\* iget never reads an inode into the AIT a second time, and unlink never frees one
\* that is there.
THEOREM CopyCorrect == Spec => []OneCopy
<1>1. IInv => OneCopy
  BY DEF IInv, TableInv, Single, Backed, OneCopy, Tables
<1> QED BY <1>1, Invariance, PTL

\* The tables keep their types and lead into each other as far as a descriptor is
\* open, and an OFT entry that is handed out starts at position 0.
THEOREM DescriptorsCorrect == Spec => []DescriptorsSound
<1>1. IInv => DescriptorsSound
  <2> SUFFICES ASSUME IInv PROVE DescriptorsSound
    OBVIOUS
  <2>1. PICK t : t = Tables
    OBVIOUS
  <2>2. t.fd = fd /\ t.of = of /\ t.ai = ai /\ t.inode = inode /\ t.dir = dir
    BY <2>1 DEF Tables
  <2>3. TableInv(t) /\ SizeInv(t, len) /\ EntryInv(t)
    BY <2>1 DEF IInv
  <2>4. inode[ROOT_DIR].size <= Len(dir)
    BY <2>2, <2>3 DEF EntryInv
  <2>5. TypeOK
    BY <2>2, <2>3, <2>4 DEF TableInv, TableSet, SizeInv, TypeOK
  <2> QED BY <2>2, <2>3, <2>5 DEF TableInv, Owned, Leads, DescriptorsSound
<1> QED BY <1>1, Invariance, PTL

\* What fwrite made of the size of a file is there, in the AIT or on the disk, after
\* any further calls.
THEOREM SizeCorrect == Spec => []SizeKept
<1>1. IInv => SizeKept
  <2> SUFFICES ASSUME IInv, NEW i \in Inos, inode[i].mode = "IFREG"
               PROVE  \/ \E a \in Active(Tables, i) : ai[a].ic.size = len[i]
                      \/ Active(Tables, i) = {} /\ inode[i].size = len[i]
    BY DEF SizeKept
  <2>1. CASE Active(Tables, i) = {}
    BY <2>1 DEF IInv, SizeInv, Tables
  <2>2. CASE Active(Tables, i) # {}
    BY <2>2 DEF IInv, SizeInv, Tables, Active
  <2> QED BY <2>1, <2>2
<1> QED BY <1>1, Invariance, PTL

\* Whichever entries open, unlink and exec are led to, the root directory has exactly
\* one entry for each inode in use.
THEOREM EntriesCorrect == Spec => []EntriesKept
<1>1. IInv => EntriesKept
  BY DEF IInv, EntryInv, InUse, Entries, EntriesKept, Tables
<1> QED BY <1>1, Invariance, PTL

\* An extension that runs out of disk space leaves no word of a file without a block.
THEOREM BlocksCorrect == Spec => []BlocksCover
<1>1. IInv => BlocksCover
  <2> SUFFICES ASSUME IInv,
                      NEW ic \in {inode[i] : i \in Inos} \cup {ai[a].ic : a \in Actives},
                      ic.mode = "IFREG", 0 \in ic.db,
                      NEW b \in Blocks, b * BLOCK_SIZE < ic.size
               PROVE  b \in ic.db
    BY DEF BlocksCover
  <2>1. Filled(ic)
    BY DEF IInv, TableInv, AllFilled, Tables
  <2>2. ic \in Icommon
    BY DEF IInv, TableInv, TableSet, Tables
  <2>3. PICK s \in Nat : s = ic.size
    BY <2>2, FileAssumption DEF Icommon
  <2>4. PICK q \in Nat : q = s \div BLOCK_SIZE
    BY FileAssumption, DivFacts
  <2>5. b \in Nat
    BY FileAssumption, DivFacts DEF Blocks
  <2>6. b <= q
    <3>1. s < BLOCK_SIZE * q + BLOCK_SIZE
      BY <2>4, FileAssumption, DivFacts
    <3>2. b * BLOCK_SIZE < BLOCK_SIZE * q + BLOCK_SIZE
      BY <2>3, <2>5, <3>1, FileAssumption
    <3>3. BLOCK_SIZE * b < BLOCK_SIZE * (q + 1)
      BY <2>5, <3>2, FileAssumption
    <3> QED BY <2>5, <3>3, FileAssumption
  <2>7. 0..q \subseteq ic.db
    BY <2>1, <2>3, <2>4 DEF Filled
  <2> QED BY <2>5, <2>6, <2>7
<1> QED BY <1>1, Invariance, PTL
=============================================================================
