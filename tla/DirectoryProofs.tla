-------------------------- MODULE DirectoryProofs ---------------------------
(***************************************************************************)
(* Proofs about the directories of module Directory, for every size of     *)
(* blocks, names, directories and of the inode table, every set of names,  *)
(* and any number of losses of power.  They say nothing of what comes      *)
(* after a step that sets broken: the model ends there.                    *)
(*                                                                         *)
(* Between the writes of a command the entries do not form a tree.  The    *)
(* invariant is stated of the entries that are "live", which are all but   *)
(* the last one while remove has copied it but not yet dropped it, and     *)
(* says for each point of a command what is in flight.                     *)
(***************************************************************************)
EXTENDS Directory, FiniteSetTheorems, SequenceTheorems, WellFoundedInduction, TLAPS

-----------------------------------------------------------------------------
(* The inductive invariant. *)

\* The provers do not know that a dot is in STRING
Chars    == STRING \cup {"."}
EntrySet ==
  {e \in [d_ino : Inos, d_namlen : Nat, d_name : Seq(Chars)] : e.d_namlen <= Len(e.d_name)}
Modes    == {"IFZERO", "IFDIR", "IFREG"}
Sizes    == 0..(MAX_ENTRIES + 1)
InodeSet == [mode : Modes, size : Sizes]
CallSet  ==
  [op : {"create", "mkdir", "unlink", "mv", "cp", "wipe"},
   at : {"table", "block", "inode", "add", "count", "take", "drop", "free"},
   ino : Inos \cup {NONE}, name : Seq(Chars), d : Inos, size : Sizes,
   slot : Nat, to : Inos, room : Sizes]

Types ==
  /\ inode \in [Inos -> InodeSet]
  /\ dir \in [Inos -> Seq(EntrySet)]
  /\ cwd \in Inos /\ Active \subseteq Inos /\ ai \in [Active -> InodeSet]
  /\ call \in CallSet \cup {Idle}
  /\ moved \subseteq Inos /\ broken \in BOOLEAN /\ crashes \in 0..CRASHES

\* A size never exceeds the entries that were written.
Sized == \A d \in Inos : inode[d].size <= Len(dir[d])

\* The first entry behind "." and ".."
First(d)  == IF d = ROOT_DIR THEN 2 ELSE 3
Dotted(e) == NameOf(e) \in {DOT, DOTDOT}

\* A directory has "." and, unless it is the root, "..", and no other entry has these
\* names; files have no entries.
Shape ==
  /\ \A i \in Inos \ Dirs : inode[i].size = 0
  /\ \A d \in Dirs :
       /\ First(d) <= inode[d].size + 1 /\ inode[d].size <= Len(dir[d])
       /\ \A s \in 1..inode[d].size : Dotted(dir[d][s]) <=> s < First(d)
       /\ d # ROOT_DIR => dir[d][1].d_ino = d

\* The entries of d that count: not the last one between the two writes of remove
Live(d) ==
  {s \in First(d)..inode[d].size : ~(call.at = "drop" /\ d = call.d /\ s = call.size)}

\* Every entry leads to an inode in use, and no two to the same.
Leading == \A d \in Dirs : \A s \in Live(d) : dir[d][s].d_ino \in Used \ {ROOT_DIR}
Single  ==
  \A d, e \in Dirs : \A s \in Live(d), t \in Live(e) :
    dir[d][s].d_ino = dir[e][t].d_ino => d = e /\ s = t

\* ".." is the directory with the entry, unless that has changed.
Under(i, d) == i \in moved \/ dir[i][2].d_ino = d
Parents     ==
  \A i \in Dirs \ {ROOT_DIR}, d \in Dirs : \A s \in Live(d) :
    dir[d][s].d_ino = i => Under(i, d)

\* Everything in use but the inode in flight is reached: it is in each set that has
\* the root and, with a directory, what its entries lead to.
Closed(S) == ROOT_DIR \in S /\ \A d \in S \cap Dirs : \A s \in Live(d) : dir[d][s].d_ino \in S
Flight    == IF call.at \in {"add", "count", "drop", "free"} THEN {call.ino} ELSE {}
Reached   == crashes = 0 => \A S \in SUBSET Inos : Closed(S) => Used \ Flight \subseteq S

Linkage == Leading /\ Single /\ Parents /\ Reached

NoRef(i)   == \A d \in Dirs : \A s \in Live(d) : dir[d][s].d_ino # i
Leaf(i)    == i \in Used \ {ROOT_DIR, cwd} /\ inode[i].size <= 2
Plain(n)   == n \in Seq(Chars) /\ n \notin {<<>>, DOT, DOTDOT}
Dest(d, n) == d \in Dirs /\ n = inode[d].size /\ n <= MAX_ENTRIES

\* What is in flight at each point of a command: a new inode that is not yet written,
Coming ==
  /\ call.ino \in Inos \ Used /\ Dest(call.d, call.size) /\ Plain(call.name)
  /\ call.op # "cp"
  /\ call.at = "block" => call.op = "mkdir"
  /\ call.op = "mkdir" => call.d = cwd
  /\ call.at = "inode" /\ call.op = "mkdir" =>
       /\ Len(dir[call.ino]) = 2
       /\ Dotted(dir[call.ino][1]) /\ dir[call.ino][1].d_ino = call.ino
       /\ Dotted(dir[call.ino][2]) /\ dir[call.ino][2].d_ino = call.d
\* one that is written or was taken out by mv, and has no entry,
Adding ==
  /\ call.ino \in Used \ {ROOT_DIR, call.d} /\ Dest(call.d, call.size) /\ Plain(call.name)
  /\ NoRef(call.ino)
  /\ call.ino \in Dirs => Under(call.ino, call.d)
  /\ call.at = "count" =>
       /\ call.size < Len(dir[call.d])
       /\ dir[call.d][call.size + 1].d_ino = call.ino /\ ~Dotted(dir[call.d][call.size + 1])
\* the inode of a copy, which cp does not write,
Copying == call.ino \in Inos \ Used /\ Dest(call.d, call.size)
\* an entry that remove takes,
Taking ==
  /\ Leaf(call.ino) /\ call.d = cwd /\ call.size = inode[cwd].size
  /\ call.slot \in First(cwd)..call.size
  /\ call.op \in {"unlink", "mv"}
  /\ call.op = "mv" =>
       /\ call.to # call.d /\ call.to # call.ino /\ Dest(call.to, call.room) /\ Plain(call.name)
       /\ call.ino \in Dirs => call.ino \in moved
  /\ call.at = "take" => dir[cwd][call.slot].d_ino = call.ino
  /\ call.at = "drop" =>
       /\ NoRef(call.ino)
       /\ IF call.slot = call.size THEN dir[cwd][call.size].d_ino = call.ino
          ELSE dir[cwd][call.slot] = dir[cwd][call.size]
       /\ call.ino \in Dirs => Under(call.ino, cwd)
\* and an inode that unlink is about to free.
Leaving == Leaf(call.ino) /\ NoRef(call.ino)

Command ==
  /\ call.at \in {"block", "inode"} => Coming
  /\ call.at \in {"add", "count"} => IF call.op = "cp" THEN Copying ELSE Adding
  /\ call.at \in {"take", "drop"} => Taking
  /\ call.at = "free" => Leaving

Tree == ROOT_DIR \in Dirs /\ cwd \in Dirs /\ Shape /\ Linkage /\ Command

\* wipe before it has written the inode table
Formatting ==
  call.at = "table" /\ call.op = "wipe" /\ call.d = ROOT_DIR /\ call.name = PROGRAM /\ cwd = ROOT_DIR

IInv ==
  /\ Types
  /\ ~broken =>
      /\ Sized
      /\ Formatting \/ (call.at # "table" /\ Tree)

-----------------------------------------------------------------------------
(* Numbers. *)

\* The order of the natural numbers as a relation.
LEMMA Less ==
  ASSUME NEW x \in Nat, NEW y \in Nat, x < y
  PROVE  <<x, y>> \in OpToRel(<, Nat)
<1>1. <<x, y>> \in Nat \X Nat /\ <<x, y>>[1] = x /\ <<x, y>>[2] = y
  OBVIOUS
<1>2. <<x, y>>[1] < <<x, y>>[2]
  OBVIOUS
<1> QED BY <1>1, <1>2, Zenon DEF OpToRel

\* The loops of the code that look for something find the first.
LEMMA MinIn ==
  ASSUME NEW S, S \subseteq Nat, S # {}
  PROVE  Min(S) \in S
<1>1. PICK x \in S : \A y \in S : ~(<<y, x>> \in OpToRel(<, Nat))
  BY NatLessThanWellFounded, WFMin, Zenon
<1>2. ASSUME NEW y \in S PROVE x <= y
  <2>1. x \in Nat /\ y \in Nat
    OBVIOUS
  <2>2. ~(y < x)
    BY <1>1, <2>1, Less, Zenon
  <2> QED BY <2>1, <2>2
<1> QED BY <1>2 DEF Min

\* The smaller of two numbers.
LEMMA MinPair ==
  ASSUME NEW a \in Nat, NEW b \in Nat, a <= b
  PROVE  Min({a, b}) = a
BY DEF Min

\* Induction up to n, for a set of numbers.
LEMMA Induction ==
  ASSUME NEW n \in Nat, NEW S, 0 \in S, \A k \in 0..(n - 1) : k \in S => k + 1 \in S
  PROVE  0..n \subseteq S
<1> DEFINE T == 0..n \ S
<1>1. SUFFICES ASSUME T # {} PROVE FALSE
  OBVIOUS
<1>2. T \subseteq Nat
  OBVIOUS
<1> HIDE DEF T
<1>3. PICK x \in T : \A y \in T : ~(<<y, x>> \in OpToRel(<, Nat))
  BY <1>1, <1>2, NatLessThanWellFounded, WFMin, Zenon
<1>4. x \in Nat /\ x # 0 /\ x - 1 \in Nat /\ x - 1 < x /\ x - 1 \in 0..(n - 1) /\ x - 1 + 1 = x
  BY DEF T
<1>5. x - 1 \notin T
  BY <1>3, <1>4, Less, Zenon
<1>6. x - 1 \in S
  BY <1>4, <1>5 DEF T
<1> QED BY <1>4, <1>6 DEF T

\* Quotient and remainder.
LEMMA DivMod ==
  ASSUME NEW y \in Nat, NEW m \in Nat \ {0}
  PROVE  y \div m \in Nat /\ y % m \in 0..(m - 1) /\ y = m * (y \div m) + (y % m)
<1>1. m \in Int /\ m > 0 /\ y \in Int
  OBVIOUS
<1>2. y \div m \in Nat
  OBVIOUS
<1>3. y % m \in 0..(m - 1)
  BY <1>1
<1>4. y = m * (y \div m) + (y % m)
  BY <1>1
<1> QED BY <1>2, <1>3, <1>4

\* The last block is searched unless it is full.
LEMMA SearchedAll ==
  ASSUME NEW n \in Nat, n % PER_BLOCK # 0
  PROVE  Searched(n) = n
<1>0. PER_BLOCK \in Nat \ {0}
  BY DirectoryAssumption
<1>1. PICK q \in Nat, r \in 0..(PER_BLOCK - 1) : n = PER_BLOCK * q + r /\ r = n % PER_BLOCK
  BY <1>0, DivMod
<1>2. r # 0 /\ n # 0 /\ n - 1 = PER_BLOCK * q + (r - 1)
  BY <1>0, <1>1
<1>3. (n - 1) \div PER_BLOCK = q
  BY <1>0, <1>1, <1>2
<1>4. q * PER_BLOCK = PER_BLOCK * q
  BY <1>0, <1>1
<1> QED BY <1>0, <1>1, <1>2, <1>3, <1>4 DEF Searched

\* No entry behind the size is searched.
LEMMA SearchedBound ==
  ASSUME NEW n \in Nat
  PROVE  Searched(n) \in Nat /\ Searched(n) <= n
<1> USE DirectoryAssumption
<1>1. CASE n = 0
  BY <1>1 DEF Searched
<1>2. CASE n % PER_BLOCK # 0
  BY <1>2, SearchedAll
<1>3. CASE n # 0 /\ n % PER_BLOCK = 0
  <2>1. PICK q : q = (n - 1) \div PER_BLOCK
    OBVIOUS
  <2>2. q \in Nat /\ PER_BLOCK * q <= n - 1
    BY <1>3, <2>1
  <2>3. q * PER_BLOCK = PER_BLOCK * q /\ PER_BLOCK * q \in Nat
    BY <2>2
  <2> QED BY <1>3, <2>1, <2>2, <2>3 DEF Searched
<1> QED BY <1>1, <1>2, <1>3

-----------------------------------------------------------------------------
(* Names and entries. *)

\* The names "." and ".." as sequences of characters.
LEMMA Dots ==
  /\ DOT \in Seq(Chars) /\ DOTDOT \in Seq(Chars)
  /\ Len(DOT) = 1 /\ Len(DOTDOT) = 2
  /\ DOT # <<>> /\ DOTDOT # <<>>
  /\ DOT[1] = "." /\ DOTDOT[1] = "."
<1>1. "." \in Chars
  BY DEF Chars
<1>2. DOT \in Seq(Chars) /\ Len(DOT) = 1 /\ DOT[1] = "."
  BY <1>1 DEF DOT
<1>3. DOTDOT \in Seq(Chars) /\ Len(DOTDOT) = 2 /\ DOTDOT[1] = "."
  BY <1>1 DEF DOTDOT
<1>4. DOT # <<>>
  BY DEF DOT
<1>5. DOTDOT # <<>>
  BY DEF DOTDOT
<1> QED BY <1>2, <1>3, <1>4, <1>5

\* The name of an entry that strncpy writes is the one that was given.
LEMMA NewEntryFacts ==
  ASSUME NEW ino \in Inos, NEW name \in Seq(Chars), NEW old \in Seq(Chars)
  PROVE  /\ NewEntry(ino, name, old) \in EntrySet
         /\ NewEntry(ino, name, old).d_ino = ino
         /\ NameOf(NewEntry(ino, name, old)) = name
<1>1. PICK n \in Nat : n = Len(name)
  BY LenProperties
<1>2. PICK rest : rest = IF Len(name) < Len(old) THEN SubSeq(old, Len(name) + 1, Len(old)) ELSE <<>>
  OBVIOUS
<1>3. rest \in Seq(Chars)
  <2>1. CASE Len(name) < Len(old)
    <3>1. Len(old) \in Nat /\ \A i \in 1..Len(old) : old[i] \in Chars
      BY LenProperties, ElementOfSeq
    <3>2. \A i \in (n + 1)..Len(old) : old[i] \in Chars
      BY <3>1
    <3> QED BY <1>1, <1>2, <2>1, <3>1, <3>2, SubSeqProperties
  <2>2. CASE ~(Len(name) < Len(old))
    BY <1>2, <2>2
  <2> QED BY <2>1, <2>2
<1>4. PICK w : w = name \o rest
  OBVIOUS
<1>5. Overwrite(name, old) = w
  BY <1>2, <1>4 DEF Overwrite
<1>6. w \in Seq(Chars) /\ Len(w) = n + Len(rest) /\ Len(rest) \in Nat
  BY <1>1, <1>3, <1>4, ConcatProperties, LenProperties
<1>7. SubSeq(w, 1, n) = name
  BY <1>1, <1>3, <1>4, SubSeqOfConcat1, SubSeqFull, LenProperties, ConcatProperties
<1>8. NewEntry(ino, name, old) = [d_ino |-> ino, d_namlen |-> n, d_name |-> w]
  BY <1>1, <1>5 DEF NewEntry
<1> QED BY <1>1, <1>6, <1>7, <1>8 DEF EntrySet, NameOf

\* The first d_namlen bytes of an entry are its name.
LEMMA NameFacts ==
  ASSUME NEW e \in EntrySet
  PROVE  /\ NameOf(e) \in Seq(Chars) /\ Len(NameOf(e)) = e.d_namlen
         /\ \A i \in 1..e.d_namlen : NameOf(e)[i] = e.d_name[i]
<1>1. PICK n \in Nat : n = e.d_namlen /\ n <= Len(e.d_name) /\ e.d_name \in Seq(Chars)
  BY DEF EntrySet
<1>2. \A i \in 1..n : e.d_name[i] \in Chars
  BY <1>1, ElementOfSeq, LenProperties
<1>3. /\ SubSeq(e.d_name, 1, n) \in Seq(Chars)
      /\ Len(SubSeq(e.d_name, 1, n)) = IF 1 <= n THEN n - 1 + 1 ELSE 0
      /\ \A i \in 1..(n - 1 + 1) : SubSeq(e.d_name, 1, n)[i] = e.d_name[1 + i - 1]
  BY <1>2, SubSeqProperties
<1>4. n - 1 + 1 = n /\ (IF 1 <= n THEN n - 1 + 1 ELSE 0) = n /\ \A i \in 1..n : 1 + i - 1 = i
  OBVIOUS
<1> QED BY <1>1, <1>3, <1>4 DEF NameOf

\* A name that does not begin with a dot matches only entries with bytes of which
\* the same is true: never "." or "..".
LEMMA MatchFacts ==
  ASSUME NEW e \in EntrySet, NEW name \in Seq(Chars), name # <<>>, ~Hidden(name), Matches(name, e)
  PROVE  ~Dotted(e) /\ Plain(e.d_name)
<1>1. PICK n \in Nat \ {0} : n = Len(name)
  BY EmptySeq
<1>2. e.d_name \in Seq(Chars) /\ n <= Len(e.d_name) /\ Len(e.d_name) \in Nat
  BY <1>1, LenProperties DEF Matches, EntrySet
<1>3. \A i \in 1..n : e.d_name[i] \in Chars
  BY <1>2, ElementOfSeq
<1>4. \A i \in 1..(n - 1 + 1) : SubSeq(e.d_name, 1, n)[i] = e.d_name[1 + i - 1]
  BY <1>3, SubSeqProperties
<1>5. name[1] = e.d_name[1]
  <2>1. 1 \in 1..(n - 1 + 1) /\ 1 + 1 - 1 = 1
    BY <1>1
  <2> QED BY <1>1, <1>4, <2>1 DEF Matches
<1>6. e.d_name[1] # "."
  BY <1>5 DEF Hidden
<1>7. e.d_name \notin {<<>>, DOT, DOTDOT}
  BY <1>1, <1>2, <1>6, Dots, EmptySeq
<1>8. ~Dotted(e)
  <2> SUFFICES ASSUME Dotted(e) PROVE FALSE
    OBVIOUS
  <2>1. e.d_namlen \in {1, 2} /\ NameOf(e)[1] = "."
    BY NameFacts, Dots DEF Dotted
  <2>2. 1 \in 1..e.d_namlen
    BY <2>1
  <2> QED BY <1>6, <2>1, <2>2, NameFacts
<1> QED BY <1>2, <1>7, <1>8 DEF Plain

-----------------------------------------------------------------------------
(* Paths. *)

Places == Inos \cup {NONE}

\* What name_to_ino goes through is in use.
LEMMA HitsFacts ==
  ASSUME Types, Sized, NEW d \in Inos, NEW name
  PROVE  /\ Hits(name, d) \subseteq 1..inode[d].size /\ Hits(name, d) \subseteq Nat
         /\ \A s \in Hits(name, d) : dir[d][s] \in EntrySet
<1>1. inode[d].size \in Nat /\ inode[d].size <= Len(dir[d]) /\ Len(dir[d]) \in Nat
  <2>1. inode[d].size \in Nat
    BY DirectoryAssumption DEF Types, InodeSet, Sizes
  <2>2. dir[d] \in Seq(EntrySet)
    BY DEF Types
  <2> QED BY <2>1, <2>2, LenProperties DEF Sized
<1>2. Hits(name, d) \subseteq 1..inode[d].size
  <2>1. PICK n, m : n = inode[d].size /\ m = Searched(n) /\ m \in Nat /\ m <= n /\ n \in Nat
    BY <1>1, SearchedBound
  <2>2. 1..m \subseteq 1..n
    BY <2>1
  <2>3. Hits(name, d) \subseteq 1..m
    BY <2>1 DEF Hits
  <2> QED BY <2>1, <2>2, <2>3
<1>3. \A s \in 1..inode[d].size : dir[d][s] \in EntrySet
  <2>1. dir[d] \in Seq(EntrySet)
    BY DEF Types
  <2>2. \A s \in 1..inode[d].size : s \in 1..Len(dir[d])
    BY <1>1
  <2> QED BY <2>1, <2>2, ElementOfSeq
<1> QED BY <1>1, <1>2, <1>3

\* name_to_ino gives an inode or nothing.
LEMMA NameToInoType ==
  ASSUME Types, Sized, NEW d \in Inos, NEW name
  PROVE  NameToIno(name, d) \in Places
<1>1. CASE Hits(name, d) = {}
  BY <1>1 DEF NameToIno, Places
<1>2. CASE Hits(name, d) # {}
  <2>1. Min(Hits(name, d)) \in Hits(name, d)
    BY <1>2, HitsFacts, MinIn
  <2>2. dir[d][Min(Hits(name, d))].d_ino \in Inos
    BY <2>1, HitsFacts DEF EntrySet
  <2> QED BY <1>2, <2>2 DEF NameToIno, Places
<1> QED BY <1>1, <1>2

\* path_to_ino as a recursive function is well defined: by induction there is a function
\* that satisfies its equation.
LEMMA WalkDef ==
  ASSUME NEW path, NEW from \in Places, Len(path) \in Nat,
         \A d \in Inos, i \in 1..Len(path) : NameToIno(path[i], d) \in Places
  PROVE  /\ Walk(path, from) \in [0..Len(path) -> Places]
         /\ Walk(path, from)[0] = from
         /\ \A i \in 1..Len(path) :
              Walk(path, from)[i] = IF Walk(path, from)[i - 1] = NONE THEN NONE
                                    ELSE NameToIno(path[i], Walk(path, from)[i - 1])
<1> DEFINE n == Len(path)
           Body(f, i) == IF i = 0 THEN from
                         ELSE IF f[i - 1] = NONE THEN NONE ELSE NameToIno(path[i], f[i - 1])
           Good(k) == {f \in [0..k -> Places] : \A i \in 0..k : f[i] = Body(f, i)}
           S == {k \in 0..n : Good(k) # {}}
<1>1. 0 \in S
  <2>1. [i \in 0..0 |-> from] \in Good(0)
    OBVIOUS
  <2> QED BY <2>1
<1>2. ASSUME NEW k \in 0..(n - 1), k \in S PROVE k + 1 \in S
  <2>1. PICK f \in Good(k) : TRUE
    BY <1>2
  <2>2. PICK g :
          g = [i \in 0..(k + 1) |->
                 IF i = k + 1 THEN (IF f[k] = NONE THEN NONE ELSE NameToIno(path[k + 1], f[k])) ELSE f[i]]
    OBVIOUS
  <2>3. f \in [0..k -> Places] /\ \A i \in 0..k : f[i] = Body(f, i)
    BY <2>1
  <2>4. k \in 0..k /\ k + 1 \in 1..n /\ \A i \in 0..(k + 1) : i \in 0..k \/ i = k + 1
    OBVIOUS
  <2>5. g \in [0..(k + 1) -> Places]
    <3>1. f[k] # NONE => f[k] \in Inos
      BY <2>3, <2>4 DEF Places
    <3>2. (IF f[k] = NONE THEN NONE ELSE NameToIno(path[k + 1], f[k])) \in Places
      BY <2>4, <3>1 DEF Places
    <3> QED BY <2>2, <2>3, <2>4, <3>2
  <2>6. ASSUME NEW i \in 0..(k + 1) PROVE g[i] = Body(g, i)
    <3>1. CASE i = k + 1
      BY <2>2, <2>3, <2>4, <3>1
    <3>2. CASE i # k + 1
      <4>1. i \in 0..k /\ (i # 0 => i - 1 \in 0..k /\ i - 1 # k + 1 /\ i - 1 \in 0..(k + 1))
        BY <3>2
      <4>2. g[i] = f[i] /\ (i # 0 => g[i - 1] = f[i - 1])
        BY <2>2, <3>2, <4>1
      <4> QED BY <2>3, <4>1, <4>2
    <3> QED BY <3>1, <3>2
  <2>7. g \in Good(k + 1)
    BY <2>5, <2>6
  <2> HIDE DEF Good
  <2>8. k + 1 \in 0..n
    OBVIOUS
  <2> QED BY <2>7, <2>8
<1>3. n \in S
  <2> HIDE DEF S
  <2>1. 0..n \subseteq S
    BY <1>1, <1>2, Induction
  <2> QED BY <2>1
<1>4. PICK f \in Good(n) : TRUE
  BY <1>3
<1>5. f = [i \in 0..n |-> Body(f, i)]
  BY <1>4
<1>6. Walk(path, from) = CHOOSE g : g = [i \in 0..n |-> Body(g, i)]
  BY DEF Walk
<1>7. PICK w : w = Walk(path, from)
  OBVIOUS
<1>8. w = [i \in 0..n |-> Body(w, i)]
  BY <1>5, <1>6, <1>7, Zenon
<1>9. \A i \in 0..n : w[i] = Body(w, i)
  BY <1>8, Zenon
<1>10. 0..n \subseteq {i \in 0..n : w[i] \in Places}
  <2>1. ASSUME NEW k \in 0..(n - 1), w[k] \in Places PROVE k + 1 \in 0..n /\ w[k + 1] \in Places
    <3>1. k + 1 \in 1..n /\ k + 1 - 1 = k /\ k + 1 # 0 /\ k + 1 \in 0..n
      OBVIOUS
    <3>2. w[k + 1] = IF w[k] = NONE THEN NONE ELSE NameToIno(path[k + 1], w[k])
      BY <1>9, <3>1
    <3> QED BY <2>1, <3>1, <3>2 DEF Places
  <2>2. w[0] \in Places
    BY <1>9
  <2>3. PICK R : R = {i \in 0..n : w[i] \in Places}
    OBVIOUS
  <2>4. 0 \in R /\ \A k \in 0..(n - 1) : k \in R => k + 1 \in R
    BY <2>1, <2>2, <2>3
  <2>5. 0..n \subseteq R
    BY <2>4, Induction
  <2> QED BY <2>3, <2>5
<1>11. w \in [0..n -> Places]
  BY <1>8, <1>10
<1>12. \A i \in 1..n : i \in 0..n /\ i # 0
  OBVIOUS
<1> QED BY <1>7, <1>9, <1>11, <1>12

\* The path leads to an inode or nowhere.
LEMMA LeadsType ==
  ASSUME Types, Sized, NEW path \in Paths, NEW from \in Inos
  PROVE  /\ Leads(path, from) \in Places
         /\ path # <<>> =>
              /\ Len(path) \in Nat \ {0}
              /\ Walk(path, from)[Len(path) - 1] \in Places
              /\ Walk(path, from)[Len(path)] =
                   IF Walk(path, from)[Len(path) - 1] = NONE THEN NONE
                   ELSE NameToIno(path[Len(path)], Walk(path, from)[Len(path) - 1])
<1>1. path \in Seq(NAMES \cup {<<".">>, <<".", ".">>})
  BY NamesAssumption
<1>2. Len(path) \in Nat /\ (path # <<>> => Len(path) \in Nat \ {0})
  BY <1>1, EmptySeq, LenProperties
<1>3. from \in Places /\ \A d \in Inos, i \in 1..Len(path) : NameToIno(path[i], d) \in Places
  BY NameToInoType DEF Places
<1>4. /\ Walk(path, from) \in [0..Len(path) -> Places]
      /\ \A i \in 1..Len(path) :
           Walk(path, from)[i] = IF Walk(path, from)[i - 1] = NONE THEN NONE
                                 ELSE NameToIno(path[i], Walk(path, from)[i - 1])
  BY <1>2, <1>3, WalkDef
<1>5. Leads(path, from) \in Places
  <2>1. Len(path) \in 0..Len(path)
    BY <1>2
  <2> QED BY <1>4, <2>1 DEF Leads
<1>6. ASSUME path # <<>> PROVE Len(path) \in 1..Len(path) /\ Len(path) - 1 \in 0..Len(path)
  BY <1>2, <1>6
<1> QED BY <1>2, <1>4, <1>5, <1>6

\* The entry that remove takes.
LEMMA TargetFacts ==
  ASSUME Types, Sized, NEW name, Targets(name, cwd) # {}
  PROVE  /\ Min(Targets(name, cwd)) \in 1..inode[cwd].size
         /\ Matches(name, dir[cwd][Min(Targets(name, cwd))])
         /\ Removable(dir[cwd][Min(Targets(name, cwd))])
         /\ dir[cwd][Min(Targets(name, cwd))] \in EntrySet
<1>1. cwd \in Inos
  BY DEF Types
<1>2. Targets(name, cwd) \subseteq Hits(name, cwd)
  BY DEF Targets
<1>3. Min(Targets(name, cwd)) \in Targets(name, cwd)
  BY <1>1, <1>2, HitsFacts, MinIn
<1> QED BY <1>1, <1>2, <1>3, HitsFacts DEF Targets, Hits

\* getFreeInode takes an inode that is not in use.
LEMMA NewInodeFacts ==
  ASSUME Inos # Used
  PROVE  NewInode \in Inos \ Used
<1>1. Inos \ Used # {} /\ Inos \ Used \subseteq Nat
  BY DEF Used, Inos
<1> QED BY <1>1, MinIn DEF NewInode

-----------------------------------------------------------------------------
(* What the links need of a step. *)

\* The numbers of entries, for the provers.
LEMMA SizeFacts ==
  ASSUME Types
  PROVE  /\ \A d \in Inos : inode[d].size \in Nat /\ inode[d].mode \in Modes
         /\ \A d \in Inos : dir[d] \in Seq(EntrySet) /\ Len(dir[d]) \in Nat
         /\ \A d \in Inos : \A s \in 1..Len(dir[d]) : dir[d][s] \in EntrySet
         /\ \A d \in Inos : First(d) \in {2, 3} /\ First(d) \in Nat
         /\ Dirs \subseteq Used /\ Used \subseteq Inos
<1>1. \A d \in Inos : inode[d].size \in Nat /\ inode[d].mode \in Modes
  BY DirectoryAssumption DEF Types, InodeSet, Sizes
<1>2. \A d \in Inos : dir[d] \in Seq(EntrySet) /\ Len(dir[d]) \in Nat
  BY LenProperties DEF Types
<1>3. \A d \in Inos : \A s \in 1..Len(dir[d]) : dir[d][s] \in EntrySet
  BY <1>2, ElementOfSeq
<1> QED BY <1>1, <1>2, <1>3 DEF First, Dirs, Used

\* A step after which the live entries are the same and lead to the same inodes.
LEMMA SameLinks ==
  ASSUME Linkage,
         \A d \in Dirs' : \A s \in Live(d)' :
           d \in Dirs /\ s \in Live(d) /\ dir'[d][s].d_ino = dir[d][s].d_ino,
         \A d \in Dirs : \A s \in Live(d) : d \in Dirs' /\ s \in Live(d)',
         \A i \in Used \ Used' : NoRef(i),
         \A i \in Dirs' \ Dirs : NoRef(i),
         \A i \in (Dirs \cap Dirs') \ {ROOT_DIR}, d \in Dirs : Under(i, d) => Under(i, d)',
         crashes' = 0 => crashes = 0 /\ Used' \ Flight' \subseteq Used \ Flight
  PROVE  Linkage'
<1>1. Leading'
  BY DEF Linkage, Leading, NoRef
<1>2. Single'
  BY DEF Linkage, Single
<1>3. Parents'
  BY DEF Linkage, Parents, NoRef
<1>4. Reached'
  <2> SUFFICES ASSUME crashes' = 0, NEW S \in SUBSET Inos, Closed(S)' PROVE (Used \ Flight)' \subseteq S
    BY DEF Reached
  <2>1. Closed(S)
    BY DEF Closed
  <2> QED BY <2>1 DEF Linkage, Reached
<1> QED BY <1>1, <1>2, <1>3, <1>4 DEF Linkage

\* A step that changes neither sizes nor entries up to them.
LEMMA Quiet ==
  ASSUME Types, ROOT_DIR \in Dirs, Shape, Linkage, UNCHANGED inode,
         \A d \in Dirs : inode[d].size <= Len(dir'[d]) /\ \A s \in 1..inode[d].size : dir'[d][s] = dir[d][s],
         call.at # "drop", call'.at # "drop", moved \subseteq moved',
         crashes' = 0 => crashes = 0 /\ Flight \subseteq Flight'
  PROVE  (ROOT_DIR \in Dirs)' /\ Shape' /\ Linkage' /\ Dirs' = Dirs /\ Used' = Used
         /\ \A i : NoRef(i) <=> NoRef(i)'
<1>1. Dirs' = Dirs /\ Used' = Used
  BY DEF Dirs, Used
<1>2. \A d : Live(d)' = Live(d)
  BY DEF Live
<1>3. \A d \in Dirs : d \in Inos /\ inode[d].size \in Nat /\ First(d) \in Nat /\ First(d) >= 2
  BY SizeFacts
<1>4. \A d \in Dirs : \A s \in Live(d) : s \in 1..inode[d].size
  BY <1>3 DEF Live
<1>5. \A d \in Dirs \ {ROOT_DIR} : 1 \in 1..inode[d].size /\ 2 \in 1..inode[d].size
  BY <1>3 DEF Shape, First
<1>6. Shape'
  <2>1. \A i \in Inos \ Dirs' : inode'[i].size = 0
    BY <1>1 DEF Shape
  <2>2. ASSUME NEW d \in Dirs'
        PROVE  /\ First(d) <= inode'[d].size + 1 /\ inode'[d].size <= Len(dir'[d])
               /\ \A s \in 1..inode'[d].size : Dotted(dir'[d][s]) <=> s < First(d)
               /\ d # ROOT_DIR => dir'[d][1].d_ino = d
    BY <1>1, <1>5 DEF Shape
  <2> QED BY <2>1, <2>2 DEF Shape, First, Dotted, NameOf
<1>7. \A d \in Dirs : \A s \in Live(d) : dir'[d][s] = dir[d][s]
  BY <1>4
<1>8. \A i \in Dirs \ {ROOT_DIR}, d \in Dirs : Under(i, d) => Under(i, d)'
  BY <1>5 DEF Under
<1>9. Linkage'
  BY <1>1, <1>2, <1>7, <1>8, SameLinks
<1>10. \A i : NoRef(i) <=> NoRef(i)'
  BY <1>1, <1>2, <1>7 DEF NoRef
<1> QED BY <1>1, <1>6, <1>9, <1>10

-----------------------------------------------------------------------------
(* The commands up to their first write. *)

\* The names that a user gives are not empty and have characters the disk can hold.
LEMMA NameTypes ==
  /\ NAMES \subseteq Seq(Chars) /\ Fresh \subseteq Seq(Chars) /\ <<>> \notin NAMES
  /\ PROGRAM \in NAMES /\ Plain(PROGRAM)
  /\ \A path \in Paths : path # <<>> =>
       path[Len(path)] \in NAMES \cup {DOT, DOTDOT} /\ path[Len(path)] \in Seq(Chars)
<1>1. ASSUME NEW x \in Seq(STRING) PROVE x \in Seq(Chars)
  BY SeqMonotonic DEF Chars
<1>2. NAMES \subseteq Seq(Chars) /\ Fresh \subseteq Seq(Chars) /\ <<>> \notin NAMES
  BY <1>1, NamesAssumption
<1>3. Plain(PROGRAM) /\ PROGRAM \in NAMES
  BY <1>2, NamesAssumption DEF Plain, DOT, DOTDOT
<1>4. ASSUME NEW path \in Paths, path # <<>>
      PROVE  path[Len(path)] \in NAMES \cup {DOT, DOTDOT}
  <2>1. path \in Seq(NAMES \cup {DOT, DOTDOT})
    BY NamesAssumption DEF DOT, DOTDOT
  <2>2. Len(path) \in 1..Len(path)
    BY <1>4, <2>1, EmptySeq
  <2> QED BY <2>1, <2>2, ElementOfSeq
<1> QED BY <1>2, <1>3, <1>4, Dots

\* The local variables of a command that has read its directory.
LEMMA EnteringType ==
  ASSUME Types, NEW op \in {"create", "mkdir", "unlink", "mv", "cp", "wipe"},
         NEW at \in {"table", "block", "inode", "add", "take"}, NEW ino \in Inos \cup {NONE},
         NEW name \in Seq(Chars), NEW d \in Inos
  PROVE  /\ Entering(op, at, ino, name, d) \in CallSet
         /\ Entering(op, at, ino, name, d).op = op /\ Entering(op, at, ino, name, d).at = at
         /\ Entering(op, at, ino, name, d).ino = ino /\ Entering(op, at, ino, name, d).name = name
         /\ Entering(op, at, ino, name, d).d = d
         /\ Entering(op, at, ino, name, d).size = inode[d].size
BY DEF Entering, CallSet, Types, InodeSet

\* Before a command nothing is in flight.
LEMMA BeginTree ==
  ASSUME IInv, Begin
  PROVE  Types /\ Sized /\ Tree /\ call.at = "idle" /\ ~broken
BY DEF IInv, Begin, Idle, Formatting

\* A command that has only read.
LEMMA BeginKeeps ==
  ASSUME IInv, Begin, UNCHANGED <<inode, dir, crashes>>, Types', moved \subseteq moved',
         ~broken' => /\ cwd' \in Dirs /\ call'.at \in {"idle", "block", "inode", "add", "take"}
                     /\ Command'
  PROVE  IInv'
<1> SUFFICES ASSUME ~broken' PROVE (Sized /\ call.at # "table" /\ Tree)'
  BY DEF IInv
<1>1. Types /\ Sized /\ Tree /\ call.at = "idle"
  BY BeginTree
<1>2. Sized'
  BY <1>1 DEF Sized
<1>3. \A d \in Dirs : d \in Inos /\ inode[d].size <= Len(dir'[d])
  BY <1>1 DEF Sized, Dirs
<1>4. call.at # "drop" /\ call'.at # "drop" /\ call'.at # "table" /\ Flight \subseteq Flight'
  BY <1>1 DEF Flight
<1>5. (ROOT_DIR \in Dirs)' /\ Shape' /\ Linkage' /\ Dirs' = Dirs
  BY <1>1, <1>3, <1>4, Quiet DEF Tree
<1> QED BY <1>2, <1>4, <1>5 DEF Tree

\* open of what exists changes only what is in memory.
LEMMA OpenInv ==
  ASSUME IInv, NEW path \in Paths, Open(path) PROVE IInv'
<1>1. PICK ino : ino = Leads(path, ROOT_DIR)
  OBVIOUS
<1>2. /\ Begin /\ ino # NONE /\ Activate(ino, inode[ino])
      /\ UNCHANGED <<inode, dir, cwd, call, moved, broken, crashes>>
  BY <1>1 DEF Open
<1>3. Types /\ Sized /\ Tree /\ call.at = "idle"
  BY <1>2, BeginTree
<1>4. ino \in Inos
  <2>1. ROOT_DIR \in Inos
    BY <1>3 DEF Tree, Dirs
  <2> QED BY <1>1, <1>2, <1>3, <2>1, LeadsType DEF Places
<1>5. Active' \subseteq Inos /\ ai' \in [Active' -> InodeSet]
  BY <1>2, <1>3, <1>4 DEF Activate, Active, Types
<1>6. Types'
  BY <1>2, <1>3, <1>5 DEF Types
<1>7. cwd' \in Dirs /\ call'.at = "idle" /\ Command'
  BY <1>2, <1>3 DEF Tree, Command
<1> QED BY <1>2, <1>6, <1>7, BeginKeeps

\* close writes an inode back; when the disk has another, the model ends.
LEMMA CloseInv ==
  ASSUME IInv, NEW ino \in Active, Close(ino) PROVE IInv'
<1>1. Types /\ Sized /\ Tree /\ call.at = "idle" /\ Begin
  BY BeginTree DEF Close
<1>2. ino \in Inos /\ ai[ino] \in InodeSet
  BY <1>1 DEF Types
<1>3. inode' \in [Inos -> InodeSet]
  BY <1>1, <1>2 DEF Close, Types
<1>4. Active' \subseteq Inos /\ ai' \in [Active' -> InodeSet]
  BY <1>1 DEF Close, Active, Types
<1>5. broken' \in BOOLEAN
  BY DEF Close
<1>6. Types'
  BY <1>1, <1>3, <1>4, <1>5 DEF Close, Types
<1>7. CASE broken'
  BY <1>6, <1>7 DEF IInv
<1>8. CASE ~broken'
  <2>1. inode' = inode
    BY <1>1, <1>8 DEF Close, Types
  <2>2. cwd' \in Dirs /\ call'.at = "idle" /\ Command'
    BY <1>1 DEF Close, Tree, Command
  <2> QED BY <1>1, <1>6, <2>1, <2>2, BeginKeeps DEF Close
<1> QED BY <1>7, <1>8

\* open( O_CREAT ) has chosen an inode that is not in use and a directory with room.
LEMMA CreateInv ==
  ASSUME IInv, NEW path \in Paths, Create(path) PROVE IInv'
<1>1. PICK par, name : par = Walk(path, ROOT_DIR)[Len(path) - 1] /\ name = path[Len(path)]
  OBVIOUS
<1>2. /\ Begin /\ path # <<>> /\ par # NONE /\ Inos # Used /\ inode[par].size < MAX_ENTRIES
      /\ call' = Entering("create", "inode", NewInode, name, par)
      /\ broken' = (inode[par].mode # "IFDIR" \/ name \in {DOT, DOTDOT} \/ ~Fits(name))
      /\ UNCHANGED <<inode, dir, cwd, ai, moved, crashes>>
  BY <1>1 DEF Create
<1>3. Types /\ Sized /\ Tree /\ call.at = "idle"
  BY <1>2, BeginTree
<1>4. par \in Inos
  <2>1. ROOT_DIR \in Inos
    BY <1>3 DEF Tree, Dirs
  <2> QED BY <1>1, <1>2, <1>3, <2>1, LeadsType DEF Places
<1>5. NewInode \in Inos \ Used
  BY <1>2, NewInodeFacts
<1>6. name \in NAMES \cup {DOT, DOTDOT} /\ name \in Seq(Chars) /\ <<>> \notin NAMES
  BY <1>1, <1>2, NameTypes
<1>7. /\ call' \in CallSet /\ call'.op = "create" /\ call'.at = "inode" /\ call'.ino = NewInode
      /\ call'.name = name /\ call'.d = par /\ call'.size = inode[par].size
  BY <1>2, <1>3, <1>4, <1>5, <1>6, EnteringType
<1>8. Types'
  <2>1. broken' \in BOOLEAN
    BY <1>2
  <2> QED BY <1>2, <1>3, <1>7, <2>1 DEF Types, Active
<1>9. ASSUME ~broken' PROVE Command'
  <2>1. par \in Dirs' /\ Plain(name)
    BY <1>2, <1>4, <1>6, <1>9, Dots DEF Dirs, Plain
  <2>2. NewInode \in Inos \ Used'
    BY <1>2, <1>5 DEF Used
  <2>3. inode[par].size <= MAX_ENTRIES
    BY <1>2, <1>3, <1>4, SizeFacts, DirectoryAssumption
  <2>4. Coming'
    BY <1>2, <1>7, <2>1, <2>2, <2>3 DEF Coming, Dest
  <2> QED BY <1>7, <2>4 DEF Command
<1>10. cwd' \in Dirs
  BY <1>2, <1>3 DEF Tree
<1> QED BY <1>2, <1>7, <1>8, <1>9, <1>10, BeginKeeps

\* mkdir has chosen an inode that is not in use, and enters the current directory.
LEMMA MkdirInv ==
  ASSUME IInv, NEW name \in NAMES, Mkdir(name) PROVE IInv'
<1>1. /\ Begin /\ Inos # Used /\ inode[cwd].size < MAX_ENTRIES
      /\ call' = Entering("mkdir", "block", NewInode, name, cwd)
      /\ broken' = (name \in {DOT, DOTDOT} \/ ~Fits(name))
      /\ UNCHANGED <<inode, dir, cwd, ai, moved, crashes>>
  BY DEF Mkdir
<1>2. Types /\ Sized /\ Tree /\ call.at = "idle"
  BY <1>1, BeginTree
<1>3. cwd \in Inos /\ cwd \in Dirs
  BY <1>2 DEF Types, Tree
<1>4. NewInode \in Inos \ Used
  BY <1>1, NewInodeFacts
<1>5. name \in Seq(Chars) /\ name # <<>>
  BY NameTypes
<1>6. /\ call' \in CallSet /\ call'.op = "mkdir" /\ call'.at = "block" /\ call'.ino = NewInode
      /\ call'.name = name /\ call'.d = cwd /\ call'.size = inode[cwd].size
  BY <1>1, <1>2, <1>3, <1>4, <1>5, EnteringType
<1>7. Types'
  <2>1. broken' \in BOOLEAN
    BY <1>1
  <2> QED BY <1>1, <1>2, <1>6, <2>1 DEF Types, Active
<1>8. ASSUME ~broken' PROVE Command'
  <2>1. cwd \in Dirs' /\ Plain(name)
    BY <1>1, <1>3, <1>5, <1>8 DEF Dirs, Plain
  <2>2. NewInode \in Inos \ Used'
    BY <1>1, <1>4 DEF Used
  <2>3. inode[cwd].size <= MAX_ENTRIES
    BY <1>1, <1>2, <1>3, SizeFacts, DirectoryAssumption
  <2>4. Coming'
    BY <1>1, <1>6, <2>1, <2>2, <2>3 DEF Coming, Dest
  <2> QED BY <1>6, <2>4 DEF Command
<1> QED BY <1>1, <1>3, <1>6, <1>7, <1>8, BeginKeeps

\* cd enters a directory, or the model ends.
LEMMA CdInv ==
  ASSUME IInv, NEW path \in Paths, Cd(path) PROVE IInv'
<1>1. PICK ino : ino = Leads(path, cwd)
  OBVIOUS
<1>2. /\ Begin /\ ino # NONE /\ cwd' = ino /\ broken' = (inode[ino].mode # "IFDIR")
      /\ UNCHANGED <<inode, dir, ai, call, moved, crashes>>
  BY <1>1 DEF Cd
<1>3. Types /\ Sized /\ Tree /\ call.at = "idle"
  BY <1>2, BeginTree
<1>4. ino \in Inos
  <2>1. cwd \in Inos
    BY <1>3 DEF Types
  <2> QED BY <1>1, <1>2, <1>3, <2>1, LeadsType DEF Places
<1>5. Types'
  <2>1. broken' \in BOOLEAN
    BY <1>2
  <2> QED BY <1>2, <1>3, <1>4, <2>1 DEF Types, Active
<1>6. ~broken' => cwd' \in Dirs
  BY <1>2, <1>4 DEF Dirs
<1>7. call'.at = "idle" /\ Command'
  BY <1>2, <1>3 DEF Command
<1> QED BY <1>2, <1>5, <1>6, <1>7, BeginKeeps

\* wipe has written the superblock, and nothing else yet.
LEMMA WipeInv ==
  ASSUME IInv, Wipe PROVE IInv'
<1>1. /\ Begin /\ call' = Entering("wipe", "table", NONE, PROGRAM, ROOT_DIR)
      /\ broken' = (cwd # ROOT_DIR)
      /\ UNCHANGED <<inode, dir, cwd, ai, moved, crashes>>
  BY DEF Wipe
<1>2. Types /\ Sized /\ Tree /\ call.at = "idle"
  BY <1>1, BeginTree
<1>3. ROOT_DIR \in Inos
  BY <1>2 DEF Tree, Dirs
<1>4. /\ call' \in CallSet /\ call'.op = "wipe" /\ call'.at = "table"
      /\ call'.name = PROGRAM /\ call'.d = ROOT_DIR
  <2>1. PROGRAM \in Seq(Chars) /\ NONE \in Inos \cup {NONE} /\ inode[ROOT_DIR].size \in Sizes
    BY <1>2, <1>3, NameTypes DEF Types, InodeSet
  <2> QED BY <1>1, <1>3, <2>1 DEF Entering, CallSet
<1>5. Types'
  <2>1. broken' \in BOOLEAN
    BY <1>1
  <2> QED BY <1>1, <1>2, <1>4, <2>1 DEF Types, Active
<1>6. ~broken' => Formatting'
  BY <1>1, <1>4 DEF Formatting
<1>7. Sized'
  BY <1>1, <1>2 DEF Sized
<1> QED BY <1>5, <1>6, <1>7 DEF IInv

\* cp has chosen an inode that is not in use, or the model ends.
LEMMA CpInv ==
  ASSUME IInv, NEW path \in Paths, NEW name \in NAMES, Cp(path, name) PROVE IInv'
<1>1. PICK ino : ino = IF Inos = Used THEN NONE ELSE NewInode
  OBVIOUS
<1>2. /\ Begin /\ call' = Entering("cp", "add", ino, name, cwd) /\ inode[cwd].size < MAX_ENTRIES
      /\ broken' \in BOOLEAN /\ (~broken' => Inos # Used)
      /\ UNCHANGED <<inode, dir, cwd, ai, moved, crashes>>
  BY <1>1 DEF Cp, CopyInode
<1>3. Types /\ Sized /\ Tree /\ call.at = "idle"
  BY <1>2, BeginTree
<1>4. cwd \in Inos /\ cwd \in Dirs
  BY <1>3 DEF Types, Tree
<1>5. ino \in Inos \cup {NONE} /\ (~broken' => ino \in Inos \ Used)
  BY <1>1, <1>2, NewInodeFacts
<1>6. /\ call' \in CallSet /\ call'.op = "cp" /\ call'.at = "add" /\ call'.ino = ino
      /\ call'.d = cwd /\ call'.size = inode[cwd].size
  <2>1. name \in Seq(Chars)
    BY NameTypes
  <2>2. PICK i \in Inos \cup {NONE} : i = ino
    BY <1>5
  <2>3. Types /\ cwd \in Inos
    BY <1>3, <1>4
  <2>4. PICK c \in CallSet : /\ c = Entering("cp", "add", i, name, cwd) /\ c.op = "cp" /\ c.at = "add"
                             /\ c.ino = i /\ c.d = cwd /\ c.size = inode[cwd].size
    BY <2>1, <2>3, EnteringType
  <2> QED BY <1>2, <2>2, <2>4
<1>7. Types'
  BY <1>2, <1>3, <1>6 DEF Types, Active
<1>8. ASSUME ~broken' PROVE Command'
  <2>1. cwd \in Dirs' /\ ino \in Inos \ Used'
    BY <1>2, <1>4, <1>5, <1>8 DEF Dirs, Used
  <2>2. inode[cwd].size <= MAX_ENTRIES
    BY <1>2, <1>3, <1>4, SizeFacts, DirectoryAssumption
  <2>3. Copying'
    BY <1>2, <1>6, <2>1, <2>2 DEF Copying, Dest
  <2> QED BY <1>6, <2>3 DEF Command
<1> QED BY <1>2, <1>4, <1>6, <1>7, <1>8, BeginKeeps

\* What unlink and mv find in the current directory.
LEMMA TargetEntry ==
  ASSUME Types, Sized, Tree, call.at = "idle", NEW name \in NAMES, ~Hidden(name), Targets(name, cwd) # {},
         NEW s, s = Min(Targets(name, cwd))
  PROVE  /\ s \in First(cwd)..inode[cwd].size /\ s \in Nat
         /\ Leaf(dir[cwd][s].d_ino) /\ dir[cwd][s].d_ino \in Inos
         /\ Plain(dir[cwd][s].d_name)
<1>1. s \in 1..inode[cwd].size /\ Matches(name, dir[cwd][s]) /\ Removable(dir[cwd][s]) /\ dir[cwd][s] \in EntrySet
  BY TargetFacts
<1>2. ~Dotted(dir[cwd][s]) /\ Plain(dir[cwd][s].d_name)
  BY <1>1, NameTypes, MatchFacts
<1>3. cwd \in Dirs /\ cwd \in Inos /\ inode[cwd].size \in Nat /\ First(cwd) \in Nat
  BY SizeFacts DEF Tree, Types
<1>4. s \in First(cwd)..inode[cwd].size
  BY <1>1, <1>2, <1>3 DEF Tree, Shape
<1>5. s \in Live(cwd)
  BY <1>4 DEF Live
<1>6. dir[cwd][s].d_ino \in Used \ {ROOT_DIR}
  BY <1>3, <1>5 DEF Tree, Linkage, Leading
<1>7. dir[cwd][s].d_ino \in Inos
  BY <1>1 DEF EntrySet
<1>8. inode[dir[cwd][s].d_ino].size <= 2
  <2>1. CASE dir[cwd][s].d_ino \in Dirs
    BY <1>1, <1>7, <2>1, SizeFacts DEF Removable, Dirs
  <2>2. CASE dir[cwd][s].d_ino \notin Dirs
    BY <1>7, <2>2 DEF Tree, Shape
  <2> QED BY <2>1, <2>2
<1>9. dir[cwd][s].d_ino # cwd
  BY <1>1 DEF Removable
<1> QED BY <1>1, <1>2, <1>4, <1>6, <1>7, <1>8, <1>9 DEF Leaf

\* unlink has found an entry that it may take.
LEMMA UnlinkInv ==
  ASSUME IInv, NEW name \in NAMES, Unlink(name) PROVE IInv'
<1>1. PICK s : s = Min(Targets(name, cwd))
  OBVIOUS
<1>2. PICK ino : ino = dir[cwd][s].d_ino
  OBVIOUS
<1>3. /\ Begin /\ ~Hidden(name) /\ Targets(name, cwd) # {}
      /\ call' = [Entering("unlink", "take", ino, name, cwd) EXCEPT !.slot = s]
      /\ UNCHANGED <<inode, dir, cwd, ai, moved, broken, crashes>>
  BY <1>1, <1>2 DEF Unlink
<1>4. Types /\ Sized /\ Tree /\ call.at = "idle"
  BY <1>3, BeginTree
<1>5. s \in First(cwd)..inode[cwd].size /\ s \in Nat /\ Leaf(ino) /\ ino \in Inos
  BY <1>1, <1>2, <1>3, <1>4, TargetEntry
<1>6. cwd \in Inos /\ cwd \in Dirs /\ name \in Seq(Chars)
  BY <1>4, NameTypes DEF Types, Tree
<1>7. PICK c \in CallSet : /\ c = Entering("unlink", "take", ino, name, cwd)
                           /\ c.op = "unlink" /\ c.at = "take" /\ c.ino = ino /\ c.name = name
                           /\ c.d = cwd /\ c.size = inode[cwd].size
  BY <1>4, <1>5, <1>6, EnteringType
<1>8. /\ call' \in CallSet /\ call'.op = "unlink" /\ call'.at = "take" /\ call'.ino = ino
      /\ call'.d = cwd /\ call'.size = inode[cwd].size /\ call'.slot = s
  BY <1>3, <1>5, <1>7 DEF CallSet
<1>9. Types'
  BY <1>3, <1>4, <1>8 DEF Types, Active
<1>10. Leaf(ino)'
  BY <1>3, <1>5 DEF Leaf, Used
<1>11. Taking'
  BY <1>2, <1>3, <1>5, <1>8, <1>10 DEF Taking, First
<1>12. Command'
  BY <1>8, <1>11 DEF Command
<1> QED BY <1>3, <1>6, <1>8, <1>9, <1>12, BeginKeeps

\* mv has found an entry that it may take and a directory with room.
LEMMA MvInv ==
  ASSUME IInv, NEW name \in NAMES, NEW path \in Paths, Mv(name, path) PROVE IInv'
<1>1. PICK s, to : s = Min(Targets(name, cwd)) /\ to = Leads(path, ROOT_DIR)
  OBVIOUS
<1>2. PICK e, ino : e = dir[cwd][s] /\ ino = e.d_ino
  OBVIOUS
<1>3. /\ Begin /\ ~Hidden(name) /\ Targets(name, cwd) # {}
      /\ to # NONE /\ inode[to].mode = "IFDIR" /\ inode[to].size < MAX_ENTRIES
      /\ call' = [Entering("mv", "take", ino, e.d_name, cwd)
                    EXCEPT !.slot = s, !.to = to, !.room = inode[to].size]
      /\ broken' = (to \in {cwd, ino} \/ Len(e.d_name) > MAXNAMLEN)
      /\ moved' = IF inode[ino].mode = "IFDIR" THEN moved \cup {ino} ELSE moved
      /\ UNCHANGED <<inode, dir, cwd, ai, crashes>>
  BY <1>1, <1>2 DEF Mv
<1>4. Types /\ Sized /\ Tree /\ call.at = "idle"
  BY <1>3, BeginTree
<1>5. s \in First(cwd)..inode[cwd].size /\ s \in Nat /\ Leaf(ino) /\ ino \in Inos /\ Plain(e.d_name)
  BY <1>1, <1>2, <1>3, <1>4, TargetEntry
<1>6. cwd \in Inos /\ cwd \in Dirs /\ e.d_name \in Seq(Chars)
  BY <1>4, <1>5 DEF Types, Tree, Plain
<1>7. to \in Inos /\ to \in Dirs
  <2>1. ROOT_DIR \in Inos
    BY <1>4 DEF Tree, Dirs
  <2>2. to \in Inos
    BY <1>1, <1>3, <1>4, <2>1, LeadsType DEF Places
  <2> QED BY <1>3, <2>2 DEF Dirs
<1>8. PICK c \in CallSet : /\ c = Entering("mv", "take", ino, e.d_name, cwd)
                           /\ c.op = "mv" /\ c.at = "take" /\ c.ino = ino /\ c.name = e.d_name
                           /\ c.d = cwd /\ c.size = inode[cwd].size
  BY <1>4, <1>5, <1>6, EnteringType
<1>9. inode[to].size \in Sizes /\ inode[to].size <= MAX_ENTRIES
  BY <1>3, <1>4, <1>7, SizeFacts, DirectoryAssumption DEF Types, InodeSet
<1>10. /\ call' \in CallSet /\ call'.op = "mv" /\ call'.at = "take" /\ call'.ino = ino /\ call'.name = e.d_name
       /\ call'.d = cwd /\ call'.size = inode[cwd].size /\ call'.slot = s
       /\ call'.to = to /\ call'.room = inode[to].size
  <2>1. call' = [c EXCEPT !.slot = s, !.to = to, !.room = inode[to].size]
    BY <1>3, <1>8
  <2> QED BY <1>5, <1>7, <1>8, <1>9, <2>1 DEF CallSet
<1>11. Types' /\ moved \subseteq moved'
  <2>1. broken' \in BOOLEAN /\ moved' \subseteq Inos /\ moved \subseteq moved'
    BY <1>3, <1>4, <1>5 DEF Types
  <2> QED BY <1>3, <1>4, <1>10, <2>1 DEF Types, Active
<1>12. ASSUME ~broken' PROVE Command'
  <2>1. Leaf(ino)'
    BY <1>3, <1>5 DEF Leaf, Used
  <2>2. Dest(to, inode[to].size)'
    BY <1>3, <1>7, <1>9 DEF Dest, Dirs
  <2>3. ino \in Dirs' => ino \in moved'
    BY <1>3 DEF Dirs
  <2>4. to # cwd /\ to # ino
    BY <1>3, <1>12
  <2>5. Taking'
    BY <1>2, <1>3, <1>5, <1>10, <2>1, <2>2, <2>3, <2>4 DEF Taking, First, Dest
  <2> QED BY <1>10, <2>5 DEF Command
<1> QED BY <1>3, <1>6, <1>10, <1>11, <1>12, BeginKeeps

-----------------------------------------------------------------------------
(* The writes of a command. *)

\* Between the writes of a command the disk is a tree but for what is in flight.
LEMMA StepTree ==
  ASSUME IInv, ~broken, call.at \notin {"table", "idle"}
  PROVE  Types /\ Sized /\ Tree /\ call \in CallSet /\ cwd \in Inos
BY DEF IInv, Formatting, Types, Idle

\* The command goes on to its next write.
LEMMA Onward ==
  ASSUME call \in CallSet, NEW x \in {"inode", "add", "count", "drop", "free"},
         call' = [call EXCEPT !.at = x]
  PROVE  /\ call' \in CallSet /\ call'.at = x /\ call'.op = call.op /\ call'.ino = call.ino
         /\ call'.name = call.name /\ call'.d = call.d /\ call'.size = call.size
         /\ call'.slot = call.slot /\ call'.to = call.to /\ call'.room = call.room
BY DEF CallSet

\* mkdir writes "." and ".." into a block of an inode not yet in use.
LEMMA WriteFirstInv ==
  ASSUME IInv, ~broken, WriteFirst PROVE IInv'
<1>1. Types /\ Sized /\ Tree /\ call \in CallSet /\ cwd \in Inos /\ call.at = "block"
  BY StepTree DEF WriteFirst
<1>2. Coming /\ call.ino \in Inos /\ call.ino \notin Dirs /\ call.op = "mkdir" /\ call.d = cwd
  BY <1>1, SizeFacts DEF Tree, Command, Coming
<1>16. PICK g, h \in Fresh :
         dir' = [dir EXCEPT ![call.ino] = <<NewEntry(call.ino, DOT, g), NewEntry(cwd, DOTDOT, h)>>]
  BY DEF WriteFirst
<1>3. PICK p, q : p = NewEntry(call.ino, DOT, g) /\ q = NewEntry(cwd, DOTDOT, h)
  OBVIOUS
<1>4. /\ p \in EntrySet /\ p.d_ino = call.ino /\ Dotted(p)
      /\ q \in EntrySet /\ q.d_ino = cwd /\ Dotted(q)
  <2>1. g \in Seq(Chars) /\ h \in Seq(Chars) /\ DOT \in Seq(Chars) /\ DOTDOT \in Seq(Chars)
    BY Dots, NameTypes
  <2>2. p \in EntrySet /\ p.d_ino = call.ino /\ NameOf(p) = DOT
    BY <1>2, <1>3, <2>1, NewEntryFacts
  <2>3. q \in EntrySet /\ q.d_ino = cwd /\ NameOf(q) = DOTDOT
    BY <1>1, <1>3, <2>1, NewEntryFacts
  <2> QED BY <2>2, <2>3 DEF Dotted
<1>5. dir' = [dir EXCEPT ![call.ino] = <<p, q>>]
  BY <1>3, <1>16
<1>6. dir' \in [Inos -> Seq(EntrySet)] /\ dir'[call.ino] = <<p, q>> /\ \A d \in Inos \ {call.ino} : dir'[d] = dir[d]
  BY <1>1, <1>2, <1>4, <1>5 DEF Types
<1>7. /\ call' \in CallSet /\ call'.at = "inode" /\ call'.op = "mkdir" /\ call'.ino = call.ino
      /\ call'.name = call.name /\ call'.d = call.d /\ call'.size = call.size
  BY <1>1, <1>2, Onward DEF WriteFirst
<1>8. UNCHANGED <<inode, cwd, ai, moved, broken, crashes>>
  BY DEF WriteFirst
<1>9. Types'
  BY <1>1, <1>6, <1>7, <1>8 DEF Types, Active
<1>10. Sized'
  <2>1. inode[call.ino].size = 0
    BY <1>1, <1>2 DEF Tree, Shape
  <2>2. Len(dir'[call.ino]) = 2
    BY <1>6
  <2> QED BY <1>1, <1>6, <1>8, <2>1, <2>2 DEF Sized
<1>11. \A d \in Dirs : d \in Inos /\ dir'[d] = dir[d] /\ inode[d].size <= Len(dir'[d])
  BY <1>1, <1>2, <1>6 DEF Dirs, Sized
<1>12. (ROOT_DIR \in Dirs)' /\ Shape' /\ Linkage' /\ Dirs' = Dirs /\ Used' = Used
  BY <1>1, <1>7, <1>8, <1>11, Quiet DEF Tree, Flight
<1>13. Coming'
  <2>1. Len(<<p, q>>) = 2 /\ <<p, q>>[1] = p /\ <<p, q>>[2] = q
    OBVIOUS
  <2>2. Dest(call.d, call.size)'
    BY <1>2, <1>7, <1>8, <1>12 DEF Coming, Dest
  <2> QED BY <1>2, <1>4, <1>6, <1>7, <1>8, <1>12, <2>1, <2>2 DEF Coming, Dotted, NameOf
<1>14. Command'
  BY <1>7, <1>13 DEF Command
<1>15. cwd' \in Dirs'
  BY <1>1, <1>8, <1>12 DEF Tree
<1> QED BY <1>7, <1>9, <1>10, <1>12, <1>14, <1>15 DEF IInv, Tree

\* writeInode: the new inode is in use and has no entry yet.
LEMMA WriteNewInv ==
  ASSUME IInv, ~broken, WriteNew PROVE IInv'
<1>1. Types /\ Sized /\ Tree /\ call \in CallSet /\ cwd \in Inos /\ call.at = "inode"
  BY StepTree DEF WriteNew
<1>2. Coming /\ call.ino \in Inos /\ call.ino \notin Used /\ call.ino \notin Dirs
  BY <1>1, SizeFacts DEF Tree, Command, Coming
<1>3. PICK n : n = IF call.op = "mkdir" THEN [mode |-> "IFDIR", size |-> 2] ELSE [mode |-> "IFREG", size |-> 0]
  OBVIOUS
<1>4. n \in InodeSet
  BY <1>3, DirectoryAssumption DEF InodeSet, Modes, Sizes
<1>5. /\ inode' \in [Inos -> InodeSet] /\ inode'[call.ino] = n
      /\ \A d \in Inos \ {call.ino} : inode'[d] = inode[d]
  <2>1. inode' = [inode EXCEPT ![call.ino] = n]
    BY <1>3 DEF WriteNew
  <2> QED BY <1>1, <1>2, <1>4, <2>1 DEF Types
<1>6. /\ call' \in CallSet /\ call'.at = "add" /\ call'.op = call.op /\ call'.ino = call.ino
      /\ call'.name = call.name /\ call'.d = call.d /\ call'.size = call.size
  BY <1>1, Onward DEF WriteNew
<1>7. UNCHANGED <<dir, cwd, ai, moved, broken, crashes>>
  BY DEF WriteNew
<1>8. Types'
  BY <1>1, <1>5, <1>6, <1>7 DEF Types, Active
<1>9. Used' = Used \cup {call.ino} /\ Dirs' = IF call.op = "mkdir" THEN Dirs \cup {call.ino} ELSE Dirs
  BY <1>1, <1>2, <1>3, <1>5 DEF Used, Dirs
<1>10. ROOT_DIR \in Dirs /\ ROOT_DIR # call.ino /\ call.d \in Dirs /\ call.d # call.ino
  BY <1>1, <1>2 DEF Tree, Coming, Dest
<1>11. ASSUME call.op = "mkdir"
       PROVE  /\ n.size = 2 /\ Len(dir[call.ino]) = 2 /\ First(call.ino) = 3
              /\ \A s \in 1..2 : Dotted(dir[call.ino][s])
              /\ dir[call.ino][1].d_ino = call.ino /\ dir[call.ino][2].d_ino = call.d
  <2>1. \A s \in 1..2 : s = 1 \/ s = 2
    OBVIOUS
  <2> QED BY <1>1, <1>2, <1>3, <1>10, <1>11, <2>1 DEF Coming, First
<1>12. Sized'
  <2>1. inode[call.ino].size = 0 /\ Len(dir[call.ino]) \in Nat
    BY <1>1, <1>2, SizeFacts DEF Tree, Shape
  <2>2. n.size <= Len(dir[call.ino])
    BY <1>3, <1>11, <2>1
  <2> QED BY <1>1, <1>5, <1>7, <2>2 DEF Sized
<1>13. Shape'
  <2>1. ASSUME NEW i \in Inos \ Dirs' PROVE inode'[i].size = 0
    <3>1. i # call.ino => i \in Inos \ Dirs
      BY <1>9
    <3> QED BY <1>1, <1>3, <1>5, <1>9, <3>1 DEF Tree, Shape
  <2>2. ASSUME NEW d \in Dirs'
        PROVE  /\ First(d) <= inode'[d].size + 1 /\ inode'[d].size <= Len(dir'[d])
               /\ \A s \in 1..inode'[d].size : Dotted(dir'[d][s]) <=> s < First(d)
               /\ d # ROOT_DIR => dir'[d][1].d_ino = d
    <3>1. CASE d = call.ino
      <4>1. call.op = "mkdir"
        BY <1>2, <1>9, <3>1
      <4>2. \A s \in 1..2 : s < 3
        OBVIOUS
      <4> QED BY <1>5, <1>7, <1>11, <3>1, <4>1, <4>2
    <3>2. CASE d # call.ino
      <4>1. d \in Dirs /\ d \in Inos
        BY <1>9, <3>2 DEF Dirs
      <4> QED BY <1>1, <1>5, <1>7, <3>2, <4>1 DEF Tree, Shape
    <3> QED BY <3>1, <3>2
  <2> QED BY <2>1, <2>2 DEF Shape, First, Dotted, NameOf
<1>14. \A d \in Dirs : d \in Dirs' /\ Live(d)' = Live(d)
  <2>1. ASSUME NEW d \in Dirs PROVE inode'[d] = inode[d]
    BY <1>2, <1>5 DEF Dirs
  <2> QED BY <1>1, <1>6, <1>9, <2>1 DEF Live, First
<1>15. \A d \in Dirs' \ Dirs : Live(d)' = {}
  <2>1. ASSUME NEW d \in Dirs' \ Dirs PROVE d = call.ino /\ call.op = "mkdir"
    BY <1>9
  <2>2. 3..2 = {}
    OBVIOUS
  <2> QED BY <1>5, <1>11, <2>1, <2>2 DEF Live, First
<1>16. NoRef(call.ino)
  BY <1>1, <1>2 DEF NoRef, Tree, Linkage, Leading
<1>17. Linkage'
  <2>1. \A d \in Dirs' : \A s \in Live(d)' : d \in Dirs /\ s \in Live(d) /\ dir'[d][s].d_ino = dir[d][s].d_ino
    BY <1>7, <1>14, <1>15
  <2>2. \A i \in Dirs' \ Dirs : NoRef(i)
    BY <1>9, <1>16
  <2>3. \A i, d : Under(i, d) => Under(i, d)'
    BY <1>7 DEF Under
  <2>4. Used' \ Flight' \subseteq Used \ Flight
    BY <1>1, <1>6, <1>9 DEF Flight
  <2> QED BY <1>1, <1>7, <1>9, <1>14, <2>1, <2>2, <2>3, <2>4, SameLinks DEF Tree
<1>18. Adding'
  <2>1. NoRef(call.ino)'
    BY <1>6, <1>7, <1>14, <1>15, <1>16 DEF NoRef
  <2>2. Dest(call.d, call.size)'
    BY <1>2, <1>5, <1>6, <1>10, <1>14 DEF Coming, Dest, Dirs
  <2>3. call.ino \in Dirs' => Under(call.ino, call.d)'
    BY <1>6, <1>2, <1>7, <1>9, <1>11 DEF Under
  <2> QED BY <1>2, <1>6, <1>9, <1>10, <2>1, <2>2, <2>3 DEF Adding, Coming
<1>19. Command'
  <2>1. call.op # "cp"
    BY <1>2 DEF Coming
  <2> QED BY <1>6, <1>18, <2>1 DEF Command
<1>20. ROOT_DIR \in Dirs' /\ cwd' \in Dirs'
  BY <1>1, <1>7, <1>10, <1>14 DEF Tree
<1> QED BY <1>6, <1>8, <1>12, <1>13, <1>17, <1>19, <1>20 DEF IInv, Tree

\* The entry that is written is the one behind the last.
LEMMA AddWrites ==
  ASSUME Types, Sized, Add, call.d \in Inos, call.ino \in Inos, call.name \in Seq(Chars),
         call.size = inode[call.d].size
  PROVE  /\ dir' \in [Inos -> Seq(EntrySet)] /\ \A i \in Inos \ {call.d} : dir'[i] = dir[i]
         /\ call.size < Len(dir'[call.d])
         /\ \A s \in 1..call.size : dir'[call.d][s] = dir[call.d][s]
         /\ dir'[call.d][call.size + 1].d_ino = call.ino
         /\ NameOf(dir'[call.d][call.size + 1]) = call.name
<1> DEFINE n == call.size
           es == dir[call.d]
           new == call.size % PER_BLOCK = 0 /\ call.size > 0
<1>1. n \in Nat /\ es \in Seq(EntrySet) /\ Len(es) \in Nat /\ n <= Len(es)
  BY SizeFacts DEF Sized
<1>2. PICK g \in Fresh :
        LET e == NewEntry(call.ino, call.name, IF new \/ n + 1 > Len(es) THEN g ELSE es[n + 1].d_name)
        IN dir' = [dir EXCEPT ![call.d] =
                     IF new \/ n + 1 > Len(es) THEN SubSeq(es, 1, n) \o <<e>> ELSE [es EXCEPT ![n + 1] = e]]
  BY DEF Add
<1>3. PICK b \in BOOLEAN : b = (new \/ n + 1 > Len(es))
  OBVIOUS
<1>4. PICK old : old = IF b THEN g ELSE es[n + 1].d_name
  OBVIOUS
<1>5. PICK e : e = NewEntry(call.ino, call.name, old)
  OBVIOUS
<1>6. PICK fs : fs = IF b THEN SubSeq(es, 1, n) \o <<e>> ELSE [es EXCEPT ![n + 1] = e]
  OBVIOUS
<1>7. dir' = [dir EXCEPT ![call.d] = fs]
  BY <1>2, <1>3, <1>4, <1>5, <1>6
<1>8. ~b => n + 1 \in 1..Len(es) /\ es[n + 1] \in EntrySet
  <2>0. ~b => ~(n + 1 > Len(es))
    BY <1>3, Zenon
  <2>1. ~b => n + 1 \in 1..Len(es)
    BY <1>1, <2>0
  <2> QED BY <1>1, <2>1, ElementOfSeq
<1>9. old \in Seq(Chars)
  <2>1. g \in Seq(Chars)
    BY NameTypes
  <2>2. ~b => es[n + 1].d_name \in Seq(Chars)
    BY <1>8 DEF EntrySet
  <2> QED BY <1>4, <2>1, <2>2
<1>10. e \in EntrySet /\ e.d_ino = call.ino /\ NameOf(e) = call.name
  BY <1>5, <1>9, NewEntryFacts
<1>11. fs \in Seq(EntrySet) /\ n < Len(fs) /\ fs[n + 1] = e /\ \A s \in 1..n : fs[s] = es[s]
  <2>1. CASE b
    <3>1. PICK ps : ps = SubSeq(es, 1, n)
      OBVIOUS
    <3>2. \A i \in 1..n : es[i] \in EntrySet
      BY <1>1, ElementOfSeq
    <3>3. /\ ps \in Seq(EntrySet) /\ Len(ps) = IF 1 <= n THEN n - 1 + 1 ELSE 0
          /\ \A i \in 1..(n - 1 + 1) : ps[i] = es[1 + i - 1]
      BY <1>1, <3>1, <3>2, SubSeqProperties
    <3>4. n - 1 + 1 = n /\ (IF 1 <= n THEN n - 1 + 1 ELSE 0) = n /\ \A i \in 1..n : 1 + i - 1 = i
      BY <1>1
    <3>5. Len(ps) = n /\ \A i \in 1..n : ps[i] = es[i]
      BY <3>3, <3>4
    <3>6. fs = ps \o <<e>>
      BY <1>6, <2>1, <3>1
    <3>7. fs = Append(ps, e)
      BY <1>10, <3>3, <3>6, AppendIsConcat
    <3>8. /\ fs \in Seq(EntrySet) /\ Len(fs) = n + 1 /\ fs[n + 1] = e
          /\ \A i \in 1..n : fs[i] = ps[i]
      BY <1>10, <3>3, <3>5, <3>7, AppendProperties
    <3>9. n < n + 1
      BY <1>1
    <3> QED BY <3>5, <3>8, <3>9
  <2>2. CASE ~b
    <3>1. fs = [es EXCEPT ![n + 1] = e]
      BY <1>6, <2>2
    <3>2. fs \in Seq(EntrySet) /\ Len(fs) = Len(es)
      BY <1>1, <1>8, <1>10, <2>2, <3>1, ExceptSeq
    <3>3. \A s \in 1..n : s \in 1..Len(es) /\ s # n + 1
      BY <1>1
    <3>4. fs[n + 1] = e /\ \A s \in 1..n : fs[s] = es[s]
      BY <1>1, <1>8, <2>2, <3>1, <3>3, ExceptSeq
    <3>5. n < Len(fs)
      BY <1>1, <1>8, <2>2, <3>2
    <3> QED BY <3>2, <3>4, <3>5
  <2> QED BY <2>1, <2>2
<1>12. dir \in [Inos -> Seq(EntrySet)]
  BY DEF Types
<1> QED BY <1>7, <1>10, <1>11, <1>12

\* addInodeToDirectory: the entry is written behind the size, where nobody sees it.
LEMMA AddInv ==
  ASSUME IInv, ~broken, Add PROVE IInv'
<1>1. Types /\ Sized /\ Tree /\ call \in CallSet /\ cwd \in Inos /\ call.at = "add"
  BY StepTree DEF Add
<1>2. /\ IF call.op = "cp" THEN Copying ELSE Adding
      /\ call.ino \in Inos /\ call.d \in Inos /\ call.ino # call.d
  BY <1>1, SizeFacts DEF Tree, Command, Adding, Copying, Dest
<1>3. call.name \in Seq(Chars) /\ Dest(call.d, call.size) /\ call.size \in Nat
  BY <1>1, <1>2, SizeFacts DEF Adding, Copying, Dest, CallSet
<1>4. /\ dir' \in [Inos -> Seq(EntrySet)] /\ \A i \in Inos \ {call.d} : dir'[i] = dir[i]
      /\ call.size < Len(dir'[call.d])
      /\ \A s \in 1..call.size : dir'[call.d][s] = dir[call.d][s]
      /\ dir'[call.d][call.size + 1].d_ino = call.ino
      /\ NameOf(dir'[call.d][call.size + 1]) = call.name
  BY <1>1, <1>2, <1>3, AddWrites DEF Dest
<1>5. /\ call' \in CallSet /\ call'.at = "count" /\ call'.op = call.op /\ call'.ino = call.ino
      /\ call'.name = call.name /\ call'.d = call.d /\ call'.size = call.size
  BY <1>1, Onward DEF Add
<1>6. UNCHANGED <<inode, cwd, ai, moved, broken, crashes>>
  BY DEF Add
<1>7. Types'
  BY <1>1, <1>4, <1>5, <1>6 DEF Types, Active
<1>8. Sized'
  <2>1. Len(dir'[call.d]) \in Nat /\ inode[call.d].size = call.size
    BY <1>2, <1>3, <1>4, LenProperties DEF Dest
  <2>2. inode[call.d].size <= Len(dir'[call.d])
    BY <1>3, <1>4, <2>1
  <2> QED BY <1>1, <1>4, <1>6, <2>2 DEF Sized
<1>9. \A d \in Dirs : inode[d].size <= Len(dir'[d]) /\ \A s \in 1..inode[d].size : dir'[d][s] = dir[d][s]
  BY <1>3, <1>4, <1>6, <1>8 DEF Dest, Sized, Dirs
<1>10. /\ (ROOT_DIR \in Dirs)' /\ Shape' /\ Linkage' /\ Dirs' = Dirs /\ Used' = Used
       /\ \A i : NoRef(i) <=> NoRef(i)'
  BY <1>1, <1>5, <1>6, <1>9, Quiet DEF Tree, Flight
<1>11. Dest(call.d, call.size)'
  BY <1>3, <1>5, <1>6, <1>10 DEF Dest
<1>12. Command'
  <2>1. CASE call.op = "cp"
    <3>1. Copying'
      BY <1>2, <1>5, <1>10, <1>11, <2>1 DEF Copying
    <3> QED BY <1>5, <2>1, <3>1 DEF Command
  <2>2. CASE call.op # "cp"
    <3>1. Adding /\ Plain(call.name)
      BY <1>2, <2>2 DEF Adding
    <3>2. NoRef(call.ino)'
      BY <1>5, <1>10, <3>1 DEF Adding
    <3>3. call.ino \in Dirs' => Under(call.ino, call.d)'
      BY <1>2, <1>4, <1>5, <1>6, <1>10, <3>1 DEF Under, Adding
    <3>4. ~Dotted(dir'[call.d][call.size + 1])
      BY <1>4, <3>1 DEF Plain, Dotted
    <3>5. Adding'
      BY <1>4, <1>5, <1>10, <1>11, <3>1, <3>2, <3>3, <3>4 DEF Adding, Dotted, NameOf
    <3> QED BY <1>5, <2>2, <3>5 DEF Command
  <2> QED BY <2>1, <2>2
<1>13. cwd' \in Dirs'
  BY <1>1, <1>6, <1>10 DEF Tree
<1> QED BY <1>5, <1>7, <1>8, <1>10, <1>12, <1>13 DEF IInv, Tree

\* A step after which one more entry counts, to an inode that had none.
LEMMA OneMore ==
  ASSUME Linkage, UNCHANGED <<dir, moved>>, Dirs' = Dirs, Used' = Used,
         NEW d \in Dirs, NEW s, NEW i \in Used \ {ROOT_DIR}, d \in Used, d # i,
         NoRef(i), i \in Dirs => Under(i, d), dir[d][s].d_ino = i,
         \A e \in Dirs : Live(e)' = IF e = d THEN Live(e) \cup {s} ELSE Live(e),
         crashes' = 0 => crashes = 0 /\ Flight \subseteq {i}
  PROVE  Linkage'
<1>1. \A e \in Dirs : \A t \in Live(e)' : t \in Live(e) \/ (e = d /\ t = s)
  OBVIOUS
<1>2. Leading'
  BY <1>1 DEF Linkage, Leading
<1>3. Single'
  BY <1>1 DEF Linkage, Single, NoRef
<1>4. Parents'
  BY <1>1 DEF Linkage, Parents, Under
<1>5. Reached'
  <2> SUFFICES ASSUME crashes' = 0, NEW S \in SUBSET Inos, Closed(S)' PROVE (Used \ Flight)' \subseteq S
    BY DEF Reached
  <2>1. Closed(S)
    BY DEF Closed
  <2>2. Used \ Flight \subseteq S
    BY <2>1 DEF Linkage, Reached
  <2>3. d \in S
    BY <2>2
  <2>4. i \in S
    BY <2>3 DEF Closed
  <2> QED BY <2>2, <2>4
<1> QED BY <1>2, <1>3, <1>4, <1>5 DEF Linkage

\* The new size makes the entry of a copy count, and the model ends.
LEMMA CountCopyInv ==
  ASSUME IInv, ~broken, Count, call.op = "cp" PROVE IInv'
<1>1. Types /\ Tree /\ call \in CallSet /\ call.at = "count"
  BY StepTree DEF Count
<1>2. Dest(call.d, call.size) /\ call.d \in Inos /\ call.size \in Sizes
  BY <1>1 DEF Tree, Command, Copying, CallSet
<1>3. call.size + 1 \in Sizes
  BY <1>2, DirectoryAssumption DEF Dest, Sizes
<1>4. inode' \in [Inos -> InodeSet]
  <2>1. inode \in [Inos -> [mode : Modes, size : Sizes]]
    BY <1>1 DEF Types, InodeSet
  <2>2. inode' = [inode EXCEPT ![call.d].size = call.size + 1]
    BY DEF Count
  <2> QED BY <1>2, <1>3, <2>1, <2>2 DEF InodeSet
<1>5. call' = Idle /\ broken' /\ broken' \in BOOLEAN /\ UNCHANGED <<dir, cwd, ai, moved, crashes>>
  BY DEF Count
<1>6. Types'
  BY <1>1, <1>4, <1>5 DEF Types, Active
<1> QED BY <1>5, <1>6 DEF IInv

\* The new size makes the entry count.
LEMMA CountInv ==
  ASSUME IInv, ~broken, Count, call.op # "cp" PROVE IInv'
<1>1. Types /\ Sized /\ Tree /\ call \in CallSet /\ cwd \in Inos /\ call.at = "count"
  BY StepTree DEF Count
<1>2. PICK d, i, n : d = call.d /\ i = call.ino /\ n = call.size
  OBVIOUS
<1>3. /\ i \in Used \ {ROOT_DIR} /\ i # d /\ Dest(d, n) /\ NoRef(i) /\ (i \in Dirs => Under(i, d))
      /\ n < Len(dir[d]) /\ dir[d][n + 1].d_ino = i /\ ~Dotted(dir[d][n + 1])
  BY <1>1, <1>2 DEF Tree, Command, Adding
<1>4. d \in Dirs /\ d \in Inos /\ d \in Used /\ i \in Inos /\ n \in Nat /\ n = inode[d].size
      /\ Len(dir[d]) \in Nat /\ First(d) \in Nat
  BY <1>1, <1>3, SizeFacts DEF Dest
<1>5. n + 1 \in Sizes
  BY <1>3, <1>4, DirectoryAssumption DEF Dest, Sizes
<1>6. /\ inode' \in [Inos -> InodeSet] /\ inode'[d].size = n + 1 /\ inode'[d].mode = inode[d].mode
      /\ \A e \in Inos \ {d} : inode'[e] = inode[e]
  <2>1. inode \in [Inos -> [mode : Modes, size : Sizes]]
    BY <1>1 DEF Types, InodeSet
  <2>2. inode' = [inode EXCEPT ![d].size = n + 1]
    BY <1>2 DEF Count
  <2> QED BY <1>4, <1>5, <2>1, <2>2 DEF InodeSet
<1>7. call' = Idle /\ call'.at = "idle" /\ broken' = FALSE
      /\ UNCHANGED <<dir, cwd, moved, crashes>>
  BY DEF Count, Idle
<1>8. Active' \subseteq Inos /\ ai' \in [Active' -> InodeSet]
  <2>1. inode[i] \in InodeSet
    BY <1>1, <1>4 DEF Types
  <2>2. CASE call.op = "create"
    <3>1. Activate(i, inode[i])
      BY <1>2, <2>2 DEF Count
    <3> QED BY <1>1, <1>4, <2>1, <3>1 DEF Activate, Active, Types
  <2>3. CASE call.op # "create"
    <3>1. ai' = ai
      BY <2>3 DEF Count
    <3> QED BY <1>1, <3>1 DEF Active, Types
  <2> QED BY <2>2, <2>3
<1>9. Types'
  BY <1>1, <1>6, <1>7, <1>8 DEF Types
<1>10. Dirs' = Dirs /\ Used' = Used
  BY <1>4, <1>6 DEF Dirs, Used
<1>11. n + 1 <= Len(dir[d]) /\ First(d) <= n + 1
  BY <1>1, <1>3, <1>4 DEF Tree, Shape
<1>12. Sized'
  BY <1>1, <1>6, <1>7, <1>11 DEF Sized
<1>13. Shape'
  <2>1. \A e \in Inos \ Dirs' : inode'[e].size = 0
    BY <1>1, <1>4, <1>6, <1>10 DEF Tree, Shape
  <2>2. ASSUME NEW e \in Dirs
        PROVE  /\ First(e) <= inode'[e].size + 1 /\ inode'[e].size <= Len(dir'[e])
               /\ \A s \in 1..inode'[e].size : Dotted(dir'[e][s]) <=> s < First(e)
               /\ e # ROOT_DIR => dir'[e][1].d_ino = e
    <3>1. CASE e = d
      <4>1. First(d) <= n + 1 + 1 /\ n + 1 <= Len(dir[d])
        BY <1>4, <1>11
      <4>2. ASSUME NEW s \in 1..(n + 1) PROVE Dotted(dir[d][s]) <=> s < First(d)
        <5>1. s \in 1..n \/ s = n + 1
          BY <1>4
        <5>2. ~(n + 1 < First(d))
          BY <1>4, <1>11
        <5> QED BY <1>1, <1>3, <1>4, <5>1, <5>2 DEF Tree, Shape
      <4>3. d # ROOT_DIR => dir[d][1].d_ino = d
        BY <1>1, <1>4 DEF Tree, Shape
      <4> QED BY <1>6, <1>7, <3>1, <4>1, <4>2, <4>3
    <3>2. CASE e # d
      <4>1. inode'[e] = inode[e]
        BY <1>6, <3>2 DEF Dirs
      <4> QED BY <1>1, <1>7, <4>1 DEF Tree, Shape
    <3> QED BY <3>1, <3>2
  <2> QED BY <1>10, <2>1, <2>2 DEF Shape, First, Dotted, NameOf
<1>14. \A e \in Dirs : Live(e)' = IF e = d THEN Live(e) \cup {n + 1} ELSE Live(e)
  <2>1. \A e : Live(e) = First(e)..inode[e].size /\ Live(e)' = First(e)..inode'[e].size
    BY <1>1, <1>7 DEF Live, First
  <2>2. First(d)..(n + 1) = (First(d)..n) \cup {n + 1}
    BY <1>4, <1>11
  <2>3. \A e \in Dirs \ {d} : inode'[e] = inode[e]
    BY <1>6 DEF Dirs
  <2> QED BY <1>4, <1>6, <2>1, <2>2, <2>3
<1>15. Linkage'
  <2>1. Linkage /\ Flight = {i}
    BY <1>1, <1>2 DEF Tree, Flight
  <2> QED BY <1>3, <1>4, <1>7, <1>10, <1>14, <2>1, OneMore
<1>16. Command'
  BY <1>7 DEF Command
<1>17. ROOT_DIR \in Dirs' /\ cwd' \in Dirs'
  BY <1>1, <1>7, <1>10 DEF Tree
<1> QED BY <1>7, <1>9, <1>12, <1>13, <1>15, <1>16, <1>17 DEF IInv, Tree

\* Between the two writes of remove the entry that is taken no longer counts, and the
\* last one counts in its place.
LEMMA TakeInv ==
  ASSUME IInv, ~broken, Take PROVE IInv'
<1>1. Types /\ Sized /\ Tree /\ call \in CallSet /\ cwd \in Inos /\ call.at = "take"
  BY StepTree DEF Take
<1>2. PICK d, i, n, k : d = call.d /\ i = call.ino /\ n = call.size /\ k = call.slot
  OBVIOUS
<1>3. Taking /\ Leaf(i) /\ d = cwd /\ n = inode[d].size /\ k \in First(d)..n /\ dir[d][k].d_ino = i
  BY <1>1, <1>2 DEF Tree, Command, Taking
<1>4. /\ d \in Dirs /\ d \in Inos /\ n \in Nat /\ Len(dir[d]) \in Nat /\ n <= Len(dir[d])
      /\ dir[d] \in Seq(EntrySet) /\ First(d) \in Nat /\ First(d) >= 2
      /\ k \in 1..Len(dir[d]) /\ n \in 1..Len(dir[d]) /\ k \in 1..n /\ n \in 1..n /\ k >= 2
  <2>1. d \in Dirs /\ d \in Inos
    BY <1>1, <1>3 DEF Tree
  <2>2. inode[d].size <= Len(dir[d])
    BY <1>1, <2>1 DEF Sized
  <2>3. n \in Nat /\ Len(dir[d]) \in Nat /\ dir[d] \in Seq(EntrySet) /\ First(d) \in {2, 3}
    BY <1>1, <1>3, <2>1, SizeFacts
  <2> QED BY <1>3, <2>1, <2>2, <2>3
<1>5. PICK last : last = dir[d][n] /\ last \in EntrySet
  BY <1>1, <1>4, SizeFacts
<1>6. PICK fs : fs = [dir[d] EXCEPT ![k] = last]
  OBVIOUS
<1>7. dir' = [dir EXCEPT ![d] = fs]
  BY <1>2, <1>5, <1>6 DEF Take
<1>8. fs \in Seq(EntrySet) /\ Len(fs) = Len(dir[d]) /\ \A s \in 1..Len(dir[d]) : fs[s] = IF s = k THEN last ELSE dir[d][s]
  BY <1>4, <1>5, <1>6, ExceptSeq
<1>9. /\ dir' \in [Inos -> Seq(EntrySet)] /\ dir'[d] = fs /\ \A e \in Inos \ {d} : dir'[e] = dir[e]
  BY <1>1, <1>4, <1>7, <1>8 DEF Types
<1>10. /\ call' \in CallSet /\ call'.at = "drop" /\ call'.op = call.op /\ call'.ino = i
       /\ call'.name = call.name /\ call'.d = d /\ call'.size = n /\ call'.slot = k
       /\ call'.to = call.to /\ call'.room = call.room
  BY <1>1, <1>2, Onward DEF Take
<1>11. UNCHANGED <<inode, cwd, ai, moved, broken, crashes>>
  BY DEF Take
<1>12. Types'
  BY <1>1, <1>9, <1>10, <1>11 DEF Types, Active
<1>13. Dirs' = Dirs /\ Used' = Used
  BY <1>11 DEF Dirs, Used
<1>14. Sized'
  <2>1. \A e \in Inos : Len(dir'[e]) = Len(dir[e])
    BY <1>8, <1>9
  <2> QED BY <1>1, <1>11, <2>1 DEF Sized
<1>15. \A s \in 1..n : s \in 1..Len(dir[d]) /\ fs[s] = IF s = k THEN last ELSE dir[d][s]
  BY <1>4, <1>8
<1>16. Shape'
  <2>1. \A e \in Inos \ Dirs' : inode'[e].size = 0
    BY <1>1, <1>11, <1>13 DEF Tree, Shape
  <2>2. ASSUME NEW e \in Dirs
        PROVE  /\ First(e) <= inode'[e].size + 1 /\ inode'[e].size <= Len(dir'[e])
               /\ \A s \in 1..inode'[e].size : Dotted(dir'[e][s]) <=> s < First(e)
               /\ e # ROOT_DIR => dir'[e][1].d_ino = e
    <3>1. CASE e = d
      <4>1. First(d) <= n + 1
        BY <1>1, <1>3, <1>4 DEF Tree, Shape
      <4>2. \A s \in 1..n : Dotted(dir[d][s]) <=> s < First(d)
        BY <1>1, <1>3, <1>4 DEF Tree, Shape
      <4>3. ~(n < First(d)) /\ ~(k < First(d))
        BY <1>3, <1>4
      <4>4. ~Dotted(last)
        BY <1>4, <1>5, <4>2, <4>3
      <4>5. ASSUME NEW s \in 1..n PROVE Dotted(fs[s]) <=> s < First(d)
        BY <1>15, <4>2, <4>3, <4>4
      <4>6. ASSUME d # ROOT_DIR PROVE fs[1].d_ino = d
        <5>1. 1 \in 1..n /\ 1 # k
          BY <1>3, <1>4
        <5>2. dir[d][1].d_ino = d
          BY <1>1, <1>4, <4>6 DEF Tree, Shape
        <5> QED BY <1>15, <5>1, <5>2
      <4> QED BY <1>3, <1>4, <1>8, <1>9, <1>11, <3>1, <4>1, <4>5, <4>6
    <3>2. CASE e # d
      <4>1. dir'[e] = dir[e]
        BY <1>9, <3>2 DEF Dirs
      <4> QED BY <1>1, <1>11, <4>1 DEF Tree, Shape
    <3> QED BY <3>1, <3>2
  <2> QED BY <1>13, <2>1, <2>2 DEF Shape, First, Dotted, NameOf
<1>17. Live(d) = First(d)..n /\ k \in Live(d) /\ n \in Live(d) /\ Live(d)' = (First(d)..n) \ {n}
  <2>1. Live(d) = First(d)..n
    BY <1>1, <1>3 DEF Live
  <2>2. Live(d)' = (First(d)..n) \ {n}
    BY <1>3, <1>10, <1>11 DEF Live, First
  <2>3. n \in First(d)..n
    BY <1>3, <1>4
  <2> QED BY <1>3, <2>1, <2>2, <2>3
<1>18. \A e \in Dirs \ {d} : Live(e)' = Live(e) /\ dir'[e] = dir[e]
  BY <1>1, <1>9, <1>10, <1>11 DEF Live, First, Dirs
<1> DEFINE O(e, t) == IF e = d /\ t = k THEN n ELSE t
<1>19. ASSUME NEW e \in Dirs, NEW t \in Live(e)'
       PROVE  O(e, t) \in Live(e) /\ dir'[e][t].d_ino = dir[e][O(e, t)].d_ino /\ ~(e = d /\ O(e, t) = k)
  <2>1. CASE e = d
    <3>1. t \in First(d)..n /\ t # n /\ t \in 1..n
      BY <1>4, <1>17, <2>1
    <3>2. fs[t] = IF t = k THEN last ELSE dir[d][t]
      BY <1>15, <3>1
    <3> QED BY <1>5, <1>9, <1>17, <2>1, <3>1, <3>2
  <2>2. CASE e # d
    BY <1>18, <2>2
  <2> QED BY <2>1, <2>2
<1>20. \A e \in Dirs : \A t, u \in Live(e)' : O(e, t) = O(e, u) => t = u
  BY <1>17
<1>21. \A e \in Dirs : \A t \in Live(e) :
         \/ e = d /\ t = k
         \/ \E u \in Live(e)' : dir'[e][u].d_ino = dir[e][t].d_ino
  <2> SUFFICES ASSUME NEW e \in Dirs, NEW t \in Live(e), ~(e = d /\ t = k)
               PROVE  \E u \in Live(e)' : dir'[e][u].d_ino = dir[e][t].d_ino
    OBVIOUS
  <2>1. CASE e # d
    BY <1>18, <2>1
  <2>2. CASE e = d /\ t # n
    <3>1. t \in 1..n /\ t \in Live(d)' /\ t # k
      BY <1>4, <1>17, <2>2
    <3> QED BY <1>9, <1>15, <2>2, <3>1
  <2>3. CASE e = d /\ t = n
    <3>1. k \in 1..n /\ k \in Live(d)'
      BY <1>4, <1>17, <2>3
    <3> QED BY <1>5, <1>9, <1>15, <2>3, <3>1
  <2> QED BY <2>1, <2>2, <2>3
<1> HIDE DEF O
<1>22. Leading'
  BY <1>1, <1>13, <1>19 DEF Tree, Linkage, Leading
<1>23. Single'
  <2> SUFFICES ASSUME NEW e \in Dirs, NEW f \in Dirs, NEW t \in Live(e)', NEW u \in Live(f)',
                      dir'[e][t].d_ino = dir'[f][u].d_ino
               PROVE  e = f /\ t = u
    BY <1>13 DEF Single
  <2>1. e = f /\ O(e, t) = O(f, u)
    BY <1>1, <1>19 DEF Tree, Linkage, Single
  <2> QED BY <1>20, <2>1
<1>24. \A j \in Dirs \ {ROOT_DIR}, e \in Dirs : Under(j, e) => Under(j, e)'
  <2> SUFFICES ASSUME NEW j \in Dirs \ {ROOT_DIR} PROVE dir'[j][2] = dir[j][2]
    BY <1>11 DEF Under
  <2>1. CASE j = d
    <3>1. 2 \in 1..n /\ 2 # k
      BY <1>3, <1>4, <2>1 DEF First
    <3> QED BY <1>9, <1>15, <2>1, <3>1
  <2>2. CASE j # d
    BY <1>18, <2>2
  <2> QED BY <2>1, <2>2
<1>25. Parents'
  <2> SUFFICES ASSUME NEW j \in Dirs \ {ROOT_DIR}, NEW e \in Dirs, NEW t \in Live(e)', dir'[e][t].d_ino = j
               PROVE  Under(j, e)'
    BY <1>13 DEF Parents
  <2>1. Under(j, e)
    BY <1>1, <1>19 DEF Tree, Linkage, Parents
  <2> QED BY <1>24, <2>1
<1>26. i \in Inos /\ (i \in Dirs => Live(i) = {}) /\ i # d
  <2>1. i \in Inos /\ i # ROOT_DIR /\ i # d /\ inode[i].size <= 2 /\ inode[i].size \in Nat
    BY <1>1, <1>3, SizeFacts DEF Leaf
  <2>2. 3..inode[i].size = {}
    BY <2>1
  <2> QED BY <2>1, <2>2 DEF Live, First
<1>27. Reached'
  <2> SUFFICES ASSUME crashes' = 0, NEW S \in SUBSET Inos, Closed(S)' PROVE (Used \ Flight)' \subseteq S
    BY DEF Reached
  <2>1. PICK T : T = S \cup {i}
    OBVIOUS
  <2>2. \A e \in S \cap Dirs : \A u \in Live(e)' : dir'[e][u].d_ino \in S
    BY <1>13 DEF Closed
  <2>3. ASSUME NEW e \in T \cap Dirs, NEW t \in Live(e) PROVE dir[e][t].d_ino \in T
    <3>1. e # i /\ e \in S
      BY <1>26, <2>1, <2>3
    <3> QED BY <1>3, <1>21, <2>1, <2>2, <3>1
  <2>4. Closed(T) /\ T \in SUBSET Inos
    BY <1>26, <2>1, <2>3 DEF Closed
  <2>5. Used \ Flight \subseteq T
    BY <1>1, <1>11, <2>4 DEF Tree, Linkage, Reached
  <2>6. Flight = {} /\ Flight' = {i}
    BY <1>1, <1>10 DEF Flight
  <2> QED BY <1>13, <2>1, <2>5, <2>6
<1>28. Taking'
  <2>1. NoRef(i)'
    <3> SUFFICES ASSUME NEW e \in Dirs, NEW t \in Live(e)', dir'[e][t].d_ino = i PROVE FALSE
      BY <1>10, <1>13 DEF NoRef
    <3>1. O(e, t) \in Live(e) /\ dir[e][O(e, t)].d_ino = i /\ ~(e = d /\ O(e, t) = k)
      BY <1>19
    <3> QED BY <1>1, <1>3, <1>4, <1>17, <3>1 DEF Tree, Linkage, Single
  <2>2. Leaf(i)'
    BY <1>3, <1>11, <1>13 DEF Leaf
  <2>3. dir'[d][n] = last /\ dir'[d][k] = last
    BY <1>4, <1>5, <1>9, <1>15
  <2>4. k = n => last.d_ino = i
    BY <1>3, <1>5
  <2>5. i \in Dirs => Under(i, d)
    <3>1. i # ROOT_DIR
      BY <1>3 DEF Leaf
    <3> QED BY <1>1, <1>3, <1>4, <1>17, <3>1 DEF Tree, Linkage, Parents
  <2>6. i \in Dirs => Under(i, d)'
    <3>1. i # ROOT_DIR
      BY <1>3 DEF Leaf
    <3> QED BY <1>4, <1>24, <2>5, <3>1
  <2>7. Dest(call.to, call.room) => Dest(call.to, call.room)'
    BY <1>10, <1>11, <1>13 DEF Dest
  <2> QED BY <1>2, <1>3, <1>10, <1>11, <1>13, <2>1, <2>2, <2>3, <2>4, <2>6, <2>7 DEF Taking, First
<1>29. Command'
  BY <1>10, <1>28 DEF Command
<1>30. ROOT_DIR \in Dirs' /\ cwd' \in Dirs'
  BY <1>1, <1>11, <1>13 DEF Tree
<1>31. Linkage'
  BY <1>22, <1>23, <1>25, <1>27 DEF Linkage
<1> QED BY <1>10, <1>12, <1>14, <1>16, <1>29, <1>30, <1>31 DEF IInv, Tree

\* The new size drops the last entry, which no longer counted.
LEMMA DropInv ==
  ASSUME IInv, ~broken, Drop PROVE IInv'
<1>1. Types /\ Sized /\ Tree /\ call \in CallSet /\ cwd \in Inos /\ call.at = "drop"
  BY StepTree DEF Drop
<1>2. PICK d, i, n, k : d = call.d /\ i = call.ino /\ n = call.size /\ k = call.slot
  OBVIOUS
<1>3. /\ Taking /\ Leaf(i) /\ d = cwd /\ n = inode[d].size /\ k \in First(d)..n /\ NoRef(i)
      /\ call.op \in {"unlink", "mv"}
  BY <1>1, <1>2 DEF Tree, Command, Taking
<1>4. /\ d \in Dirs /\ d \in Inos /\ n \in Nat /\ First(d) \in Nat /\ First(d) >= 2 /\ First(d) <= n
      /\ n - 1 \in Nat /\ n \in Sizes /\ i \in Inos /\ i # d
  <2>1. d \in Dirs /\ d \in Inos
    BY <1>1, <1>3 DEF Tree
  <2>2. n \in Nat /\ First(d) \in {2, 3} /\ i \in Inos /\ i # d
    BY <1>1, <1>3, <2>1, SizeFacts DEF Leaf
  <2>3. n \in Sizes
    BY <1>1, <1>3, <2>1 DEF Types, InodeSet
  <2> QED BY <1>3, <2>1, <2>2, <2>3
<1>5. n - 1 \in Sizes
  BY <1>4, DirectoryAssumption DEF Sizes
<1>6. /\ inode' \in [Inos -> InodeSet] /\ inode'[d].size = n - 1 /\ inode'[d].mode = inode[d].mode
      /\ \A e \in Inos \ {d} : inode'[e] = inode[e]
  <2>1. inode \in [Inos -> [mode : Modes, size : Sizes]]
    BY <1>1 DEF Types, InodeSet
  <2>2. inode' = [inode EXCEPT ![d].size = n - 1]
    BY <1>2 DEF Drop
  <2> QED BY <1>4, <1>5, <2>1, <2>2 DEF InodeSet
<1>7. UNCHANGED <<dir, cwd, ai, moved, broken, crashes>>
  BY DEF Drop
<1>9. /\ call' \in CallSet /\ call'.op = call.op /\ call'.ino = i /\ call'.name = call.name
      /\ call.op = "mv" => call'.at = "add" /\ call'.d = call.to /\ call'.size = call.room
      /\ call.op = "unlink" => call'.at = "free"
      /\ call'.at \in {"add", "free"}
  <2>1. call \in [op : {"create", "mkdir", "unlink", "mv", "cp", "wipe"},
                  at : {"table", "block", "inode", "add", "count", "take", "drop", "free"},
                  ino : Inos \cup {NONE}, name : Seq(Chars), d : Inos, size : Sizes,
                  slot : Nat, to : Inos, room : Sizes]
    BY <1>1 DEF CallSet
  <2>2. CASE call.op = "mv"
    <3>1. call' = [call EXCEPT !.at = "add", !.d = call.to, !.size = call.room]
      BY <2>2 DEF Drop
    <3> QED BY <1>2, <2>1, <2>2, <3>1 DEF CallSet
  <2>3. CASE call.op = "unlink"
    <3>1. call' = [call EXCEPT !.at = "free"]
      BY <2>3 DEF Drop
    <3> QED BY <1>1, <1>2, <2>3, <3>1, Onward
  <2> QED BY <1>3, <2>2, <2>3
<1>10. Types'
  BY <1>1, <1>6, <1>7, <1>9 DEF Types, Active
<1>11. Dirs' = Dirs /\ Used' = Used
  BY <1>4, <1>6 DEF Dirs, Used
<1>12. n - 1 <= Len(dir[d]) /\ First(d) <= n - 1 + 1 /\ \A s \in 1..(n - 1) : s \in 1..n
  <2>1. n <= Len(dir[d]) /\ Len(dir[d]) \in Nat
    BY <1>1, <1>3, <1>4, SizeFacts DEF Sized
  <2> QED BY <1>4, <2>1
<1>13. Sized'
  BY <1>1, <1>6, <1>7, <1>12 DEF Sized
<1>14. Shape'
  <2>1. \A e \in Inos \ Dirs' : inode'[e].size = 0
    BY <1>1, <1>4, <1>6, <1>11 DEF Tree, Shape
  <2>2. ASSUME NEW e \in Dirs
        PROVE  /\ First(e) <= inode'[e].size + 1 /\ inode'[e].size <= Len(dir'[e])
               /\ \A s \in 1..inode'[e].size : Dotted(dir'[e][s]) <=> s < First(e)
               /\ e # ROOT_DIR => dir'[e][1].d_ino = e
    <3>1. CASE e = d
      <4>1. \A s \in 1..(n - 1) : Dotted(dir[d][s]) <=> s < First(d)
        BY <1>1, <1>3, <1>4, <1>12 DEF Tree, Shape
      <4>2. d # ROOT_DIR => dir[d][1].d_ino = d
        BY <1>1, <1>4 DEF Tree, Shape
      <4> QED BY <1>6, <1>7, <1>12, <3>1, <4>1, <4>2
    <3>2. CASE e # d
      <4>1. inode'[e] = inode[e]
        BY <1>6, <3>2 DEF Dirs
      <4> QED BY <1>1, <1>7, <4>1 DEF Tree, Shape
    <3> QED BY <3>1, <3>2
  <2> QED BY <1>11, <2>1, <2>2 DEF Shape, First, Dotted, NameOf
<1>15. \A e \in Dirs : Live(e)' = Live(e)
  <2>1. Live(d) = (First(d)..n) \ {n}
    BY <1>1, <1>2, <1>3 DEF Live
  <2>2. (First(d)..n) \ {n} = First(d)..(n - 1)
    BY <1>4
  <2>3. \A e : Live(e)' = First(e)..inode'[e].size
    BY <1>9 DEF Live, First
  <2>4. \A e \in Dirs \ {d} : Live(e) = First(e)..inode[e].size /\ inode'[e] = inode[e]
    BY <1>2, <1>6 DEF Live, Dirs
  <2> QED BY <1>6, <2>1, <2>2, <2>3, <2>4
<1>16. Linkage'
  <2>1. Linkage /\ Flight = {i} /\ Flight' = {i}
    BY <1>1, <1>2, <1>9 DEF Tree, Flight
  <2>2. \A j, e : Under(j, e) => Under(j, e)'
    BY <1>7 DEF Under
  <2>3. \A j \in Used \ Used' : NoRef(j)
    BY <1>11
  <2> QED BY <1>7, <1>11, <1>15, <2>1, <2>2, <2>3, SameLinks
<1>17. NoRef(i)' /\ Leaf(i)'
  <2>1. NoRef(i)'
    BY <1>3, <1>7, <1>11, <1>15 DEF NoRef
  <2>2. Leaf(i)'
    BY <1>3, <1>4, <1>6, <1>7, <1>11 DEF Leaf
  <2> QED BY <2>1, <2>2
<1>18. Command'
  <2>1. CASE call.op = "mv"
    <3>1. /\ call.to # d /\ call.to # i /\ Dest(call.to, call.room) /\ Plain(call.name)
          /\ i \in Dirs => i \in moved
      BY <1>2, <1>3, <2>1 DEF Taking
    <3>2. call.to \in Inos /\ inode'[call.to] = inode[call.to]
      BY <1>6, <3>1 DEF Dest, Dirs
    <3>3. Dest(call.d, call.size)'
      BY <1>9, <1>11, <2>1, <3>1, <3>2 DEF Dest
    <3>4. i \in Used' \ {ROOT_DIR} /\ (i \in Dirs' => Under(i, call.d)')
      BY <1>3, <1>7, <1>11, <3>1 DEF Under, Leaf
    <3>5. Adding'
      BY <1>9, <1>17, <2>1, <3>1, <3>3, <3>4 DEF Adding
    <3> QED BY <1>9, <2>1, <3>5 DEF Command
  <2>2. CASE call.op = "unlink"
    <3>1. Leaving'
      BY <1>9, <1>17 DEF Leaving
    <3> QED BY <1>9, <2>2, <3>1 DEF Command
  <2> QED BY <1>3, <2>1, <2>2
<1>19. ROOT_DIR \in Dirs' /\ cwd' \in Dirs'
  BY <1>1, <1>7, <1>11 DEF Tree
<1> QED BY <1>9, <1>10, <1>13, <1>14, <1>16, <1>18, <1>19 DEF IInv, Tree

\* The inode that unlink frees has no entry, and no entries of its own.
LEMMA FreeInv ==
  ASSUME IInv, ~broken, Free PROVE IInv'
<1>1. Types /\ Sized /\ Tree /\ call \in CallSet /\ cwd \in Inos /\ call.at = "free"
  BY StepTree DEF Free
<1>2. PICK i : i = call.ino
  OBVIOUS
<1>3. Leaf(i) /\ NoRef(i) /\ i \in Inos /\ i # ROOT_DIR /\ i # cwd
  BY <1>1, <1>2, SizeFacts DEF Tree, Command, Leaving, Leaf
<1>4. /\ inode' \in [Inos -> InodeSet] /\ inode'[i].mode = "IFZERO" /\ inode'[i].size = 0
      /\ \A e \in Inos \ {i} : inode'[e] = inode[e]
  <2>1. Unused \in InodeSet /\ Unused.mode = "IFZERO" /\ Unused.size = 0
    BY DirectoryAssumption DEF Unused, InodeSet, Modes, Sizes
  <2> QED BY <1>1, <1>2, <1>3, <2>1 DEF Free, Types
<1>5. /\ dir' \in [Inos -> Seq(EntrySet)] /\ dir'[i] = <<>> /\ \A e \in Inos \ {i} : dir'[e] = dir[e]
  <2>1. <<>> \in Seq(EntrySet)
    OBVIOUS
  <2> QED BY <1>1, <1>2, <1>3, <2>1 DEF Free, Types
<1>6. call' = Idle /\ call'.at = "idle" /\ moved' = moved \ {i} /\ UNCHANGED <<cwd, ai, broken, crashes>>
  BY <1>2 DEF Free, Idle
<1>7. Types'
  BY <1>1, <1>4, <1>5, <1>6 DEF Types, Active
<1>8. Dirs' = Dirs \ {i} /\ Used' = Used \ {i}
  BY <1>4 DEF Dirs, Used
<1>9. Sized'
  <2>1. inode'[i].size <= Len(dir'[i])
    BY <1>4, <1>5
  <2> QED BY <1>1, <1>4, <1>5, <2>1 DEF Sized
<1>10. \A d \in Dirs' : d \in Dirs /\ d \in Inos /\ inode'[d] = inode[d] /\ dir'[d] = dir[d]
  BY <1>4, <1>5, <1>8 DEF Dirs
<1>11. Shape'
  <2>1. \A e \in Inos \ Dirs' : inode'[e].size = 0
    BY <1>1, <1>4, <1>8 DEF Tree, Shape
  <2>2. \A e \in Dirs' :
          /\ First(e) <= inode'[e].size + 1 /\ inode'[e].size <= Len(dir'[e])
          /\ \A s \in 1..inode'[e].size : Dotted(dir'[e][s]) <=> s < First(e)
          /\ e # ROOT_DIR => dir'[e][1].d_ino = e
    BY <1>1, <1>10 DEF Tree, Shape
  <2> QED BY <2>1, <2>2 DEF Shape, First, Dotted, NameOf
<1>12. \A d \in Dirs' : Live(d)' = Live(d)
  BY <1>1, <1>6, <1>10 DEF Live, First
<1>13. Live(i) = {}
  <2>1. inode[i].size <= 2 /\ inode[i].size \in Nat
    BY <1>1, <1>3, SizeFacts DEF Leaf
  <2>2. 3..inode[i].size = {}
    BY <2>1
  <2> QED BY <1>3, <2>2 DEF Live, First
<1>14. Linkage'
  <2>1. \A d \in Dirs : \A s \in Live(d) : d \in Dirs' /\ s \in Live(d)'
    BY <1>8, <1>12, <1>13
  <2>2. \A j \in (Dirs \cap Dirs') \ {ROOT_DIR}, e \in Dirs : Under(j, e) => Under(j, e)'
    BY <1>6, <1>8, <1>10 DEF Under
  <2>3. Used' \ Flight' \subseteq Used \ Flight
    BY <1>1, <1>2, <1>6, <1>8 DEF Flight
  <2>4. \A j \in Used \ Used' : NoRef(j)
    BY <1>3, <1>8
  <2> QED BY <1>1, <1>6, <1>8, <1>10, <1>12, <2>1, <2>2, <2>3, <2>4, SameLinks DEF Tree
<1>15. Command'
  BY <1>6 DEF Command
<1>16. ROOT_DIR \in Dirs' /\ cwd' \in Dirs'
  BY <1>1, <1>3, <1>6, <1>8 DEF Tree
<1> QED BY <1>6, <1>7, <1>9, <1>11, <1>14, <1>15, <1>16 DEF IInv, Tree

\* wipe leaves the root with its own entry only.
LEMMA WipeTableInv ==
  ASSUME IInv, ~broken, WipeTable PROVE IInv'
<1>1. Types /\ Formatting /\ call.at = "table" /\ call \in CallSet
  BY DEF IInv, WipeTable, Types, Idle
<1>2. call.op = "wipe" /\ call.d = ROOT_DIR /\ Plain(call.name) /\ cwd = ROOT_DIR
  BY <1>1, NameTypes DEF Formatting
<1>3. ROOT_DIR \in Inos /\ ROOT_DIR + 1 \in Inos /\ ROOT_DIR + 1 # ROOT_DIR /\ 1 \in Sizes /\ 1 <= MAX_ENTRIES
  BY DirectoryAssumption DEF ROOT_DIR, Inos, Sizes
<1>20. PICK g \in Fresh :
         dir' = [i \in Inos |-> IF i = ROOT_DIR THEN <<NewEntry(ROOT_DIR, DOT, g)>> ELSE <<>>]
  BY DEF WipeTable
<1>4. PICK p : p = NewEntry(ROOT_DIR, DOT, g)
  OBVIOUS
<1>5. p \in EntrySet /\ Dotted(p)
  <2>1. g \in Seq(Chars) /\ DOT \in Seq(Chars)
    BY Dots, NameTypes
  <2>2. p \in EntrySet /\ NameOf(p) = DOT
    BY <1>3, <1>4, <2>1, NewEntryFacts
  <2> QED BY <2>2 DEF Dotted
<1>6. /\ inode' \in [Inos -> InodeSet] /\ inode'[ROOT_DIR].mode = "IFDIR" /\ inode'[ROOT_DIR].size = 1
      /\ \A i \in Inos \ {ROOT_DIR} : inode'[i].mode = "IFZERO" /\ inode'[i].size = 0
  <2>1. Unused \in InodeSet /\ Unused.mode = "IFZERO" /\ Unused.size = 0
    BY DirectoryAssumption DEF Unused, InodeSet, Modes, Sizes
  <2>2. PICK r : r = [mode |-> "IFDIR", size |-> 1]
    OBVIOUS
  <2>3. r \in InodeSet /\ r.mode = "IFDIR" /\ r.size = 1
    BY <1>3, <2>2 DEF InodeSet, Modes
  <2>4. inode' = [i \in Inos |-> IF i = ROOT_DIR THEN r ELSE Unused]
    BY <2>2 DEF WipeTable
  <2> QED BY <1>3, <2>1, <2>3, <2>4
<1>7. /\ dir' \in [Inos -> Seq(EntrySet)] /\ dir'[ROOT_DIR] = <<p>>
      /\ \A i \in Inos \ {ROOT_DIR} : dir'[i] = <<>>
  <2>1. <<>> \in Seq(EntrySet) /\ <<p>> \in Seq(EntrySet)
    BY <1>5
  <2>2. dir' = [i \in Inos |-> IF i = ROOT_DIR THEN <<p>> ELSE <<>>]
    BY <1>4, <1>20
  <2> QED BY <1>3, <2>1, <2>2
<1>8. /\ call' \in CallSet /\ call'.at = "inode" /\ call'.op = "wipe" /\ call'.ino = ROOT_DIR + 1
      /\ call'.size = 1 /\ call'.d = ROOT_DIR /\ call'.name = call.name
  <2>1. call' = [call EXCEPT !.at = "inode", !.ino = ROOT_DIR + 1, !.size = 1]
    BY DEF WipeTable
  <2> QED BY <1>1, <1>2, <1>3, <2>1 DEF CallSet
<1>9. moved' = {} /\ UNCHANGED <<cwd, ai, broken, crashes>>
  BY DEF WipeTable
<1>10. Types'
  BY <1>1, <1>6, <1>7, <1>8, <1>9 DEF Types, Active
<1>11. Used' = {ROOT_DIR} /\ Dirs' = {ROOT_DIR}
  BY <1>3, <1>6 DEF Used, Dirs
<1>12. Len(<<p>>) = 1 /\ <<p>>[1] = p /\ Len(<<>>) = 0
  OBVIOUS
<1>13. Sized'
  <2>1. inode'[ROOT_DIR].size <= Len(dir'[ROOT_DIR])
    BY <1>6, <1>7, <1>12
  <2>2. ASSUME NEW i \in Inos \ {ROOT_DIR} PROVE inode'[i].size <= Len(dir'[i])
    BY <1>6, <1>7, <1>12
  <2> QED BY <2>1, <2>2 DEF Sized
<1>14. Shape'
  <2>1. First(ROOT_DIR) = 2
    BY DEF First
  <2>2. \A s \in 1..1 : s = 1
    OBVIOUS
  <2>3. \A s \in 1..1 : Dotted(<<p>>[s]) <=> s < 2
    BY <1>5, <1>12, <2>2
  <2>4. \A i \in Inos \ Dirs' : inode'[i].size = 0
    BY <1>6, <1>11
  <2>5. ASSUME NEW d \in Dirs'
        PROVE  /\ First(d) <= inode'[d].size + 1 /\ inode'[d].size <= Len(dir'[d])
               /\ \A s \in 1..inode'[d].size : Dotted(dir'[d][s]) <=> s < First(d)
               /\ d # ROOT_DIR => dir'[d][1].d_ino = d
    <3>1. d = ROOT_DIR /\ inode'[d].size = 1 /\ First(d) = 2
      BY <1>6, <1>11, <2>1
    <3>2. PICK es : es = dir'[d]
      OBVIOUS
    <3>3. Len(es) = 1 /\ \A s \in 1..1 : Dotted(es[s]) <=> s < 2
      BY <1>7, <1>12, <2>3, <3>1, <3>2
    <3> QED BY <3>1, <3>2, <3>3
  <2> QED BY <2>4, <2>5 DEF Shape, First, Dotted, NameOf
<1>15. \A d \in Dirs' : Live(d)' = {}
  <2>1. 2..1 = {}
    OBVIOUS
  <2> QED BY <1>6, <1>11, <2>1 DEF Live, First
<1>16. Linkage'
  <2>1. Leading' /\ Single' /\ Parents'
    BY <1>15 DEF Leading, Single, Parents
  <2>2. Reached'
    BY <1>11 DEF Reached, Closed
  <2> QED BY <2>1, <2>2 DEF Linkage
<1>17. Coming'
  BY <1>2, <1>3, <1>6, <1>8, <1>11 DEF Coming, Dest
<1>18. Command'
  BY <1>8, <1>17 DEF Command
<1>19. ROOT_DIR \in Dirs' /\ cwd' \in Dirs'
  BY <1>2, <1>9, <1>11
<1> QED BY <1>8, <1>10, <1>13, <1>14, <1>16, <1>18, <1>19 DEF IInv, Tree

\* After a loss of power the entry that remove was taking, when it was the last one,
\* counts again.
LEMMA CrashInv ==
  ASSUME IInv, Crash PROVE IInv'
<1>1. Types /\ ~broken /\ call' = Idle /\ call'.at = "idle" /\ UNCHANGED <<inode, dir, moved>>
  BY DEF IInv, Crash, Idle
<1>2. ROOT_DIR \in Inos /\ crashes' \in 0..CRASHES /\ crashes' # 0
  BY <1>1, DirectoryAssumption DEF Crash, Types, ROOT_DIR, Inos
<1>3. Active' = {} /\ Active' \subseteq Inos /\ ai' \in [Active' -> InodeSet]
  BY DEF Crash, Active
<1>4. broken' \in BOOLEAN
  BY DEF Crash
<1>5. Types'
  BY <1>1, <1>2, <1>3, <1>4 DEF Types, Crash
<1> SUFFICES ASSUME ~broken' PROVE (Sized /\ Tree)'
  BY <1>1, <1>5 DEF IInv
<1>6. Sized /\ Tree /\ call.at # "table" /\ (call.at = "drop" => call.slot = call.size)
  BY <1>1 DEF IInv, Crash, Formatting
<1>7. Sized'
  BY <1>1, <1>6 DEF Sized
<1>8. Dirs' = Dirs /\ Used' = Used
  BY <1>1 DEF Dirs, Used
<1>9. Shape'
  BY <1>1, <1>6, <1>8 DEF Tree, Shape, First, Dotted, NameOf
<1>10. ROOT_DIR \in Dirs' /\ cwd' \in Dirs' /\ Command'
  BY <1>1, <1>6, <1>8 DEF Tree, Crash, Command
<1>11. CASE call.at = "drop"
  <2>1. PICK d, i, n : d = call.d /\ i = call.ino /\ n = call.size
    OBVIOUS
  <2>2. /\ Leaf(i) /\ d = cwd /\ n = inode[d].size /\ call.slot \in First(d)..n /\ NoRef(i)
        /\ dir[d][n].d_ino = i /\ (i \in Dirs => Under(i, d))
    BY <1>6, <1>11, <2>1 DEF Tree, Command, Taking
  <2>3. d \in Dirs /\ d \in Used /\ i \in Used \ {ROOT_DIR} /\ d # i /\ n \in First(d)..n
    BY <1>1, <1>6, <1>11, <2>1, <2>2, SizeFacts DEF Tree, Leaf
  <2>4. Live(d)' = Live(d) \cup {n}
    BY <1>1, <1>11, <2>1, <2>2, <2>3 DEF Live, First
  <2>5. \A e \in Dirs \ {d} : Live(e)' = Live(e)
    BY <1>1, <2>1 DEF Live, First
  <2>6. Linkage'
    BY <1>1, <1>2, <1>6, <1>8, <2>2, <2>3, <2>4, <2>5, OneMore DEF Tree
  <2> QED BY <1>7, <1>9, <1>10, <2>6 DEF Tree
<1>12. CASE call.at # "drop"
  <2>1. \A d \in Dirs : inode[d].size <= Len(dir'[d])
    BY <1>1, <1>6 DEF Sized, Dirs
  <2>2. Linkage'
    BY <1>1, <1>2, <1>6, <1>12, <2>1, Quiet DEF Tree
  <2> QED BY <1>7, <1>9, <1>10, <2>2 DEF Tree
<1> QED BY <1>11, <1>12

\* A new disk is one that wipe is formatting.
LEMMA InitInv ==
  ASSUME Init PROVE IInv
<1>1. ROOT_DIR \in Inos
  BY DirectoryAssumption DEF ROOT_DIR, Inos
<1>2. Unused \in InodeSet /\ Unused.size = 0
  BY DirectoryAssumption DEF Unused, InodeSet, Modes, Sizes
<1>3. inode \in [Inos -> InodeSet] /\ \A i \in Inos : inode[i].size = 0
  BY <1>2 DEF Init
<1>4. dir \in [Inos -> Seq(EntrySet)] /\ \A i \in Inos : dir[i] = <<>>
  <2>1. <<>> \in Seq(EntrySet)
    OBVIOUS
  <2> QED BY <2>1 DEF Init
<1>5. Active = {} /\ ai \in [Active -> InodeSet]
  BY DEF Init, Active
<1>6. /\ call \in CallSet /\ call.op = "wipe" /\ call.at = "table" /\ call.name = PROGRAM /\ call.d = ROOT_DIR
  <2>1. PROGRAM \in Seq(Chars) /\ NONE \in Inos \cup {NONE} /\ inode[ROOT_DIR].size \in Sizes
    BY <1>1, <1>3, NameTypes DEF InodeSet
  <2>2. call = Entering("wipe", "table", NONE, PROGRAM, ROOT_DIR)
    BY DEF Init
  <2> QED BY <1>1, <2>1, <2>2 DEF Entering, CallSet
<1>7. Types
  <2>1. cwd \in Inos /\ moved \subseteq Inos /\ broken \in BOOLEAN
    BY <1>1 DEF Init
  <2>2. crashes \in 0..CRASHES
    BY DirectoryAssumption DEF Init
  <2> QED BY <1>3, <1>4, <1>5, <1>6, <2>1, <2>2 DEF Types
<1>8. Sized
  <2>1. Len(<<>>) = 0
    OBVIOUS
  <2> QED BY <1>3, <1>4, <2>1 DEF Sized
<1>9. Formatting
  BY <1>6 DEF Formatting, Init
<1> QED BY <1>7, <1>8, <1>9 DEF IInv

\* The invariant is inductive.
THEOREM Invariance == Spec => []IInv
<1>1. Init => IInv
  BY InitInv
<1>2. IInv /\ [Next]_vars => IInv'
  <2> SUFFICES ASSUME IInv, [Next]_vars PROVE IInv'
    OBVIOUS
  <2>1. CASE ~broken /\ Step
    BY <2>1, WriteFirstInv, WriteNewInv, AddInv, CountInv, CountCopyInv, TakeInv, DropInv, FreeInv, WipeTableInv DEF Step
  <2>2. CASE Wipe
    BY <2>2, WipeInv
  <2>3. CASE Crash
    BY <2>3, CrashInv
  <2>4. ASSUME NEW ino \in Active, Close(ino) PROVE IInv'
    BY <2>4, CloseInv
  <2>5. ASSUME NEW path \in Paths, Open(path) \/ Create(path) \/ Cd(path) PROVE IInv'
    BY <2>5, OpenInv, CreateInv, CdInv
  <2>6. ASSUME NEW name \in NAMES, Mkdir(name) \/ Unlink(name) PROVE IInv'
    BY <2>6, MkdirInv, UnlinkInv
  <2>7. ASSUME NEW name \in NAMES, NEW path \in Paths, Mv(name, path) \/ Cp(path, name) PROVE IInv'
    BY <2>7, MvInv, CpInv
  <2>8. CASE UNCHANGED vars
    <3>1. UNCHANGED <<inode, dir, cwd, ai, call, moved, broken, crashes>>
      BY <2>8 DEF vars
    <3>2. Dirs' = Dirs /\ Used' = Used /\ Active' = Active /\ Flight' = Flight /\ \A d : Live(d)' = Live(d)
      BY <3>1 DEF Dirs, Used, Active, Flight, Live, First
    <3>3. Types => Types'
      BY <3>1, <3>2 DEF Types
    <3>4. (Sized => Sized') /\ (Formatting => Formatting')
      BY <3>1 DEF Sized, Formatting
    <3>5. Shape => Shape'
      BY <3>1, <3>2 DEF Shape, First, Dotted, NameOf
    <3>6. Linkage => Linkage'
      BY <3>1, <3>2 DEF Linkage, Leading, Single, Parents, Under, Reached, Closed
    <3>7. \A i : (NoRef(i) => NoRef(i)') /\ (Leaf(i) => Leaf(i)')
      BY <3>1, <3>2 DEF NoRef, Leaf
    <3>8. \A i, d : (Under(i, d) => Under(i, d)') /\ (Dest(i, d) => Dest(i, d)')
      BY <3>1, <3>2 DEF Under, Dest
    <3>9. Coming => Coming'
      BY <3>1, <3>2, <3>8 DEF Coming, Dotted, NameOf
    <3>10. Adding => Adding'
      BY <3>1, <3>2, <3>7, <3>8 DEF Adding, Dotted, NameOf
    <3>11. Taking => Taking'
      BY <3>1, <3>2, <3>7, <3>8 DEF Taking, First
    <3>12. Leaving => Leaving'
      BY <3>1, <3>7 DEF Leaving
    <3>13. Copying => Copying'
      BY <3>1, <3>2, <3>8 DEF Copying
    <3>14. Command => Command'
      BY <3>1, <3>9, <3>10, <3>11, <3>12, <3>13 DEF Command
    <3> QED BY <3>1, <3>2, <3>3, <3>4, <3>5, <3>6, <3>14 DEF IInv, Tree
  <2> QED BY <2>1, <2>2, <2>3, <2>4, <2>5, <2>6, <2>7, <2>8 DEF Next
<1> QED BY <1>1, <1>2, PTL DEF Spec
-----------------------------------------------------------------------------
(* What the invariant says between commands. *)

\* The entries up to the size are all there, and those behind "." and ".." have names.
LEMMA EntriesAre ==
  ASSUME Types, Sized, NEW d \in Inos
  PROVE  Entries(d) = 1..inode[d].size
<1>1. inode[d].size \in Nat /\ Len(dir[d]) \in Nat /\ inode[d].size <= Len(dir[d])
  BY SizeFacts DEF Sized
<1>2. Min({inode[d].size, Len(dir[d])}) = inode[d].size
  BY <1>1, MinPair
<1> QED BY <1>2 DEF Entries

\* The entries of a directory that have names are those behind "." and "..".
LEMMA NamedAre ==
  ASSUME Types, Sized, Shape, NEW d \in Dirs
  PROVE  Named(d) = First(d)..inode[d].size
<1>1. d \in Inos /\ inode[d].size \in Nat /\ First(d) \in Nat /\ First(d) >= 1
  BY SizeFacts
<1>2. Entries(d) = 1..inode[d].size
  BY <1>1, EntriesAre
<1>3. \A s \in 1..inode[d].size : Dotted(dir[d][s]) <=> s < First(d)
  BY DEF Shape
<1>4. \A s \in 1..inode[d].size : ~(s < First(d)) <=> s \in First(d)..inode[d].size
  BY <1>1
<1>5. \A s \in First(d)..inode[d].size : s \in 1..inode[d].size
  BY <1>1
<1>6. \A s : s \in Named(d) <=> s \in 1..inode[d].size /\ ~Dotted(dir[d][s])
  BY <1>2 DEF Named, Dotted
<1> QED BY <1>3, <1>4, <1>5, <1>6

\* Between commands every entry with a name counts.
LEMMA Still ==
  ASSUME IInv, call = Idle, ~broken
  PROVE  Types /\ Sized /\ Tree /\ call.at = "idle" /\ \A d \in Dirs : Named(d) = Live(d)
<1>1. Begin
  BY DEF Begin
<1>2. Types /\ Sized /\ Tree /\ call.at = "idle"
  BY <1>1, BeginTree
<1>3. \A d : Live(d) = First(d)..inode[d].size
  BY <1>2 DEF Live
<1>4. \A d \in Dirs : Named(d) = First(d)..inode[d].size
  BY <1>2, NamedAre DEF Tree
<1> QED BY <1>2, <1>3, <1>4

\* The references to an inode are the live entries that lead to it.
LEMMA RefsAre ==
  ASSUME IInv, call = Idle, ~broken, NEW i, NEW r \in Refs(i)
  PROVE  \E d \in Dirs : \E s \in Live(d) : r = <<d, s>> /\ dir[d][s].d_ino = i
<1>1. PICK d \in Dirs : r \in {<<d, s>> : s \in {t \in Named(d) : dir[d][t].d_ino = i}}
  BY DEF Refs
<1>2. PICK s \in Named(d) : r = <<d, s>> /\ dir[d][s].d_ino = i
  BY <1>1
<1> QED BY <1>2, Still

\* InATree holds of every disk, for any sizes: until a command or a loss of power that
\* sets broken (cd to a file, wipe from elsewhere than the root, a name longer than
\* d_name and the others that Directory lists), the current directory and each "." and
\* ".." are what mkdir, cd, unlink and mv take them to be.
THEOREM TreeCorrect == Spec => []InATree
<1>1. IInv => TypeOK
  <2> SUFFICES ASSUME IInv PROVE TypeOK
    OBVIOUS
  <2>1. Types /\ (~broken => Sized)
    BY DEF IInv
  <2> QED BY <2>1 DEF Types, TypeOK, Sized, InodeSet, Modes, Sizes
<1>2. IInv => InATree
  <2> SUFFICES ASSUME IInv, call = Idle, ~broken
               PROVE  /\ cwd \in Dirs
                      /\ \A d \in Dirs \ {ROOT_DIR} :
                           /\ dir[d][1].d_ino = d
                           /\ d \in moved \/ Refs(d) = {} \/ \E r \in Refs(d) : r[1] = dir[d][2].d_ino
    BY <1>1 DEF InATree
  <2>1. Types /\ Sized /\ Tree
    BY Still
  <2>2. cwd \in Dirs /\ \A d \in Dirs \ {ROOT_DIR} : dir[d][1].d_ino = d
    BY <2>1 DEF Tree, Shape
  <2>3. ASSUME NEW d \in Dirs \ {ROOT_DIR}, d \notin moved, NEW r \in Refs(d)
        PROVE  r[1] = dir[d][2].d_ino
    <3>1. PICK e \in Dirs : \E s \in Live(e) : r = <<e, s>> /\ dir[e][s].d_ino = d
      BY RefsAre
    <3>2. r[1] = e
      BY <3>1
    <3>3. Under(d, e)
      BY <2>1, <3>1 DEF Tree, Linkage, Parents
    <3> QED BY <2>3, <3>2, <3>3 DEF Under
  <2> QED BY <2>2, <2>3
<1> QED BY <1>2, Invariance, PTL

\* OneEntry holds of every disk, for any sizes: what gives a file a second entry, or
\* leaves one for a file that is gone, is only what sets broken (cp, mv to the current
\* directory or into itself, power lost between the two writes of remove).
THEOREM EntryCorrect == Spec => []OneEntry
<1>1. IInv => OneEntry
  <2> SUFFICES ASSUME IInv, call = Idle, ~broken, NEW i \in Inos
               PROVE  Cardinality(Refs(i)) <= IF i \in Used \ {ROOT_DIR} THEN 1 ELSE 0
    BY DEF OneEntry
  <2>1. Tree
    BY Still
  <2>2. CASE Refs(i) = {}
    BY <2>2, FS_EmptySet
  <2>3. CASE Refs(i) # {}
    <3>1. PICK r \in Refs(i) : TRUE
      BY <2>3
    <3>2. PICK d, s : d \in Dirs /\ s \in Live(d) /\ r = <<d, s>> /\ dir[d][s].d_ino = i
      BY RefsAre
    <3>3. i \in Used \ {ROOT_DIR}
      BY <2>1, <3>2 DEF Tree, Linkage, Leading
    <3>4. ASSUME NEW q \in Refs(i) PROVE q = r
      <4>1. PICK e, t : e \in Dirs /\ t \in Live(e) /\ q = <<e, t>> /\ dir[e][t].d_ino = i
        BY RefsAre
      <4>2. e = d /\ t = s
        BY <2>1, <3>2, <4>1 DEF Tree, Linkage, Single
      <4> QED BY <3>2, <4>1, <4>2
    <3>5. Refs(i) = {r}
      BY <3>4
    <3>6. Cardinality(Refs(i)) = 1
      BY <3>5, FS_Singleton
    <3> QED BY <3>3, <3>6
  <2> QED BY <2>2, <2>3
<1> QED BY <1>1, Invariance, PTL

\* ActsOnName holds of every disk: name_to_ino finds a name that is there, unless the
\* last block is full, and remove takes an entry of the name it is given.
THEOREM NameCorrect == Spec => ActsOnName
<1> DEFINE A == LET c == call' IN
                  (call = Idle /\ c # Idle) =>
                    /\ c.op = "create" => \/ inode[c.d].size % PER_BLOCK = 0
                                          \/ \A s \in Entries(c.d) : NameOf(dir[c.d][s]) # c.name
                    /\ c.op = "unlink" => LET e == dir[c.d][c.slot]
                                          IN NameOf(e) = c.name \/ Len(e.d_name) > e.d_namlen
<1>1. ASSUME IInv, NEW path \in Paths, Create(path), call' # Idle PROVE A
  <2>1. PICK par, name : par = Walk(path, ROOT_DIR)[Len(path) - 1] /\ name = path[Len(path)]
    OBVIOUS
  <2>2. /\ Begin /\ path # <<>> /\ par # NONE /\ Inos # Used
        /\ Walk(path, ROOT_DIR)[Len(path)] = NONE
        /\ call' = Entering("create", "inode", NewInode, name, par)
    BY <1>1, <2>1 DEF Create
  <2>3. Types /\ Sized /\ ROOT_DIR \in Inos
    BY <1>1, <2>2, BeginTree DEF Tree, Dirs
  <2>4. par \in Inos /\ NameToIno(name, par) = NONE
    BY <2>1, <2>2, <2>3, LeadsType DEF Places
  <2>6. call'.op = "create" /\ call'.d = par /\ call'.name = name
    BY <2>2 DEF Entering
  <2>7. Hits(name, par) = {}
    <3> SUFFICES ASSUME Hits(name, par) # {} PROVE FALSE
      OBVIOUS
    <3>1. Min(Hits(name, par)) \in Hits(name, par)
      BY <2>3, <2>4, HitsFacts, MinIn
    <3>2. dir[par][Min(Hits(name, par))].d_ino \in Inos
      BY <2>3, <2>4, <3>1, HitsFacts DEF EntrySet
    <3>3. NONE \notin Inos
      BY DEF NONE, Inos
    <3> QED BY <2>4, <3>2, <3>3 DEF NameToIno
  <2>8. ASSUME inode[par].size % PER_BLOCK # 0, NEW s \in Entries(par), NameOf(dir[par][s]) = name PROVE FALSE
    <3>1. s \in 1..inode[par].size /\ inode[par].size \in Nat /\ inode[par].size <= Len(dir[par]) /\ Len(dir[par]) \in Nat
      BY <2>3, <2>4, EntriesAre, SizeFacts DEF Sized
    <3>2. Searched(inode[par].size) = inode[par].size
      BY <2>8, <3>1, SearchedAll
    <3>3. s \in 1..Len(dir[par])
      BY <3>1
    <3>4. PICK e \in EntrySet : e = dir[par][s]
      BY <2>3, <2>4, <3>3, SizeFacts
    <3>5. Len(name) = e.d_namlen /\ e.d_namlen <= Len(e.d_name) /\ e.d_namlen \in Nat
      BY <2>8, <3>4, NameFacts DEF EntrySet
    <3>6. SubSeq(e.d_name, 1, Len(name)) = name
      BY <2>8, <3>4, <3>5 DEF NameOf
    <3>7. Matches(name, e)
      BY <3>5, <3>6 DEF Matches
    <3> QED BY <2>7, <3>1, <3>2, <3>4, <3>7 DEF Hits
  <2>9. call'.op # "unlink"
    BY <2>6
  <2> QED BY <2>6, <2>8, <2>9
<1>2. ASSUME IInv, NEW name \in NAMES, Unlink(name) PROVE A
  <2>1. PICK s : s = Min(Targets(name, cwd))
    OBVIOUS
  <2>2. PICK e, ino : e = dir[cwd][s] /\ ino = e.d_ino
    OBVIOUS
  <2>3. /\ Begin /\ ~Hidden(name) /\ Targets(name, cwd) # {}
        /\ call' = [Entering("unlink", "take", ino, name, cwd) EXCEPT !.slot = s]
    BY <1>2, <2>1, <2>2 DEF Unlink
  <2>4. Types /\ Sized /\ Tree /\ call.at = "idle" /\ cwd \in Inos /\ name \in Seq(Chars)
    BY <1>2, <2>3, BeginTree, NameTypes DEF Types
  <2>5. Matches(name, e) /\ e \in EntrySet /\ ino \in Inos
    BY <2>1, <2>2, <2>3, <2>4, TargetFacts, TargetEntry
  <2>6. call'.op = "unlink" /\ call'.d = cwd /\ call'.name = name /\ call'.slot = s
    <3>1. PICK c \in CallSet : /\ c = Entering("unlink", "take", ino, name, cwd)
                               /\ c.op = "unlink" /\ c.name = name /\ c.d = cwd
      BY <2>4, <2>5, EnteringType
    <3> QED BY <2>3, <3>1 DEF CallSet
  <2>7. NameOf(e) = name \/ Len(e.d_name) > e.d_namlen
    <3>1. /\ e.d_namlen \in Nat /\ Len(e.d_name) \in Nat /\ Len(name) \in Nat
          /\ Len(name) >= e.d_namlen /\ Len(name) <= Len(e.d_name) /\ SubSeq(e.d_name, 1, Len(name)) = name
      BY <2>4, <2>5, LenProperties DEF Matches, EntrySet
    <3>2. Len(e.d_name) > e.d_namlen \/ Len(name) = e.d_namlen
      BY <3>1
    <3> QED BY <3>1, <3>2 DEF NameOf
  <2> QED BY <2>2, <2>6, <2>7
<1>3. ASSUME IInv, [Next]_vars PROVE [A]_vars
  <2> SUFFICES ASSUME call = Idle, call' # Idle PROVE A
    BY DEF A
  <2>0. call.at = "idle"
    BY DEF Idle
  <2>1. CASE ~broken /\ Step
    BY <2>0, <2>1 DEF Step, WriteFirst, WriteNew, Add, Count, Take, Drop, Free, WipeTable
  <2>2. CASE Crash
    BY <2>2 DEF Crash
  <2>3. ASSUME NEW ino \in Active, Close(ino) PROVE A
    BY <2>3 DEF Close
  <2>4. ASSUME NEW path \in Paths, Open(path) \/ Cd(path) PROVE A
    BY <2>4 DEF Open, Cd
  <2>5. ASSUME NEW op \in {"mkdir", "mv", "cp", "wipe"}, call'.op = op PROVE A
    BY <2>5
  <2>6. CASE Wipe
    <3>1. call'.op = "wipe"
      BY <2>6 DEF Wipe, Entering
    <3> QED BY <2>5, <3>1
  <2>7. ASSUME NEW name \in NAMES, Mkdir(name) PROVE A
    <3>1. call'.op = "mkdir"
      BY <2>7 DEF Mkdir, Entering
    <3> QED BY <2>5, <3>1
  <2>8. ASSUME NEW name \in NAMES, NEW path \in Paths, Mv(name, path) PROVE A
    <3>1. call'.op = "mv"
      BY <2>8 DEF Mv, Entering
    <3> QED BY <2>5, <3>1
  <2>9. ASSUME NEW name \in NAMES, NEW path \in Paths, Cp(path, name) PROVE A
    <3>1. call'.op = "cp"
      BY <2>9 DEF Cp, Entering
    <3> QED BY <2>5, <3>1
  <2>10. CASE UNCHANGED vars
    BY <2>10 DEF vars
  <2> HIDE DEF A
  <2> QED BY <1>1, <1>2, <1>3, <2>1, <2>2, <2>3, <2>4, <2>6, <2>7, <2>8, <2>9, <2>10 DEF Next
<1> QED BY <1>3, Invariance, PTL DEF Spec, ActsOnName
-----------------------------------------------------------------------------
(* Reachability. *)

\* The sets of Reachable: by induction there is a function that satisfies its equation,
\* and each set has the one before it.
LEMMA ReachableDef ==
  ASSUME IInv, call = Idle, ~broken
  PROVE  \E r \in [0..INODES -> SUBSET Used] :
           /\ Reachable = r[INODES] /\ r[0] = {ROOT_DIR}
           /\ \A n \in 1..INODES : r[n] = r[n - 1] \cup Children(r[n - 1])
<1> DEFINE N == INODES
           Body(f, n) == IF n = 0 THEN {ROOT_DIR} ELSE f[n - 1] \cup Children(f[n - 1])
           Good(k) == {f \in [0..k -> SUBSET Used] : \A n \in 0..k : f[n] = Body(f, n)}
           S == {k \in 0..N : Good(k) # {}}
<1>1. N \in Nat
  BY DirectoryAssumption
<1>2. Types /\ Tree /\ \A d \in Dirs : Named(d) = Live(d)
  BY Still
<1>3. ROOT_DIR \in Used /\ \A d \in Dirs : \A s \in Named(d) : dir[d][s].d_ino \in Used
  BY <1>2, SizeFacts DEF Tree, Linkage, Leading
<1>4. \A X : Children(X) \subseteq Used
  BY <1>3 DEF Children
<1>5. 0 \in S
  <2>1. [n \in 0..0 |-> {ROOT_DIR}] \in Good(0)
    BY <1>3
  <2> QED BY <1>1, <2>1
<1>6. ASSUME NEW k \in 0..(N - 1), k \in S PROVE k + 1 \in S
  <2>1. PICK f \in Good(k) : TRUE
    BY <1>6
  <2>2. PICK g : g = [n \in 0..(k + 1) |-> IF n = k + 1 THEN f[k] \cup Children(f[k]) ELSE f[n]]
    OBVIOUS
  <2>3. f \in [0..k -> SUBSET Used] /\ \A n \in 0..k : f[n] = Body(f, n)
    BY <2>1
  <2>4. k \in 0..k /\ k + 1 \in 0..N /\ \A n \in 0..(k + 1) : n \in 0..k \/ n = k + 1
    BY <1>1
  <2>5. g \in [0..(k + 1) -> SUBSET Used]
    <3>1. f[k] \cup Children(f[k]) \subseteq Used
      BY <1>4, <2>3, <2>4
    <3> QED BY <2>2, <2>3, <2>4, <3>1
  <2>6. ASSUME NEW n \in 0..(k + 1) PROVE g[n] = Body(g, n)
    <3>1. CASE n = k + 1
      <4>1. n # 0 /\ n - 1 = k /\ k \in 0..(k + 1) /\ k # k + 1
        BY <3>1
      <4>2. g[n] = f[k] \cup Children(f[k]) /\ g[k] = f[k]
        BY <2>2, <3>1, <4>1
      <4> QED BY <4>1, <4>2
    <3>2. CASE n # k + 1
      <4>1. n \in 0..k /\ (n # 0 => n - 1 \in 0..k /\ n - 1 # k + 1 /\ n - 1 \in 0..(k + 1))
        BY <3>2
      <4>2. g[n] = f[n] /\ (n # 0 => g[n - 1] = f[n - 1])
        BY <2>2, <3>2, <4>1
      <4> QED BY <2>3, <4>1, <4>2
    <3> QED BY <3>1, <3>2
  <2>7. g \in Good(k + 1)
    BY <2>5, <2>6
  <2> HIDE DEF Good
  <2> QED BY <2>4, <2>7
<1>7. N \in S
  <2> HIDE DEF S
  <2>1. 0..N \subseteq S
    BY <1>1, <1>5, <1>6, Induction
  <2> QED BY <1>1, <2>1
<1>8. PICK f \in Good(N) : TRUE
  BY <1>7
<1>9. f = [n \in 0..N |-> Body(f, n)]
  BY <1>8
<1>10. PICK r : r = CHOOSE g : g = [n \in 0..N |-> Body(g, n)]
  OBVIOUS
<1>11. r = [n \in 0..N |-> Body(r, n)]
  BY <1>9, <1>10, Zenon
<1>12. Reachable = r[N]
  BY <1>10 DEF Reachable
<1>13. \A n \in 0..N : r[n] = Body(r, n)
  BY <1>11, Zenon
<1>14. r[0] = {ROOT_DIR} /\ \A n \in 1..N : r[n] = r[n - 1] \cup Children(r[n - 1])
  <2>1. 0 \in 0..N /\ \A n \in 1..N : n \in 0..N /\ n # 0
    BY <1>1
  <2> QED BY <1>13, <2>1
<1>15. 0..N \subseteq {n \in 0..N : r[n] \subseteq Used}
  <2>1. PICK R : R = {n \in 0..N : r[n] \subseteq Used}
    OBVIOUS
  <2>2. 0 \in R
    BY <1>1, <1>3, <1>14, <2>1
  <2>3. ASSUME NEW k \in 0..(N - 1), k \in R PROVE k + 1 \in R
    <3>1. k + 1 \in 1..N /\ k + 1 - 1 = k /\ k + 1 \in 0..N
      BY <1>1
    <3>2. r[k + 1] = r[k] \cup Children(r[k])
      BY <1>14, <3>1
    <3> QED BY <1>4, <2>1, <2>3, <3>1, <3>2
  <2>4. 0..N \subseteq R
    BY <1>1, <2>2, <2>3, Induction
  <2> QED BY <2>1, <2>4
<1>16. r \in [0..N -> SUBSET Used]
  BY <1>11, <1>15
<1> QED BY <1>12, <1>14, <1>16

\* Sets of inodes, each with the one before it, cannot grow more often than there are
\* inodes.
LEMMA Saturated ==
  ASSUME NEW r \in [0..INODES -> SUBSET Inos], r[0] = {ROOT_DIR},
         \A n \in 1..INODES : r[n] = r[n - 1] \cup Children(r[n - 1])
  PROVE  Children(r[INODES]) \subseteq r[INODES]
<1> DEFINE N == INODES
           S == {n \in 0..N : n < Cardinality(r[n]) \/ Children(r[n]) \subseteq r[n]}
<1>1. N \in Nat \ {0} /\ IsFiniteSet(Inos) /\ Cardinality(Inos) = N
  <2>1. N \in Nat \ {0} /\ 0 \in Int /\ N - 1 \in Int /\ ~(0 > N - 1) /\ N - 1 - 0 + 1 = N
    BY DirectoryAssumption
  <2> QED BY <2>1, FS_Interval DEF Inos
<1>2. \A T \in SUBSET Inos : IsFiniteSet(T) /\ Cardinality(T) <= N /\ Cardinality(T) \in Nat
  BY <1>1, FS_Subset, FS_CardinalityType
<1>3. 0 \in S
  <2>0. Cardinality({ROOT_DIR}) = 1
    BY FS_Singleton, Zenon
  <2>1. Cardinality(r[0]) = 1 /\ 0 \in 0..N
    BY <1>1, <2>0
  <2>2. 0 < Cardinality(r[0])
    BY <2>1
  <2> QED BY <2>1, <2>2
<1>4. ASSUME NEW k \in 0..(N - 1), k \in S PROVE k + 1 \in S
  <2>1. k \in 0..N /\ k + 1 \in 1..N /\ k + 1 \in 0..N /\ k + 1 - 1 = k
    BY <1>1
  <2>2. r[k + 1] = r[k] \cup Children(r[k]) /\ r[k] \in SUBSET Inos /\ r[k + 1] \in SUBSET Inos
    BY <2>1
  <2>3. CASE Children(r[k]) \subseteq r[k]
    <3>1. r[k + 1] = r[k]
      BY <2>2, <2>3
    <3> QED BY <2>1, <2>3, <3>1
  <2>4. CASE ~(Children(r[k]) \subseteq r[k])
    <3>1. r[k] \in SUBSET r[k + 1] /\ r[k] # r[k + 1]
      BY <2>2, <2>4
    <3>2. Cardinality(r[k]) <= Cardinality(r[k + 1]) /\ Cardinality(r[k + 1]) # Cardinality(r[k])
      BY <1>2, <2>2, <3>1, FS_Subset
    <3>3. k < Cardinality(r[k])
      BY <1>4, <2>4
    <3>4. k + 1 < Cardinality(r[k + 1])
      BY <1>2, <2>2, <3>2, <3>3
    <3> QED BY <2>1, <3>4
  <2> QED BY <2>3, <2>4
<1>5. N \in S
  <2> HIDE DEF S
  <2>1. 0..N \subseteq S
    BY <1>1, <1>3, <1>4, Induction
  <2> QED BY <1>1, <2>1
<1>6. r[N] \in SUBSET Inos
  BY <1>1
<1>7. ~(N < Cardinality(r[N]))
  BY <1>1, <1>2, <1>6
<1> QED BY <1>5, <1>7

\* AllReachable holds of every disk: as long as power is not lost and nothing has set
\* broken, neither remove, nor mv, nor moving the last entry into the place of another
\* cuts anything off.
THEOREM ReachableCorrect == Spec => []AllReachable
<1>1. IInv => AllReachable
  <2> SUFFICES ASSUME IInv, call = Idle, ~broken, crashes = 0 PROVE Reachable = Used
    BY DEF AllReachable
  <2>1. Types /\ Tree /\ call.at = "idle" /\ \A d \in Dirs : Named(d) = Live(d)
    BY Still
  <2>2. PICK r \in [0..INODES -> SUBSET Used] :
          /\ Reachable = r[INODES] /\ r[0] = {ROOT_DIR}
          /\ \A n \in 1..INODES : r[n] = r[n - 1] \cup Children(r[n - 1])
    BY ReachableDef
  <2>3. INODES \in Nat
    BY DirectoryAssumption
  <2>4. Used \subseteq Inos
    BY DEF Used
  <2>5. Reachable \subseteq Used /\ Reachable \subseteq Inos
    BY <2>2, <2>3, <2>4
  <2>6. r \in [0..INODES -> SUBSET Inos]
    BY <2>2, <2>4
  <2>7. Children(Reachable) \subseteq Reachable
    BY <2>2, <2>6, Saturated
  <2>8. ROOT_DIR \in Reachable
    <3>1. PICK R : R = {n \in 0..INODES : ROOT_DIR \in r[n]}
      OBVIOUS
    <3>2. 0 \in R
      BY <2>2, <2>3, <3>1
    <3>3. ASSUME NEW k \in 0..(INODES - 1), k \in R PROVE k + 1 \in R
      <4>1. k + 1 \in 1..INODES /\ k + 1 - 1 = k /\ k + 1 \in 0..INODES
        BY <2>3
      <4> QED BY <2>2, <3>1, <3>3, <4>1
    <3>4. 0..INODES \subseteq R
      BY <2>3, <3>2, <3>3, Induction
    <3>5. INODES \in R
      BY <2>3, <3>4
    <3> QED BY <2>2, <3>1, <3>5
  <2>9. ASSUME NEW d \in Reachable \cap Dirs, NEW s \in Live(d) PROVE dir[d][s].d_ino \in Reachable
    BY <2>1, <2>7 DEF Children
  <2>10. Closed(Reachable) /\ Reachable \in SUBSET Inos
    BY <2>5, <2>8, <2>9 DEF Closed
  <2>11. Used \ Flight \subseteq Reachable /\ Flight = {}
    BY <2>1, <2>10 DEF Tree, Linkage, Reached, Flight
  <2> QED BY <2>5, <2>11
<1> QED BY <1>1, Invariance, PTL
-----------------------------------------------------------------------------
(* Refinement. *)

LinkOf(d, s) == [dir |-> d, name |-> NameOf(dir[d][s]), ino |-> dir[d][s].d_ino]

LinksBe      == \A l : l \in Links <=> \E d \in Dirs : \E s \in First(d)..inode[d].size : l = LinkOf(d, s)

\* The links are the entries behind "." and "..".
LEMMA LinksAre == Types /\ Sized /\ Shape => LinksBe
<1> SUFFICES ASSUME Types, Sized, Shape PROVE LinksBe
  OBVIOUS
<1>1. \A l : l \in Links <=> \E d \in Dirs : \E s \in Named(d) : l = LinkOf(d, s)
  BY DEF Links, LinkOf
<1>2. \A d \in Dirs : Named(d) = First(d)..inode[d].size
  BY NamedAre
<1> QED BY <1>1, <1>2 DEF LinksBe

\* The same of the next state.
LEMMA LinksNext == (Types /\ Sized /\ Shape)' => LinksBe'
BY LinksAre, PTL

\* The sizes and entries of directories make the links.
LEMMA LinksKept ==
  ASSUME UNCHANGED <<inode, dir>>
  PROVE  Links' = Links
BY DEF Links, Named, Entries, NameOf, Dirs

\* In a step of a command that leaves the disk a tree.
LEMMA StepLinks ==
  ASSUME IInv, IInv', ~broken, ~broken', call.at \notin {"table", "idle"}, call'.at # "table"
  PROVE  /\ Types /\ Sized /\ Tree /\ call \in CallSet /\ cwd \in Inos
         /\ LinksBe
         /\ \A l : l \in Links' <=> \E d \in Dirs' : \E s \in First(d)..inode'[d].size : l = LinkOf(d, s)'
<1>1. Types /\ Sized /\ Tree /\ call \in CallSet /\ cwd \in Inos
  BY StepTree
<1>2. Types' /\ Sized' /\ Shape'
  BY DEF IInv, Formatting, Tree
<1>3. LinksBe
  BY <1>1, LinksAre DEF Tree
<1>4. LinksBe'
  BY <1>2, LinksNext
<1> QED BY <1>1, <1>3, <1>4 DEF LinksBe, First

\* A step after which the directories have the same entries.
LEMMA LinksSame ==
  ASSUME LinksBe,
         \A l : l \in Links' <=> \E d \in Dirs' : \E s \in First(d)..inode'[d].size : l = LinkOf(d, s)',
         \A d \in Dirs' : \A s \in First(d)..inode'[d].size :
           d \in Dirs /\ s \in First(d)..inode[d].size /\ dir'[d][s] = dir[d][s],
         \A d \in Dirs : \A s \in First(d)..inode[d].size : d \in Dirs' /\ inode'[d].size = inode[d].size
  PROVE  Links' = Links
<1>1. \A d \in Dirs' : \A s \in First(d)..inode'[d].size : LinkOf(d, s)' = LinkOf(d, s)
  BY DEF LinkOf, NameOf
<1>2. ASSUME NEW l \in Links' PROVE l \in Links
  <2>1. PICK d, s : d \in Dirs' /\ s \in First(d)..inode'[d].size /\ l = LinkOf(d, s)'
    OBVIOUS
  <2>2. d \in Dirs /\ s \in First(d)..inode[d].size /\ l = LinkOf(d, s)
    BY <1>1, <2>1
  <2> QED BY <2>2 DEF LinksBe
<1>3. ASSUME NEW l \in Links PROVE l \in Links'
  <2>1. PICK d, s : d \in Dirs /\ s \in First(d)..inode[d].size /\ l = LinkOf(d, s)
    BY DEF LinksBe
  <2>2. d \in Dirs' /\ s \in First(d)..inode'[d].size
    BY <2>1
  <2>3. l = LinkOf(d, s)'
    BY <1>1, <2>1, <2>2
  <2> QED BY <2>2, <2>3
<1> QED BY <1>2, <1>3

\* The steps of commands that change no link.
LEMMA QuietStep ==
  ASSUME IInv, IInv', ~broken, ~broken', WriteFirst \/ WriteNew \/ Add \/ Free
  PROVE  Links' = Links
<1>1. call.at \in {"block", "inode", "add", "free"} /\ call'.at # "table"
  <2>1. CASE Free
    BY <2>1 DEF Free, Idle
  <2>2. CASE WriteFirst \/ WriteNew \/ Add
    <3>1. call.at \in {"block", "inode", "add"}
      BY <2>2 DEF WriteFirst, WriteNew, Add
    <3>2. call \in CallSet
      BY <3>1, StepTree
    <3> QED BY <2>2, <3>1, <3>2 DEF WriteFirst, WriteNew, Add, CallSet
  <2> QED BY <2>1, <2>2
<1>2. /\ Types /\ Sized /\ Tree /\ call \in CallSet /\ cwd \in Inos /\ LinksBe
      /\ \A l : l \in Links' <=> \E d \in Dirs' : \E s \in First(d)..inode'[d].size : l = LinkOf(d, s)'
  BY <1>1, StepLinks
<1> SUFFICES /\ \A d \in Dirs' : \A s \in First(d)..inode'[d].size :
                  d \in Dirs /\ s \in First(d)..inode[d].size /\ dir'[d][s] = dir[d][s]
             /\ \A d \in Dirs : \A s \in First(d)..inode[d].size : d \in Dirs' /\ inode'[d].size = inode[d].size
  BY <1>2, LinksSame
<1>3. CASE WriteFirst
  <2>1. call.ino \notin Dirs
    BY <1>2, <1>3, SizeFacts DEF Tree, Command, Coming, WriteFirst
  <2>2. inode' = inode /\ \A d \in Inos \ {call.ino} : dir'[d] = dir[d]
    BY <1>2, <1>3 DEF WriteFirst, Types
  <2> QED BY <2>1, <2>2 DEF Dirs
<1>4. CASE WriteNew
  <2>1. call.ino \in Inos /\ call.ino \notin Dirs /\ call.ino # ROOT_DIR
    BY <1>2, <1>4, SizeFacts DEF Tree, Command, Coming, WriteNew
  <2>2. dir' = dir /\ \A d \in Inos \ {call.ino} : inode'[d] = inode[d]
    BY <1>2, <1>4 DEF WriteNew, Types
  <2>3. inode'[call.ino].mode = "IFDIR" => inode'[call.ino].size = 2
    BY <1>2, <1>4, <2>1 DEF WriteNew, Types
  <2>4. 3..2 = {}
    OBVIOUS
  <2>5. call.ino \in Dirs' => First(call.ino)..inode'[call.ino].size = {}
    BY <2>1, <2>3, <2>4 DEF Dirs, First
  <2> QED BY <2>1, <2>2, <2>5 DEF Dirs
<1>5. CASE Add
  <2>1. call.ino \in Inos /\ call.d \in Inos /\ call.size = inode[call.d].size /\ call.name \in Seq(Chars)
    <3>1. call.at = "add" /\ call.d \in Inos /\ call.name \in Seq(Chars)
      BY <1>2, <1>5 DEF Add, CallSet
    <3>2. Copying \/ Adding
      BY <1>2, <3>1 DEF Tree, Command
    <3> QED BY <3>1, <3>2 DEF Copying, Adding, Dest, Used
  <2>2. /\ \A i \in Inos \ {call.d} : dir'[i] = dir[i]
        /\ \A s \in 1..call.size : dir'[call.d][s] = dir[call.d][s]
    BY <1>2, <1>5, <2>1, AddWrites
  <2>3. inode' = inode /\ Dirs' = Dirs
    BY <1>5 DEF Add, Dirs
  <2>4. \A d \in Dirs : \A s \in First(d)..inode[d].size : d \in Inos /\ s \in 1..inode[d].size
    BY <1>2, SizeFacts
  <2> QED BY <2>1, <2>2, <2>3, <2>4
<1>6. CASE Free
  <2>1. Leaf(call.ino) /\ call.ino \in Inos
    BY <1>2, <1>6, SizeFacts DEF Tree, Command, Leaving, Leaf, Free
  <2>2. /\ \A d \in Inos \ {call.ino} : inode'[d] = inode[d] /\ dir'[d] = dir[d]
        /\ inode'[call.ino].mode # "IFDIR"
    BY <1>2, <1>6, <2>1 DEF Free, Types, Unused
  <2>3. First(call.ino)..inode[call.ino].size = {}
    <3>1. inode[call.ino].size <= 2 /\ inode[call.ino].size \in Nat /\ First(call.ino) = 3
      BY <1>2, <2>1, SizeFacts DEF Leaf, First
    <3> QED BY <3>1
  <2> QED BY <2>1, <2>2, <2>3 DEF Dirs
<1> QED BY <1>3, <1>4, <1>5, <1>6

\* The new size makes the link.
LEMMA CountLinks ==
  ASSUME IInv, IInv', ~broken, ~broken', Count
  PROVE  Abstract!Link
<1>1. call.at = "count" /\ call'.at # "table"
  BY DEF Count, Idle
<1>2. /\ Types /\ Sized /\ Tree /\ call \in CallSet /\ cwd \in Inos /\ LinksBe
      /\ \A l : l \in Links' <=> \E d \in Dirs' : \E s \in First(d)..inode'[d].size : l = LinkOf(d, s)'
  BY <1>1, StepLinks
<1>3. PICK d, i, n : d = call.d /\ i = call.ino /\ n = call.size
  OBVIOUS
<1>4. i \in Used \ {ROOT_DIR} /\ Dest(d, n) /\ NoRef(i) /\ dir[d][n + 1].d_ino = i
  <2>1. call.op # "cp"
    BY DEF Count
  <2>2. Adding
    BY <1>1, <1>2, <2>1 DEF Tree, Command
  <2> QED BY <1>1, <1>3, <2>2 DEF Adding
<1>5. d \in Dirs /\ d \in Inos /\ n \in Nat /\ n = inode[d].size /\ First(d) \in Nat /\ First(d) <= n + 1
  BY <1>2, <1>4, SizeFacts DEF Dest, Tree, Shape
<1>6. /\ inode'[d].size = n + 1 /\ inode'[d].mode = inode[d].mode /\ \A e \in Inos \ {d} : inode'[e] = inode[e]
      /\ UNCHANGED <<dir, cwd>>
  <2>1. inode \in [Inos -> [mode : Modes, size : Sizes]]
    BY <1>2 DEF Types, InodeSet
  <2> QED BY <1>3, <1>5, <2>1 DEF Count
<1>7. Dirs' = Dirs
  BY <1>5, <1>6 DEF Dirs
<1>8. First(d)..(n + 1) = (First(d)..n) \cup {n + 1}
  BY <1>5
<1>9. PICK l : l = LinkOf(d, n + 1)
  OBVIOUS
<1>10. l.ino = i
  BY <1>4, <1>9 DEF LinkOf
<1>11. \A e \in Dirs : Live(e) = First(e)..inode[e].size
  BY <1>1 DEF Live
<1>12. ASSUME NEW m \in Links PROVE m.ino # i
  <2>1. PICK e, s : e \in Dirs /\ s \in First(e)..inode[e].size /\ m = LinkOf(e, s)
    BY <1>2 DEF LinksBe
  <2>2. m.ino = dir[e][s].d_ino
    BY <2>1 DEF LinkOf
  <2> QED BY <1>4, <1>11, <2>1, <2>2 DEF NoRef
<1>13. l \in Links' /\ l \notin Links
  <2>1. n + 1 \in First(d)..inode'[d].size
    BY <1>5, <1>6
  <2>2. l = LinkOf(d, n + 1)'
    BY <1>6, <1>9 DEF LinkOf, NameOf
  <2> QED BY <1>2, <1>5, <1>7, <1>10, <1>12, <2>1, <2>2
<1>14. Links' = Links \cup {l}
  <2>1. \A e, s : LinkOf(e, s)' = LinkOf(e, s)
    BY <1>6 DEF LinkOf, NameOf
  <2>2. ASSUME NEW m \in Links' PROVE m \in Links \cup {l}
    <3>1. PICK e, s : e \in Dirs /\ s \in First(e)..inode'[e].size /\ m = LinkOf(e, s)
      BY <1>2, <1>7, <2>1
    <3>2. s \in First(e)..inode[e].size \/ (e = d /\ s = n + 1)
      BY <1>5, <1>6, <1>8, <3>1 DEF Dirs
    <3> QED BY <1>2, <1>9, <3>1, <3>2 DEF LinksBe
  <2>3. ASSUME NEW m \in Links PROVE m \in Links'
    <3>1. PICK e, s : e \in Dirs /\ s \in First(e)..inode[e].size /\ m = LinkOf(e, s)
      BY <1>2 DEF LinksBe
    <3>2. s \in First(e)..inode'[e].size
      BY <1>5, <1>6, <1>8, <3>1 DEF Dirs
    <3> QED BY <1>2, <1>7, <2>1, <3>1, <3>2
  <2> QED BY <1>13, <2>2, <2>3
<1>15. ~Abstract!Linked(l.ino)
  BY <1>4, <1>10, <1>12 DEF Abstract!Linked
<1> QED BY <1>6, <1>13, <1>14, <1>15 DEF Abstract!Link

\* remove unlinks when it puts the last entry in the place of another, or when it drops
\* the last entry itself.
LEMMA RemoveLinks ==
  ASSUME IInv, IInv', ~broken, ~broken', Take \/ Drop
  PROVE  Abstract!Unlink \/ (Links' = Links /\ UNCHANGED cwd)
<1>1. call.at \in {"take", "drop"} /\ call'.at # "table" /\ UNCHANGED cwd
  <2>1. call.at \in {"take", "drop"} /\ UNCHANGED cwd
    BY DEF Take, Drop
  <2>2. call \in CallSet
    BY <2>1, StepTree
  <2>3. CASE Take
    BY <2>2, <2>3 DEF Take, CallSet
  <2>4. CASE Drop /\ call.op = "mv"
    BY <2>2, <2>4 DEF Drop, CallSet
  <2>5. CASE Drop /\ call.op # "mv"
    BY <2>2, <2>5 DEF Drop, CallSet
  <2> QED BY <2>1, <2>3, <2>4, <2>5
<1>2. /\ Types /\ Sized /\ Tree /\ call \in CallSet /\ cwd \in Inos /\ LinksBe
      /\ \A l : l \in Links' <=> \E d \in Dirs' : \E s \in First(d)..inode'[d].size : l = LinkOf(d, s)'
  BY <1>1, StepLinks
<1>3. PICK d, i, n, k : d = call.d /\ i = call.ino /\ n = call.size /\ k = call.slot
  OBVIOUS
<1>4. /\ Leaf(i) /\ d = cwd /\ n = inode[d].size /\ k \in First(d)..n
      /\ call.at = "take" => dir[d][k].d_ino = i
      /\ call.at = "drop" => /\ NoRef(i)
                             /\ IF k = n THEN dir[d][n].d_ino = i ELSE dir[d][k] = dir[d][n]
  BY <1>1, <1>2, <1>3 DEF Tree, Command, Taking
<1>5. /\ d \in Dirs /\ d \in Inos /\ n \in Nat /\ First(d) \in Nat /\ First(d) >= 2 /\ k \in Nat
      /\ i \in Inos /\ i # cwd /\ i # ROOT_DIR /\ n \in First(d)..n
      /\ k \in 1..Len(dir[d]) /\ dir[d] \in Seq(EntrySet) /\ Len(dir[d]) \in Nat /\ n <= Len(dir[d])
  <2>1. d \in Dirs /\ d \in Inos
    BY <1>2, <1>4 DEF Tree
  <2>2. n <= Len(dir[d])
    BY <1>2, <1>4, <2>1 DEF Sized
  <2>3. n \in Nat /\ First(d) \in {2, 3} /\ dir[d] \in Seq(EntrySet) /\ Len(dir[d]) \in Nat /\ Used \subseteq Inos
    BY <1>2, <1>4, <2>1, SizeFacts
  <2>4. i \in Inos /\ i # cwd /\ i # ROOT_DIR
    BY <1>4, <2>3 DEF Leaf
  <2> QED BY <1>4, <2>1, <2>2, <2>3, <2>4
<1>6. ASSUME NEW m \in Links PROVE m.dir # i
  <2>1. PICK e, s : e \in Dirs /\ s \in First(e)..inode[e].size /\ m = LinkOf(e, s)
    BY <1>2 DEF LinksBe
  <2>2. m.dir = e
    BY <2>1 DEF LinkOf
  <2>3. First(i)..inode[i].size = {}
    <3>1. inode[i].size <= 2 /\ inode[i].size \in Nat /\ First(i) = 3
      BY <1>2, <1>4, <1>5, SizeFacts DEF Leaf, First
    <3> QED BY <3>1
  <2> QED BY <2>1, <2>2, <2>3
<1>7. ASSUME NEW l \in Links, l.ino = i, l \notin Links', Links' = Links \ {l} PROVE Abstract!Unlink
  BY <1>1, <1>5, <1>6, <1>7 DEF Abstract!Unlink
<1>8. PICK l : l = LinkOf(d, k)
  OBVIOUS
<1>9. l \in Links
  BY <1>2, <1>4, <1>5, <1>8 DEF LinksBe
<1>10. CASE Take
  <2>1. UNCHANGED inode /\ Dirs' = Dirs /\ call.at = "take"
    BY <1>10 DEF Take, Dirs
  <2>2. PICK fs : fs = [dir[d] EXCEPT ![k] = dir[d][n]]
    OBVIOUS
  <2>3. dir' = [dir EXCEPT ![d] = fs]
    BY <1>3, <1>10, <2>2 DEF Take
  <2>4. dir'[d] = fs /\ \A e \in Inos \ {d} : dir'[e] = dir[e]
    BY <1>2, <1>5, <2>3 DEF Types
  <2>5. \A s \in 1..Len(dir[d]) : fs[s] = IF s = k THEN dir[d][n] ELSE dir[d][s]
    <3>1. n \in 1..Len(dir[d])
      BY <1>4, <1>5
    <3>2. dir[d][n] \in EntrySet
      BY <1>2, <1>5, <3>1, SizeFacts
    <3> QED BY <1>5, <2>2, <3>2, ExceptSeq
  <2> DEFINE O(e, s) == IF e = d /\ s = k THEN n ELSE s
  <2>6. ASSUME NEW e \in Dirs, NEW s \in First(e)..inode[e].size
        PROVE  dir'[e][s] = dir[e][O(e, s)] /\ O(e, s) \in First(e)..inode[e].size
    <3>1. CASE e = d
      <4>1. s \in 1..Len(dir[d])
        BY <1>4, <1>5, <3>1
      <4> QED BY <1>4, <1>5, <2>4, <2>5, <3>1, <4>1
    <3>2. CASE e # d
      BY <2>4, <3>2 DEF Dirs
    <3> QED BY <3>1, <3>2
  <2>7. \A e \in Dirs : \A s \in First(e)..inode[e].size : LinkOf(e, s)' = LinkOf(e, O(e, s))
    BY <2>6 DEF LinkOf, NameOf
  <2>8. CASE k = n
    <3>1. \A e \in Dirs : \A s \in First(e)..inode[e].size : dir'[e][s] = dir[e][s]
      BY <2>6, <2>8
    <3> QED BY <1>1, <1>2, <2>1, <3>1, LinksSame
  <2>9. CASE k # n
    <3>1. \A e \in Dirs : Live(e) = First(e)..inode[e].size
      BY <2>1 DEF Live
    <3>2. ASSUME NEW e \in Dirs, NEW s \in First(e)..inode[e].size, dir[e][s].d_ino = i PROVE e = d /\ s = k
      <4>1. s \in Live(e) /\ k \in Live(d) /\ dir[d][k].d_ino = i
        BY <1>4, <1>5, <2>1, <3>1
      <4> QED BY <1>2, <1>5, <3>2, <4>1 DEF Tree, Linkage, Single
    <3>3. l.ino = i
      BY <1>4, <1>8, <2>1 DEF LinkOf
    <3>4. ASSUME NEW m \in Links' PROVE m \in Links /\ m # l
      <4>1. PICK e, s : e \in Dirs /\ s \in First(e)..inode[e].size /\ m = LinkOf(e, s)'
        BY <1>2, <2>1
      <4>2. PICK t : t = O(e, s)
        OBVIOUS
      <4>3. m = LinkOf(e, t) /\ t \in First(e)..inode[e].size /\ ~(e = d /\ t = k)
        BY <2>6, <2>7, <2>9, <4>1, <4>2
      <4>4. m.ino = dir[e][t].d_ino
        BY <4>3 DEF LinkOf
      <4>5. m.ino # i
        BY <3>2, <4>1, <4>3, <4>4
      <4> QED BY <1>2, <3>3, <4>1, <4>3, <4>5 DEF LinksBe
    <3>5. ASSUME NEW m \in Links, m # l PROVE m \in Links'
      <4>1. PICK e, s : e \in Dirs /\ s \in First(e)..inode[e].size /\ m = LinkOf(e, s)
        BY <1>2 DEF LinksBe
      <4>2. ~(e = d /\ s = k)
        BY <1>8, <3>5, <4>1
      <4>3. O(e, s) = s
        BY <4>2
      <4>4. m = LinkOf(e, s)'
        BY <2>7, <4>1, <4>3
      <4> QED BY <1>2, <2>1, <4>1, <4>4
    <3>6. l \notin Links' /\ Links' = Links \ {l}
      BY <3>4, <3>5
    <3> QED BY <1>7, <1>9, <3>3, <3>6
  <2> QED BY <2>8, <2>9
<1>11. CASE Drop
  <2>1. UNCHANGED dir /\ call.at = "drop"
    BY <1>11 DEF Drop
  <2>2. inode'[d].size = n - 1 /\ inode'[d].mode = inode[d].mode /\ \A e \in Inos \ {d} : inode'[e] = inode[e]
    <3>1. inode \in [Inos -> [mode : Modes, size : Sizes]]
      BY <1>2 DEF Types, InodeSet
    <3> QED BY <1>3, <1>5, <1>11, <3>1 DEF Drop
  <2>3. Dirs' = Dirs
    BY <1>5, <2>2 DEF Dirs
  <2>4. \A e, s : LinkOf(e, s)' = LinkOf(e, s)
    BY <2>1 DEF LinkOf, NameOf
  <2>5. First(d)..(n - 1) = (First(d)..n) \ {n}
    BY <1>5
  <2>6. \A e \in Dirs : \A s : s \in First(e)..inode'[e].size <=> s \in First(e)..inode[e].size /\ ~(e = d /\ s = n)
    BY <1>4, <2>2, <2>5 DEF Dirs
  <2>7. \A m : m \in Links' <=> \E e \in Dirs : \E s \in First(e)..inode[e].size : m = LinkOf(e, s) /\ ~(e = d /\ s = n)
    BY <1>2, <2>3, <2>4, <2>6
  <2>8. CASE k = n
    <3>1. \A e \in Dirs : \A s \in First(e)..inode[e].size : ~(e = d /\ s = n) => s \in Live(e)
      BY <1>3, <1>4 DEF Live
    <3>2. l.ino = i
      BY <1>4, <1>8, <2>1, <2>8 DEF LinkOf
    <3>3. ASSUME NEW m \in Links' PROVE m \in Links /\ m # l
      <4>1. PICK e, s : e \in Dirs /\ s \in First(e)..inode[e].size /\ m = LinkOf(e, s) /\ ~(e = d /\ s = n)
        BY <2>7
      <4>2. m.ino = dir[e][s].d_ino
        BY <4>1 DEF LinkOf
      <4>3. m.ino # i
        BY <1>4, <2>1, <3>1, <4>1, <4>2 DEF NoRef
      <4> QED BY <1>2, <3>2, <4>1, <4>3 DEF LinksBe
    <3>4. ASSUME NEW m \in Links, m # l PROVE m \in Links'
      <4>1. PICK e, s : e \in Dirs /\ s \in First(e)..inode[e].size /\ m = LinkOf(e, s)
        BY <1>2 DEF LinksBe
      <4>2. ~(e = d /\ s = n)
        BY <1>8, <2>8, <3>4, <4>1
      <4> QED BY <2>7, <4>1, <4>2
    <3>5. l \notin Links' /\ Links' = Links \ {l}
      BY <3>3, <3>4
    <3> QED BY <1>7, <1>9, <3>2, <3>5
  <2>9. CASE k # n
    <3>1. dir[d][k] = dir[d][n]
      BY <1>4, <2>1, <2>9
    <3>2. LinkOf(d, n) = LinkOf(d, k)
      BY <3>1 DEF LinkOf
    <3>3. ASSUME NEW m \in Links' PROVE m \in Links
      BY <1>2, <2>7 DEF LinksBe
    <3>4. ASSUME NEW m \in Links PROVE m \in Links'
      <4>1. PICK e, s : e \in Dirs /\ s \in First(e)..inode[e].size /\ m = LinkOf(e, s)
        BY <1>2 DEF LinksBe
      <4>2. CASE e = d /\ s = n
        BY <1>4, <1>5, <2>7, <2>9, <3>2, <4>1, <4>2
      <4>3. CASE ~(e = d /\ s = n)
        BY <2>7, <4>1, <4>3
      <4> QED BY <4>2, <4>3
    <3> QED BY <1>1, <3>3, <3>4
  <2> QED BY <2>8, <2>9
<1> QED BY <1>10, <1>11

\* wipe takes all links away at once.
LEMMA FormatLinks ==
  ASSUME IInv, ~broken, WipeTable
  PROVE  Abstract!Format
<1>1. Types /\ Formatting /\ call.at = "table" /\ call \in CallSet
  BY DEF IInv, WipeTable, Types, Idle
<1>2. IInv' /\ ~broken' /\ UNCHANGED cwd
  BY WipeTableInv DEF WipeTable
<1>3. call'.at = "inode"
  BY <1>1 DEF WipeTable, CallSet
<1>4. Types' /\ Sized' /\ Shape'
  BY <1>2, <1>3 DEF IInv, Formatting, Tree
<1>5. LinksBe'
  BY <1>4, LinksNext
<1>6. inode' = [i \in Inos |-> IF i = ROOT_DIR THEN [mode |-> "IFDIR", size |-> 1] ELSE Unused]
  BY DEF WipeTable
<1>7. ASSUME NEW d \in Dirs' PROVE d = ROOT_DIR /\ inode'[d].size = 1
  BY <1>6, <1>7 DEF Dirs, Unused
<1>8. 2..1 = {}
  OBVIOUS
<1>9. \A d \in Dirs' : First(d)..inode'[d].size = {}
  BY <1>7, <1>8 DEF First
<1>10. Links' = {}
  BY <1>5, <1>9 DEF LinksBe, First
<1> QED BY <1>2, <1>10 DEF Abstract!Format

\* Directory implements NameSpace, for any sizes: every write of a command, and every
\* loss of power, that does not set broken makes or takes away at most the one link
\* that NameSpace allows.
THEOREM RefinementCorrect == Spec => Implements
<1>1. Init => Abstract!Init
  <2> SUFFICES ASSUME Init PROVE Abstract!Init
    OBVIOUS
  <2>1. Dirs = {}
    BY DEF Init, Dirs, Unused
  <2>2. Links = {}
    BY <2>1 DEF Links
  <2> QED BY <2>2 DEF Init, Abstract!Init
<1>2. IInv /\ IInv' /\ [Next]_vars => [Abstract!Next]_<<Links, cwd, broken>>
  <2> SUFFICES ASSUME IInv, IInv', [Next]_vars, ~broken'
               PROVE  Abstract!Next \/ UNCHANGED <<Links, cwd, broken>>
    BY DEF Abstract!Next
  <2> DEFINE Stutter == UNCHANGED <<Links, cwd, broken>>
  <2>1. CASE ~broken /\ Step
    <3>1. broken' = broken
      BY <2>1 DEF IInv, Types
    <3>2. CASE WriteFirst \/ WriteNew \/ Add \/ Free
      <4>1. UNCHANGED cwd
        BY <3>2 DEF WriteFirst, WriteNew, Add, Free
      <4>2. Links' = Links
        BY <2>1, <3>2, QuietStep
      <4> QED BY <3>1, <4>1, <4>2
    <3>3. CASE Count
      BY <2>1, <3>1, <3>3, CountLinks DEF Abstract!Next
    <3>4. CASE Take \/ Drop
      BY <2>1, <3>1, <3>4, RemoveLinks DEF Abstract!Next
    <3>5. CASE WipeTable
      BY <2>1, <3>1, <3>5, FormatLinks DEF Abstract!Next
    <3> QED BY <2>1, <3>2, <3>3, <3>4, <3>5 DEF Step
  <2>2. ASSUME Begin, UNCHANGED <<inode, dir, cwd>> PROVE Stutter
    <3>1. ~broken
      BY <2>2 DEF Begin
    <3>2. broken' = broken
      BY <3>1 DEF IInv, Types
    <3> QED BY <2>2, <3>2, LinksKept
  <2>3. CASE Wipe
    BY <2>2, <2>3 DEF Wipe
  <2>4. CASE Crash
    <3>1. ~broken /\ UNCHANGED <<inode, dir>> /\ cwd' = ROOT_DIR
      BY <2>4 DEF Crash
    <3>2. broken' = broken
      BY <3>1 DEF IInv, Types
    <3>3. Abstract!Restart
      BY <3>1, LinksKept DEF Abstract!Restart
    <3> QED BY <3>1, <3>2, <3>3 DEF Abstract!Next
  <2>5. ASSUME NEW ino \in Active, Close(ino) PROVE Stutter
    <3>1. Begin /\ UNCHANGED <<dir, cwd>> /\ inode' = [inode EXCEPT ![ino] = ai[ino]] /\ inode[ino] = ai[ino]
      BY <2>5 DEF Close
    <3>2. UNCHANGED inode
      BY <3>1 DEF IInv, Types
    <3> QED BY <2>2, <3>1, <3>2
  <2>6. ASSUME NEW path \in Paths, Open(path) \/ Create(path) PROVE Stutter
    BY <2>2, <2>6 DEF Open, Create
  <2>7. ASSUME NEW path \in Paths, Cd(path) PROVE Abstract!Next
    <3>1. ~broken /\ UNCHANGED <<inode, dir>>
      BY <2>7 DEF Cd, Begin
    <3>2. broken' = broken /\ cwd' \in Inos
      BY <3>1 DEF IInv, Types
    <3>3. Abstract!Enter
      BY <3>1, <3>2, LinksKept DEF Abstract!Enter
    <3> QED BY <3>1, <3>2, <3>3 DEF Abstract!Next
  <2>8. ASSUME NEW name \in NAMES, Mkdir(name) \/ Unlink(name) PROVE Stutter
    BY <2>2, <2>8 DEF Mkdir, Unlink
  <2>9. ASSUME NEW name \in NAMES, NEW path \in Paths, Mv(name, path) \/ Cp(path, name) PROVE Stutter
    BY <2>2, <2>9 DEF Mv, Cp
  <2>10. CASE UNCHANGED vars
    BY <2>10, LinksKept DEF vars
  <2> QED BY <2>1, <2>3, <2>4, <2>5, <2>6, <2>7, <2>8, <2>9, <2>10 DEF Next
<1> QED BY <1>1, <1>2, Invariance, PTL DEF Spec, Implements, Abstract!Spec
====
