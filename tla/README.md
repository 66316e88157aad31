# TLA+ specification of arm-kernel

This directory holds TLA+ models of the kernel in `src/kernel`, of its disk
driver and disk program in `src/device`, and of the programs in `src/user` that
depend on the kernel's scheduling. TLC checks them on small instances; TLAPS
proves the central results for every size of the tables. `PROJECT.json` maps
each definition to the lines it models and lists runs, hazards, findings and
theorems.

## 1. The system

The kernel runs on one processor. Everything it does happens in an exception
handler with interrupts off: a system call, a timer tick or a key press runs to
its end before anything else does. Concurrency is therefore the order of calls
and interrupts, and each handler is one atomic action of the models. The
exceptions are the disk, which is another program at the other end of a serial
line, and loss of power, which can fall between two writes to the disk.

| part | state | operations | talks to |
|---|---|---|---|
| process table | `pcb[]`: state, priorities, context, descriptors | `fork`, `exec`, `kill`, `raise` | ready queue, file tables |
| ready queue, scheduler | `rq[]`, `rq_size`, `current` | `rq_add`, `rq_rm`, `rq_rotate`, `scheduler` | called by every handler that may switch |
| interrupt entry, GIC, timer, UART interrupt | registers | `kernel_handler_irq` | scheduler; a key press raises the shell's priority |
| shell (`init.c`) | line buffer | read a line, run, kill, file commands | system calls |
| message channels | `mq[]`: name, one message, last sender and receiver | `mq_open`, `mq_unlink`, `mq_send`, `mq_receive` | `SIGWAIT` and `SIGCONT` of `kill` |
| ping, pong | loop counters | rounds of `N` messages each way | channels |
| free list | superblock in memory and on disk, list blocks | `balloc`, `bfree`, `wipe` | disk |
| data blocks of an inode | direct and indirect addresses | `getDataBlockAddr`, `allocateDataBlocks`, `freeDataBlocks` | free list |
| file tables | descriptors, open files (OFT), active inodes (AIT) | `open`, `close`, `fread`, `fwrite`, `lseek`, `unlink` | inodes, directories |
| inodes and directories | inode blocks, directory blocks, `cwd` | path walking, `mkdir`, `cd`, `mv`, `cp`, `ls` | data blocks |
| disk | driver, two UART FIFOs, `disk.py`, the file | `disk_wr`, `disk_rd`, `disk_get_block_*` | |

What is hard here, and what makes each part correct:

* **Scheduling.** The process table and the ready queue say the same thing twice
  and are changed by different functions. The queue must hold exactly the live
  processes, the running one at its head, and the rotation must reach everybody.
* **Channels.** A blocked process is marked WAITING by pid and woken by pid, and
  the library repeats its call. Pids go stale; wakeups can be early, late or for
  somebody else. Messages must be neither lost nor doubled, and nobody may sleep
  for ever.
* **Free list.** A list block is itself free space and is handed out when its
  list moves to the superblock. No block may be free and owned, or neither; and
  the writes of the list block and of the superblock can be torn by power loss.
* **File tables.** Three tables point into each other, two of them can fill up,
  and the inode exists in memory and on disk. Link counts must be exact, there
  must be one copy of an inode in memory, and nothing a program wrote or created
  may be undone by a later write-back.
* **Data blocks.** Tables of addresses live in blocks of the same pool as the data
  and the free list, and an extension is up to five writes, each of which may find
  the disk full. An address must lead to the block that was allocated for it, and
  nothing may be written to or freed in a block of somebody else.
* **Directories.** The entries of a directory are kept without holes by moving the
  last one, names are compared by their bytes, and a command reads several inodes
  before it writes the first. The names must form a tree, in which nothing is
  linked twice or cut off, also after a loss of power between two writes.
* **Disk.** Requests and answers are text on a serial line without framing other
  than the end of line, refused requests are repeated, and both sides block.

`PROJECT.json` lists the hazards with the lines at which they bite.

## 2. Modules

```
Process ------- Channel ------- PingPong       BlockAlloc ------- DataBlocks
   |               |               |              |    \              |
ProcessProofs - ChannelProofs - PingPongProofs    |     --> FreePool  |
                                               BlockAllocProofs - DataBlocksProofs
FileTable -- FileTableProofs
MCDirectory -- Directory --> NameSpace         DiskLink --> BlockDevice
                   |                              |
               DirectoryProofs                 DiskLinkProofs
```
(`--` is EXTENDS, `-->` is "implements", by INSTANCE with a refinement mapping.)

**Process** models the process table, the ready queue, the scheduler, the
interrupts and the shell's loop. `pst`, `defp`, `prio` and `ctx` are fields of
`pcb[]`, `rq` is the queue, `current` the running slot and `cpu` the register
file. A context is abstracted to the point in its program at which a process
stands (`"prompt"`, `"reading"`, `"child"`, `"user"`, ...). `Scheduler` is
`scheduler()` with `rq_rotate`; as in C, `rq_rotate` may find nobody to run and
recurse for ever (`fault = "rotate"`). With an empty queue the read of
`rq[ 0 ]->pst` is undefined and both outcomes are allowed. `kill 8` passes the
range check and writes behind the table (`fault = "bounds"`); after a fault the
model says nothing more. `fresh` and `nine` are auxiliary: forked processes that
have not run yet, and whether `kill 9` was used. `KILL_ALL` is 9 in the code and
`PROCESS_LIMIT + 1` here, which is the same for `PROCESS_LIMIT = 8`.

**Channel** adds `mq[]` and, per process, the library call it is repeating
(`pend`). Programs make every call in any order. Descriptors that the code does
not check lead to `fault = "bounds"`.

**PingPong** restricts Channel to the two programs: `loc` holds the program, its
point, loop counter `i`, round `k` and descriptor `m`.

**FreePool** is what `balloc`, `bfree` and `wipe` promise: a set of free blocks; a
format that is cut off leaves no pool until the next one.
**BlockAlloc** is the chained list of the code with the superblock in memory
(`fdb`, `fdbhead`) and on disk (`sb`), the data blocks (`blk`) as far as they
hold lists, and loss of power: between calls (`Reboot`), between the two writes of
`bfree` (`BfreeSpillCrash`) and between any two writes of `wipe`. `wipe` writes its
lists one by one (`WipeLists`) and then the superblock (`WipeSuper`); `wiped` counts
the lists written. Power lost in between leaves the old superblock over lists that are
partly new (`wiped = TORN`). What `balloc` would make of such a disk is not followed;
the next `wipe` makes it good. `chain`, `used` and `ret` are auxiliary.

**FileTable** models the descriptor tables, the OFT, the AIT, the inodes and a
root directory. A file is its size and the set of its allocated blocks. Each
system call is a function on the tables composed as in the code (`OpenInode`
after `CreateFile`, `CloseFile` after `OpenInode` in `exec`), because an open
that fails half way leaves the first half done. `exec` drops the descriptors of
its slot without closing them; a killed program leaves them to the `exec` of the
slot's next process, so `Exec` stands for the whole sequence. There are no names in
this module: `dir` holds the inode numbers of the entries, and a path leads to any
entry or to none. What a lookup by name really finds (stale bytes behind a name, a
full last block that is not searched) is Directory's subject, and so is an open of the
directory itself; whatever it finds, the tables must stay sound. The blocks of the
directory are assumed to be there. `len` is auxiliary: the size that the writes so far
should have produced. The addresses that
stay in freed inodes and emptied AIT entries are dropped since nothing reads them.

**DataBlocks** is built on BlockAlloc: `balloc` and `bfree` inside its calls are the
actions of that module. Inodes have direct addresses and three levels of tables; a
table is the contents of a data block (`blk` and `rest`), so that a table which is
freed and overwritten by a list of free blocks is seen as such. `fwrite` with
`allocateDataBlocks`, the creation of a file with the growth of the directory, and
`unlink` with `freeDataBlocks` are sequences of steps, one per write to the disk;
`call` holds the local variables, and power may be lost before each step. `own` and
`tabs` are auxiliary: the block that each block number of a file was given, until it
is freed, and the tables of each of its levels. A write to or a release of any other
block sets `fault`, after which the model says nothing more; so does a release in the
middle of which power is lost (`FreeCrash`), and a table that is used at another level
than its own. `lossy` marks the events after which blocks are known to be lost: a loss
of power, a full disk, the removal of a file whose size is a multiple of the block size
or which has blocks behind two tables, and a directory that shrinks to full blocks.
`wipe` formats once, at the beginning (`WipeRoot`, `WipeRootEntry`). `events` bounds the
number of losses of power and removals in a behaviour.

**NameSpace** is what directories promise: a set of links, changed by one link at a
time, where a link is made only to an inode that has none, and only an empty
directory that is not the current one is unlinked. **Directory** is the code: a
directory is the sequence of the entries in its blocks, those behind its size
included, whose names keep their bytes; `Matches` is the `strncmp` of
`name_to_ino`, `Searched` its loop over blocks, which leaves out the last block when it
is full. What stands in an entry that was never written (the arrays on the stack in
`mkdir` and `wipe`, a block fresh from the free list) is any of `Fresh`. A command is
its reads (`Create`,
`Mkdir`, `Unlink`, `Mv`, `Cp`, `Wipe`) followed by its writes (`WriteFirst`,
`WriteNew`, `Add`, `Count`, `Take`, `Drop`, `Free`, `WipeTable`) in the order of the
code, with `Crash` possible before each. Of `cp` the inode that `copyInode` takes (and
never writes) and the entry are modelled, the copying of blocks is not. `ai` holds the
inodes in memory, which
matter here when a directory is opened like a file. Eight object files of `wipe` are
one, `PROGRAM`. Writes past a full disk are DataBlocks' subject and left out.

Some uses of the commands break the tree. They are the cases in which an action sets
`broken`, after which the model says nothing more, and neither do the properties:

| action | when |
|---|---|
| `Close` | of a directory that has changed on the disk since it was opened (`kernel.c:978`); so also after `wipe` |
| `Create` | in a regular file (`path_to_ino2` does not look at the mode of the parent), or of the name `..`, which the root does not have, or `.`, which is not found in a directory whose last block is full |
| `Mkdir` | of the name `.` or `..`, which `mkdir` does not refuse |
| `Create`, `Mkdir`, `Cp` | of a name longer than `d_name`, which `addInodeToDirectory` copies without looking at its length (`kernel.c:901`), over the next entry or over the stack |
| `Cd` | to a regular file |
| `Mv` | to the current directory, whose size was read before `remove` changed it, or into the moved directory itself; or of an entry whose `d_name` is full, so that no null character ends it |
| `Cp` | when no inode is left, or of a directory or of a file that has blocks: as it begins, since the copies are written through an inode that was never set up (`kernel.c:655-664`) |
| `Count` | of `cp` otherwise: the entry leads to an inode that is still free |
| `Wipe` | from another directory than the root |
| `Crash` | between the two writes of `remove`, unless the last entry was removed; in `wipe` before the inode table |

Each exception but those for full names is also needed for the properties: without
any one of them the run `directory`
finds a violation of `OneEntry`, `AllReachable` or `InATree`. **MCDirectory** gives
the names and paths, and a view that forgets what no later step depends on: of the
entries behind the size all but the bytes of their names, the bytes behind `.` and
`..`, and after `broken` all but the kind of command.

**BlockDevice** is what the driver promises: one atomic effect between call and
return, none for a bad address. **DiskLink** is the driver, the UART and
`disk.py`, character by character, with the hexadecimal conversions of both
sides, the little-endian signed address and the retry loop.

The modules whose names end in **Proofs** hold the theorems (section 4).

Operators commented "Mutant of X" are wrong variants of X that the runs must
reject; nothing else uses them.

## 3. Runs

| run | config | what is checked | bounds |
|---|---|---|---|
| process | Process.cfg | `TypeOK`, `CurrentAtHead`, `DeadRunsOnlyWhenIdle`, `OneShell`; until kill 9 also `QueueMatchesTable` and `NoStarvation` | 4 slots, 4 priority values, kill of every slot, of the first index behind the table, and kill 9 |
| channel_block | Channel_block.cfg | `BlockedDoesNotRun`, `HangsOnlyWithoutShell`, `NoResurrection` | 3 slots, 1 channel, kill 0, kill 1 and kill 9 |
| pingpong | PingPong.cfg | `InLockstep`, `ChannelAvailable`, `SameChannel`, `RoundsComplete`, no deadlock | 2 messages each way, 2 channels, names modulo 3 |
| alloc_small | BlockAlloc_small.cfg | `TypeOK`, `WellLinked`, `NoDoubleAlloc`, `Conserved`, `ImplementsPool` | lists of 2, 2 list blocks, 5 data blocks |
| file_open | FileTable_open.cfg | `LinksExact`, `OneCopy`, `DescriptorsSound`, `SizeKept`, `EntriesKept`, `BlocksCover` | 2 processes with 2 descriptors, OFT and AIT of 2, 2 files of up to 3 blocks |
| disk_link | DiskLink_link.cfg | `InSync`, `ImplementsDevice`, `CallReturns` | 2 blocks of 2 bytes, 1-byte addresses (valid, too large, negative), FIFOs of 2, 3 attempts |
| data_files | DataBlocks_files.cfg | `MapsKept`, `NoSharing`, `NothingLost`, `FaultOnlyWhen` | 11 data blocks, 5 lists of 2, 2 direct addresses, tables of 2, 3 inodes, files of up to 10 words, 2 words in a block, 2 losses of power or removals |
| directory | Directory_tree.cfg | `OneEntry`, `AllReachable`, `InATree`, `ActsOnName`, `Implements` | 4 inodes, 3 entries in a block, up to 4 in a directory, names `a`, `ab`, `abab` and `.`, of which `abab` is longer than `d_name`, paths of up to 2 names, 1 inode in memory, 1 loss of power |

Four more runs look for a violation and find it; they are in the table of disagreements
below. `process_lost` has 3 slots and kill 9, `process_line` 4 slots and no kill;
`alloc_listed` has lists of 3, 2 list blocks and 8 data blocks; `data_tables` has one
direct address, tables of 2, and one file of up to 15 words that is extended at once,
without loss of power or removal.

Why the bounds are enough. Four slots are the shell, two programs that exit one
after the other, and one that is passed over: the shortest case in which a
rotation skips somebody. Priorities wrap after 4 values, so the wrap happens.
Three slots are a sender, a receiver and the shell that kills one of them; the
number of names exceeds the number of channels in PingPong, so slots are reused
under new names. Lists of two entries make every second allocation or release
meet the edge of a list. An OFT of two entries fills up with two opens, or with
one leaked entry and one open, and extensions of two blocks can fail after
neither, one or both; `OFT_LIMIT` is 128 in the code, and independent of the
other constants here so that it can be reached. FIFOs shorter than a request
make both sides wait in the middle of a line. In `data_files` two files and the
directory share the disk and grow through the single indirect block into the double
one, where the code faults; with tables of two the first table there is full at once.
`data_tables` has room for the third level as well. Four
inodes make a tree of depth three with a file, names of which one is the beginning of
the other are what the comparison of names can confuse, and three entries in a block
let a directory be shorter than, equal to and longer than one block. No entry there has
a full `d_name` to be moved (the last case of `Mv`); the proofs cover it.

Where a module has no run of its type invariant, it is the first conjunct of another
property: `ChanTypeOK` of `BlockedDoesNotRun`, `TypeOK` of `DescriptorsSound` in
FileTable, of `InSync` in DiskLink and of `InATree` in Directory, `BlocksTypeOK` of
`MapsKept`.

Each property is also run against a mutant of the model, listed in
`PROJECT.json`, and must fail there.

### Fairness

* `Process`: weak fairness of the timer tick. The timer is periodic and every
  program runs with interrupts enabled. `NoStarvation` assumes in its premise
  that the shell does not wait for input for ever, since `read` spins inside the
  kernel with interrupts off.
* `PingPong`: the same, and strong fairness of each process's own steps while it
  is `current`: a tick comes every 2^12 timer cycles, in which the running
  program executes many instructions, so a program that gets the processor again
  and again makes progress. For the shell this means that the user goes on typing.
* `DiskLink`: weak fairness of the driver's loop (interrupts are off, nothing else
  runs), of the disk program and of the delivery of characters by the emulator.
  None of them is assumed to start a new call.

### Disagreements between the code and what it says

| run | property | what happens |
|---|---|---|
| process_lost | `EveryLiveProcessQueued` | `kill 9` leaves dead entries in the queue; later forks fill it with duplicates until a new child is dropped silently |
| process_line | `StartedBeforeNextLine` | an exit makes the rotation pass over a forked child; the shell reads the next line into the buffer that holds the child's path |
| alloc_listed | `AllListed` | README.md:26 says that `wipe` adds all blocks to the list; the loop at `kernel.c:394` starts at 1, so that data block 1986 is in no list, after every format |
| data_tables | `AllMapsKept` | README.md:14 promises files of about 1 GB; the address of a table below the double or triple indirect block is written into that table and not into the one above, where it is looked up (`kernel.c:520`) |

Others are named exceptions of the models and have no run of their own:

* `kernel.c:267` says "wake sender", but a second sender on a full channel has
  overwritten `msg_lspid`, so that the receiver wakes it and not the one whose
  message it took. Channel models this; no property claims the contrary.
* `disk.py:20` says an invalid address makes the request fail; -1, which `mkdir` uses
  on a full disk, ends the disk program (the premise of `CallReturns`).
* `kernel.c:879` assumes that a directory is never in the AIT; `cat .` puts it there
  (`Close` in Directory).
* README.md:28-30 calls `mv` and `cp` safe. A `mv` into the current directory and a
  `remove` that is cut off between its two writes (`kernel.c:768`, `771`) leave an
  inode with two entries, a `cp` an entry for a free inode (`Mv`, `Crash`, `Count` in
  Directory).
* `kernel.c:186` says the queue "should be in order by this point", but the `qsort`
  at line 181 is commented out.

## 4. Proofs

TLAPS checks the proof modules to the last leaf. Their assumptions are the
`ASSUME`s of the modules they extend, which TLC evaluates for each run:

* `ProcessAssumption`: a positive number of slots and priorities of at least one bit.
  `ChannelAssumption`: a positive number of channels, and names other than 0, which
  marks a free channel. `PingPongAssumption`: at least two channels, at least two
  names, numbered from 1, and messages numbered as the two programs number them.
* `BlockAllocAssumption`: the data blocks fill more than the `LISTS` list blocks but
  not one list more, as 1982 blocks with lists of 64 do.
* `DataBlocksAssumption`: positive sizes; a list of free blocks is not longer than a
  table of addresses, as 64 and 128 in the code; a directory with all inodes fits into
  the largest file, and the largest file ends within the triple indirect table.
* `FileAssumption`: positive sizes of the tables, and room for at least one inode
  besides the root.
* `DirectoryAssumption`: positive sizes, at least two inodes and room for two entries in a directory,
  which `mkdir` and `wipe` use without asking. `NamesAssumption`: names are sequences
  of characters and not empty, since `strtok` gives no empty word; they may be longer
  than `d_name`, but what was in memory and the program that `wipe` makes fit into it,
  and the latter is not called `.` or `..`.
* `DiskLinkAssumption`: positive sizes, bytes of 8 bits, addresses that fit into their
  bytes, and a number and length of blocks below half the range of an address, so that
  the disk program, which reads them as signed, does not take them for negative.

The prover has no induction for a given operator. Where a proof needs it (a minimum
exists, a recursive function is well defined, sets of inodes that grow come to an
end) the least counterexample is taken, which exists because `<` on the natural
numbers is well founded (`WFMin`).

**ProcessProofs** (any `PROCESS_LIMIT`, any width of the priorities): as long as
`kill 9` has not been used, `TypeOK` (the queue never outgrows its array),
`QueueMatchesTable`, `CurrentAtHead`, `DeadRunsOnlyWhenIdle` and `OneShell`. The
theorems have the form `Spec => [](~nine => P)`: the inductive step needs only
that the step taken is not `kill 9`, since `nine` never goes back to false. None
of the five is inductive alone. `fork` may reuse slot 0 after the shell has
killed itself; that the queue is empty then, so that the new entry is at its
head, needs `DeadRunsOnlyWhenIdle`, and that the caller is then the shell itself
needs the shell's code to stay in slot 0 (`ShellInSlotZero`), which in turn needs
that dead processes are not resumed in a program (`GoneIsDead`,
`DeadIsNotLoaded`). The lemmas on rotation, removal and addition say that the
queue keeps its entries, each once; `rq_rm` removes while it iterates, and that
this is harmless is the case of a queue without duplicates.

**BlockAllocProofs** (any list length, number of lists and disk size): `TypeOK`,
`WellLinked`, `NoDoubleAlloc`, `Conserved`, and the refinement `ImplementsPool`.
`NoDoubleAlloc` is not inductive: a refill brings a whole list into play, so
`Apart` says that all places of the free list, in the superblock and in every
list block, hold different blocks that nobody owns. `SbCurrent` says that the
superblock on disk and in memory agree between calls, which makes a reboot
harmless. `Conserved` is an action property: from the end of a format to the next
one every block that the format listed is free or used, through every call and loss of
power. That this is not every data block is the finding `AllListed`. While `wipe`
writes and after it was cut off the invariant says only what `WipeSuper` needs: which
of the lists are the new ones. The arithmetic of `wipe` (no overlap between the lists
it writes) is a group of lemmas of its own. The refinement
maps `free` to the union of all places; each action of the list is one step of
the pool or a stutter.

**DataBlocksProofs** (any sizes of the disk, of lists and tables, of files and of the
inode table, and any number of losses of power and removals): `MapsKept`, `NoSharing`,
`NothingLost` and the action property `FaultOnlyWhen`. The invariant `Ind` says that
the variables have their types, the local variables of the call included, and that as
long as there was no fault `Sound` holds. Its parts:

* the invariant of BlockAllocProofs, whose lemmas give the effect of each `balloc` and
  `bfree` on the list; for the writes of data and tables a lemma says that a write to
  a block in use leaves the list alone;
* `Shape`: the copy of an inode in memory has the addresses of the one on the disk and
  is not shorter, so that a loss of power only cuts files (`FileCut`); the size of the
  directory is the number of files, which keeps it within its bound;
* `CallOK`: what the local variables are at each write of each call. The block to be
  entered lies behind the end of the file, and on the way to a single indirect block
  the table followed is the file's;
* `Separate`: no block is given twice, as data or as a table, and all are in use; the
  blocks that a call has taken and not yet entered (`Pending`) are with nobody. Without
  it a write to one file could change the tables of another;
* `Maps`: up to the number that a call has reached (`Hi`) the addresses lead to the
  blocks given. `MapsKept` alone speaks of the size only, which is written last;
* `Removal`: `freeDataBlocks` frees a table together with its first block and goes on
  reading it. Its addresses hold until a release writes a list of free blocks into it,
  which is the case `spilt` of `FaultOnlyWhen`;
* `Unused` and `Accounted`: an inode that is not in use has no blocks, and until
  something marked `lossy` happens a file has no blocks behind its end and no tables
  but those that lead to its blocks.

Each step of each call has a lemma. Most use a few frame lemmas: a file keeps its
addresses when neither its inode nor its table is written (`FileFrame`), and separation
survives the loss of blocks (`SepLess`), which is also what a loss of power does to
`own` and `tabs` (`ForgetStep`).

The proof corrected the model in four places. A release that was interrupted by a loss
of power did not set `fault`. A walk in level 2 that ended in the file's own single
indirect table went unnoticed, which is why `tabs` is kept by level. The removal of a
file with blocks behind two tables loses its tables, which `NothingLost` did not except.
And `own` had to forget a block that is freed, so that the block can be given again.

**ChannelProofs** (any number of processes and channels, as long as `kill 9` is not
used): `BlockedDoesNotRun` with the types, `UniqueNames`, `QueueMatchesTable` of the
kernel with channels, `HangsOnlyWithoutShell` and the action property `NoResurrection`. The invariant is
that of ProcessProofs, whose lemmas are used for the steps of Process, with the types
of the channel table (`ChannelsOK`) and `SleeperOff`: a process inside a call that
blocked (it is WAITING and its call is to be repeated) is not `current`. A call marks
its caller WAITING by pid; that this never revives a process that was killed needs
`DeadIsNotLoaded`. `HangsOnlyWithoutShell` says when `rq_rotate` recurses for ever: only
if the shell is gone and every process that is left waits for a channel. Its invariant
has two parts: only programs wait (`Sleepers`), and a rotation without end has found
nobody EXECUTING (`Stuck`). The lemma `RotationFinds` is the heart: if somebody in the
queue is EXECUTING, some number of rotations brings such a process to the head.

**PingPongProofs** (any number of messages in a round, names, channels and slots):
`InLockstep`, `ChannelAvailable` and `SameChannel`. The invariant counts the messages
that each program has sent or received in its round (`Pos`). In the same round
(`SameRound`) the two hold the same channel and are at most one message apart, and the
channel holds the message by which one is ahead, with its sender. At the end of a
round pong may have opened the channel of the next one while ping still takes its last
message or unlinks (`OneAhead`). `Cast` and `NotYet` say which processes play the two
parts and which have not begun, and `OnlyTheirs` that nobody else has a channel open.
That nobody receives its own message is the test of `msg_lspid` in `mq_receive`.

**FileTableProofs** (any sizes of tables, files and disk): `LinksExact`, `OneCopy`,
`DescriptorsSound`, `SizeKept`, `EntriesKept` and `BlocksCover`. They are proved
together, since each call composes functions on the tables; there is a lemma for
each function (`OpenInode`, `CreateFile`, `CloseFile`, ...) that says what it does to
every part of the invariant, and the calls follow. Beyond the properties the
invariant says that only regular files are in the AIT, that the entries of the root
lead to different inodes, and that an extension has filled the blocks up to the one
that holds the end, which may be one behind the last word.

**DirectoryProofs** (any sizes of blocks, directories and inode table, any names and
paths, names too long for an entry included, any
number of losses of power): `InATree`, `OneEntry`, `AllReachable`, the action
property `ActsOnName` and the refinement `Implements`. All but the types end where
`broken` is set: of what follows a case of the table in section 2 nothing is proved. The properties speak of the
times between commands, the invariant `IInv` of every write: which entries are "live"
(not the last one while `remove` has copied but not yet dropped it), which inode is in
flight (written but not entered, taken out but not freed), and that it has no entry;
of a `cp` before its last write, that its inode is free.
`Reached` states reachability without counting steps: every set that has the root and,
with a directory, what its live entries lead to, has everything in use but the inode
in flight. At `Take` this needs that the inode taken out leads nowhere, which is why
`removable` must look at the size of a directory. That `Reachable`, which is computed
by as many rounds as there are inodes, is such a set follows because it cannot grow
more often. For the refinement the step that changes a link is `Count` (link), `Take`
when the last entry moves and `Drop` when it does not (unlink), and `WipeTable`.
The proof of `Create` and `Mkdir` showed that the name `.` breaks the tree as well,
which the earlier model did not offer to the commands.

**DiskLinkProofs** (blocks, addresses, FIFOs and numbers of attempts of any size):
`InSync` and the refinement `ImplementsDevice`. The invariant says that a call is
either being sent or being answered. In the first case what the disk program has read,
what is in the FIFO and what is still to be put make up the request of the call
(`Sending`), in the second what the driver has got, what is in the FIFO and what is on
the socket make up the answer to it for what the disk holds now (`Answering`); each
character is at one place, whatever the interleaving. That the disk program answers
only a whole request follows because only its last character ends a line
(`RequestLine`); that the driver stops after a whole answer, because the length it
computes from the first two characters is the length of the line (`ReplyLine`), after
a refusal too. For the refinement the request must mean to the disk program what the
driver meant. `PuthGeth` says that two digits, large or small, give back the byte,
`UnpackLittle` that the bytes of an address give back the address, as a signed number
(an induction over the bytes), and `AddressSound` that an address taken for negative
or too large is not that of a block. A call is carried out when its answer leaves;
that this happens once although requests are repeated is `done <=> Accepted(c)` in
`Answering`: only refused requests are repeated.

Only model-checked: liveness (`NoStarvation`, `RoundsComplete`, `CallReturns`), which is
beyond the prover. What the kernel still guarantees after
`kill 9` is checked by the runs `process` and `channel_block` and not proved. The four
properties of the runs that expect a violation are false.

## 5. Not modelled

* What memory holds behind an array after a write out of bounds, and the stack
  that parent and child share between `fork` and `exec`: the linker and the
  compiler decide.
* The contents of files and writes to a directory through `fwrite`.
* Message lengths: no program sends more than one byte.
* Register layouts of GIC, timer and UART, the vector table, build files.
* Double and triple indirect blocks beyond the first fault: what the code does with
  addresses it finds in the wrong table depends on what was there before.
* `exec` of a path with several names, of which `open` sees the first only because
  `strtok` has cut the path up (`kernel.c:41`).
* A path that leads through a regular file: `name_to_ino` does not look at the mode and
  reads the data of a file of 32 bytes or more as entries. Files have size 0 in Directory.
* A name that is looked up and is longer than `d_name`, so that `strncmp` compares the
  bytes of the next entry, and what a name that is too long overwrites.
* The blocks that `cp` copies, and the disk between a `wipe` that was cut off and the next.
* `int2str`, `str2int` and `write_int`, and what P0, P1 and P2 compute: they depend on
  nothing but their arguments. `gcd` is recursive (`P1.c:8,11`) and the build's `-O`
  does not remove the recursion; for the operands of P1 it can be some 2^16 calls deep,
  while the stacks are 0x10000 bytes apart (`kernel.c:66`).
* `cat`, `ls` and `pwd`, the cutting of a command line into words, and the programs
  het, blanks and hashs: they print and change no state.

## 6. What is left

Every invariant, action property and refinement that the runs check is proved for all
constants, but for those named above as only model-checked. The disagreements in section
3 that have no run (`mv` and `cp`, the address -1, the sender that is woken, a directory
in the AIT) could each have one. After the code is mended
several levels of tables could be followed: with the address of a new
table entered in its parent, `Near` in `MapsKept` and `NoSharing` would be all blocks,
and `Way` in the invariant would follow the tables to the third level. The hazards
without a property in `PROJECT.json` need a model of memory behind the arrays and of
the stacks.
