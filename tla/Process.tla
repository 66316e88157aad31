------------------------------- MODULE Process -------------------------------
(***************************************************************************)
(* The process table, the ready queue and the scheduler of the kernel      *)
(* (src/kernel/kernel.c, kernel.h), driven by the shell of src/user/init.c *)
(* and by the timer and UART interrupts.                                   *)
(*                                                                         *)
(* A supervisor call runs with interrupts disabled (the exception entry    *)
(* masks IRQ), so each one is a single step.  Interrupts arrive between    *)
(* any two steps of the running program, except while the shell is inside  *)
(* read(): PL011_getc spins in the kernel until a character arrives.       *)
(*                                                                         *)
(* A saved register file (ctx_t) is abstracted to the point its program    *)
(* has reached:                                                            *)
(*   "prompt"   the shell, about to read a line                            *)
(*   "reading"  the shell, inside the read system call                     *)
(*   "raise"    the shell, about to craise( SIGPRI0 )                      *)
(*   "yield"    the shell, about to yield()                                *)
(*   "child"    cfork() has returned 0, about to cexec                     *)
(*   "user"     inside a loaded program                                    *)
(*   "exit"     about to call cexit()                                      *)
(*   "gone"     cexit() has returned; nothing sensible is left to run      *)
(***************************************************************************)
EXTENDS Integers, SequencesExt

CONSTANTS
  PROCESS_LIMIT,  \* slots of the process table, 8 in kernel.h
  UINT_MOD,       \* number of values of a uint32_t, 2^32 in the code
  ExecPrio,       \* the priorities that program files hold
  KillDigits      \* the numbers the user types after "kill"

ASSUME ProcessAssumption ==
  /\ PROCESS_LIMIT \in Nat \ {0}
  /\ UINT_MOD \in Nat \ {0, 1}
  /\ ExecPrio \subseteq 0..(UINT_MOD - 1)
  /\ KillDigits \subseteq Nat

Pids     == 0..(PROCESS_LIMIT - 1)
PState   == {"TERMINATED", "CREATED", "READY", "EXECUTING", "WAITING"}
Points   == {"prompt", "reading", "raise", "yield", "child", "user", "exit", "gone"}
Prio     == 0..(UINT_MOD - 1)

\* 0x7FFFFFFF, the priority of a forked child and of the shell after a key press
TOP_PRIO == UINT_MOD \div 2 - 1

\* kill( 9, SIGKILL ) kills everything but the shell; 9 is PROCESS_LIMIT + 1
KILL_ALL == PROCESS_LIMIT + 1

VARIABLES
  pst,      \* pcb[ p ].pst
  defp,     \* pcb[ p ].defp, default priority
  prio,     \* pcb[ p ].prio, minor priority
  ctx,      \* pcb[ p ].ctx, saved context
  rq,       \* the ready queue; rq_size is its length
  current,  \* index of the running process
  cpu,      \* the register file that the handlers receive as *ctx
  fault,    \* "none", "rotate": rq_rotate never returns,
            \* "bounds": a write outside an array; the model stops there
  fresh,    \* auxiliary: forked processes that have not been dispatched yet
  nine      \* auxiliary: "kill 9" has been typed since the reset

procVars == <<pst, defp, prio, ctx, rq, current, cpu, fault, fresh, nine>>

Terminated == {p \in Pids : pst[p] = "TERMINATED"}

\* The context process p continues with when it next runs
ContextOf(p) == IF p = current THEN cpu ELSE ctx[p]

-----------------------------------------------------------------------------
(* Reset: a zeroed process table with the shell in slot 0. *)

Init ==
  /\ pst     = [p \in Pids |-> IF p = 0 THEN "EXECUTING" ELSE "TERMINATED"]
  /\ defp    = [p \in Pids |-> IF p = 0 THEN 1 ELSE 0]
  /\ prio    = [p \in Pids |-> IF p = 0 THEN 1 ELSE 0]
  /\ ctx     = [p \in Pids |-> IF p = 0 THEN "prompt" ELSE "gone"]
  /\ rq      = <<0>>
  /\ current = 0
  /\ cpu     = "prompt"
  /\ fault   = "none"
  /\ fresh   = {}
  /\ nine    = FALSE

-----------------------------------------------------------------------------
(* Ready queue operations. *)

\* Mutant of RqAdd: the size test is missing
RqAddUnchecked(q, p) == Append(q, p)

RqAdd(q, p) == IF Len(q) < PROCESS_LIMIT THEN Append(q, p) ELSE q

\* The positions rq_rm deletes: its loop steps over the entry that slides into
\* the place of a deleted one, so it deletes every other entry of a run.
RmPositions(q, p) ==
  {j \in DOMAIN q : /\ q[j] = p
                    /\ \E i \in 0..(j - 1) : /\ i > 0 => q[i] # p
                                             /\ \A x \in (i + 1)..j : q[x] = p
                                             /\ (j - i) % 2 = 1}

Without(q, gone) ==
  FoldLeftDomain(LAMBDA s, j : IF j \in gone THEN s ELSE Append(s, q[j]), <<>>, q)

RqRm(q, p) ==
  LET gone == RmPositions(q, p) IN
  CASE gone = {}                      -> q
    [] \E j \in DOMAIN q : gone = {j} -> RemoveAt(q, CHOOSE j \in gone : TRUE)
    [] OTHER                          -> Without(q, gone)

RotateBy(q, k) == SubSeq(q, k + 1, Len(q)) \o SubSeq(q, 1, k)

\* Mutant of Rotations: the head is moved to the back once, whoever comes next
RotationsOnce(q, st) == {k \in DOMAIN q : k = 1}

\* Mutant of Rotations: a head that can run stays where it is
RotationsSticky(q, st) ==
  {k \in DOMAIN q : st[q[1]] = "EXECUTING" /\ k = Len(q)}

\* rq_rotate moves the head to the back, and again while the head is not EXECUTING
Rotations(q, st) ==
  {k \in DOMAIN q : /\ st[RotateBy(q, k)[1]] = "EXECUTING"
                    /\ \A j \in 1..(k - 1) : st[RotateBy(q, j)[1]] # "EXECUTING"}

-----------------------------------------------------------------------------
(***************************************************************************)
(* The scheduler, entered with process states st, queue q and priorities   *)
(* pr and df as the rest of the handler left them; here is the context of  *)
(* the interrupted program.                                                *)
(***************************************************************************)

\* All minor priorities of queued processes are reset once the head has used its own up
ResetPrio(q, pr, df) ==
  IF pr[q[1]] = 0 THEN [p \in Pids |-> IF p \in ToSet(q) THEN df[p] ELSE pr[p]] ELSE pr

\* Mutant of Dispatch: the context is switched and current is not
DispatchKeepsCurrent(q, pr, df, here) ==
  /\ rq' = q /\ fault' = "none" /\ fresh' = fresh \ {q[1]}
  /\ prio' = ResetPrio(q, pr, df)
  /\ ctx' = [ctx EXCEPT ![current] = here]
  /\ cpu' = (IF q[1] = current THEN here ELSE ctx[q[1]])
  /\ UNCHANGED current

\* Continue with the head of the rotated queue q
Dispatch(q, pr, df, here) ==
  LET reset == ResetPrio(q, pr, df) IN
  /\ rq' = q
  /\ fault' = "none"
  /\ fresh' = fresh \ {q[1]}
  /\ IF q[1] = current
       THEN /\ prio' = [reset EXCEPT ![current] = (@ - 1) % UINT_MOD]
            /\ cpu'  = here
            /\ UNCHANGED <<ctx, current>>
       ELSE /\ prio'    = reset
            /\ ctx'     = [ctx EXCEPT ![current] = here]
            /\ cpu'     = ctx[q[1]]
            /\ current' = q[1]

\* Return to the interrupted program, with f the kernel's condition
NoDispatch(q, pr, here, f) ==
  /\ rq' = q /\ prio' = pr /\ cpu' = here /\ fault' = f
  /\ UNCHANGED <<ctx, current, fresh>>

Scheduler(st, q, pr, df, here) ==
  \* rq_rotate reads rq[ 0 ]->pst before it tests rq[ 0 ] for NULL: the read of
  \* address 0 gives some word, and a compiler may drop the test behind it
  \/ q = <<>> /\ \E f \in {"none", "rotate"} : NoDispatch(q, pr, here, f)
  \* nobody to run: rq_rotate calls itself for ever
  \/ q # <<>> /\ Rotations(q, st) = {} /\ NoDispatch(q, pr, here, "rotate")
  \/ \E k \in Rotations(q, st) : Dispatch(RotateBy(q, k), pr, df, here)

-----------------------------------------------------------------------------
(* The shell: one command line after another. *)

\* read( STDIO, ... ): the kernel waits for a line with interrupts disabled
EnterRead ==
  /\ cpu = "prompt"
  /\ cpu' = "reading"
  /\ UNCHANGED <<pst, defp, prio, ctx, rq, current, fault, fresh>>

\* Mutant of AfterFork: fork does not clear the return value of the child
AfterForkUncleared(v) == "raise"

\* Where the shell goes when cfork() returns v
AfterFork(v) == IF v = 0 THEN "child" ELSE "raise"

\* "run <path>" with a free slot: the lowest one becomes a copy of the caller
Fork ==
  /\ cpu = "reading"
  /\ \E p \in Terminated :
       /\ \A o \in Terminated : p <= o
       /\ pst'   = [pst  EXCEPT ![p] = "EXECUTING"]
       /\ ctx'   = [ctx  EXCEPT ![p] = AfterFork(0)]
       /\ defp'  = [defp EXCEPT ![p] = TOP_PRIO]
       /\ prio'  = [prio EXCEPT ![p] = TOP_PRIO]
       /\ rq'    = RqAdd(rq, p)
       /\ fresh' = fresh \cup {p}
       /\ cpu'   = AfterFork(p)
  /\ UNCHANGED <<current, fault>>

\* "run <path>" with a full table: fork returns -1
ForkFull ==
  /\ cpu = "reading"
  /\ Terminated = {}
  /\ cpu' = AfterFork(-1)
  /\ UNCHANGED <<pst, defp, prio, ctx, rq, current, fault, fresh>>

\* Mutant of KillProcess: the process stays in the ready queue
KillKeepsQueued(d) ==
  /\ cpu = "reading"
  /\ d \in Pids
  /\ pst'   = [pst EXCEPT ![d] = "TERMINATED"]
  /\ fresh' = fresh \ {d}
  /\ cpu'   = "raise"
  /\ UNCHANGED <<defp, prio, ctx, rq, current, fault>>

\* "kill <d>" for a slot of the table; the slot need not hold a process
KillProcess(d) ==
  /\ cpu = "reading"
  /\ d \in Pids
  /\ pst'   = [pst EXCEPT ![d] = "TERMINATED"]
  /\ rq'    = RqRm(rq, d)
  /\ fresh' = fresh \ {d}
  /\ cpu'   = "raise"
  /\ UNCHANGED <<defp, prio, ctx, current, fault>>

\* "kill <PROCESS_LIMIT>" passes the range check and writes behind the table
KillBounds(d) ==
  /\ cpu = "reading"
  /\ d = PROCESS_LIMIT
  /\ fault' = "bounds"
  /\ UNCHANGED <<pst, defp, prio, ctx, rq, current, cpu, fresh>>

\* "kill 9": every process but the shell; the ready queue is left alone
KillAll(d) ==
  /\ cpu = "reading"
  /\ d = KILL_ALL
  /\ pst'   = [p \in Pids |-> IF p = 0 THEN pst[p] ELSE "TERMINATED"]
  /\ fresh' = fresh \cap {0}
  /\ cpu'   = "raise"
  /\ UNCHANGED <<defp, prio, ctx, rq, current, fault>>

\* Any other command, and a kill that the range check refuses
OtherCommand ==
  /\ cpu = "reading"
  /\ cpu' = "raise"
  /\ UNCHANGED <<pst, defp, prio, ctx, rq, current, fault, fresh>>

\* "quit" leaves the loop
Quit ==
  /\ cpu = "reading"
  /\ cpu' = "exit"
  /\ UNCHANGED <<pst, defp, prio, ctx, rq, current, fault, fresh>>

\* craise( SIGPRI0 ) after every command
RaisePri0 ==
  LET df == [defp EXCEPT ![current] = 0]
      pr == [prio EXCEPT ![current] = 0]
  IN /\ cpu = "raise"
     /\ defp' = df
     /\ Scheduler(pst, rq, pr, df, "yield")
     /\ UNCHANGED pst

Yield ==
  /\ cpu = "yield"
  /\ Scheduler(pst, rq, prio, defp, "prompt")
  /\ UNCHANGED <<pst, defp>>

-----------------------------------------------------------------------------
(* The forked child and the loaded programs. *)

\* exec of an existing program file: the slot starts over with the program
Exec(pr) ==
  /\ cpu = "child"
  /\ pst'  = [pst  EXCEPT ![current] = "EXECUTING"]
  /\ ctx'  = [ctx  EXCEPT ![current] = "user"]
  /\ defp' = [defp EXCEPT ![current] = pr]
  /\ prio' = [prio EXCEPT ![current] = pr]
  /\ cpu'  = "user"
  /\ UNCHANGED <<rq, current, fault, fresh>>

\* exec of a path that does not resolve; the child breaks out of the loop
ExecFails ==
  /\ cpu = "child"
  /\ cpu' = "exit"
  /\ UNCHANGED <<pst, defp, prio, ctx, rq, current, fault, fresh>>

\* cexit() is craise( SIGKILL )
RaiseKill ==
  LET st == [pst EXCEPT ![current] = "TERMINATED"] IN
  /\ pst' = st
  /\ Scheduler(st, RqRm(rq, current), prio, defp, "gone")
  /\ UNCHANGED defp

\* The shell after "quit", or the child after a failed exec
Exit == cpu = "exit" /\ RaiseKill

\* A loaded program ends
ProgramExit == cpu = "user" /\ RaiseKill

-----------------------------------------------------------------------------
(* Interrupts. *)

TimerIrq ==
  /\ cpu # "reading"
  /\ Scheduler(pst, rq, prio, defp, cpu)
  /\ UNCHANGED <<pst, defp>>

\* A key press while another process runs raises the shell's priority
UartIrq ==
  LET df == [defp EXCEPT ![0] = TOP_PRIO]
      pr == [prio EXCEPT ![0] = TOP_PRIO]
  IN /\ cpu # "reading"
     /\ current # 0
     /\ defp' = df
     /\ Scheduler(pst, rq, pr, df, cpu)
     /\ UNCHANGED pst

Shell ==
  \/ EnterRead \/ Fork \/ ForkFull \/ OtherCommand \/ Quit
  \/ \E d \in KillDigits : KillProcess(d) \/ KillBounds(d)
  \/ RaisePri0 \/ Yield
  \/ ExecFails \/ Exit

Interrupt == TimerIrq \/ UartIrq

ProcStep ==
  \/ Shell
  \/ \E pr \in ExecPrio : Exec(pr)
  \/ ProgramExit
  \/ Interrupt

KillNine == (\E d \in KillDigits : KillAll(d)) /\ nine' = TRUE

\* After a fault nothing the model says about the kernel holds any more
Halted == fault # "none" /\ UNCHANGED procVars

Next ==
  \/ fault = "none" /\ ProcStep /\ UNCHANGED nine
  \/ fault = "none" /\ KillNine
  \/ Halted

Spec == Init /\ [][Next]_procVars

\* The timer is periodic and every program runs with interrupts enabled, so a
\* tick that stays possible is eventually taken.
FairSpec == Spec /\ WF_procVars(fault = "none" /\ TimerIrq /\ UNCHANGED nine)

-----------------------------------------------------------------------------
(* Properties. *)

KernelTypeOK ==
  /\ pst \in [Pids -> PState]
  /\ defp \in [Pids -> Prio]
  /\ prio \in [Pids -> Prio]
  /\ ctx \in [Pids -> Points]
  /\ rq \in Seq(Pids) /\ Len(rq) <= PROCESS_LIMIT
  /\ current \in Pids
  /\ cpu \in Points
  /\ fault \in {"none", "rotate", "bounds"}
  /\ fresh \subseteq Pids

\* Every variable has its type; the ready queue fits its array.
TypeOK == KernelTypeOK /\ nine \in BOOLEAN

\* Unless "kill 9" is used, the ready queue holds exactly the processes that are
\* not TERMINATED, each once: fork, kill and raise( SIGKILL ) keep the table and
\* the queue together, so rq_add never meets a full queue.
QueueMatchesTable ==
  ~nine =>
    /\ IsInjective(rq)
    /\ ToSet(rq) = Pids \ Terminated

\* The running process, unless it was killed, is at the head of the ready queue:
\* rq_rotate relies on this to move it, and nobody else, to the back.
CurrentAtHead ==
  pst[current] # "TERMINATED" => rq # <<>> /\ rq[1] = current

\* The kernel returns to a TERMINATED process only when the ready queue is empty;
\* the one other dead program that runs is the shell that has killed itself and
\* has not reached its raise yet.
DeadRunsOnlyWhenIdle ==
  pst[current] = "TERMINATED" => rq = <<>> \/ cpu = "raise" \/ fault # "none"

\* Only slot 0 ever holds the shell: the child of a fork never continues in the
\* shell's loop, and saving and restoring contexts never hands it over.
OneShell ==
  \A p \in Pids \ {0} :
    pst[p] # "TERMINATED" => ContextOf(p) \in {"child", "user", "exit"}

\* A process that can run does run, or is killed, as long as the user does not
\* leave the shell waiting for input for ever: the rotation starves nobody.
NoStarvation ==
  []<>(cpu # "reading") =>
    \A p \in Pids : (pst[p] = "EXECUTING") ~>
                      (current = p \/ pst[p] # "EXECUTING" \/ nine \/ fault # "none")

-----------------------------------------------------------------------------
(* What comments and documents say, and the code does not do. *)

\* "Programs are executed by calling run on the object file's path": a forked child
\* has at least started before the shell reads the next line.  The path for its
\* exec lies in the shell's line buffer, which that read overwrites.
StartedBeforeNextLine == (current = 0 /\ cpu = "reading") => fresh = {}

\* "run <path> (fork/exec)": a process that is not TERMINATED is in the ready queue,
\* also when "kill 9" is used.
EveryLiveProcessQueued == Pids \ Terminated \subseteq ToSet(rq)
=============================================================================
