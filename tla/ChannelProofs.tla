---------------------------- MODULE ChannelProofs ----------------------------
(***************************************************************************)
(* Proofs about the message channels of module Channel, for every number   *)
(* of channels, names and messages and on top of the invariant of the      *)
(* process table (ProcessProofs), as long as "kill 9" is not used.         *)
(***************************************************************************)
EXTENDS Channel, ProcessProofs, WellFoundedInduction

(***************************************************************************)
(* The inductive invariant: the process table's own invariant, the types   *)
(* of the channel table, and that a process inside a blocked call does not *)
(* run.  DeadIsNotLoaded of IInv is what keeps a system call from marking  *)
(* a killed caller WAITING.                                                *)
(***************************************************************************)

Entry == [qname : Names \cup {0}, qnum : {0, 1}, qrec : {0, 1}, lspid : Pids, lrpid : Pids,
          buf : [by : Pids, v : Values \cup {0}]]

ChannelsOK == mq \in [Chans -> Entry] /\ pend \in [Pids -> Calls]

Asleep(p) == pend[p] # NoCall /\ pst[p] = "WAITING" /\ fault = "none"

SleeperOff == \A p \in Pids : Asleep(p) => current # p

CInv == IInv /\ ChannelsOK /\ SleeperOff

\* The states st differ from the table only in who sleeps: nobody dies or is born.
SameLife(st) ==
  /\ st \in [Pids -> PState]
  /\ \A p \in Pids : st[p] = "TERMINATED" <=> pst[p] = "TERMINATED"

\* The caller of a system call is alive, so putting it to sleep gives birth to nobody.
LEMMA SleepKeepsLife ==
  ASSUME IInv, cpu = "user"
  PROVE  /\ current \in Pids /\ pst[current] # "TERMINATED"
         /\ SameLife(SigWait(pst, current))
         /\ SigWait(pst, current)[current] = "WAITING"
<1>1. current \in Pids /\ pst \in [Pids -> PState] /\ pst[current] # "TERMINATED"
  BY DEF IInv, KernelTypeOK, DeadIsNotLoaded
<1> QED BY <1>1 DEF SameLife, SigWait, PState

\* A wakeup changes a sleeping process only, wherever it is aimed.
LEMMA WakeKeepsLife ==
  ASSUME NEW st, SameLife(st), NEW p \in Pids
  PROVE  SameLife(SigCont(st, p))
BY DEF SameLife, SigCont, PState

\* A system call that returns to its caller with nobody born or dead.
LEMMA ReturnKeeps ==
  ASSUME IInv, NEW st, SameLife(st), Return(st)
  PROVE  IInv'
<1>1. pst' = st /\ UNCHANGED <<defp, prio, ctx, rq, current, cpu, fault, fresh>>
  BY DEF Return
<1>2. LiveIn(pst') = LiveIn(pst)
  BY <1>1 DEF LiveIn, SameLife
<1>3. current \in Pids
  BY DEF IInv, KernelTypeOK
<1>4. KernelTypeOK'
  BY <1>1 DEF IInv, KernelTypeOK, SameLife
<1>5. QueueOf(rq, LiveIn(pst))'
  BY <1>1, <1>2 DEF IInv, QueueOf, LiveIn
<1>6. CurrentAtHead' /\ DeadRunsOnlyWhenIdle' /\ DeadIsNotLoaded'
  BY <1>1, <1>3 DEF IInv, SameLife, CurrentAtHead, DeadRunsOnlyWhenIdle, DeadIsNotLoaded
<1>7. ShellInSlotZero' /\ GoneIsDead'
  BY <1>1, <1>3 DEF IInv, SameLife, ShellInSlotZero, GoneIsDead
<1> QED BY <1>4, <1>5, <1>6, <1>7 DEF IInv

\* The scheduler, whoever calls it, continues with a process that can run, or
\* nobody can and the kernel hangs, or the ready queue is empty.
LEMMA SchedulerRuns ==
  ASSUME NEW st, pst' = st, NEW q, NEW pr, NEW df, NEW here, Scheduler(st, q, pr, df, here)
  PROVE  \/ pst'[current'] = "EXECUTING"
         \/ fault' = "rotate"
         \/ q = <<>> /\ current' = current
<1>1. ASSUME NEW k \in Rotations(q, st), Dispatch(RotateBy(q, k), pr, df, here)
      PROVE  pst'[current'] = "EXECUTING"
  <2>1. st[RotateBy(q, k)[1]] = "EXECUTING"
    BY DEF Rotations
  <2>2. current' = RotateBy(q, k)[1]
    BY <1>1 DEF Dispatch
  <2> QED BY <2>1, <2>2
<1> QED BY <1>1 DEF Scheduler, NoDispatch

\* A system call that puts its caller to sleep and calls the scheduler: the caller
\* does not run on, unless the kernel hangs.
LEMMA RescheduleSleeps ==
  ASSUME IInv, cpu = "user", Reschedule(SigWait(pst, current))
  PROVE  IInv' /\ (pst'[current'] = "EXECUTING" \/ fault' = "rotate")
<1>1. PICK st : st = SigWait(pst, current) OBVIOUS
<1>2. /\ current \in Pids /\ pst[current] # "TERMINATED" /\ st[current] = "WAITING"
      /\ st \in [Pids -> PState]
      /\ \A p \in Pids : st[p] = "TERMINATED" <=> pst[p] = "TERMINATED"
  BY <1>1, SleepKeepsLife DEF SameLife
<1>3. pst' = st /\ defp' = defp /\ Scheduler(st, rq, prio, defp, cpu)
  BY <1>1 DEF Reschedule
<1>4. rq # <<>> /\ rq[1] = current
  BY <1>2 DEF IInv, CurrentAtHead
<1>5. QueueOf(rq, LiveIn(st))
  <2>1. LiveIn(st) = LiveIn(pst)
    BY <1>2 DEF LiveIn
  <2> QED BY <2>1 DEF IInv
<1>6. /\ prio \in [Pids -> Prio] /\ defp \in [Pids -> Prio]
      /\ cpu \in Points /\ cpu \notin ShellPoints /\ cpu # "gone"
  BY DEF IInv, KernelTypeOK, ShellPoints
<1>7. IInv'
  BY <1>2, <1>3, <1>4, <1>5, <1>6, SchedulerKeeps
<1>8. pst'[current'] = "EXECUTING" \/ fault' = "rotate"
  BY <1>3, <1>4, SchedulerRuns
<1> QED BY <1>7, <1>8

-----------------------------------------------------------------------------
(* Steps of the process table: shell, interrupts, exec and exit. *)

\* What such a step does to the process that runs after it.
Runs ==
  \/ pst'[current'] # "WAITING"
  \/ fault' # "none"
  \/ current' = current /\ pst'[current] = pst[current]

LEMMA ProcStepRuns ==
  ASSUME IInv, ProcStep
  PROVE  Runs
<1>0. current \in Pids /\ pst \in [Pids -> PState]
  BY DEF IInv, KernelTypeOK
<1>1. CASE EnterRead \/ ForkFull \/ OtherCommand \/ Quit \/ ExecFails
  BY <1>1 DEF Runs, EnterRead, ForkFull, OtherCommand, Quit, ExecFails
<1>2. CASE Fork
  BY <1>0, <1>2 DEF Runs, Fork, Terminated
<1>3. ASSUME NEW d \in KillDigits, KillProcess(d) \/ KillBounds(d) PROVE Runs
  BY <1>0, <1>3 DEF Runs, KillProcess, KillBounds
<1>4. CASE RaisePri0
  BY <1>4, SchedulerRuns DEF Runs, RaisePri0
<1>5. CASE Yield \/ TimerIrq
  BY <1>5, SchedulerRuns DEF Runs, Yield, TimerIrq
<1>6. CASE UartIrq
  BY <1>6, SchedulerRuns DEF Runs, UartIrq
<1>7. CASE Exit \/ ProgramExit
  <2>1. PICK st : st = [pst EXCEPT ![current] = "TERMINATED"] OBVIOUS
  <2>2. pst' = st /\ Scheduler(st, RqRm(rq, current), prio, defp, "gone")
    BY <1>7, <2>1 DEF Exit, ProgramExit, RaiseKill
  <2>3. pst'[current] = "TERMINATED"
    BY <1>0, <2>1, <2>2
  <2> QED BY <2>2, <2>3, SchedulerRuns DEF Runs
<1>8. ASSUME NEW pr \in ExecPrio, Exec(pr) PROVE Runs
  BY <1>0, <1>8 DEF Runs, Exec
<1> QED BY <1>1, <1>2, <1>3, <1>4, <1>5, <1>6, <1>7, <1>8 DEF ProcStep, Shell, Interrupt

\* A step of the process table that leaves the channels alone keeps the invariant;
\* exec may drop the call its slot was in.
LEMMA ProcStepInv ==
  ASSUME CInv, fault = "none", ProcStep, nine' = nine, ~nine, mq' = mq,
         NEW p0 \in Pids, pend' \in {pend, [pend EXCEPT ![p0] = NoCall]}
  PROVE  CInv'
<1>1. IInv'
  BY NextInv DEF CInv, Next
<1>2. ChannelsOK'
  BY DEF CInv, ChannelsOK, Calls
<1>3. SleeperOff'
  <2>1. SUFFICES ASSUME Asleep(current)' PROVE FALSE
    BY DEF SleeperOff, Asleep
  <2>2. current' = current /\ pst'[current] = pst[current]
    BY <2>1, ProcStepRuns DEF CInv, Runs, Asleep
  <2>3. current \in Pids /\ pend \in [Pids -> Calls]
    BY DEF CInv, IInv, KernelTypeOK, ChannelsOK
  <2>4. pend[current] # NoCall
    BY <2>1, <2>2, <2>3 DEF Asleep
  <2>5. Asleep(current)
    BY <2>1, <2>2, <2>4 DEF Asleep
  <2> QED BY <2>3, <2>5 DEF CInv, SleeperOff
<1> QED BY <1>1, <1>2, <1>3 DEF CInv

-----------------------------------------------------------------------------
(* The system calls. *)

\* The caller of a system call: its slot, its life and its channel's entry.
LEMMA Caller ==
  ASSUME CInv, NEW call, MayCall(call)
  PROVE  /\ cpu = "user" /\ current \in Pids /\ pst[current] # "TERMINATED"
         /\ mq \in [Chans -> Entry] /\ pend \in [Pids -> Calls]
         /\ SameLife(pst)
BY SleepKeepsLife DEF CInv, MayCall, ChannelsOK, SameLife, IInv, KernelTypeOK

\* A system call that returns with its own process outside any repeated call.
LEMMA ReturnInv ==
  ASSUME CInv, NEW st, SameLife(st), Return(st), mq' \in [Chans -> Entry], current \in Pids,
         \/ pend' = pend /\ st = pst
         \/ pend' = [pend EXCEPT ![current] = NoCall]
  PROVE  CInv'
<1>1. IInv'
  BY ReturnKeeps DEF CInv
<1>2. ChannelsOK'
  BY DEF CInv, ChannelsOK, Calls
<1>3. SleeperOff'
  BY DEF CInv, ChannelsOK, SleeperOff, Asleep, Return
<1> QED BY <1>1, <1>2, <1>3 DEF CInv

\* A system call that puts its process to sleep inside a repeated call.
LEMMA BlockInv ==
  ASSUME CInv, cpu = "user", Reschedule(SigWait(pst, current)), mq' \in [Chans -> Entry],
         NEW call \in Calls, pend' = [pend EXCEPT ![current] = call]
  PROVE  CInv'
<1>1. IInv' /\ (pst'[current'] = "EXECUTING" \/ fault' = "rotate")
  BY RescheduleSleeps DEF CInv
<1>2. ChannelsOK'
  BY DEF CInv, ChannelsOK, Calls
<1>3. SleeperOff'
  BY <1>1 DEF SleeperOff, Asleep
<1> QED BY <1>1, <1>2, <1>3 DEF CInv

\* mq_open: the slot it takes gets the name.
LEMMA OpenedEntries ==
  ASSUME mq \in [Chans -> Entry], NEW n \in Names
  PROVE  /\ Opened(n) \in [Chans -> Entry]
         /\ \A c \in Chans : Opened(n)[c].qname \in {mq[c].qname, n}
         /\ \A c, e \in Chans : (Opened(n)[c].qname # mq[c].qname /\ Opened(n)[e].qname = n)
                                  => c = e
<1>1. CASE Named(n) # {} \/ Named(0) = {}
  BY <1>1 DEF Opened
<1>2. CASE ~(Named(n) # {} \/ Named(0) = {})
  <2>1. PICK x : x = Descriptor(n) OBVIOUS
  <2>2. PICK u : u = [mq[x] EXCEPT !.qname = n, !.qnum = 0, !.qrec = 0, !.lspid = 0, !.lrpid = 0]
    OBVIOUS
  <2>3. Opened(n) = [mq EXCEPT ![x] = u]
    BY <1>2, <2>1, <2>2 DEF Opened
  <2>4. x \in Chans => u \in Entry /\ u.qname = n
    <3> SUFFICES ASSUME x \in Chans PROVE u \in Entry /\ u.qname = n
      OBVIOUS
    <3>1. mq[x] \in Entry /\ 0 \in Pids
      BY ProcessAssumption DEF Pids
    <3>2. u = [qname |-> n, qnum |-> 0, qrec |-> 0, lspid |-> 0, lrpid |-> 0, buf |-> mq[x].buf]
      BY <2>2, <3>1 DEF Entry
    <3> QED BY <3>1, <3>2 DEF Entry
  <2>5. \A c \in Chans : mq[c].qname # n
    BY <1>2 DEF Named
  <2>6. \A c \in Chans : Opened(n)[c] = IF c = x THEN u ELSE mq[c]
    BY <2>3
  <2> QED BY <2>3, <2>4, <2>5, <2>6
<1> QED BY <1>1, <1>2

\* A successful mq_send or mq_receive stores the caller in the entry; so does one
\* that blocks.
LEMMA SentEntry ==
  ASSUME NEW e \in Entry, NEW p \in Pids, NEW v \in Values
  PROVE  /\ [e EXCEPT !.lspid = p, !.qnum = 1, !.qrec = 0, !.buf = [by |-> p, v |-> v]] \in Entry
         /\ [e EXCEPT !.lspid = p] \in Entry
<1>1. PICK b : b = [by |-> p, v |-> v] OBVIOUS
<1>2. b \in [by : Pids, v : Values \cup {0}]
  BY <1>1
<1>3. [e EXCEPT !.lspid = p, !.qnum = 1, !.qrec = 0, !.buf = b] \in Entry
  BY <1>2 DEF Entry
<1>4. [e EXCEPT !.lspid = p] \in Entry
  BY DEF Entry
<1> QED BY <1>1, <1>3, <1>4

LEMMA ReceivedEntry ==
  ASSUME NEW e \in Entry, NEW p \in Pids
  PROVE  /\ e.qnum > 0 => [e EXCEPT !.lrpid = p, !.qnum = e.qnum - 1] \in Entry
         /\ [e EXCEPT !.lrpid = p, !.qrec = 1] \in Entry
<1>1. [e EXCEPT !.lrpid = p, !.qrec = 1] \in Entry
  BY DEF Entry
<1>2. ASSUME e.qnum > 0 PROVE [e EXCEPT !.lrpid = p, !.qnum = e.qnum - 1] \in Entry
  <2>1. e.qnum = 1
    BY <1>2 DEF Entry
  <2>2. [e EXCEPT !.lrpid = p, !.qnum = e.qnum - 1] = [e EXCEPT !.lrpid = p, !.qnum = 0]
    BY <2>1 DEF Entry
  <2>3. [e EXCEPT !.lrpid = p, !.qnum = 0] \in Entry
    BY DEF Entry
  <2> QED BY <2>2, <2>3
<1> QED BY <1>1, <1>2

LEMMA ProgramInv ==
  ASSUME CInv, fault = "none", Program, nine' = nine, ~nine
  PROVE  CInv'
<1>1. ASSUME NEW n \in Names, MqOpen(n) PROVE CInv'
  <2>1. MayCall(NoCall) /\ mq' = Opened(n) /\ Return(pst) /\ pend' = pend
    BY <1>1 DEF MqOpen
  <2> QED BY <2>1, Caller, OpenedEntries, ReturnInv
<1>2. ASSUME NEW d \in Chans, MqUnlink(d) PROVE CInv'
  <2>1. MayCall(NoCall) /\ mq' = [mq EXCEPT ![d].qname = 0] /\ Return(pst) /\ pend' = pend
    BY <1>2 DEF MqUnlink
  <2>2. mq' \in [Chans -> Entry]
    BY <2>1, Caller DEF Entry
  <2> QED BY <2>1, <2>2, Caller, ReturnInv
<1>3. ASSUME NEW d \in Chans, ReceiveOk(d) PROVE CInv'
  <2>1. /\ MayCall(Call("receive", d, 0)) /\ mq[d].qnum > 0
        /\ mq' = [mq EXCEPT ![d] = [@ EXCEPT !.lrpid = current, !.qnum = mq[d].qnum - 1]]
        /\ Return(SigCont(pst, mq[d].lspid))
        /\ pend' = [pend EXCEPT ![current] = NoCall]
    BY <1>3 DEF ReceiveOk, CanReceive
  <2>2. current \in Pids /\ mq \in [Chans -> Entry] /\ SameLife(pst) /\ mq[d] \in Entry
    BY <2>1, Caller
  <2>3. mq' \in [Chans -> Entry]
    BY <2>1, <2>2, ReceivedEntry
  <2>4. SameLife(SigCont(pst, mq[d].lspid))
    BY <2>2, WakeKeepsLife DEF Entry
  <2> QED BY <2>1, <2>2, <2>3, <2>4, ReturnInv
<1>4. ASSUME NEW d \in Chans, ReceiveBlocks(d) PROVE CInv'
  <2>1. /\ MayCall(Call("receive", d, 0))
        /\ mq' = [mq EXCEPT ![d] = [mq[d] EXCEPT !.lrpid = current, !.qrec = 1]]
        /\ Reschedule(SigWait(pst, current))
        /\ pend' = [pend EXCEPT ![current] = Call("receive", d, 0)]
    BY <1>4 DEF ReceiveBlocks
  <2>2. cpu = "user" /\ current \in Pids /\ mq \in [Chans -> Entry] /\ mq[d] \in Entry
    BY <2>1, Caller
  <2>3. mq' \in [Chans -> Entry]
    BY <2>1, <2>2, ReceivedEntry
  <2>4. Call("receive", d, 0) \in Calls
    BY DEF Call, Calls
  <2> QED BY <2>1, <2>2, <2>3, <2>4, BlockInv
<1>5. ASSUME NEW d \in Chans, NEW v \in Values, SendOk(d, v) PROVE CInv'
  <2>1. PICK slept : slept = SigWait(pst, current) OBVIOUS
  <2>2. PICK st : st = IF mq[d].qrec = 1 THEN SigCont(slept, mq[d].lrpid) ELSE slept OBVIOUS
  <2>3. /\ MayCall(Call("send", d, v))
        /\ mq' = [mq EXCEPT ![d] = [mq[d] EXCEPT !.lspid = current, !.qnum = 1, !.qrec = 0,
                                                 !.buf = [by |-> current, v |-> v]]]
        /\ Return(st)
        /\ pend' = [pend EXCEPT ![current] = NoCall]
    BY <1>5, <2>1, <2>2 DEF SendOk
  <2>4. cpu = "user" /\ current \in Pids /\ mq \in [Chans -> Entry] /\ mq[d] \in Entry
    BY <2>3, Caller
  <2>5. mq' \in [Chans -> Entry]
    BY <2>3, <2>4, SentEntry
  <2>6. SameLife(slept)
    BY <2>1, <2>4, SleepKeepsLife DEF CInv
  <2>7. SameLife(st)
    BY <2>2, <2>4, <2>6, WakeKeepsLife DEF Entry
  <2> QED BY <2>3, <2>4, <2>5, <2>7, ReturnInv
<1>6. ASSUME NEW d \in Chans, NEW v \in Values, SendBlocks(d, v) PROVE CInv'
  <2>1. /\ MayCall(Call("send", d, v))
        /\ mq' = [mq EXCEPT ![d] = [mq[d] EXCEPT !.lspid = current]]
        /\ Reschedule(SigWait(pst, current))
        /\ pend' = [pend EXCEPT ![current] = Call("send", d, v)]
    BY <1>6 DEF SendBlocks
  <2>2. cpu = "user" /\ current \in Pids /\ mq \in [Chans -> Entry] /\ mq[d] \in Entry
    BY <2>1, Caller
  <2>3. mq' \in [Chans -> Entry]
    BY <2>1, <2>2, SentEntry
  <2>4. Call("send", d, v) \in Calls
    BY DEF Call, Calls
  <2> QED BY <2>1, <2>2, <2>3, <2>4, BlockInv
<1>7. ASSUME BadDescriptor PROVE CInv'
  <2>1. fault' = "bounds" /\ UNCHANGED <<pst, defp, prio, ctx, rq, current, cpu, fresh, mq, pend>>
    BY <1>7 DEF BadDescriptor
  <2>2. KernelTypeOK'
    BY <2>1 DEF CInv, IInv, KernelTypeOK
  <2>3. QueueOf(rq, LiveIn(pst))'
    BY <2>1 DEF CInv, IInv, QueueOf, LiveIn
  <2>4. CurrentAtHead' /\ DeadRunsOnlyWhenIdle' /\ DeadIsNotLoaded'
    BY <2>1 DEF CInv, IInv, CurrentAtHead, DeadRunsOnlyWhenIdle, DeadIsNotLoaded
  <2>5. ShellInSlotZero' /\ GoneIsDead'
    BY <2>1 DEF CInv, IInv, ShellInSlotZero, GoneIsDead
  <2>6. ChannelsOK' /\ SleeperOff'
    BY <2>1 DEF CInv, ChannelsOK, SleeperOff, Asleep
  <2> QED BY <2>2, <2>3, <2>4, <2>5, <2>6 DEF CInv, IInv
<1>8. ASSUME ProgramExit, mq' = mq, pend' = pend PROVE CInv'
  <2>1. ProcStep /\ current \in Pids
    BY <1>8 DEF ProcStep, CInv, IInv, KernelTypeOK
  <2> QED BY <1>8, <2>1, ProcStepInv
<1> QED BY <1>1, <1>2, <1>3, <1>4, <1>5, <1>6, <1>7, <1>8 DEF Program

-----------------------------------------------------------------------------
\* The reset state satisfies the invariant.
LEMMA ChanInitInv == ChanInit => CInv /\ UniqueNames
<1> SUFFICES ASSUME ChanInit PROVE CInv /\ UniqueNames
  OBVIOUS
<1>1. IInv
  BY InitInv DEF ChanInit
<1>2. Unused \in Entry /\ Unused.qname = 0
  BY ProcessAssumption DEF Unused, Entry, Pids
<1>3. mq = [c \in Chans |-> Unused] /\ pend = [p \in Pids |-> NoCall]
  BY DEF ChanInit
<1>4. ChannelsOK
  BY <1>2, <1>3 DEF ChannelsOK, Calls
<1>5. SleeperOff /\ UniqueNames
  BY <1>2, <1>3 DEF SleeperOff, Asleep, UniqueNames
<1> QED BY <1>1, <1>4, <1>5 DEF CInv

\* Every step of the system keeps the invariant, unless it is "kill 9".
LEMMA ChanNextInv ==
  ASSUME CInv, [ChanNext]_chanVars, ~nine, ~nine'
  PROVE  CInv'
<1>0. current \in Pids
  BY DEF CInv, IInv, KernelTypeOK
<1>1. CASE fault = "none" /\ (Shell \/ Interrupt) /\ UNCHANGED <<nine, mq, pend>>
  <2>1. ProcStep
    BY <1>1 DEF ProcStep
  <2> QED BY <1>0, <1>1, <2>1, ProcStepInv
<1>2. CASE fault = "none" /\ Load /\ UNCHANGED <<nine, mq>>
  <2>1. ProcStep /\ pend' = [pend EXCEPT ![current] = NoCall]
    BY <1>2 DEF ProcStep, Load
  <2> QED BY <1>0, <1>2, <2>1, ProcStepInv
<1>3. CASE fault = "none" /\ Program /\ UNCHANGED nine
  BY <1>3, ProgramInv
<1>4. CASE UNCHANGED <<procVars, mq, pend>>
  <2>1. IInv'
    BY <1>4, NextInv DEF CInv
  <2>2. ChannelsOK' /\ SleeperOff'
    BY <1>4 DEF CInv, ChannelsOK, SleeperOff, Asleep, procVars
  <2> QED BY <2>1, <2>2 DEF CInv
<1>5. fault = "none" /\ KillNine => FALSE
  BY DEF KillNine
<1> QED BY <1>1, <1>2, <1>3, <1>4, <1>5 DEF ChanNext, chanVars, Halted

\* No step gives an open channel's name to a second one.
LEMMA NextNames ==
  ASSUME CInv, UniqueNames, [ChanNext]_chanVars
  PROVE  UniqueNames'
<1>0. mq \in [Chans -> Entry]
  BY DEF CInv, ChannelsOK
<1>1. ASSUME \A c \in Chans : mq'[c].qname \in {mq[c].qname, 0} PROVE UniqueNames'
  BY <1>1 DEF UniqueNames
<1>2. ASSUME NEW n \in Names, mq' = Opened(n) PROVE UniqueNames'
  <2> SUFFICES ASSUME NEW c \in Chans, NEW e \in Chans,
                      mq'[c].qname = mq'[e].qname, mq'[c].qname # 0
               PROVE  c = e
    BY DEF UniqueNames
  <2>1. /\ mq'[c].qname \in {mq[c].qname, n} /\ mq'[e].qname \in {mq[e].qname, n}
        /\ (mq'[c].qname # mq[c].qname /\ mq'[e].qname = n) => c = e
        /\ (mq'[e].qname # mq[e].qname /\ mq'[c].qname = n) => e = c
    BY <1>0, <1>2, OpenedEntries
  <2> QED BY <2>1 DEF UniqueNames
<1>3. ASSUME NEW d \in Chans, MqUnlink(d) PROVE UniqueNames'
  <2>1. mq' = [mq EXCEPT ![d].qname = 0]
    BY <1>3 DEF MqUnlink
  <2>2. \A c \in Chans : mq'[c].qname \in {mq[c].qname, 0}
    BY <1>0, <2>1 DEF Entry
  <2> QED BY <2>2, <1>1
<1>4. ASSUME NEW d \in Chans, ReceiveOk(d) PROVE UniqueNames'
  <2>1. mq' = [mq EXCEPT ![d] = [mq[d] EXCEPT !.lrpid = current, !.qnum = mq[d].qnum - 1]]
    BY <1>4 DEF ReceiveOk
  <2>2. \A c \in Chans : mq'[c].qname \in {mq[c].qname, 0}
    BY <1>0, <2>1 DEF Entry
  <2> QED BY <2>2, <1>1
<1>5. ASSUME NEW d \in Chans, ReceiveBlocks(d) PROVE UniqueNames'
  <2>1. mq' = [mq EXCEPT ![d] = [mq[d] EXCEPT !.lrpid = current, !.qrec = 1]]
    BY <1>5 DEF ReceiveBlocks
  <2>2. \A c \in Chans : mq'[c].qname \in {mq[c].qname, 0}
    BY <1>0, <2>1 DEF Entry
  <2> QED BY <2>2, <1>1
<1>6. ASSUME NEW d \in Chans, NEW v \in Values, SendOk(d, v) PROVE UniqueNames'
  <2>1. PICK b : b = [by |-> current, v |-> v] OBVIOUS
  <2>2. mq' = [mq EXCEPT ![d] = [mq[d] EXCEPT !.lspid = current, !.qnum = 1, !.qrec = 0, !.buf = b]]
    BY <1>6, <2>1 DEF SendOk
  <2>3. \A c \in Chans : mq'[c].qname \in {mq[c].qname, 0}
    BY <1>0, <2>2 DEF Entry
  <2> QED BY <2>3, <1>1
<1>7. ASSUME NEW d \in Chans, NEW v \in Values, SendBlocks(d, v) PROVE UniqueNames'
  <2>1. mq' = [mq EXCEPT ![d].lspid = current]
    BY <1>7 DEF SendBlocks
  <2>2. \A c \in Chans : mq'[c].qname \in {mq[c].qname, 0}
    BY <1>0, <2>1 DEF Entry
  <2> QED BY <2>2, <1>1
<1>8. ASSUME mq' = mq PROVE UniqueNames'
  BY <1>1, <1>8
<1>9. ASSUME Program PROVE UniqueNames'
  BY <1>2, <1>3, <1>4, <1>5, <1>6, <1>7, <1>8, <1>9 DEF Program, MqOpen, BadDescriptor
<1> QED BY <1>8, <1>9 DEF ChanNext, chanVars

\* The invariant as a formula about every instance.
ChanSafe == nine \in BOOLEAN /\ (~nine => CInv /\ UniqueNames)

\* The inductive invariant holds in every reachable state.
LEMMA ChanInvariance == ChanSpec => []ChanSafe
<1>1. ChanInit => ChanSafe
  BY ChanInitInv DEF ChanSafe, ChanInit, Init
<1>2. ChanSafe /\ [ChanNext]_chanVars => ChanSafe'
  <2> SUFFICES ASSUME ChanSafe, [ChanNext]_chanVars PROVE ChanSafe'
    OBVIOUS
  <2>1. nine' \in BOOLEAN /\ (~nine' => ~nine)
    BY DEF ChanSafe, ChanNext, KillNine, Halted, procVars, chanVars
  <2> QED BY <2>1, ChanNextInv, NextNames DEF ChanSafe
<1> QED BY <1>1, <1>2, PTL DEF ChanSpec

-----------------------------------------------------------------------------
(* The theorems. *)

\* A process whose mq_send or mq_receive has found nothing to do does not run until
\* somebody has woken it, and every table keeps its type: a channel holds at most
\* one message, and the processes it remembers are slots of the process table.
THEOREM BlockedCorrect == ChanSpec => [](~nine => BlockedDoesNotRun)
<1>1. ChanSafe => (~nine => BlockedDoesNotRun)
  BY DEF ChanSafe, CInv, IInv, ChannelsOK, Entry, SleeperOff, Asleep, BlockedDoesNotRun,
         ChanTypeOK, TypeOK
<1> QED BY <1>1, ChanInvariance, PTL

\* No two open channels have the same name, however mq_open and mq_unlink interleave.
THEOREM ChannelNamesCorrect == ChanSpec => [](~nine => UniqueNames)
<1>1. ChanSafe => (~nine => UniqueNames)
  BY DEF ChanSafe
<1> QED BY <1>1, ChanInvariance, PTL

\* The queue and the table still agree when SIGWAIT and SIGCONT change the states of
\* processes from inside mq_send and mq_receive.
THEOREM ChannelQueueCorrect == ChanSpec => []QueueMatchesTable
<1>1. ChanSafe => QueueMatchesTable
  <2> SUFFICES ASSUME IInv PROVE IsInjective(rq) /\ ToSet(rq) = Pids \ Terminated
    BY DEF ChanSafe, CInv, QueueMatchesTable
  <2>1. LiveIn(pst) = Pids \ Terminated
    BY DEF LiveIn, Terminated
  <2> QED BY <2>1 DEF IInv, QueueOf
<1> QED BY <1>1, ChanInvariance, PTL

-----------------------------------------------------------------------------
\* The states st bring nobody back.
NobodyBack(st) == \A p \in Pids : pst[p] = "TERMINATED" => st[p] = "TERMINATED"

\* No step brings a process back, but fork, which names it fresh.
LEMMA StaysDead ==
  ASSUME CInv, fault = "none", ProcStep \/ Program, NEW p \in Pids,
         pst[p] = "TERMINATED", pst'[p] # "TERMINATED"
  PROVE  p \in fresh'
<1>0. current \in Pids /\ pst \in [Pids -> PState] /\ mq \in [Chans -> Entry]
  BY DEF CInv, IInv, KernelTypeOK, ChannelsOK
<1>1. SUFFICES ASSUME ~Fork PROVE NobodyBack(pst')
  <2>1. Fork => p \in fresh'
    BY <1>0 DEF Fork, Terminated
  <2> QED BY <1>1, <2>1 DEF NobodyBack
<1>2. CASE EnterRead \/ ForkFull \/ OtherCommand \/ Quit \/ ExecFails \/ RaisePri0 \/ Yield \/ TimerIrq \/ UartIrq
  BY <1>2 DEF NobodyBack, EnterRead, ForkFull, OtherCommand, Quit, ExecFails, RaisePri0, Yield,
              TimerIrq, UartIrq
<1>3. ASSUME NEW d \in KillDigits, KillProcess(d) \/ KillBounds(d) PROVE NobodyBack(pst')
  BY <1>0, <1>3 DEF NobodyBack, KillProcess, KillBounds
<1>4. CASE Exit \/ ProgramExit
  BY <1>0, <1>4 DEF NobodyBack, Exit, ProgramExit, RaiseKill
<1>5. ASSUME NEW pr \in ExecPrio, Exec(pr) PROVE NobodyBack(pst')
  BY <1>0, <1>5 DEF NobodyBack, Exec, CInv, IInv, DeadIsNotLoaded
<1>6. CASE Program
  <2>1. ASSUME NEW st, SameLife(st), pst' = st PROVE NobodyBack(pst')
    BY <2>1 DEF SameLife, NobodyBack
  <2>2. ASSUME cpu = "user"
        PROVE  /\ SameLife(pst) /\ SameLife(SigWait(pst, current))
               /\ \A q \in Pids : SameLife(SigCont(pst, q)) /\ SameLife(SigCont(SigWait(pst, current), q))
    <3>1. SameLife(pst) /\ SameLife(SigWait(pst, current))
      BY <1>0, <2>2, SleepKeepsLife DEF CInv, SameLife
    <3> QED BY <3>1, WakeKeepsLife
  <2>3. ASSUME NEW n \in Names, MqOpen(n) PROVE NobodyBack(pst')
    BY <2>1, <2>2, <2>3 DEF MqOpen, Return, MayCall
  <2>4. ASSUME NEW d \in Chans, MqUnlink(d) PROVE NobodyBack(pst')
    BY <2>1, <2>2, <2>4 DEF MqUnlink, Return, MayCall
  <2>5. ASSUME NEW d \in Chans, ReceiveOk(d) PROVE NobodyBack(pst')
    <3>1. mq[d].lspid \in Pids
      BY <1>0 DEF Entry
    <3> QED BY <2>1, <2>2, <2>5, <3>1 DEF ReceiveOk, Return, MayCall
  <2>6. ASSUME NEW d \in Chans, ReceiveBlocks(d) PROVE NobodyBack(pst')
    BY <2>1, <2>2, <2>6 DEF ReceiveBlocks, Reschedule, MayCall
  <2>7. ASSUME NEW d \in Chans, NEW v \in Values, SendOk(d, v) PROVE NobodyBack(pst')
    <3>1. mq[d].lrpid \in Pids
      BY <1>0 DEF Entry
    <3> QED BY <2>1, <2>2, <2>7, <3>1 DEF SendOk, Return, MayCall
  <2>8. ASSUME NEW d \in Chans, NEW v \in Values, SendBlocks(d, v) PROVE NobodyBack(pst')
    BY <2>1, <2>2, <2>8 DEF SendBlocks, Reschedule, MayCall
  <2>9. CASE BadDescriptor
    BY <2>9 DEF BadDescriptor, NobodyBack
  <2> QED BY <1>4, <1>6, <2>3, <2>4, <2>5, <2>6, <2>7, <2>8, <2>9 DEF Program
<1> QED BY <1>1, <1>2, <1>3, <1>4, <1>5, <1>6 DEF ProcStep, Shell, Interrupt

\* As long as "kill 9" is not used, a wakeup aimed at a process that was killed in the
\* meantime does not bring it back: only fork takes a slot out of TERMINATED.
THEOREM DeadStaysDead == ChanSpec /\ []~nine => NoResurrection
<1> DEFINE Dead == \A p \in Pids : (pst[p] = "TERMINATED" /\ pst'[p] # "TERMINATED") => p \in fresh'
<1>1. ASSUME ChanSafe, ~nine, ~nine', [ChanNext]_chanVars PROVE [Dead]_chanVars
  <2>1. CInv
    BY <1>1 DEF ChanSafe
  <2>2. CASE UNCHANGED chanVars
    BY <2>2
  <2>3. CASE Halted
    BY <2>3 DEF Halted, procVars
  <2>4. CASE fault = "none" /\ (ProcStep \/ Program)
    BY <2>1, <2>4, StaysDead
  <2>5. fault = "none" /\ KillNine => FALSE
    BY <1>1 DEF KillNine
  <2> QED BY <1>1, <2>2, <2>3, <2>4, <2>5 DEF ChanNext, Load, ProcStep
<1> QED BY <1>1, ChanInvariance, PTL DEF ChanSpec, NoResurrection
-----------------------------------------------------------------------------
(* When rq_rotate does not return. *)

\* Who is alive and cannot run is a program that waits; st are the states, and here is
\* where the running process is.
Sleepers(st, here) ==
  \A p \in Pids : \/ st[p] \in {"TERMINATED", "EXECUTING"}
                  \/ st[p] = "WAITING" /\ (IF p = current THEN here ELSE ctx[p]) = "user"

Stuck == fault = "rotate" => \A p \in Pids : pst[p] # "EXECUTING"

HInv == Sleepers(pst, cpu) /\ Stuck

\* A rotation finds whoever in the queue can run.
LEMMA RotationFinds ==
  ASSUME NEW q \in Seq(Pids), NEW st, NEW j \in 1..Len(q), st[q[j]] = "EXECUTING"
  PROVE  Rotations(q, st) # {}
<1>0. Len(q) \in Nat /\ DOMAIN q = 1..Len(q)
  BY LenProperties
<1>1. PICK K : K = {k \in DOMAIN q : st[RotateBy(q, k)[1]] = "EXECUTING"}
  OBVIOUS
<1>2. K # {}
  <2>1. PICK k \in 1..Len(q) : IF k = Len(q) THEN j = 1 ELSE j = k + 1
    <3>1. CASE j = 1
      <4>1. Len(q) \in 1..Len(q)
        BY <1>0
      <4> QED BY <3>1, <4>1
    <3>2. CASE j # 1
      <4>1. j - 1 \in 1..Len(q) /\ j - 1 # Len(q) /\ j = (j - 1) + 1
        BY <1>0, <3>2
      <4> QED BY <4>1
    <3> QED BY <3>1, <3>2
  <2>2. 1 \in 1..Len(q) /\ k \in DOMAIN q
    BY <1>0
  <2>3. RotateBy(q, k)[1] = IF 1 <= Len(q) - k THEN q[k + 1] ELSE q[1 - (Len(q) - k)]
    BY <2>2, RotateByFacts
  <2>4. RotateBy(q, k)[1] = q[j]
    <3>1. CASE k = Len(q)
      <4>1. ~(1 <= Len(q) - k) /\ 1 - (Len(q) - k) = 1
        BY <1>0, <3>1
      <4> QED BY <2>1, <2>3, <3>1, <4>1
    <3>2. CASE k # Len(q)
      <4>1. 1 <= Len(q) - k
        BY <1>0, <3>2
      <4> QED BY <2>1, <2>3, <3>2, <4>1
    <3> QED BY <3>1, <3>2
  <2> QED BY <1>1, <2>2, <2>4
<1>3. K \subseteq Nat
  BY <1>0, <1>1
<1>4. PICK k \in K : \A i \in K : ~(<<i, k>> \in OpToRel(<, Nat))
  BY <1>2, <1>3, NatLessThanWellFounded, WFMin, Zenon
<1>5. ASSUME NEW i \in 1..(k - 1) PROVE st[RotateBy(q, i)[1]] # "EXECUTING"
  <2>1. k \in Nat /\ k \in 1..Len(q) /\ i \in Nat /\ i < k /\ i \in DOMAIN q
    BY <1>0, <1>1
  <2>2. <<i, k>> \in OpToRel(<, Nat)
    <3>1. <<i, k>> \in Nat \X Nat /\ <<i, k>>[1] = i /\ <<i, k>>[2] = k
      BY <2>1
    <3>2. <<i, k>>[1] < <<i, k>>[2]
      BY <2>1
    <3> QED BY <3>1, <3>2, Zenon DEF OpToRel
  <2>3. i \notin K
    BY <1>4, <2>2
  <2> QED BY <1>1, <2>1, <2>3
<1>6. k \in Rotations(q, st)
  BY <1>1, <1>5 DEF Rotations
<1> QED BY <1>6

\* The scheduler, called with the queue of those who live.
LEMMA SchedulerHangs ==
  ASSUME IInv, IInv', NEW st, pst' = st, NEW q, NEW pr, NEW df, NEW here,
         Sleepers(st, here), Scheduler(st, q, pr, df, here)
  PROVE  HInv'
<1>0. current \in Pids /\ ctx \in [Pids -> Points]
  BY DEF IInv, KernelTypeOK
<1>1. ASSUME NEW f, NoDispatch(q, pr, here, f), q = <<>> \/ Rotations(q, st) = {} PROVE HInv'
  <2>1. rq' = q /\ cpu' = here /\ ctx' = ctx /\ current' = current
    BY <1>1 DEF NoDispatch
  <2>2. QueueOf(q, LiveIn(st))
    BY <2>1 DEF IInv, QueueOf, LiveIn
  <2>3. ASSUME NEW p \in Pids, st[p] = "EXECUTING" PROVE FALSE
    <3>1. p \in ToSet(q) /\ q \in Seq(Pids)
      BY <2>2, <2>3 DEF QueueOf, LiveIn
    <3>2. PICK j \in DOMAIN q : q[j] = p
      BY <3>1 DEF ToSet
    <3>3. j \in 1..Len(q) /\ q # <<>>
      BY <3>1, <3>2, LenProperties
    <3>4. Rotations(q, st) # {}
      BY <2>3, <3>1, <3>2, <3>3, RotationFinds
    <3> QED BY <1>1, <3>3, <3>4
  <2>4. Sleepers(pst, cpu)'
    BY <2>1 DEF Sleepers
  <2> QED BY <2>3, <2>4 DEF HInv, Stuck
<1>2. ASSUME NEW k \in Rotations(q, st), Dispatch(RotateBy(q, k), pr, df, here) PROVE HInv'
  <2>1. PICK r : r = RotateBy(q, k)[1]
    OBVIOUS
  <2>2. fault' = "none" /\ current' = r /\ st[r] = "EXECUTING"
    BY <1>2, <2>1 DEF Dispatch, Rotations
  <2>3. \/ r = current /\ cpu' = here /\ ctx' = ctx
        \/ r # current /\ cpu' = ctx[r] /\ ctx' = [ctx EXCEPT ![current] = here]
    BY <1>2, <2>1 DEF Dispatch
  <2>4. Sleepers(pst, cpu)'
    BY <1>0, <2>2, <2>3 DEF Sleepers
  <2> QED BY <2>2, <2>4 DEF HInv, Stuck
<1> QED BY <1>1, <1>2 DEF Scheduler

\* A step of a system call, or of the shell and the interrupts, keeps it.
LEMMA HangStep ==
  ASSUME CInv, CInv', HInv, fault = "none", ProcStep \/ Program
  PROVE  HInv'
<1>0. /\ current \in Pids /\ pst \in [Pids -> PState] /\ ctx \in [Pids -> Points] /\ mq \in [Chans -> Entry]
      /\ IInv /\ IInv' /\ Sleepers(pst, cpu)
  BY DEF CInv, IInv, KernelTypeOK, ChannelsOK, HInv
<1>1. CASE EnterRead \/ ForkFull \/ OtherCommand \/ Quit \/ ExecFails
  BY <1>0, <1>1 DEF EnterRead, ForkFull, OtherCommand, Quit, ExecFails, HInv, Sleepers, Stuck
<1>2. CASE Fork
  BY <1>0, <1>2 DEF Fork, Terminated, HInv, Sleepers, Stuck
<1>3. ASSUME NEW d \in KillDigits, KillProcess(d) \/ KillBounds(d) PROVE HInv'
  BY <1>0, <1>3 DEF KillProcess, KillBounds, HInv, Sleepers, Stuck
<1>4. ASSUME NEW here, cpu # "user" \/ here = cpu PROVE Sleepers(pst, here)
  BY <1>0, <1>4 DEF Sleepers
<1>5. CASE RaisePri0
  BY <1>0, <1>4, <1>5, SchedulerHangs DEF RaisePri0
<1>6. CASE Yield
  BY <1>0, <1>4, <1>6, SchedulerHangs DEF Yield
<1>7. CASE TimerIrq
  BY <1>0, <1>4, <1>7, SchedulerHangs DEF TimerIrq
<1>8. CASE UartIrq
  BY <1>0, <1>4, <1>8, SchedulerHangs DEF UartIrq
<1>9. CASE Exit \/ ProgramExit
  <2>1. PICK st : st = [pst EXCEPT ![current] = "TERMINATED"] OBVIOUS
  <2>2. pst' = st /\ Scheduler(st, RqRm(rq, current), prio, defp, "gone")
    BY <1>9, <2>1 DEF Exit, ProgramExit, RaiseKill
  <2>3. Sleepers(st, "gone")
    BY <1>0, <2>1 DEF Sleepers
  <2> QED BY <1>0, <2>2, <2>3, SchedulerHangs
<1>10. ASSUME NEW pr \in ExecPrio, Exec(pr) PROVE HInv'
  BY <1>0, <1>10 DEF Exec, HInv, Sleepers, Stuck
<1>11. ASSUME cpu = "user" PROVE Sleepers(SigWait(pst, current), cpu)
  BY <1>0, <1>11 DEF Sleepers, SigWait
<1>12. ASSUME NEW st, Sleepers(st, cpu), st \in [Pids -> PState], NEW p \in Pids PROVE Sleepers(SigCont(st, p), cpu)
  BY <1>12 DEF Sleepers, SigCont
<1>13. ASSUME NEW st, Sleepers(st, cpu), Return(st) PROVE HInv'
  BY <1>13 DEF Return, HInv, Sleepers, Stuck
<1>14. ASSUME cpu = "user", Reschedule(SigWait(pst, current)) PROVE HInv'
  BY <1>0, <1>11, <1>14, SchedulerHangs DEF Reschedule
<1>15. SigWait(pst, current) \in [Pids -> PState]
  BY <1>0 DEF SigWait, PState
<1>16. ASSUME NEW n \in Names, MqOpen(n) PROVE HInv'
  BY <1>0, <1>13, <1>16 DEF MqOpen
<1>17. ASSUME NEW d \in Chans, MqUnlink(d) PROVE HInv'
  BY <1>0, <1>13, <1>17 DEF MqUnlink
<1>18. ASSUME NEW d \in Chans, ReceiveOk(d) PROVE HInv'
  <2>1. mq[d].lspid \in Pids
    BY <1>0 DEF Entry
  <2> QED BY <1>0, <1>12, <1>13, <1>18, <2>1 DEF ReceiveOk
<1>19. ASSUME NEW d \in Chans, ReceiveBlocks(d) PROVE HInv'
  BY <1>14, <1>19 DEF ReceiveBlocks, MayCall
<1>20. ASSUME NEW d \in Chans, NEW v \in Values, SendOk(d, v) PROVE HInv'
  <2>1. mq[d].lrpid \in Pids
    BY <1>0 DEF Entry
  <2>2. cpu = "user" /\ (Return(SigCont(SigWait(pst, current), mq[d].lrpid)) \/ Return(SigWait(pst, current)))
    BY <1>20 DEF SendOk, MayCall
  <2> QED BY <1>11, <1>12, <1>13, <1>15, <2>1, <2>2
<1>21. ASSUME NEW d \in Chans, NEW v \in Values, SendBlocks(d, v) PROVE HInv'
  BY <1>14, <1>21 DEF SendBlocks, MayCall
<1>22. CASE BadDescriptor
  BY <1>0, <1>22 DEF BadDescriptor, HInv, Sleepers, Stuck
<1> QED BY <1>1, <1>2, <1>3, <1>5, <1>6, <1>7, <1>8, <1>9, <1>10, <1>16, <1>17, <1>18, <1>19, <1>20, <1>21, <1>22
        DEF ProcStep, Shell, Interrupt, Program

\* As long as "kill 9" is not used, rq_rotate goes round for ever only when all processes
\* that are left are programs that wait for a channel, for any number of processes,
\* channels and names.
THEOREM HangCorrect == ChanSpec => []HangsOnlyWithoutShell
<1> DEFINE HangSafe == ~nine => HInv
<1>1. ChanInit => HangSafe
  BY DEF ChanInit, Init, HInv, Sleepers, Stuck
<1>2. ChanSafe /\ ChanSafe' /\ HangSafe /\ [ChanNext]_chanVars => HangSafe'
  <2> SUFFICES ASSUME ChanSafe, ChanSafe', HangSafe, [ChanNext]_chanVars, ~nine' PROVE HInv'
    OBVIOUS
  <2>1. ~nine
    BY DEF ChanSafe, ChanNext, KillNine, Halted, procVars, chanVars
  <2>2. CInv /\ CInv' /\ HInv
    BY <2>1 DEF ChanSafe
  <2>3. CASE UNCHANGED procVars
    BY <2>2, <2>3 DEF procVars, HInv, Sleepers, Stuck
  <2>4. CASE fault = "none" /\ (ProcStep \/ Program)
    BY <2>2, <2>4, HangStep
  <2>5. fault = "none" /\ KillNine => FALSE
    BY DEF KillNine
  <2> QED BY <2>3, <2>4, <2>5 DEF ChanNext, Load, ProcStep, Halted, chanVars
<1>3. HangSafe => HangsOnlyWithoutShell
  BY DEF HInv, Sleepers, Stuck, HangsOnlyWithoutShell, ContextOf
<1> QED BY <1>1, <1>2, <1>3, ChanInvariance, PTL DEF ChanSpec
=============================================================================
